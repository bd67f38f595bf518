--------------------------- MODULE DeliveryProofs ---------------------------
(***************************************************************************)
(* Proofs about Delivery, for every number of messages, handlers, retries  *)
(* and failures.                                                           *)
(***************************************************************************)
EXTENDS Delivery, FiniteSetTheorems, TLAPS

-----------------------------------------------------------------------------
(* Type correctness.                                                        *)

LEMMA InitTypeOK == Init => TypeOK
  BY DeliveryAssumption DEF Init, TypeOK, TaskStates, Steps

\* An event appended to a trail of events is such a trail again.
LEMMA AppendEvent ==
  ASSUME NEW s \in Seq(EventTypes), NEW event \in EventTypes
  PROVE  Append(s, event) \in Seq(EventTypes)
  OBVIOUS

LEMMA FinishTypeOK ==
  ASSUME TypeOK, NEW e \in Emails, NEW s \in Stored, NEW event \in EventTypes, Finish(e, s, event)
  PROVE  /\ status' \in [Emails -> Stored \cup {"absent", "deleted"}]
         /\ trail' \in [Emails -> Seq(EventTypes)]
  <1>1. Append(trail[e], event) \in Seq(EventTypes)
    BY AppendEvent DEF TypeOK
  <1>2. QED
    BY <1>1 DEF TypeOK, Finish

\* Retrying or archiving a task keeps the queue's types.
LEMMA RetryTypeOK ==
  ASSUME TypeOK, NEW e \in Emails, RetryOrArchive(e)
  PROVE  /\ task' \in [Emails -> TaskStates]
         /\ retried' \in [Emails -> 0..MaxRetry]
         /\ lease' \in [Emails -> Workers \cup {NoWorker}]
  <1>1. /\ task \in [Emails -> TaskStates]
        /\ retried \in [Emails -> 0..MaxRetry]
        /\ lease \in [Emails -> Workers \cup {NoWorker}]
    BY DEF TypeOK
  <1>2. lease' = [lease EXCEPT ![e] = NoWorker]
    BY DEF RetryOrArchive
  <1>3. lease' \in [Emails -> Workers \cup {NoWorker}]
    BY <1>1, <1>2
  <1>4. CASE retried[e] < MaxRetry
    <2>1. task' = [task EXCEPT ![e] = "retry"] /\ retried' = [retried EXCEPT ![e] = retried[e] + 1]
      BY <1>4 DEF RetryOrArchive
    <2>2. retried[e] \in 0..MaxRetry
      BY <1>1
    <2>3. retried[e] + 1 \in 0..MaxRetry
      BY <1>4, <2>2, DeliveryAssumption
    <2>4. retried' \in [Emails -> 0..MaxRetry]
      BY <1>1, <2>1, <2>3
    <2>5. task' \in [Emails -> TaskStates]
      BY <1>1, <2>1 DEF TaskStates
    <2>6. QED
      BY <1>3, <2>4, <2>5
  <1>5. CASE ~(retried[e] < MaxRetry)
    <2>1. task' = [task EXCEPT ![e] = "archived"] /\ retried' = retried
      BY <1>5 DEF RetryOrArchive
    <2>2. task' \in [Emails -> TaskStates]
      BY <1>1, <2>1 DEF TaskStates
    <2>3. QED
      BY <1>1, <1>3, <2>1, <2>2
  <1>6. QED
    BY <1>4, <1>5

\* A handler's step moves its program counter and nothing of the queue.
LEMMA GoToTypeOK ==
  ASSUME TypeOK, NEW w \in Workers, NEW step \in Steps, GoTo(w, step), job[w] \in Emails
  PROVE  /\ pc' \in [Workers -> Steps]
         /\ \A v \in Workers : pc'[v] # "idle" => job'[v] \in Emails
         /\ UNCHANGED <<job, attempt, task, retried, lease, asks, stops, faults>>
  BY DEF TypeOK, GoTo, queueVars

LEMMA HandleTypeOK ==
  ASSUME TypeOK, NEW w \in Workers, Handle(w)
  PROVE  TypeOK'
  <1>. job[w] \in Emails
    BY DEF TypeOK, Handle, Load, Claim, ClaimFails, LoadAttachments, ResolveDKIM, ReceiverTakes,
           SendSucceeds, SendFails, RecordSent, GiveUp, RetryLater, Ack, Nack
  <1>1. CASE Load(w) \/ LoadAttachments(w) \/ ResolveDKIM(w) \/ SendFails(w)
    <2>1. \E step \in Steps : GoTo(w, step)
      BY <1>1 DEF Load, LoadAttachments, ResolveDKIM, SendFails, Steps
    <2>2. UNCHANGED <<rowVars, sendVars>>
      BY <1>1 DEF Load, LoadAttachments, ResolveDKIM, SendFails
    <2>3. QED
      BY <2>1, <2>2, GoToTypeOK DEF TypeOK, rowVars, sendVars
  <1>2. CASE ReceiverTakes(w) \/ SendSucceeds(w)
    <2>1. \E step \in Steps : GoTo(w, step)
      BY <1>2 DEF ReceiverTakes, SendSucceeds, Steps
    <2>2. copies' \in [Emails -> Nat] /\ handOffs' \in [Emails -> Nat] /\ UNCHANGED rowVars
      <3>1. CASE ReceiverTakes(w)
        BY <3>1 DEF ReceiverTakes, TypeOK
      <3>2. CASE SendSucceeds(w)
        BY <3>2 DEF SendSucceeds, TypeOK
      <3>3. QED
        BY <1>2, <3>1, <3>2
    <2>3. QED
      BY <2>1, <2>2, GoToTypeOK DEF TypeOK, rowVars
  <1>3. CASE \/ Claim(w) \/ ClaimFails(w) \/ RecordSent(w) \/ GiveUp(w) \/ RetryLater(w)
    <2>1. \E step \in Steps : GoTo(w, step)
      BY <1>3 DEF Claim, ClaimFails, RecordSent, GiveUp, RetryLater, Steps
    <2>2. \/ UNCHANGED rowVars
          \/ \E s \in Stored, event \in EventTypes : Finish(job[w], s, event)
      BY <1>3 DEF Claim, ClaimFails, RecordSent, GiveUp, RetryLater, Mark, Stored, EventTypes
    <2>3. UNCHANGED sendVars
      BY <1>3 DEF Claim, ClaimFails, RecordSent, GiveUp, RetryLater
    <2>4. /\ status' \in [Emails -> Stored \cup {"absent", "deleted"}]
          /\ trail' \in [Emails -> Seq(EventTypes)]
      BY <2>2, FinishTypeOK DEF TypeOK, rowVars
    <2>5. QED
      BY <2>1, <2>3, <2>4, GoToTypeOK DEF TypeOK, sendVars
  <1>4. CASE Ack(w)
    BY <1>4 DEF Ack, TypeOK, rowVars, historyVars, sendVars, TaskStates, Steps
  <1>5. CASE Nack(w)
    <2>1. /\ task' \in [Emails -> TaskStates]
          /\ retried' \in [Emails -> 0..MaxRetry]
          /\ lease' \in [Emails -> Workers \cup {NoWorker}]
      BY <1>5, RetryTypeOK DEF Nack, queueVars, TypeOK
    <2>2. QED
      BY <1>5, <2>1 DEF Nack, TypeOK, rowVars, historyVars, sendVars, Steps
  <1>6. QED
    BY <1>1, <1>2, <1>3, <1>4, <1>5 DEF Handle

LEMMA NextTypeOK == TypeOK /\ [Next]_vars => TypeOK'
  <1>. SUFFICES ASSUME TypeOK, [Next]_vars PROVE TypeOK'
    OBVIOUS
  <1>1. ASSUME NEW e \in Emails, Create(e) PROVE TypeOK'
    BY <1>1 DEF Create, CreateRow, TypeOK, queueVars, workerVars, historyVars, sendVars, Stored, EventTypes
  <1>2. ASSUME NEW e \in Emails, EnqueueSend(e) PROVE TypeOK'
    <2>1. asks' \in [Emails -> 0..MaxAsks]
      <3>1. asks[e] + 1 \in 0..MaxAsks
        BY <1>2, DeliveryAssumption DEF EnqueueSend, TypeOK
      <3>2. QED
        BY <1>2, <3>1 DEF EnqueueSend, TypeOK
    <2>2. task' \in [Emails -> TaskStates] /\ retried' \in [Emails -> 0..MaxRetry]
      <3>1. 0 \in 0..MaxRetry
        BY DeliveryAssumption
      <3>2. CASE task[e] = "none"
        BY <1>2, <3>1, <3>2 DEF EnqueueSend, TypeOK, TaskStates
      <3>3. CASE task[e] # "none"
        BY <1>2, <3>3 DEF EnqueueSend, TypeOK
      <3>4. QED
        BY <3>2, <3>3
    <2>3. QED
      BY <1>2, <2>1, <2>2 DEF EnqueueSend, TypeOK, rowVars, workerVars, sendVars
  <1>3. ASSUME NEW w \in Workers, Handle(w) PROVE TypeOK'
    BY <1>3, HandleTypeOK
  <1>4. ASSUME NEW e \in Emails, ForwardRetry(e) PROVE TypeOK'
    BY <1>4 DEF ForwardRetry, TypeOK, rowVars, workerVars, historyVars, sendVars, TaskStates
  <1>5. ASSUME NEW e \in Emails, Recover(e) PROVE TypeOK'
    BY <1>5, RetryTypeOK DEF Recover, TypeOK, rowVars, workerVars, historyVars, sendVars
  <1>6. ASSUME NEW w \in Workers, NEW e \in Emails, Dequeue(w, e) PROVE TypeOK'
    BY <1>6 DEF Dequeue, TypeOK, rowVars, historyVars, sendVars, TaskStates, Steps
  <1>7. ASSUME NEW w \in Workers, LoseLease(w) PROVE TypeOK'
    <2>1. job[w] \in Emails
      BY <1>7 DEF LoseLease, TypeOK
    <2>2. QED
      BY <1>7, <2>1, RetryTypeOK DEF LoseLease, TypeOK, rowVars, workerVars, historyVars, sendVars
  <1>8. ASSUME NEW w \in Workers, Crash(w) PROVE TypeOK'
    BY <1>8 DEF Crash, TypeOK, rowVars, historyVars, sendVars, Steps
  <1>9. ASSUME NEW w \in Workers, Abort(w) PROVE TypeOK'
    <2>1. stops' \in 0..MaxStops
      BY <1>9, DeliveryAssumption DEF Abort, TypeOK
    <2>2. QED
      BY <1>9, <2>1 DEF Abort, TypeOK, rowVars, sendVars, TaskStates, Steps
  <1>10. ASSUME NEW S \in SUBSET Emails, DeleteWorkspaces(S) PROVE TypeOK'
    BY <1>10 DEF DeleteWorkspaces, ForgetRows, TypeOK, queueVars, workerVars, historyVars, sendVars
  <1>11. CASE UNCHANGED vars
    BY <1>11 DEF vars, rowVars, queueVars, workerVars, historyVars, sendVars, TypeOK
  <1>12. QED
    BY <1>1, <1>2, <1>3, <1>4, <1>5, <1>6, <1>7, <1>8, <1>9, <1>10, <1>11
       DEF Next, Queue, Failure

\* Every variable keeps its type.
THEOREM TypeCorrect == Spec => []TypeOK
  BY InitTypeOK, NextTypeOK, PTL DEF Spec

-----------------------------------------------------------------------------
(***************************************************************************)
(* The claim.  The promises about hand-offs are not inductive by           *)
(* themselves: what carries them is that a worker that holds a message     *)
(* keeps its row in "processing" (nobody else may claim it, and nobody     *)
(* else may record an outcome), and that it knows whether the provider     *)
(* confirmed the message, which the receiver then has.                     *)
(***************************************************************************)

HolderProcesses ==
    \A w \in Workers : Holds(w) => status[job[w]] \in {"processing", "deleted"}

HolderKnows ==
    \A w \in Workers :
        /\ pc[w] \in {"prepare", "sign", "send", "answer", "giveUp"} => handOffs[job[w]] = 0
        /\ pc[w] = "answer" => copies[job[w]] >= 1
        /\ pc[w] = "recordSent" => handOffs[job[w]] = 1

ConfirmedIsThere == \A e \in Emails : handOffs[e] = 1 => copies[e] >= 1

AbsentUnsent == \A e \in Emails : status[e] = "absent" => handOffs[e] = 0

ClaimInv ==
    /\ HolderProcesses
    /\ HolderKnows
    /\ AbsentUnsent
    /\ ConfirmedIsThere
    /\ ClaimIsExclusive
    /\ AtMostOneHandOff
    /\ OutcomeIsTrue

LEMMA InitClaimInv == Init => ClaimInv
  BY DEF Init, ClaimInv, HolderProcesses, HolderKnows, AbsentUnsent, ConfirmedIsThere, ClaimIsExclusive,
         AtMostOneHandOff, OutcomeIsTrue, Holds

\* Steps that change no row and no hand-off, and leave no worker holding a message
\* that did not hold it before, with the same knowledge.
LEMMA QuietStep ==
  ASSUME TypeOK, ClaimInv, UNCHANGED <<status, sendVars>>,
         \A w \in Workers : Holds(w)' =>
            /\ Holds(w) /\ job'[w] = job[w]
            /\ pc'[w] = "recordSent" <=> pc[w] = "recordSent"
            /\ pc'[w] = "answer" => pc[w] = "answer"
  PROVE  ClaimInv'
  BY DEF ClaimInv, HolderProcesses, HolderKnows, AbsentUnsent, ConfirmedIsThere, ClaimIsExclusive,
         AtMostOneHandOff, OutcomeIsTrue, Holds, sendVars

\* A holder records the outcome it knows, and holds the message no longer.
LEMMA OutcomeStep ==
  ASSUME TypeOK, ClaimInv, NEW w \in Workers, NEW s \in {"sent", "failed", "dead"},
         Holds(w), s = "sent" <=> pc[w] = "recordSent",
         status' \in {status, [status EXCEPT ![job[w]] = s]},
         UNCHANGED <<sendVars, job>>,
         NEW step \in {"ack", "nack"}, pc' = [pc EXCEPT ![w] = step]
  PROVE  ClaimInv'
  <1>. job[w] \in Emails
    BY DEF TypeOK, Holds
  <1>1. \A v \in Workers : Holds(v)' => Holds(v) /\ v # w /\ pc'[v] = pc[v] /\ job'[v] # job[w]
    BY DEF TypeOK, Holds, ClaimInv, ClaimIsExclusive
  <1>2. handOffs[job[w]] = (IF s = "sent" THEN 1 ELSE 0)
    BY DEF ClaimInv, HolderKnows, Holds
  <1>3. HolderProcesses' /\ HolderKnows' /\ ClaimIsExclusive'
    BY <1>1 DEF TypeOK, ClaimInv, HolderProcesses, HolderKnows, ClaimIsExclusive, Holds, sendVars
  <1>4. AbsentUnsent' /\ ConfirmedIsThere' /\ AtMostOneHandOff' /\ OutcomeIsTrue'
    BY <1>2 DEF TypeOK, ClaimInv, AbsentUnsent, ConfirmedIsThere, AtMostOneHandOff, OutcomeIsTrue,
       sendVars
  <1>5. QED
    BY <1>3, <1>4 DEF ClaimInv

LEMMA HandleClaimInv ==
  ASSUME TypeOK, ClaimInv, NEW w \in Workers, Handle(w)
  PROVE  ClaimInv'
  <1>. job[w] \in Emails
    BY DEF TypeOK, Handle, Load, Claim, ClaimFails, LoadAttachments, ResolveDKIM, ReceiverTakes,
           SendSucceeds, SendFails, RecordSent, GiveUp, RetryLater, Ack, Nack
  <1>1. CASE Load(w) \/ Ack(w) \/ Nack(w)
    BY <1>1, QuietStep DEF Load, Ack, Nack, GoTo, rowVars, historyVars, sendVars, TypeOK, Holds
  <1>2. CASE LoadAttachments(w) \/ ResolveDKIM(w) \/ SendFails(w)
    BY <1>2, QuietStep DEF LoadAttachments, ResolveDKIM, SendFails, GoTo, rowVars, TypeOK, Holds
  <1>3. CASE \/ Claim(w) /\ ~Claimable(job[w])
             \/ ClaimFails(w) /\ UNCHANGED rowVars
    BY <1>3, QuietStep DEF Claim, ClaimFails, GoTo, rowVars, TypeOK, Holds
  <1>4. CASE /\ Claim(w) \/ ClaimFails(w)
             /\ Claimable(job[w])
             /\ Finish(job[w], "processing", "processing")
    <2>1. \A v \in Workers : Holds(v) => job[v] # job[w]
      BY <1>4 DEF Claimable, ClaimInv, HolderProcesses
    <2>2. \E step \in {"prepare", "nack"} : pc' = [pc EXCEPT ![w] = step] /\ job' = job
      BY <1>4 DEF Claim, ClaimFails, GoTo
    <2>3. status' = [status EXCEPT ![job[w]] = "processing"] /\ handOffs' = handOffs /\ copies' = copies
      BY <1>4 DEF Finish, Claim, ClaimFails, sendVars
    <2>4. handOffs[job[w]] = 0
      BY <1>4 DEF Claimable, ClaimInv, OutcomeIsTrue
    <2>5. \A v \in Workers : Holds(v)' => (v = w /\ pc'[v] = "prepare") \/ (Holds(v) /\ pc'[v] = pc[v])
      BY <2>2 DEF Holds, TypeOK
    <2>6. HolderProcesses' /\ ClaimIsExclusive'
      <3>1. \A v \in Workers : Holds(v) => job[v] \in Emails
        BY DEF Holds, TypeOK
      <3>2. HolderProcesses'
        BY <2>1, <2>2, <2>3, <2>5, <3>1 DEF ClaimInv, HolderProcesses, TypeOK
      <3>3. ClaimIsExclusive'
        BY <2>1, <2>2, <2>5 DEF ClaimInv, ClaimIsExclusive
      <3>4. QED
        BY <3>2, <3>3
    <2>7. HolderKnows'
      BY <2>2, <2>3, <2>4 DEF ClaimInv, HolderKnows, TypeOK
    <2>8. AbsentUnsent' /\ ConfirmedIsThere' /\ AtMostOneHandOff' /\ OutcomeIsTrue'
      BY <2>3, <2>4 DEF ClaimInv, AbsentUnsent, ConfirmedIsThere, AtMostOneHandOff, OutcomeIsTrue, TypeOK
    <2>9. QED
      BY <2>6, <2>7, <2>8 DEF ClaimInv
  <1>5. CASE SendSucceeds(w)
    <2>1. /\ pc[w] = "answer" /\ pc' = [pc EXCEPT ![w] = "recordSent"]
          /\ job' = job /\ status' = status /\ copies' = copies
          /\ handOffs' = [handOffs EXCEPT ![job[w]] = handOffs[job[w]] + 1]
      BY <1>5 DEF SendSucceeds, GoTo, rowVars
    <2>2. handOffs[job[w]] = 0 /\ handOffs'[job[w]] = 1 /\ copies[job[w]] >= 1
      BY <2>1 DEF ClaimInv, HolderKnows, TypeOK
    <2>3. \A v \in Workers : Holds(v)' <=> Holds(v)
      BY <2>1 DEF Holds, TypeOK
    <2>4. HolderProcesses' /\ ClaimIsExclusive'
      BY <2>1, <2>3 DEF ClaimInv, HolderProcesses, ClaimIsExclusive
    <2>5. \A v \in Workers : Holds(v) /\ v # w => job[v] # job[w] /\ pc'[v] = pc[v]
      BY <2>1 DEF ClaimInv, ClaimIsExclusive, Holds, TypeOK
    <2>6. HolderKnows'
      BY <2>1, <2>2, <2>5 DEF ClaimInv, HolderKnows, Holds, TypeOK
    <2>7. status[job[w]] \in {"processing", "deleted"}
      BY <2>1 DEF ClaimInv, HolderProcesses, Holds
    <2>8. AbsentUnsent' /\ ConfirmedIsThere' /\ AtMostOneHandOff' /\ OutcomeIsTrue'
      BY <2>1, <2>2, <2>7 DEF ClaimInv, AbsentUnsent, ConfirmedIsThere, AtMostOneHandOff, OutcomeIsTrue, TypeOK
    <2>9. QED
      BY <2>4, <2>6, <2>8 DEF ClaimInv
  <1>6. CASE RecordSent(w)
    BY <1>6, OutcomeStep DEF RecordSent, Mark, Finish, GoTo, rowVars, Holds
  <1>7. CASE GiveUp(w)
    BY <1>7, OutcomeStep DEF GiveUp, Mark, Finish, GoTo, rowVars, Holds
  <1>8. CASE RetryLater(w)
    BY <1>8, OutcomeStep DEF RetryLater, Mark, Finish, GoTo, rowVars, Holds
  <1>9. CASE ReceiverTakes(w)
    <2>1. /\ pc[w] = "send" /\ pc' = [pc EXCEPT ![w] = "answer"]
          /\ UNCHANGED <<job, status, handOffs>>
          /\ copies' = [copies EXCEPT ![job[w]] = copies[job[w]] + 1]
      BY <1>9 DEF ReceiverTakes, GoTo, rowVars
    <2>2. /\ copies'[job[w]] >= 1
          /\ \A e \in Emails : copies'[e] >= copies[e]
      BY <2>1 DEF TypeOK
    <2>3. \A v \in Workers : Holds(v)' <=> Holds(v)
      BY <2>1 DEF Holds, TypeOK
    <2>4. HolderProcesses' /\ ClaimIsExclusive'
      BY <2>1, <2>3 DEF ClaimInv, HolderProcesses, ClaimIsExclusive
    <2>5. HolderKnows'
      <3>1. \A v \in Workers : v # w => pc'[v] = pc[v]
        BY <2>1 DEF TypeOK
      <3>2. ASSUME NEW v \in Workers, pc[v] = "answer" PROVE copies'[job[v]] >= 1
        <4>1. job[v] \in Emails /\ copies[job[v]] \in Nat /\ copies'[job[v]] \in Nat
          BY <2>1, <3>2 DEF TypeOK
        <4>2. copies[job[v]] >= 1
          BY <3>2 DEF ClaimInv, HolderKnows
        <4>3. QED
          BY <2>2, <4>1, <4>2
      <3>3. QED
        BY <2>1, <2>2, <3>1, <3>2 DEF ClaimInv, HolderKnows, TypeOK
    <2>6. AbsentUnsent' /\ AtMostOneHandOff'
      BY <2>1 DEF ClaimInv, AbsentUnsent, AtMostOneHandOff
    <2>7. ConfirmedIsThere' /\ OutcomeIsTrue'
      BY <2>1, <2>2 DEF ClaimInv, ConfirmedIsThere, OutcomeIsTrue, TypeOK
    <2>8. QED
      BY <2>4, <2>5, <2>6, <2>7 DEF ClaimInv
  <1>10. QED
    BY <1>1, <1>2, <1>3, <1>4, <1>5, <1>6, <1>7, <1>8, <1>9 DEF Handle, Claim, ClaimFails

LEMMA NextClaimInv == TypeOK /\ ClaimInv /\ [Next]_vars => ClaimInv'
  <1>. SUFFICES ASSUME TypeOK, ClaimInv, [Next]_vars PROVE ClaimInv'
    OBVIOUS
  <1>1. ASSUME NEW e \in Emails, Create(e) PROVE ClaimInv'
    BY <1>1 DEF Create, CreateRow, TypeOK, queueVars, workerVars, historyVars, sendVars, ClaimInv,
       HolderProcesses, HolderKnows, AbsentUnsent, ConfirmedIsThere, ClaimIsExclusive, AtMostOneHandOff,
       OutcomeIsTrue, Holds
  <1>2. ASSUME NEW e \in Emails, EnqueueSend(e) \/ ForwardRetry(e) \/ Recover(e) PROVE ClaimInv'
    BY <1>2, QuietStep DEF EnqueueSend, ForwardRetry, Recover, rowVars, workerVars, historyVars, sendVars, Holds
  <1>3. ASSUME NEW w \in Workers, Handle(w) PROVE ClaimInv'
    BY <1>3, HandleClaimInv
  <1>4. ASSUME NEW w \in Workers, NEW e \in Emails, Dequeue(w, e) PROVE ClaimInv'
    BY <1>4, QuietStep DEF Dequeue, rowVars, historyVars, sendVars, Holds, TypeOK
  <1>5. ASSUME NEW w \in Workers, LoseLease(w) \/ Crash(w) \/ Abort(w) PROVE ClaimInv'
    BY <1>5, QuietStep DEF LoseLease, Crash, Abort, rowVars, workerVars, historyVars, sendVars, Holds, TypeOK
  <1>6. ASSUME NEW S \in SUBSET Emails, DeleteWorkspaces(S) PROVE ClaimInv'
    BY <1>6 DEF DeleteWorkspaces, ForgetRows, TypeOK, queueVars, workerVars, historyVars, sendVars, ClaimInv,
       HolderProcesses, HolderKnows, AbsentUnsent, ConfirmedIsThere, ClaimIsExclusive, AtMostOneHandOff,
       OutcomeIsTrue, Holds, Stored
  <1>7. CASE UNCHANGED vars
    BY <1>7, QuietStep DEF vars, rowVars, workerVars, historyVars, sendVars, Holds
  <1>8. QED
    BY <1>1, <1>2, <1>3, <1>4, <1>5, <1>6, <1>7 DEF Next, Queue, Failure

LEMMA ClaimCorrect == Spec => [](TypeOK /\ ClaimInv)
  BY InitTypeOK, NextTypeOK, InitClaimInv, NextClaimInv, PTL DEF Spec

\* No two workers ever deliver the same message at once.
THEOREM ClaimExclusive == Spec => []ClaimIsExclusive
  BY ClaimCorrect, PTL DEF ClaimInv

\* No message is handed to the provider again after it was confirmed.
THEOREM HandOffOnce == Spec => []AtMostOneHandOff
  BY ClaimCorrect, PTL DEF ClaimInv

\* The recorded outcome is the real one.
THEOREM OutcomeTrue == Spec => []OutcomeIsTrue
  BY ClaimCorrect, PTL DEF ClaimInv

-----------------------------------------------------------------------------
(***************************************************************************)
(* The trail.  An outcome is only ever recorded by a holder, whose row is  *)
(* in "processing", and a claim only ever follows "queued" or "failed": so *)
(* every event follows the one it may follow.                              *)
(***************************************************************************)

\* A trail that starts with the message and pairs its attempts with their outcomes.
Paired(t) ==
    /\ t # <<>>
    /\ t[1] = "queued"
    /\ \A i \in 2..Len(t) :
          /\ t[i] # "queued"
          /\ t[i] \in {"sent", "failed"} <=> t[i - 1] = "processing"

LEMMA PairedAppend ==
  ASSUME NEW t \in Seq(EventTypes), Paired(t), NEW event \in EventTypes \ {"queued"},
         event \in {"sent", "failed"} <=> t[Len(t)] = "processing"
  PROVE  Paired(Append(t, event)) /\ Append(t, event)[Len(Append(t, event))] = event
  <1>. DEFINE u == Append(t, event)
  <1>1. /\ Len(t) \in Nat /\ Len(t) >= 1
        /\ Len(u) = Len(t) + 1
        /\ u[Len(t) + 1] = event
        /\ \A i \in 1..Len(t) : u[i] = t[i]
    BY DEF Paired
  <1>2. u # <<>> /\ u[1] = "queued"
    BY <1>1 DEF Paired
  <1>3. ASSUME NEW i \in 2..Len(u)
        PROVE  u[i] # "queued" /\ (u[i] \in {"sent", "failed"} <=> u[i - 1] = "processing")
    <2>1. CASE i = Len(t) + 1
      BY <1>1, <2>1
    <2>2. CASE i # Len(t) + 1
      <3>1. i \in 2..Len(t) /\ i - 1 \in 1..Len(t) /\ i \in 1..Len(t)
        BY <1>1, <2>2
      <3>2. QED
        BY <1>1, <3>1 DEF Paired
    <2>3. QED
      BY <2>1, <2>2
  <1>. HIDE DEF u
  <1>4. Paired(u) /\ u[Len(u)] = event
    BY <1>1, <1>2, <1>3 DEF Paired
  <1>5. QED
    BY <1>4 DEF u

TrailInv ==
    \A e \in Emails : status[e] \in Stored =>
        Paired(trail[e]) /\ trail[e][Len(trail[e])] = EventOf(status[e])

LEMMA TrailInvAgrees == TrailInv => TrailAgrees
  BY DEF TrailInv, TrailAgrees, Paired

\* An event that may follow the recorded status keeps the trail in order.
LEMMA FinishTrail ==
  ASSUME TypeOK, TrailInv, NEW e \in Emails, status[e] \in Stored,
         NEW s \in Stored, NEW event \in EventTypes \ {"queued"}, EventOf(s) = event,
         event \in {"sent", "failed"} <=> status[e] = "processing",
         Finish(e, s, event)
  PROVE  TrailInv'
  <1>1. trail[e] \in Seq(EventTypes) /\ Paired(trail[e])
    BY DEF TypeOK, TrailInv
  <1>2. trail[e][Len(trail[e])] = "processing" <=> status[e] = "processing"
    BY DEF TrailInv, EventOf, Stored
  <1>3. /\ Paired(Append(trail[e], event))
        /\ Append(trail[e], event)[Len(Append(trail[e], event))] = event
    BY <1>1, <1>2, PairedAppend
  <1>4. /\ status' = [status EXCEPT ![e] = s]
        /\ trail' = [trail EXCEPT ![e] = Append(trail[e], event)]
    BY DEF Finish
  <1>5. /\ trail'[e] = Append(trail[e], event) /\ status'[e] = s
        /\ \A f \in Emails \ {e} : trail'[f] = trail[f] /\ status'[f] = status[f]
    BY <1>4 DEF TypeOK
  <1>6. QED
    BY <1>3, <1>5 DEF TrailInv

\* Recording an outcome: only a holder does, and its row is in "processing".
LEMMA MarkTrail ==
  ASSUME TypeOK, ClaimInv, TrailInv, NEW w \in Workers, Holds(w), job[w] \in Emails,
         NEW s \in {"sent", "failed", "dead"}, Mark(job[w], s, EventOf(s)) \/ UNCHANGED rowVars
  PROVE  TrailInv'
  <1>1. CASE UNCHANGED rowVars
    BY <1>1 DEF rowVars, TrailInv
  <1>2. CASE Finish(job[w], s, EventOf(s)) /\ status[job[w]] \in Stored
    <2>1. status[job[w]] = "processing"
      BY <1>2 DEF ClaimInv, HolderProcesses, Stored
    <2>2. EventOf(s) \in {"sent", "failed"} /\ EventOf(s) \in EventTypes \ {"queued"} /\ s \in Stored
      BY DEF EventOf, EventTypes, Stored
    <2>3. QED
      BY <1>2, <2>1, <2>2, FinishTrail
  <1>3. QED
    BY <1>1, <1>2 DEF Mark

LEMMA HandleTrail ==
  ASSUME TypeOK, ClaimInv, TrailInv, NEW w \in Workers, Handle(w)
  PROVE  TrailInv'
  <1>. job[w] \in Emails
    BY DEF TypeOK, Handle, Load, Claim, ClaimFails, LoadAttachments, ResolveDKIM, ReceiverTakes,
           SendSucceeds, SendFails, RecordSent, GiveUp, RetryLater, Ack, Nack
  <1>1. CASE UNCHANGED rowVars
    BY <1>1 DEF rowVars, TrailInv
  <1>2. CASE Claimable(job[w]) /\ Finish(job[w], "processing", "processing")
    <2>1. status[job[w]] \in Stored /\ status[job[w]] # "processing"
      BY <1>2 DEF Claimable, Stored
    <2>2. /\ EventOf("processing") = "processing" /\ "processing" \in Stored
          /\ "processing" \in EventTypes \ {"queued"}
      BY DEF EventOf, Stored, EventTypes
    <2>3. QED
      BY <1>2, <2>1, <2>2, FinishTrail
  <1>3. CASE RecordSent(w) \/ GiveUp(w) \/ RetryLater(w)
    <2>1. /\ EventOf("sent") = "sent" /\ EventOf("dead") = "failed" /\ EventOf("failed") = "failed"
          /\ Holds(w)
      BY <1>3 DEF EventOf, Holds, RecordSent, GiveUp, RetryLater
    <2>2. \E s \in {"sent", "failed", "dead"} : Mark(job[w], s, EventOf(s)) \/ UNCHANGED rowVars
      BY <1>3, <2>1 DEF RecordSent, GiveUp, RetryLater
    <2>3. QED
      BY <2>1, <2>2, MarkTrail
  <1>4. QED
    BY <1>1, <1>2, <1>3 DEF Handle, Load, Claim, ClaimFails, LoadAttachments, ResolveDKIM,
       ReceiverTakes, SendSucceeds, SendFails, Ack, Nack

LEMMA NextTrail == TypeOK /\ ClaimInv /\ TrailInv /\ [Next]_vars => TrailInv'
  <1>. SUFFICES ASSUME TypeOK, ClaimInv, TrailInv, [Next]_vars PROVE TrailInv'
    OBVIOUS
  <1>1. ASSUME NEW e \in Emails, Create(e) PROVE TrailInv'
    <2>1. Paired(<<"queued">>) /\ <<"queued">>[Len(<<"queued">>)] = EventOf("queued")
      BY DEF Paired, EventOf
    <2>2. /\ trail'[e] = <<"queued">> /\ status'[e] = "queued"
          /\ \A f \in Emails \ {e} : trail'[f] = trail[f] /\ status'[f] = status[f]
      BY <1>1 DEF Create, CreateRow, TypeOK
    <2>3. QED
      BY <2>1, <2>2 DEF TrailInv
  <1>2. ASSUME NEW w \in Workers, Handle(w) PROVE TrailInv'
    BY <1>2, HandleTrail
  <1>3. ASSUME NEW S \in SUBSET Emails, DeleteWorkspaces(S) PROVE TrailInv'
    BY <1>3 DEF DeleteWorkspaces, ForgetRows, TrailInv, Stored, TypeOK
  <1>4. CASE \/ \E e \in Emails : EnqueueSend(e)
             \/ Queue
             \/ Failure
             \/ UNCHANGED vars
    BY <1>4 DEF EnqueueSend, Queue, ForwardRetry, Recover, Dequeue, Failure, LoseLease, Crash, Abort,
                vars, rowVars, TrailInv
  <1>5. QED
    BY <1>1, <1>2, <1>3, <1>4 DEF Next

\* The status and the event trail never disagree.
THEOREM TrailAgreement == Spec => []TrailAgrees
  <1>1. Init => TrailInv
    BY DEF Init, TrailInv, Stored
  <1>2. QED
    BY <1>1, NextTrail, ClaimCorrect, TrailInvAgrees, PTL DEF Spec

-----------------------------------------------------------------------------
(* Delivery implements EmailPromise.                                        *)

LEMMA InitPromise == Init => Promise!Init
  BY DEF Init, Promise!Init

\* A worker's outcome is an outcome of the promise.
LEMMA OutcomePromise ==
  ASSUME TypeOK, ClaimInv, NEW w \in Workers, NEW s \in {"sent", "failed", "dead"}, NEW event,
         Holds(w), s = "sent" <=> pc[w] = "recordSent",
         Mark(job[w], s, event) \/ UNCHANGED rowVars, UNCHANGED sendVars
  PROVE  [Promise!Next]_(Promise!promiseVars)
  <1>. job[w] \in Emails
    BY DEF TypeOK, Holds
  <1>1. handOffs[job[w]] = (IF s = "sent" THEN 1 ELSE 0)
    BY DEF ClaimInv, HolderKnows, Holds
  <1>2. status[job[w]] \in {"processing", "deleted"}
    BY DEF ClaimInv, HolderProcesses
  <1>3. CASE UNCHANGED status
    BY <1>3 DEF Promise!promiseVars, Promise!sendVars, sendVars
  <1>4. CASE Mark(job[w], s, event) /\ status[job[w]] = "processing"
    <2>1. status' = [status EXCEPT ![job[w]] = s]
      BY <1>4 DEF Mark, Finish, Stored
    <2>2. Promise!RecordSuccess(job[w]) \/ Promise!RecordFailure(job[w])
      BY <1>1, <1>4, <2>1 DEF Promise!RecordSuccess, Promise!RecordFailure, Promise!sendVars, sendVars
    <2>3. QED
      BY <2>2 DEF Promise!Next
  <1>5. QED
    BY <1>2, <1>3, <1>4 DEF Mark, rowVars, Stored

LEMMA HandlePromise ==
  ASSUME TypeOK, ClaimInv, NEW w \in Workers, Handle(w)
  PROVE  [Promise!Next]_(Promise!promiseVars)
  <1>. job[w] \in Emails
    BY DEF TypeOK, Handle, Load, Claim, ClaimFails, LoadAttachments, ResolveDKIM, ReceiverTakes,
           SendSucceeds, SendFails, RecordSent, GiveUp, RetryLater, Ack, Nack
  <1>1. CASE Load(w) \/ Ack(w) \/ Nack(w) \/ LoadAttachments(w) \/ ResolveDKIM(w) \/ SendFails(w)
    BY <1>1 DEF Load, Ack, Nack, LoadAttachments, ResolveDKIM, SendFails, rowVars, historyVars,
                sendVars, Promise!promiseVars, Promise!sendVars
  <1>2. CASE Claim(w) \/ ClaimFails(w)
    <2>1. CASE UNCHANGED rowVars
      BY <1>2, <2>1 DEF Claim, ClaimFails, rowVars, sendVars, Promise!promiseVars, Promise!sendVars
    <2>2. CASE Claimable(job[w]) /\ Finish(job[w], "processing", "processing")
      <3>1. Promise!Attempt(job[w])
        BY <1>2, <2>2 DEF Claim, ClaimFails, Claimable, Finish, Promise!Attempt, ClaimInv,
           OutcomeIsTrue, sendVars, Promise!sendVars
      <3>2. QED
        BY <3>1 DEF Promise!Next
    <2>3. QED
      BY <1>2, <2>1, <2>2 DEF Claim, ClaimFails
  <1>3. CASE SendSucceeds(w)
    <2>1. /\ handOffs[job[w]] = 0 /\ copies[job[w]] >= 1
          /\ status[job[w]] \in {"processing", "deleted"}
      BY <1>3 DEF SendSucceeds, ClaimInv, HolderKnows, HolderProcesses, Holds
    <2>2. Promise!HandOff(job[w])
      BY <1>3, <2>1 DEF SendSucceeds, rowVars, TypeOK, Promise!HandOff
    <2>3. QED
      BY <2>2 DEF Promise!Next
  <1>4. CASE RecordSent(w)
    BY <1>4, OutcomePromise DEF RecordSent, Holds
  <1>5. CASE GiveUp(w)
    BY <1>5, OutcomePromise DEF GiveUp, Holds
  <1>6. CASE RetryLater(w)
    BY <1>6, OutcomePromise DEF RetryLater, Holds
  <1>7. CASE ReceiverTakes(w)
    <2>1. handOffs[job[w]] = 0 /\ status[job[w]] \in {"processing", "deleted"}
      BY <1>7 DEF ReceiverTakes, ClaimInv, HolderKnows, HolderProcesses, Holds
    <2>2. Promise!Receive(job[w])
      BY <1>7, <2>1 DEF ReceiverTakes, rowVars, Promise!Receive
    <2>3. QED
      BY <2>2 DEF Promise!Next
  <1>8. QED
    BY <1>1, <1>2, <1>3, <1>4, <1>5, <1>6, <1>7 DEF Handle

LEMMA NextPromise ==
  TypeOK /\ ClaimInv /\ [Next]_vars => [Promise!Next]_(Promise!promiseVars)
  <1>. SUFFICES ASSUME TypeOK, ClaimInv, [Next]_vars PROVE [Promise!Next]_(Promise!promiseVars)
    OBVIOUS
  <1>1. ASSUME NEW e \in Emails, Create(e) PROVE Promise!Next
    <2>1. Promise!Accept(e)
      BY <1>1 DEF Create, CreateRow, historyVars, sendVars, Promise!Accept, Promise!sendVars
    <2>2. QED
      BY <2>1 DEF Promise!Next
  <1>2. ASSUME NEW w \in Workers, Handle(w) PROVE [Promise!Next]_(Promise!promiseVars)
    BY <1>2, HandlePromise
  <1>3. ASSUME NEW S \in SUBSET Emails, DeleteWorkspaces(S) PROVE Promise!Next
    <2>1. Promise!Forget(S)
      BY <1>3 DEF DeleteWorkspaces, ForgetRows, historyVars, sendVars, Stored, Promise!Forget, Promise!sendVars
    <2>2. QED
      BY <2>1 DEF Promise!Next
  <1>4. CASE \/ \E e \in Emails : EnqueueSend(e)
             \/ Queue
             \/ Failure
             \/ UNCHANGED vars
    BY <1>4 DEF EnqueueSend, Queue, ForwardRetry, Recover, Dequeue, Failure, LoseLease, Crash, Abort,
                vars, rowVars, historyVars, sendVars, Promise!promiseVars, Promise!sendVars
  <1>5. QED
    BY <1>1, <1>2, <1>3, <1>4 DEF Next

\* The pipeline of rows, tasks and workers implements the promise about a message.
THEOREM DeliveryImplementsPromise == Spec => ImplementsPromise
  BY InitPromise, NextPromise, ClaimCorrect, PTL DEF Spec, ImplementsPromise, Promise!Spec

\* Sent and dead are final, until the workspace goes.
THEOREM TerminalFinal == Spec => TerminalIsFinal
  <1>1. ASSUME TypeOK, ClaimInv, [Next]_vars
        PROVE  [\A e \in Emails : status[e] \in Terminal => status'[e] \in {status[e], "deleted"}]_vars
    <2>1. [Promise!Next]_(Promise!promiseVars)
      BY <1>1, NextPromise
    <2>2. CASE Promise!Next
      BY <1>1, <2>2 DEF Promise!Next, Promise!Accept, Promise!Attempt, Promise!Receive, Promise!HandOff,
         Promise!RecordSuccess, Promise!RecordFailure, Promise!Forget, Terminal, TypeOK
    <2>3. CASE UNCHANGED Promise!promiseVars
      BY <2>3 DEF Promise!promiseVars
    <2>4. QED
      BY <2>1, <2>2, <2>3
  <1>2. QED
    BY <1>1, ClaimCorrect, PTL DEF Spec, TerminalIsFinal

(***************************************************************************)
(* The retry budget: no schedule of redeliveries, crashes and lost leases  *)
(* starts more attempts than the accepted EnqueueSend calls paid for, and  *)
(* no attempt puts more than one copy in the receiver's hands.             *)
(***************************************************************************)

-----------------------------------------------------------------------------
(* The claims recorded in a trail.                                          *)

ClaimsIn(t) == Cardinality({i \in DOMAIN t : t[i] = "processing"})

LEMMA ClaimsInNat ==
  ASSUME NEW t \in Seq(EventTypes)
  PROVE  /\ IsFiniteSet({i \in DOMAIN t : t[i] = "processing"})
         /\ ClaimsIn(t) \in Nat
  <1>1. DOMAIN t = 1..Len(t) /\ Len(t) \in Nat
    OBVIOUS
  <1>2. IsFiniteSet(1..Len(t))
    BY <1>1, FS_Interval
  <1>3. IsFiniteSet({i \in DOMAIN t : t[i] = "processing"})
    BY <1>1, <1>2, FS_Subset
  <1>4. QED
    BY <1>3, FS_CardinalityType DEF ClaimsIn

\* Only a claim adds to the count.
LEMMA ClaimsInAppend ==
  ASSUME NEW t \in Seq(EventTypes), NEW event \in EventTypes
  PROVE  ClaimsIn(Append(t, event)) = ClaimsIn(t) + (IF event = "processing" THEN 1 ELSE 0)
  <1>. DEFINE S == {i \in DOMAIN t : t[i] = "processing"}
              U == {i \in DOMAIN Append(t, event) : Append(t, event)[i] = "processing"}
              n == Len(t) + 1
  <1>1. /\ Len(t) \in Nat /\ DOMAIN t = 1..Len(t) /\ DOMAIN Append(t, event) = 1..n
        /\ Append(t, event)[n] = event
        /\ \A i \in 1..Len(t) : Append(t, event)[i] = t[i]
    OBVIOUS
  <1>2. ClaimsIn(t) = Cardinality(S) /\ ClaimsIn(Append(t, event)) = Cardinality(U)
    BY DEF ClaimsIn
  <1>3. IsFiniteSet(S) /\ Cardinality(S) \in Nat
    BY ClaimsInNat DEF ClaimsIn
  <1>4. CASE event = "processing"
    <2>1. U = S \cup {n} /\ n \notin S
      BY <1>1, <1>4
    <2>2. Cardinality(U) = Cardinality(S) + 1
      BY <1>3, <2>1, FS_AddElement
    <2>3. QED
      BY <1>2, <1>4, <2>2
  <1>5. CASE event # "processing"
    <2>1. U = S
      BY <1>1, <1>5
    <2>. HIDE DEF S, U
    <2>2. QED
      BY <1>2, <1>3, <1>5, <2>1
  <1>6. QED
    BY <1>4, <1>5

\* A trail without a claim.
LEMMA ClaimsInShort == ClaimsIn(<<>>) = 0 /\ ClaimsIn(<<"queued">>) = 0
  <1>1. {i \in DOMAIN <<>> : <<>>[i] = "processing"} = {}
    OBVIOUS
  <1>2. {i \in DOMAIN <<"queued">> : <<"queued">>[i] = "processing"} = {}
    OBVIOUS
  <1>3. QED
    BY <1>1, <1>2, FS_EmptySet DEF ClaimsIn

LEMMA ClaimsNat ==
  ASSUME TypeOK, NEW e \in Emails
  PROVE  Claims(e) \in Nat
  BY ClaimsInNat DEF TypeOK, Claims, ClaimsIn

LEMMA FinishClaims ==
  ASSUME TypeOK, NEW e \in Emails, NEW s, NEW event \in EventTypes, Finish(e, s, event)
  PROVE  /\ Claims(e)' = Claims(e) + (IF event = "processing" THEN 1 ELSE 0)
         /\ \A f \in Emails \ {e} : Claims(f)' = Claims(f) /\ status'[f] = status[f]
  <1>1. /\ trail' = [trail EXCEPT ![e] = Append(trail[e], event)]
        /\ status' = [status EXCEPT ![e] = s]
        /\ trail[e] \in Seq(EventTypes)
    BY DEF Finish, TypeOK
  <1>2. trail'[e] = Append(trail[e], event) /\ \A f \in Emails \ {e} : trail'[f] = trail[f]
    BY <1>1 DEF TypeOK
  <1>3. Claims(e)' = ClaimsIn(Append(trail[e], event)) /\ Claims(e) = ClaimsIn(trail[e])
    BY <1>2 DEF Claims, ClaimsIn
  <1>4. \A f \in Emails \ {e} : Claims(f)' = Claims(f) /\ status'[f] = status[f]
    BY <1>1, <1>2 DEF Claims, TypeOK
  <1>5. QED
    BY <1>1, <1>3, <1>4, ClaimsInAppend

\* Recording an outcome claims nothing.
LEMMA MarkClaims ==
  ASSUME TypeOK, NEW e \in Emails, NEW s, NEW event \in EventTypes \ {"processing"},
         Mark(e, s, event) \/ UNCHANGED rowVars
  PROVE  \A f \in Emails : Claims(f)' = Claims(f)
  <1>1. CASE UNCHANGED rowVars
    BY <1>1 DEF rowVars, Claims
  <1>2. CASE Finish(e, s, event)
    BY <1>2, FinishClaims, ClaimsNat
  <1>3. QED
    BY <1>1, <1>2 DEF Mark

-----------------------------------------------------------------------------
(***************************************************************************)
(* The budget.  A task's remaining runs, the handlers that were started    *)
(* and may still claim, and the claims already made add up to no more than *)
(* the accepted calls paid for: a run taken from the queue moves from the  *)
(* first to the second, a claim from the second to the third.  A lease     *)
(* exists for a running task only, so a task is given back once per run.   *)
(***************************************************************************)

Started(e) == {w \in Workers : job[w] = e /\ pc[w] \in {"load", "claim"}}

Left(e) ==
    IF task[e] \in {"pending", "retry"} THEN MaxRetry + 1 - retried[e]
    ELSE IF task[e] = "active" THEN MaxRetry - retried[e] ELSE 0

Used(e) == Claims(e) + Cardinality(Started(e)) + Left(e)
Paid(e) == (MaxRetry + 1) * asks[e] + stops

LeaseInv == \A e \in Emails : lease[e] # NoWorker => task[e] = "active"

BudgetInv ==
    /\ LeaseInv
    /\ \A e \in Emails : IsFiniteSet(Started(e)) /\ Used(e) <= Paid(e)

LEMMA LeftNat == ASSUME TypeOK, NEW e \in Emails PROVE Left(e) \in Nat
  BY DeliveryAssumption DEF TypeOK, Left, TaskStates

LEMMA PaidNat == ASSUME TypeOK, NEW e \in Emails PROVE Paid(e) \in Nat
  <1>1. asks[e] \in Nat /\ stops \in Nat /\ MaxRetry + 1 \in Nat
    BY DeliveryAssumption DEF TypeOK
  <1>2. (MaxRetry + 1) * asks[e] \in Nat
    BY <1>1
  <1>3. QED
    BY <1>1, <1>2 DEF Paid

LEMMA StartedNat ==
  ASSUME BudgetInv, NEW e \in Emails
  PROVE  Cardinality(Started(e)) \in Nat
  BY FS_CardinalityType DEF BudgetInv

\* A handler that moves on leaves the set, one that only loaded stays.
LEMMA StartedMove ==
  ASSUME TypeOK, BudgetInv, NEW w \in Workers, NEW step, pc' = [pc EXCEPT ![w] = step],
         job' = job, NEW e \in Emails, step \in {"load", "claim"} => pc[w] \in {"load", "claim"}
  PROVE  /\ IsFiniteSet(Started(e))'
         /\ Cardinality(Started(e))' \in Nat
         /\ Cardinality(Started(e))' <= Cardinality(Started(e))
         /\ w \in Started(e) /\ step \notin {"load", "claim"} =>
               Cardinality(Started(e))' = Cardinality(Started(e)) - 1
  <1>1. CASE step \in {"load", "claim"}
    <2>1. Started(e)' = Started(e)
      BY <1>1 DEF Started, TypeOK
    <2>2. QED
      BY <1>1, <2>1, StartedNat DEF BudgetInv
  <1>2. CASE step \notin {"load", "claim"}
    <2>1. Started(e)' = Started(e) \ {w}
      BY <1>2 DEF Started, TypeOK
    <2>2. IsFiniteSet(Started(e)) /\ Cardinality(Started(e)) \in Nat
      BY StartedNat DEF BudgetInv
    <2>3. IsFiniteSet(Started(e) \ {w}) /\ Cardinality(Started(e) \ {w}) \in Nat
      BY <2>2, FS_RemoveElement, FS_CardinalityType
    <2>4. Cardinality(Started(e) \ {w}) =
             IF w \in Started(e) THEN Cardinality(Started(e)) - 1 ELSE Cardinality(Started(e))
      BY <2>2, FS_RemoveElement
    <2>5. QED
      BY <2>1, <2>2, <2>3, <2>4
  <1>3. QED
    BY <1>1, <1>2

\* Giving a running task back keeps what is left of its budget.
LEMMA RetryLeft ==
  ASSUME TypeOK, NEW e \in Emails, task[e] = "active", RetryOrArchive(e)
  PROVE  /\ \A f \in Emails : Left(f)' = Left(f)
         /\ \A f \in Emails : lease'[f] # NoWorker => f # e /\ lease'[f] = lease[f]
         /\ \A f \in Emails \ {e} : task'[f] = task[f]
  <1>1. retried[e] \in 0..MaxRetry
    BY DEF TypeOK
  <1>2. /\ lease' = [lease EXCEPT ![e] = NoWorker]
        /\ \A f \in Emails \ {e} : task'[f] = task[f] /\ retried'[f] = retried[f]
    BY DEF RetryOrArchive, TypeOK
  <1>3. Left(e)' = Left(e)
    <2>1. CASE retried[e] < MaxRetry
      BY <1>1, <2>1, DeliveryAssumption DEF RetryOrArchive, Left, TypeOK
    <2>2. CASE ~(retried[e] < MaxRetry)
      BY <1>1, <2>2, DeliveryAssumption DEF RetryOrArchive, Left, TypeOK
    <2>3. QED
      BY <2>1, <2>2
  <1>4. \A f \in Emails \ {e} : Left(f)' = Left(f)
    BY <1>2 DEF Left
  <1>5. QED
    BY <1>2, <1>3, <1>4 DEF TypeOK

\* A step that pays for nothing and uses nothing more.
LEMMA FrugalStep ==
  ASSUME TypeOK, BudgetInv, UNCHANGED <<asks, stops>>, LeaseInv',
         \A e \in Emails : IsFiniteSet(Started(e))' /\ Used(e)' <= Used(e),
         \A e \in Emails : Used(e) \in Nat /\ Used(e)' \in Nat
  PROVE  BudgetInv'
  <1>1. ASSUME NEW e \in Emails PROVE Used(e)' <= Paid(e)'
    <2>1. Paid(e)' = Paid(e) /\ Paid(e) \in Nat
      BY PaidNat DEF Paid
    <2>2. QED
      BY <2>1 DEF BudgetInv
  <1>2. QED
    BY <1>1 DEF BudgetInv

\* A handler that makes no claim and gives back no task.
LEMMA QuietHandler ==
  ASSUME TypeOK, BudgetInv, NEW w \in Workers, NEW step, GoTo(w, step),
         step \in {"load", "claim"} => pc[w] \in {"load", "claim"},
         \A e \in Emails : Claims(e)' = Claims(e)
  PROVE  BudgetInv'
  <1>1. /\ pc' = [pc EXCEPT ![w] = step]
        /\ job' = job /\ UNCHANGED <<task, retried, lease, asks, stops>>
    BY DEF GoTo, queueVars
  <1>2. ASSUME NEW e \in Emails
        PROVE  IsFiniteSet(Started(e))' /\ Used(e)' <= Used(e) /\ Used(e) \in Nat /\ Used(e)' \in Nat
    <2>1. /\ IsFiniteSet(Started(e))'
          /\ Cardinality(Started(e))' \in Nat
          /\ Cardinality(Started(e))' <= Cardinality(Started(e))
      BY <1>1, StartedMove
    <2>2. Left(e)' = Left(e) /\ Claims(e)' = Claims(e)
      BY <1>1 DEF Left
    <2>3. QED
      BY <2>1, <2>2, StartedNat, LeftNat, ClaimsNat DEF Used
  <1>3. LeaseInv'
    BY <1>1 DEF BudgetInv, LeaseInv
  <1>4. QED
    BY <1>1, <1>2, <1>3, FrugalStep

\* The claim: a started handler becomes a claim.
LEMMA ClaimBudget ==
  ASSUME TypeOK, BudgetInv, NEW w \in Workers, pc[w] = "claim", NEW step \in {"prepare", "nack"},
         GoTo(w, step), Finish(job[w], "processing", "processing")
  PROVE  BudgetInv'
  <1>1. /\ pc' = [pc EXCEPT ![w] = step]
        /\ job' = job /\ UNCHANGED <<task, retried, lease, asks, stops>>
        /\ job[w] \in Emails
    BY DEF GoTo, queueVars, TypeOK
  <1>2. ASSUME NEW e \in Emails
        PROVE  Claims(e)' = IF e = job[w] THEN Claims(e) + 1 ELSE Claims(e)
    <2>1. CASE e = job[w]
      <3>1. Finish(e, "processing", "processing")
        BY <2>1
      <3>2. QED
        BY <2>1, <3>1, FinishClaims DEF EventTypes
    <2>2. CASE e # job[w]
      BY <1>1, <2>2, FinishClaims DEF EventTypes
    <2>3. QED
      BY <2>1, <2>2
  <1>3. ASSUME NEW e \in Emails
        PROVE  IsFiniteSet(Started(e))' /\ Used(e)' <= Used(e) /\ Used(e) \in Nat /\ Used(e)' \in Nat
    <2>1. /\ IsFiniteSet(Started(e))'
          /\ Cardinality(Started(e))' \in Nat
          /\ Cardinality(Started(e))' <= Cardinality(Started(e))
          /\ w \in Started(e) => Cardinality(Started(e))' = Cardinality(Started(e)) - 1
      BY <1>1, StartedMove
    <2>2. w \in Started(e) <=> e = job[w]
      BY DEF Started
    <2>3. Left(e)' = Left(e)
      BY <1>1 DEF Left
    <2>4. /\ Claims(e) \in Nat /\ Left(e) \in Nat /\ Cardinality(Started(e)) \in Nat
      BY StartedNat, LeftNat, ClaimsNat
    <2>5. CASE e = job[w]
      BY <1>2, <2>1, <2>2, <2>3, <2>4, <2>5 DEF Used
    <2>6. CASE e # job[w]
      BY <1>2, <2>1, <2>3, <2>4, <2>6 DEF Used
    <2>7. QED
      BY <2>5, <2>6
  <1>4. LeaseInv'
    BY <1>1 DEF BudgetInv, LeaseInv
  <1>5. QED
    BY <1>1, <1>3, <1>4, FrugalStep

LEMMA HandleBudget ==
  ASSUME TypeOK, BudgetInv, NEW w \in Workers, Handle(w)
  PROVE  BudgetInv'
  <1>. job[w] \in Emails
    BY DEF TypeOK, Handle, Load, Claim, ClaimFails, LoadAttachments, ResolveDKIM, ReceiverTakes,
           SendSucceeds, SendFails, RecordSent, GiveUp, RetryLater, Ack, Nack
  <1>1. CASE \/ Load(w) \/ LoadAttachments(w) \/ ResolveDKIM(w) \/ ReceiverTakes(w)
             \/ SendSucceeds(w) \/ SendFails(w)
    <2>1. \E step : GoTo(w, step) /\ (step \in {"load", "claim"} => pc[w] \in {"load", "claim"})
      BY <1>1 DEF Load, LoadAttachments, ResolveDKIM, ReceiverTakes, SendSucceeds, SendFails
    <2>2. \A e \in Emails : Claims(e)' = Claims(e)
      BY <1>1 DEF Load, LoadAttachments, ResolveDKIM, ReceiverTakes, SendSucceeds, SendFails,
         rowVars, Claims
    <2>3. QED
      BY <2>1, <2>2, QuietHandler
  <1>2. CASE /\ Claim(w) \/ ClaimFails(w)
             /\ UNCHANGED rowVars
    <2>1. \E step : GoTo(w, step) /\ (step \in {"load", "claim"} => pc[w] \in {"load", "claim"})
      BY <1>2 DEF Claim, ClaimFails
    <2>2. \A e \in Emails : Claims(e)' = Claims(e)
      BY <1>2 DEF rowVars, Claims
    <2>3. QED
      BY <2>1, <2>2, QuietHandler
  <1>3. CASE /\ Claim(w) \/ ClaimFails(w)
             /\ Claimable(job[w])
             /\ Finish(job[w], "processing", "processing")
    BY <1>3, ClaimBudget DEF Claim, ClaimFails
  <1>4. CASE RecordSent(w) \/ GiveUp(w) \/ RetryLater(w)
    <2>1. \E step \in {"ack", "nack"} : GoTo(w, step)
      BY <1>4 DEF RecordSent, GiveUp, RetryLater
    <2>2. \E s, event \in {"sent", "failed", "dead"} :
             event \in EventTypes \ {"processing"} /\ (Mark(job[w], s, event) \/ UNCHANGED rowVars)
      BY <1>4 DEF RecordSent, GiveUp, RetryLater, EventTypes
    <2>3. \A e \in Emails : Claims(e)' = Claims(e)
      BY <2>2, MarkClaims
    <2>4. QED
      BY <2>1, <2>3, QuietHandler
  <1>5. CASE Ack(w) \/ Nack(w)
    <2>1. /\ pc' = [pc EXCEPT ![w] = "idle"]
          /\ job' = job /\ UNCHANGED <<asks, stops, trail>>
      BY <1>5 DEF Ack, Nack, rowVars, historyVars
    <2>2. LeaseInv' /\ \A e \in Emails : Left(e)' \in Nat /\ Left(e)' <= Left(e)
      <3>1. CASE lease[job[w]] # w
        <4>1. UNCHANGED <<task, retried, lease>>
          BY <1>5, <3>1 DEF Ack, Nack, queueVars
        <4>2. \A e \in Emails : Left(e)' = Left(e)
          BY <4>1 DEF Left
        <4>3. QED
          BY <4>1, <4>2, LeftNat DEF BudgetInv, LeaseInv
      <3>2. CASE lease[job[w]] = w
        <4>1. task[job[w]] = "active"
          BY <3>2, DeliveryAssumption DEF BudgetInv, LeaseInv
        <4>2. CASE Ack(w)
          <5>1. /\ task' = [task EXCEPT ![job[w]] = "none"]
                /\ lease' = [lease EXCEPT ![job[w]] = NoWorker]
                /\ retried' = retried
            BY <3>2, <4>2 DEF Ack
          <5>2. /\ task'[job[w]] = "none"
                /\ \A e \in Emails \ {job[w]} : task'[e] = task[e] /\ retried'[e] = retried[e]
            BY <5>1 DEF TypeOK
          <5>3. \A e \in Emails : Left(e)' = IF e = job[w] THEN 0 ELSE Left(e)
            BY <5>2 DEF Left
          <5>4. LeaseInv'
            BY <5>1, <5>2 DEF BudgetInv, LeaseInv, TypeOK
          <5>5. QED
            BY <5>3, <5>4, LeftNat
        <4>3. CASE Nack(w)
          <5>1. RetryOrArchive(job[w])
            BY <3>2, <4>3 DEF Nack
          <5>2. QED
            BY <4>1, <5>1, RetryLeft, LeftNat DEF BudgetInv, LeaseInv
        <4>4. QED
          BY <1>5, <4>2, <4>3
      <3>3. QED
        BY <3>1, <3>2
    <2>3. ASSUME NEW e \in Emails
          PROVE  IsFiniteSet(Started(e))' /\ Used(e)' <= Used(e) /\ Used(e) \in Nat /\ Used(e)' \in Nat
      <3>. "idle" \notin {"load", "claim"}
        OBVIOUS
      <3>1. /\ IsFiniteSet(Started(e))'
            /\ Cardinality(Started(e))' \in Nat
            /\ Cardinality(Started(e))' <= Cardinality(Started(e))
        BY <2>1, StartedMove
      <3>2. Claims(e)' = Claims(e)
        BY <2>1 DEF Claims
      <3>3. QED
        BY <2>2, <3>1, <3>2, StartedNat, LeftNat, ClaimsNat DEF Used
    <2>4. QED
      BY <2>1, <2>2, <2>3, FrugalStep
  <1>6. QED
    BY <1>1, <1>2, <1>3, <1>4, <1>5 DEF Handle, Claim, ClaimFails

\* A worker that gets a task: one of its runs becomes a started handler.
LEMMA DequeueBudget ==
  ASSUME TypeOK, BudgetInv, NEW w \in Workers, NEW d \in Emails, Dequeue(w, d)
  PROVE  BudgetInv'
  <1>1. /\ pc[w] = "idle" /\ task[d] = "pending" /\ retried[d] \in 0..MaxRetry
        /\ task' = [task EXCEPT ![d] = "active"]
        /\ lease' = [lease EXCEPT ![d] = w]
        /\ pc' = [pc EXCEPT ![w] = "load"]
        /\ job' = [job EXCEPT ![w] = d]
        /\ UNCHANGED <<asks, stops, trail, retried>>
    BY DEF Dequeue, rowVars, historyVars, TypeOK
  <1>2. LeaseInv'
    BY <1>1 DEF BudgetInv, LeaseInv, TypeOK
  <1>3. ASSUME NEW e \in Emails
        PROVE  IsFiniteSet(Started(e))' /\ Used(e)' <= Used(e) /\ Used(e) \in Nat /\ Used(e)' \in Nat
    <2>1. /\ Claims(e) \in Nat /\ Left(e) \in Nat /\ Cardinality(Started(e)) \in Nat
          /\ Claims(e)' = Claims(e) /\ IsFiniteSet(Started(e))
      BY <1>1, StartedNat, LeftNat, ClaimsNat DEF Claims, BudgetInv
    <2>2. CASE e = d
      <3>1. Started(e)' = Started(e) \cup {w} /\ w \notin Started(e)
        BY <1>1, <2>2 DEF Started, TypeOK
      <3>2. /\ IsFiniteSet(Started(e) \cup {w})
            /\ Cardinality(Started(e) \cup {w}) = Cardinality(Started(e)) + 1
        BY <2>1, <3>1, FS_AddElement
      <3>3. Left(e)' = Left(e) - 1 /\ Left(e) >= 1
        BY <1>1, <2>2, DeliveryAssumption DEF Left, TypeOK
      <3>4. QED
        BY <2>1, <3>1, <3>2, <3>3 DEF Used
    <2>3. CASE e # d
      <3>1. Started(e)' = Started(e)
        BY <1>1, <2>3 DEF Started, TypeOK
      <3>2. Left(e)' = Left(e)
        BY <1>1, <2>3 DEF Left, TypeOK
      <3>3. QED
        BY <2>1, <3>1, <3>2 DEF Used
    <2>4. QED
      BY <2>2, <2>3
  <1>4. QED
    BY <1>1, <1>2, <1>3, FrugalStep

\* A shutdown gives a run back to the queue, and is counted for it.
LEMMA AbortBudget ==
  ASSUME TypeOK, BudgetInv, NEW w \in Workers, Abort(w)
  PROVE  BudgetInv'
  <1>1. /\ job[w] \in Emails /\ pc' = [pc EXCEPT ![w] = "idle"] /\ job' = job
        /\ stops' = stops + 1 /\ stops \in Nat
        /\ UNCHANGED <<asks, trail, retried>>
    BY DEF Abort, rowVars, TypeOK
  <1>2. LeaseInv' /\ \A e \in Emails : Left(e)' \in Nat /\ Left(e)' <= Left(e) + 1
    <2>1. CASE lease[job[w]] # w
      <3>1. UNCHANGED <<task, lease>>
        BY <2>1 DEF Abort
      <3>2. \A e \in Emails : Left(e)' = Left(e)
        BY <1>1, <3>1 DEF Left
      <3>3. QED
        BY <3>1, <3>2, LeftNat DEF BudgetInv, LeaseInv
    <2>2. CASE lease[job[w]] = w
      <3>1. /\ task[job[w]] = "active"
            /\ lease' = [lease EXCEPT ![job[w]] = NoWorker]
            /\ task' = [task EXCEPT ![job[w]] = "pending"]
        BY <1>1, <2>2, DeliveryAssumption DEF BudgetInv, LeaseInv, Abort
      <3>2. ASSUME NEW e \in Emails PROVE Left(e)' \in Nat /\ Left(e)' <= Left(e) + 1
        <4>1. retried[e] \in 0..MaxRetry /\ Left(e) \in Nat
          BY LeftNat DEF TypeOK
        <4>2. CASE e = job[w]
          <5>1. task[e] = "active" /\ task'[e] = "pending"
            BY <3>1, <4>2 DEF TypeOK
          <5>2. QED
            BY <1>1, <4>1, <5>1, DeliveryAssumption DEF Left
        <4>3. CASE e # job[w]
          <5>1. task'[e] = task[e]
            BY <3>1, <4>3 DEF TypeOK
          <5>2. Left(e)' = Left(e)
            BY <1>1, <5>1 DEF Left
          <5>3. QED
            BY <4>1, <5>2
        <4>4. QED
          BY <4>2, <4>3
      <3>3. LeaseInv'
        BY <3>1 DEF BudgetInv, LeaseInv, TypeOK
      <3>4. QED
        BY <3>2, <3>3
    <2>3. QED
      BY <2>1, <2>2
  <1>3. ASSUME NEW e \in Emails PROVE IsFiniteSet(Started(e))' /\ Used(e)' <= Paid(e)'
    <2>. "idle" \notin {"load", "claim"}
      OBVIOUS
    <2>1. /\ IsFiniteSet(Started(e))'
          /\ Cardinality(Started(e))' \in Nat
          /\ Cardinality(Started(e))' <= Cardinality(Started(e))
      BY <1>1, StartedMove
    <2>2. /\ Claims(e) \in Nat /\ Left(e) \in Nat /\ Cardinality(Started(e)) \in Nat
          /\ Claims(e)' = Claims(e)
      BY <1>1, StartedNat, LeftNat, ClaimsNat DEF Claims
    <2>3. Used(e)' <= Used(e) + 1 /\ Used(e) \in Nat /\ Used(e)' \in Nat
      BY <1>2, <2>1, <2>2 DEF Used
    <2>4. Paid(e)' = Paid(e) + 1 /\ Paid(e) \in Nat
      <3>1. asks[e] \in Nat /\ MaxRetry \in Nat
        BY DeliveryAssumption DEF TypeOK
      <3>2. (MaxRetry + 1) * asks[e] \in Nat
        BY <3>1
      <3>3. QED
        BY <1>1, <3>2 DEF Paid
    <2>5. Used(e) <= Paid(e)
      BY DEF BudgetInv
    <2>6. QED
      BY <2>1, <2>3, <2>4, <2>5
  <1>4. QED
    BY <1>2, <1>3 DEF BudgetInv

\* A new task brings its whole budget with it.
LEMMA EnqueueBudget ==
  ASSUME TypeOK, BudgetInv, NEW q \in Emails, EnqueueSend(q)
  PROVE  BudgetInv'
  <1>1. /\ asks' = [asks EXCEPT ![q] = asks[q] + 1]
        /\ UNCHANGED <<stops, trail, pc, job, lease>>
        /\ \/ UNCHANGED <<task, retried>>
           \/ /\ task[q] = "none"
              /\ task' = [task EXCEPT ![q] = "pending"]
              /\ retried' = [retried EXCEPT ![q] = 0]
    BY DEF EnqueueSend, rowVars, workerVars
  <1>2. LeaseInv'
    BY <1>1, DeliveryAssumption DEF BudgetInv, LeaseInv, TypeOK
  <1>3. ASSUME NEW e \in Emails PROVE IsFiniteSet(Started(e))' /\ Used(e)' <= Paid(e)'
    <2>1. /\ Claims(e) \in Nat /\ Left(e) \in Nat /\ Cardinality(Started(e)) \in Nat
          /\ Paid(e) \in Nat /\ IsFiniteSet(Started(e)) /\ Used(e) <= Paid(e)
      BY StartedNat, LeftNat, ClaimsNat, PaidNat DEF BudgetInv
    <2>2. Claims(e)' = Claims(e) /\ Started(e)' = Started(e)
      BY <1>1 DEF Claims, Started
    <2>3. CASE e = q
      <3>1. Left(e)' \in Nat /\ Left(e)' <= Left(e) + MaxRetry + 1
        <4>1. CASE UNCHANGED <<task, retried>>
          BY <2>1, <4>1, DeliveryAssumption DEF Left
        <4>2. CASE task[q] = "none" /\ task' = [task EXCEPT ![q] = "pending"]
                                  /\ retried' = [retried EXCEPT ![q] = 0]
          <5>1. task[e] = "none" /\ task'[e] = "pending" /\ retried'[e] = 0
            BY <2>3, <4>2 DEF TypeOK
          <5>2. QED
            BY <5>1, DeliveryAssumption DEF Left
        <4>3. QED
          BY <1>1, <4>1, <4>2
      <3>2. Paid(e)' = Paid(e) + MaxRetry + 1
        <4>1. asks[e] \in Nat /\ MaxRetry \in Nat /\ stops \in Nat /\ asks'[e] = asks[e] + 1 /\ stops' = stops
          BY <1>1, <2>3, DeliveryAssumption DEF TypeOK
        <4>2. (MaxRetry + 1) * (asks[e] + 1) = (MaxRetry + 1) * asks[e] + (MaxRetry + 1)
          BY <4>1
        <4>3. (MaxRetry + 1) * asks[e] \in Nat
          BY <4>1
        <4>4. QED
          BY <4>1, <4>2, <4>3 DEF Paid
      <3>3. Used(e)' <= Used(e) + MaxRetry + 1
        BY <2>1, <2>2, <3>1, DeliveryAssumption DEF Used
      <3>4. Used(e) \in Nat /\ Used(e)' \in Nat
        BY <2>1, <2>2, <3>1 DEF Used
      <3>5. QED
        BY <2>1, <2>2, <3>2, <3>3, <3>4, DeliveryAssumption
    <2>4. CASE e # q
      <3>1. task'[e] = task[e] /\ retried'[e] = retried[e] /\ asks'[e] = asks[e]
        BY <1>1, <2>4 DEF TypeOK
      <3>2. Left(e)' = Left(e) /\ Paid(e)' = Paid(e)
        BY <1>1, <3>1 DEF Left, Paid
      <3>3. QED
        BY <2>1, <2>2, <3>2 DEF Used
    <2>5. QED
      BY <2>3, <2>4
  <1>4. QED
    BY <1>2, <1>3 DEF BudgetInv

\* Steps of the queue and of dying workers.
LEMMA GiveBackBudget ==
  ASSUME TypeOK, BudgetInv, UNCHANGED <<rowVars, workerVars, historyVars>>, NEW e \in Emails,
         task[e] = "active", RetryOrArchive(e)
  PROVE  BudgetInv'
  <1>1. UNCHANGED <<trail, pc, job, asks, stops>>
    BY DEF rowVars, workerVars, historyVars
  <1>2. LeaseInv'
    BY RetryLeft DEF BudgetInv, LeaseInv
  <1>3. ASSUME NEW f \in Emails
        PROVE  IsFiniteSet(Started(f))' /\ Used(f)' <= Used(f) /\ Used(f) \in Nat /\ Used(f)' \in Nat
    <2>1. Claims(f)' = Claims(f) /\ Started(f)' = Started(f) /\ Left(f)' = Left(f)
      BY <1>1, RetryLeft DEF Claims, Started
    <2>2. Claims(f) \in Nat /\ Cardinality(Started(f)) \in Nat /\ Left(f) \in Nat /\ IsFiniteSet(Started(f))
      BY ClaimsNat, StartedNat, LeftNat DEF BudgetInv
    <2>3. QED
      BY <2>1, <2>2 DEF Used
  <1>4. QED
    BY <1>1, <1>2, <1>3, FrugalStep

LEMMA CrashBudget ==
  ASSUME TypeOK, BudgetInv, NEW w \in Workers, Crash(w)
  PROVE  BudgetInv'
  <1>1. /\ pc' = [pc EXCEPT ![w] = "idle"] /\ job' = job
        /\ UNCHANGED <<trail, task, retried, asks, stops>>
        /\ lease' \in {lease, [lease EXCEPT ![job[w]] = NoWorker]}
    BY DEF Crash, rowVars, historyVars
  <1>2. LeaseInv'
    BY <1>1 DEF BudgetInv, LeaseInv, TypeOK
  <1>3. ASSUME NEW e \in Emails
        PROVE  IsFiniteSet(Started(e))' /\ Used(e)' <= Used(e) /\ Used(e) \in Nat /\ Used(e)' \in Nat
    <2>. "idle" \notin {"load", "claim"}
      OBVIOUS
    <2>1. /\ IsFiniteSet(Started(e))'
          /\ Cardinality(Started(e))' \in Nat
          /\ Cardinality(Started(e))' <= Cardinality(Started(e))
      BY <1>1, StartedMove
    <2>2. Claims(e)' = Claims(e) /\ Left(e)' = Left(e)
      BY <1>1 DEF Claims, Left
    <2>3. Claims(e) \in Nat /\ Cardinality(Started(e)) \in Nat /\ Left(e) \in Nat
      BY ClaimsNat, StartedNat, LeftNat
    <2>4. QED
      BY <2>1, <2>2, <2>3 DEF Used
  <1>4. QED
    BY <1>1, <1>2, <1>3, FrugalStep

\* Steps on rows that claim nothing.
LEMMA RowBudget ==
  ASSUME TypeOK, BudgetInv, UNCHANGED <<queueVars, workerVars, historyVars>>,
         \A e \in Emails : Claims(e)' \in Nat /\ Claims(e)' <= Claims(e)
  PROVE  BudgetInv'
  <1>1. UNCHANGED <<task, retried, lease, pc, job, asks, stops>>
    BY DEF queueVars, workerVars, historyVars
  <1>2. LeaseInv'
    BY <1>1 DEF BudgetInv, LeaseInv
  <1>3. ASSUME NEW e \in Emails
        PROVE  IsFiniteSet(Started(e))' /\ Used(e)' <= Used(e) /\ Used(e) \in Nat /\ Used(e)' \in Nat
    <2>1. Started(e)' = Started(e) /\ Left(e)' = Left(e)
      BY <1>1 DEF Started, Left
    <2>2. Claims(e) \in Nat /\ Cardinality(Started(e)) \in Nat /\ Left(e) \in Nat /\ IsFiniteSet(Started(e))
      BY ClaimsNat, StartedNat, LeftNat DEF BudgetInv
    <2>3. QED
      BY <2>1, <2>2 DEF Used
  <1>4. QED
    BY <1>1, <1>2, <1>3, FrugalStep

LEMMA NextBudget == TypeOK /\ BudgetInv /\ [Next]_vars => BudgetInv'
  <1>. SUFFICES ASSUME TypeOK, BudgetInv, [Next]_vars PROVE BudgetInv'
    OBVIOUS
  <1>1. ASSUME NEW e \in Emails, Create(e) PROVE BudgetInv'
    <2>1. ASSUME NEW f \in Emails PROVE Claims(f)' \in Nat /\ Claims(f)' <= Claims(f)
      <3>1. CASE f = e
        <4>1. trail'[f] = <<"queued">>
          BY <1>1, <3>1 DEF Create, CreateRow, TypeOK
        <4>2. Claims(f)' = 0
          BY <4>1, ClaimsInShort DEF Claims, ClaimsIn
        <4>3. QED
          BY <4>2, ClaimsNat
      <3>2. CASE f # e
        <4>1. trail'[f] = trail[f]
          BY <1>1, <3>2 DEF Create, CreateRow, TypeOK
        <4>2. Claims(f)' = Claims(f)
          BY <4>1 DEF Claims
        <4>3. QED
          BY <4>2, ClaimsNat
      <3>3. QED
        BY <3>1, <3>2
    <2>2. QED
      BY <1>1, <2>1, RowBudget DEF Create
  <1>2. ASSUME NEW e \in Emails, EnqueueSend(e) PROVE BudgetInv'
    BY <1>2, EnqueueBudget
  <1>3. ASSUME NEW w \in Workers, Handle(w) PROVE BudgetInv'
    BY <1>3, HandleBudget
  <1>4. ASSUME NEW e \in Emails, ForwardRetry(e) PROVE BudgetInv'
    <2>1. /\ task[e] = "retry" /\ task' = [task EXCEPT ![e] = "pending"]
          /\ UNCHANGED <<trail, pc, job, asks, stops, retried, lease>>
      BY <1>4 DEF ForwardRetry, rowVars, workerVars, historyVars
    <2>2. LeaseInv'
      BY <2>1 DEF BudgetInv, LeaseInv, TypeOK
    <2>3. ASSUME NEW f \in Emails
          PROVE  IsFiniteSet(Started(f))' /\ Used(f)' <= Used(f) /\ Used(f) \in Nat /\ Used(f)' \in Nat
      <3>1. Claims(f)' = Claims(f) /\ Started(f)' = Started(f)
        BY <2>1 DEF Claims, Started
      <3>2. Left(f)' = Left(f)
        BY <2>1 DEF Left, TypeOK
      <3>3. Claims(f) \in Nat /\ Cardinality(Started(f)) \in Nat /\ Left(f) \in Nat /\ IsFiniteSet(Started(f))
        BY ClaimsNat, StartedNat, LeftNat DEF BudgetInv
      <3>4. QED
        BY <3>1, <3>2, <3>3 DEF Used
    <2>4. QED
      BY <2>1, <2>2, <2>3, FrugalStep
  <1>5. ASSUME NEW e \in Emails, Recover(e) PROVE BudgetInv'
    BY <1>5, GiveBackBudget DEF Recover
  <1>6. ASSUME NEW w \in Workers, NEW e \in Emails, Dequeue(w, e) PROVE BudgetInv'
    BY <1>6, DequeueBudget
  <1>7. ASSUME NEW w \in Workers, LoseLease(w) PROVE BudgetInv'
    <2>1. job[w] \in Emails /\ lease[job[w]] = w
      BY <1>7 DEF LoseLease, TypeOK
    <2>2. task[job[w]] = "active"
      BY <2>1, DeliveryAssumption DEF BudgetInv, LeaseInv
    <2>3. QED
      BY <1>7, <2>1, <2>2, GiveBackBudget DEF LoseLease
  <1>8. ASSUME NEW w \in Workers, Crash(w) PROVE BudgetInv'
    BY <1>8, CrashBudget
  <1>9. ASSUME NEW w \in Workers, Abort(w) PROVE BudgetInv'
    BY <1>9, AbortBudget
  <1>10. ASSUME NEW S \in SUBSET Emails, DeleteWorkspaces(S) PROVE BudgetInv'
    <2>1. ASSUME NEW f \in Emails PROVE Claims(f)' \in Nat /\ Claims(f)' <= Claims(f)
      <3>1. trail'[f] = <<>> \/ trail'[f] = trail[f]
        BY <1>10 DEF DeleteWorkspaces, ForgetRows
      <3>2. Claims(f)' = 0 \/ Claims(f)' = Claims(f)
        BY <3>1, ClaimsInShort DEF Claims, ClaimsIn
      <3>3. QED
        BY <3>2, ClaimsNat
    <2>2. QED
      BY <1>10, <2>1, RowBudget DEF DeleteWorkspaces
  <1>11. CASE UNCHANGED vars
    <2>1. \A f \in Emails : Claims(f)' \in Nat /\ Claims(f)' <= Claims(f)
      BY <1>11, ClaimsNat DEF vars, rowVars, Claims
    <2>2. QED
      BY <1>11, <2>1, RowBudget DEF vars
  <1>12. QED
    BY <1>1, <1>2, <1>3, <1>4, <1>5, <1>6, <1>7, <1>8, <1>9, <1>10, <1>11
       DEF Next, Queue, Failure

LEMMA InitBudget == Init => BudgetInv
  <1>. SUFFICES ASSUME Init PROVE BudgetInv
    OBVIOUS
  <1>1. LeaseInv
    BY DEF Init, LeaseInv
  <1>2. ASSUME NEW e \in Emails PROVE IsFiniteSet(Started(e)) /\ Used(e) <= Paid(e)
    <2>1. Started(e) = {}
      BY DEF Init, Started
    <2>2. Claims(e) = 0
      BY ClaimsInShort DEF Init, Claims, ClaimsIn
    <2>3. Left(e) = 0 /\ Paid(e) = 0
      BY DeliveryAssumption DEF Init, Left, Paid
    <2>4. QED
      BY <2>1, <2>2, <2>3, FS_EmptySet DEF Used
  <1>3. QED
    BY <1>1, <1>2 DEF BudgetInv

-----------------------------------------------------------------------------
(***************************************************************************)
(* The copies.  A handler that has not yet talked to the receiver leaves   *)
(* its claim unspent; the claim is exclusive, so no other handler spends   *)
(* it.                                                                     *)
(***************************************************************************)

Unspent(w) == pc[w] \in {"prepare", "sign", "send"}

CopiesInv ==
    /\ \A e \in Emails : status[e] = "absent" => copies[e] = 0
    /\ \A e \in Emails : status[e] \in Stored => copies[e] <= Claims(e)
    /\ \A w \in Workers : Unspent(w) /\ status[job[w]] \in Stored =>
          copies[job[w]] + 1 <= Claims(job[w])

\* Steps that send nothing, claim nothing and store nothing.
LEMMA NoCopyStep ==
  ASSUME TypeOK, CopiesInv, copies' = copies,
         \A e \in Emails :
            /\ status'[e] = "absent" => status[e] = "absent"
            /\ status'[e] \in Stored => status[e] \in Stored /\ Claims(e)' = Claims(e),
         \A w \in Workers : Unspent(w)' => Unspent(w) /\ job'[w] = job[w]
  PROVE  CopiesInv'
  <1>1. ASSUME NEW w \in Workers, Unspent(w)', (status[job[w]] \in Stored)'
        PROVE  (copies[job[w]] + 1 <= Claims(job[w]))'
    <2>1. PICK e \in Emails : e = job[w] /\ job'[w] = e
      BY <1>1 DEF Unspent, TypeOK
    <2>2. status[e] \in Stored /\ Claims(e)' = Claims(e)
      BY <1>1, <2>1
    <2>3. copies[e] + 1 <= Claims(e)
      BY <1>1, <2>1, <2>2 DEF CopiesInv
    <2>4. Claims(job[w])' = Claims(e)'
      BY <2>1 DEF Claims
    <2>5. QED
      BY <2>1, <2>2, <2>3, <2>4
  <1>2. QED
    BY <1>1 DEF CopiesInv

LEMMA HandleCopies ==
  ASSUME TypeOK, ClaimInv, CopiesInv, NEW w \in Workers, Handle(w)
  PROVE  CopiesInv'
  <1>. job[w] \in Emails
    BY DEF TypeOK, Handle, Load, Claim, ClaimFails, LoadAttachments, ResolveDKIM, ReceiverTakes,
           SendSucceeds, SendFails, RecordSent, GiveUp, RetryLater, Ack, Nack
  <1>1. CASE /\ UNCHANGED <<rowVars, copies, job>>
             /\ \E step : pc' = [pc EXCEPT ![w] = step] /\ (step \in {"prepare", "sign", "send"} => Unspent(w))
    BY <1>1, NoCopyStep DEF rowVars, Claims, Unspent, TypeOK
  <1>2. CASE RecordSent(w) \/ GiveUp(w) \/ RetryLater(w)
    <2>1. \E s \in {"sent", "failed", "dead"}, event \in {"sent", "failed"} :
             Mark(job[w], s, event) \/ UNCHANGED rowVars
      BY <1>2 DEF RecordSent, GiveUp, RetryLater
    <2>2. /\ \A e \in Emails : Claims(e)' = Claims(e)
          /\ \A e \in Emails : status'[e] = "absent" => status[e] = "absent"
          /\ \A e \in Emails : status'[e] \in Stored => status[e] \in Stored
      BY <2>1, MarkClaims DEF Mark, Finish, rowVars, TypeOK, EventTypes
    <2>3. copies' = copies /\ job' = job /\ \E step \in {"ack", "nack"} : pc' = [pc EXCEPT ![w] = step]
      BY <1>2 DEF RecordSent, GiveUp, RetryLater, GoTo, sendVars
    <2>4. QED
      BY <2>2, <2>3, NoCopyStep DEF Unspent, TypeOK
  <1>3. CASE /\ Claim(w) \/ ClaimFails(w)
             /\ Claimable(job[w])
             /\ Finish(job[w], "processing", "processing")
    <2>1. /\ copies' = copies /\ job' = job
          /\ \E step \in {"prepare", "nack"} : pc' = [pc EXCEPT ![w] = step]
          /\ status' = [status EXCEPT ![job[w]] = "processing"]
          /\ status[job[w]] \in Stored
      BY <1>3 DEF Claim, ClaimFails, GoTo, sendVars, Finish, Claimable, Stored
    <2>2. ASSUME NEW e \in Emails
          PROVE  Claims(e)' = IF e = job[w] THEN Claims(e) + 1 ELSE Claims(e)
      <3>1. CASE e = job[w]
        <4>1. Finish(e, "processing", "processing")
          BY <1>3, <3>1
        <4>2. QED
          BY <3>1, <4>1, FinishClaims DEF EventTypes
      <3>2. CASE e # job[w]
        BY <1>3, <3>2, FinishClaims DEF EventTypes
      <3>3. QED
        BY <3>1, <3>2
    <2>3. \A e \in Emails : copies[e] \in Nat /\ Claims(e) \in Nat
      BY ClaimsNat DEF TypeOK
    <2>4. ASSUME NEW e \in Emails
          PROVE  /\ (status[e] = "absent")' => copies'[e] = 0
                 /\ (status[e] \in Stored)' => copies'[e] <= Claims(e)'
      <3>1. CASE e = job[w]
        <4>1. status'[e] = "processing" /\ copies[e] <= Claims(e) /\ Claims(e)' = Claims(e) + 1
          BY <2>1, <2>2, <3>1 DEF CopiesInv, TypeOK
        <4>2. QED
          BY <2>1, <2>3, <4>1
      <3>2. CASE e # job[w]
        BY <2>1, <2>2, <3>2 DEF CopiesInv, TypeOK
      <3>3. QED
        BY <3>1, <3>2
    <2>5. ASSUME NEW v \in Workers, Unspent(v)', (status[job[v]] \in Stored)'
          PROVE  (copies[job[v]] + 1 <= Claims(job[v]))'
      <3>1. PICK e \in Emails : e = job[v]
        BY <2>1, <2>5 DEF Unspent, TypeOK
      <3>2. Claims(job[v])' = Claims(e)' /\ copies'[job'[v]] = copies[e]
        BY <2>1, <3>1 DEF Claims
      <3>3. CASE e = job[w]
        <4>1. copies[e] <= Claims(e) /\ Claims(e)' = Claims(e) + 1
          BY <2>1, <2>2, <3>3 DEF CopiesInv
        <4>2. QED
          BY <2>3, <3>2, <4>1
      <3>4. CASE e # job[w]
        <4>1. Unspent(v) /\ status[e] \in Stored /\ Claims(e)' = Claims(e)
          BY <2>1, <2>2, <2>5, <3>1, <3>4 DEF Unspent, TypeOK
        <4>2. copies[e] + 1 <= Claims(e)
          BY <3>1, <4>1 DEF CopiesInv
        <4>3. QED
          BY <3>2, <4>1, <4>2
      <3>5. QED
        BY <3>3, <3>4
    <2>6. QED
      BY <2>4, <2>5 DEF CopiesInv
  <1>4. CASE ReceiverTakes(w)
    <2>1. /\ pc[w] = "send" /\ pc' = [pc EXCEPT ![w] = "answer"] /\ job' = job
          /\ copies' = [copies EXCEPT ![job[w]] = copies[job[w]] + 1]
          /\ UNCHANGED <<status, trail>>
      BY <1>4 DEF ReceiverTakes, GoTo, rowVars
    <2>2. \A e \in Emails : Claims(e)' = Claims(e) /\ Claims(e) \in Nat /\ copies[e] \in Nat
      BY <2>1, ClaimsNat DEF Claims, TypeOK
    <2>3. status[job[w]] \in {"processing", "deleted"}
      BY <2>1 DEF ClaimInv, HolderProcesses, Holds
    <2>4. ASSUME NEW e \in Emails
          PROVE  /\ (status[e] = "absent")' => copies'[e] = 0
                 /\ (status[e] \in Stored)' => copies'[e] <= Claims(e)'
      <3>1. CASE e = job[w]
        <4>1. copies'[e] = copies[e] + 1
          BY <2>1, <3>1 DEF TypeOK
        <4>2. status[e] \in Stored => copies[e] + 1 <= Claims(e)
          BY <2>1, <3>1 DEF CopiesInv, Unspent
        <4>3. QED
          BY <2>1, <2>2, <2>3, <3>1, <4>1, <4>2
      <3>2. CASE e # job[w]
        BY <2>1, <2>2, <3>2 DEF CopiesInv, TypeOK
      <3>3. QED
        BY <3>1, <3>2
    <2>5. ASSUME NEW v \in Workers, Unspent(v)', (status[job[v]] \in Stored)'
          PROVE  (copies[job[v]] + 1 <= Claims(job[v]))'
      <3>1. Unspent(v) /\ v # w
        BY <2>1, <2>5 DEF Unspent, TypeOK
      <3>2. job[v] # job[w] /\ job[v] \in Emails
        BY <2>1, <3>1 DEF ClaimInv, ClaimIsExclusive, Holds, Unspent, TypeOK
      <3>3. PICK e \in Emails : e = job[v]
        BY <3>2
      <3>4. Claims(job[v])' = Claims(e)' /\ copies'[job'[v]] = copies[e] /\ status[e] \in Stored
        BY <2>1, <2>5, <3>2, <3>3 DEF Claims, TypeOK
      <3>5. copies[e] + 1 <= Claims(e)
        BY <3>1, <3>3, <3>4 DEF CopiesInv
      <3>6. QED
        BY <2>2, <3>4, <3>5
    <2>6. QED
      BY <2>4, <2>5 DEF CopiesInv
  <1>5. QED
    <2>1. \/ ReceiverTakes(w) \/ RecordSent(w) \/ GiveUp(w) \/ RetryLater(w)
          \/ Load(w) \/ Ack(w) \/ Nack(w) \/ LoadAttachments(w) \/ ResolveDKIM(w)
          \/ SendSucceeds(w) \/ SendFails(w) \/ Claim(w) \/ ClaimFails(w)
      BY DEF Handle
    <2>2. CASE \/ Load(w) \/ Ack(w) \/ Nack(w) \/ LoadAttachments(w) \/ ResolveDKIM(w)
               \/ SendSucceeds(w) \/ SendFails(w)
      BY <1>1, <2>2 DEF Load, Ack, Nack, LoadAttachments, ResolveDKIM, SendSucceeds, SendFails,
         GoTo, Unspent, sendVars, historyVars
    <2>3. CASE (Claim(w) \/ ClaimFails(w)) /\ UNCHANGED rowVars /\ pc'[w] # "prepare"
      BY <1>1, <2>3 DEF Claim, ClaimFails, GoTo, Unspent, sendVars
    <2>4. CASE Claim(w) \/ ClaimFails(w)
      BY <1>3, <2>3, <2>4 DEF Claim, ClaimFails, GoTo, TypeOK
    <2>5. QED
      BY <1>2, <1>4, <2>1, <2>2, <2>4

LEMMA NextCopies == TypeOK /\ ClaimInv /\ CopiesInv /\ [Next]_vars => CopiesInv'
  <1>. SUFFICES ASSUME TypeOK, ClaimInv, CopiesInv, [Next]_vars PROVE CopiesInv'
    OBVIOUS
  <1>1. ASSUME NEW e \in Emails, Create(e) PROVE CopiesInv'
    <2>1. /\ UNCHANGED <<copies, pc, job>> /\ status[e] = "absent"
          /\ status' = [status EXCEPT ![e] = "queued"]
          /\ trail' = [trail EXCEPT ![e] = <<"queued">>]
      BY <1>1 DEF Create, CreateRow, workerVars, historyVars, sendVars
    <2>2. /\ copies[e] = 0 /\ Claims(e)' = 0
          /\ \A f \in Emails \ {e} : Claims(f)' = Claims(f) /\ status'[f] = status[f]
      BY <2>1, ClaimsInShort DEF CopiesInv, Claims, ClaimsIn, TypeOK
    <2>3. ASSUME NEW f \in Emails
          PROVE  /\ (status[f] = "absent")' => copies'[f] = 0
                 /\ (status[f] \in Stored)' => copies'[f] <= Claims(f)'
      <3>1. CASE f = e
        BY <2>1, <2>2, <3>1
      <3>2. CASE f # e
        BY <2>1, <2>2, <3>2 DEF CopiesInv
      <3>3. QED
        BY <3>1, <3>2
    <2>4. ASSUME NEW w \in Workers, Unspent(w)', (status[job[w]] \in Stored)'
          PROVE  (copies[job[w]] + 1 <= Claims(job[w]))'
      <3>1. PICK f \in Emails : f = job[w] /\ job'[w] = f
        BY <2>1, <2>4 DEF Unspent, TypeOK
      <3>2. f # e
        BY <2>1, <2>4, <3>1 DEF Unspent, ClaimInv, HolderProcesses, Holds
      <3>3. copies[f] + 1 <= Claims(f) /\ Claims(f)' = Claims(f)
        BY <2>1, <2>2, <2>4, <3>1, <3>2 DEF CopiesInv, Unspent
      <3>4. Claims(job[w])' = Claims(f)'
        BY <3>1 DEF Claims
      <3>5. QED
        BY <2>1, <3>1, <3>3, <3>4
    <2>5. QED
      BY <2>3, <2>4 DEF CopiesInv
  <1>2. ASSUME NEW w \in Workers, Handle(w) PROVE CopiesInv'
    BY <1>2, HandleCopies
  <1>3. ASSUME NEW S \in SUBSET Emails, DeleteWorkspaces(S) PROVE CopiesInv'
    <2>1. /\ UNCHANGED <<copies, pc, job>>
          /\ status' = [e \in Emails |-> IF e \in S THEN "deleted" ELSE status[e]]
          /\ trail' = [e \in Emails |-> IF e \in S THEN <<>> ELSE trail[e]]
      BY <1>3 DEF DeleteWorkspaces, ForgetRows, workerVars, historyVars, sendVars
    <2>2. \A e \in Emails :
             /\ status'[e] = "absent" => status[e] = "absent"
             /\ status'[e] \in Stored => status[e] \in Stored /\ Claims(e)' = Claims(e)
      BY <2>1 DEF Claims, Stored
    <2>3. QED
      BY <2>1, <2>2, NoCopyStep DEF Unspent
  <1>4. CASE \/ \E e \in Emails : EnqueueSend(e)
             \/ Queue
             \/ Failure
             \/ UNCHANGED vars
    <2>1. UNCHANGED <<status, trail, copies>>
      BY <1>4 DEF EnqueueSend, Queue, ForwardRetry, Recover, Dequeue, Failure, LoseLease, Crash, Abort,
                  vars, rowVars, historyVars, sendVars
    <2>2. \A w \in Workers : Unspent(w)' => Unspent(w) /\ job'[w] = job[w]
      BY <1>4 DEF EnqueueSend, Queue, ForwardRetry, Recover, Dequeue, Failure, LoseLease, Crash, Abort,
                  vars, workerVars, Unspent, TypeOK
    <2>3. QED
      BY <2>1, <2>2, NoCopyStep DEF Claims
  <1>5. QED
    BY <1>1, <1>2, <1>3, <1>4 DEF Next

LEMMA InitCopies == Init => CopiesInv
  BY DEF Init, CopiesInv, Unspent, Stored

LEMMA BudgetsAgree == TypeOK /\ BudgetInv /\ CopiesInv => AttemptsWithinBudget
  <1>. SUFFICES ASSUME TypeOK, BudgetInv, CopiesInv, NEW e \in Emails
                PROVE  /\ Claims(e) <= (MaxRetry + 1) * asks[e] + stops
                       /\ status[e] \in Stored => copies[e] <= Claims(e)
    BY DEF AttemptsWithinBudget
  <1>1. /\ Claims(e) \in Nat /\ Cardinality(Started(e)) \in Nat /\ Left(e) \in Nat /\ Paid(e) \in Nat
    BY ClaimsNat, StartedNat, LeftNat, PaidNat
  <1>2. Claims(e) <= Used(e) /\ Used(e) \in Nat /\ Used(e) <= Paid(e)
    BY <1>1 DEF Used, BudgetInv
  <1>3. Claims(e) <= Paid(e)
    BY <1>1, <1>2
  <1>4. QED
    BY <1>3 DEF Paid, CopiesInv

\* The retry budget holds, and no attempt sends more than one copy.
THEOREM BudgetHolds == Spec => []AttemptsWithinBudget
  BY InitBudget, NextBudget, InitCopies, NextCopies, BudgetsAgree, ClaimCorrect, PTL DEF Spec
=============================================================================
