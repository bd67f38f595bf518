--------------------------- MODULE OutboundProofs ---------------------------
(***************************************************************************)
(* Proofs about Outbound, for every number of calls, files, messages,      *)
(* handlers and retries, and every mixture of requests and failures.       *)
(***************************************************************************)
EXTENDS Outbound, TLAPS

-----------------------------------------------------------------------------
(* Delivery keeps its types under any caller.                               *)

LEMMA DeliveryInitTypeOK == D!Init => D!TypeOK
  BY OutboundAssumption DEF D!Init, D!TypeOK, D!TaskStates, D!Steps

\* An event appended to a trail of events is such a trail again.
LEMMA AppendEvent ==
  ASSUME NEW s \in Seq(D!EventTypes), NEW event \in D!EventTypes
  PROVE  Append(s, event) \in Seq(D!EventTypes)
  OBVIOUS

LEMMA DeliveryFinishTypeOK ==
  ASSUME D!TypeOK, NEW e \in Emails, NEW s \in D!Stored, NEW event \in D!EventTypes, D!Finish(e, s, event)
  PROVE  /\ status' \in [Emails -> D!Stored \cup {"absent", "deleted"}]
         /\ trail' \in [Emails -> Seq(D!EventTypes)]
  <1>1. Append(trail[e], event) \in Seq(D!EventTypes)
    BY AppendEvent DEF D!TypeOK
  <1>2. QED
    BY <1>1 DEF D!TypeOK, D!Finish

\* Retrying or archiving a task keeps the queue's types.
LEMMA DeliveryRetryTypeOK ==
  ASSUME D!TypeOK, NEW e \in Emails, D!RetryOrArchive(e)
  PROVE  /\ task' \in [Emails -> D!TaskStates]
         /\ retried' \in [Emails -> 0..MaxRetry]
         /\ lease' \in [Emails -> Workers \cup {NoWorker}]
  <1>1. /\ task \in [Emails -> D!TaskStates]
        /\ retried \in [Emails -> 0..MaxRetry]
        /\ lease \in [Emails -> Workers \cup {NoWorker}]
    BY DEF D!TypeOK
  <1>2. lease' = [lease EXCEPT ![e] = NoWorker]
    BY DEF D!RetryOrArchive
  <1>3. lease' \in [Emails -> Workers \cup {NoWorker}]
    BY <1>1, <1>2
  <1>4. CASE retried[e] < MaxRetry
    <2>1. task' = [task EXCEPT ![e] = "retry"] /\ retried' = [retried EXCEPT ![e] = retried[e] + 1]
      BY <1>4 DEF D!RetryOrArchive
    <2>2. retried[e] \in 0..MaxRetry
      BY <1>1
    <2>3. retried[e] + 1 \in 0..MaxRetry
      BY <1>4, <2>2, OutboundAssumption
    <2>4. retried' \in [Emails -> 0..MaxRetry]
      BY <1>1, <2>1, <2>3
    <2>5. task' \in [Emails -> D!TaskStates]
      BY <1>1, <2>1 DEF D!TaskStates
    <2>6. QED
      BY <1>3, <2>4, <2>5
  <1>5. CASE ~(retried[e] < MaxRetry)
    <2>1. task' = [task EXCEPT ![e] = "archived"] /\ retried' = retried
      BY <1>5 DEF D!RetryOrArchive
    <2>2. task' \in [Emails -> D!TaskStates]
      BY <1>1, <2>1 DEF D!TaskStates
    <2>3. QED
      BY <1>1, <1>3, <2>1, <2>2
  <1>6. QED
    BY <1>4, <1>5

\* A handler's step moves its program counter and nothing of the queue.
LEMMA DeliveryGoToTypeOK ==
  ASSUME D!TypeOK, NEW w \in Workers, NEW s \in D!Steps, D!GoTo(w, s), job[w] \in Emails
  PROVE  /\ pc' \in [Workers -> D!Steps]
         /\ \A v \in Workers : pc'[v] # "idle" => job'[v] \in Emails
         /\ UNCHANGED <<job, attempt, task, retried, lease, asks, stops, faults>>
  BY DEF D!TypeOK, D!GoTo, D!queueVars

LEMMA DeliveryHandleTypeOK ==
  ASSUME D!TypeOK, NEW w \in Workers, D!Handle(w)
  PROVE  D!TypeOK'
  <1>. job[w] \in Emails
    BY DEF D!TypeOK, D!Handle, D!Load, D!Claim, D!ClaimFails, D!LoadAttachments, D!ResolveDKIM, D!ReceiverTakes,
           D!SendSucceeds, D!SendFails, D!RecordSent, D!GiveUp, D!RetryLater, D!Ack, D!Nack
  <1>1. CASE D!Load(w) \/ D!LoadAttachments(w) \/ D!ResolveDKIM(w) \/ D!SendFails(w)
    <2>1. \E s \in D!Steps : D!GoTo(w, s)
      BY <1>1 DEF D!Load, D!LoadAttachments, D!ResolveDKIM, D!SendFails, D!Steps
    <2>2. UNCHANGED <<D!rowVars, D!sendVars>>
      BY <1>1 DEF D!Load, D!LoadAttachments, D!ResolveDKIM, D!SendFails
    <2>3. QED
      BY <2>1, <2>2, DeliveryGoToTypeOK DEF D!TypeOK, D!rowVars, D!sendVars
  <1>2. CASE D!ReceiverTakes(w) \/ D!SendSucceeds(w)
    <2>1. \E s \in D!Steps : D!GoTo(w, s)
      BY <1>2 DEF D!ReceiverTakes, D!SendSucceeds, D!Steps
    <2>2. copies' \in [Emails -> Nat] /\ handOffs' \in [Emails -> Nat] /\ UNCHANGED D!rowVars
      <3>1. CASE D!ReceiverTakes(w)
        BY <3>1 DEF D!ReceiverTakes, D!TypeOK
      <3>2. CASE D!SendSucceeds(w)
        BY <3>2 DEF D!SendSucceeds, D!TypeOK
      <3>3. QED
        BY <1>2, <3>1, <3>2
    <2>3. QED
      BY <2>1, <2>2, DeliveryGoToTypeOK DEF D!TypeOK, D!rowVars
  <1>3. CASE \/ D!Claim(w) \/ D!ClaimFails(w) \/ D!RecordSent(w) \/ D!GiveUp(w) \/ D!RetryLater(w)
    <2>1. \E s \in D!Steps : D!GoTo(w, s)
      BY <1>3 DEF D!Claim, D!ClaimFails, D!RecordSent, D!GiveUp, D!RetryLater, D!Steps
    <2>2. \/ UNCHANGED D!rowVars
          \/ \E s \in D!Stored, event \in D!EventTypes : D!Finish(job[w], s, event)
      BY <1>3 DEF D!Claim, D!ClaimFails, D!RecordSent, D!GiveUp, D!RetryLater, D!Mark, D!Stored, D!EventTypes
    <2>3. UNCHANGED D!sendVars
      BY <1>3 DEF D!Claim, D!ClaimFails, D!RecordSent, D!GiveUp, D!RetryLater
    <2>4. /\ status' \in [Emails -> D!Stored \cup {"absent", "deleted"}]
          /\ trail' \in [Emails -> Seq(D!EventTypes)]
      BY <2>2, DeliveryFinishTypeOK DEF D!TypeOK, D!rowVars
    <2>5. QED
      BY <2>1, <2>3, <2>4, DeliveryGoToTypeOK DEF D!TypeOK, D!sendVars
  <1>4. CASE D!Ack(w)
    <2>1. /\ task' \in [Emails -> D!TaskStates]
          /\ lease' \in [Emails -> Workers \cup {NoWorker}]
      BY <1>4 DEF D!Ack, D!TypeOK, D!TaskStates
    <2>2. /\ pc' \in [Workers -> D!Steps]
          /\ \A v \in Workers : pc'[v] # "idle" => job'[v] \in Emails
      BY <1>4 DEF D!Ack, D!TypeOK, D!Steps
    <2>3. QED
      BY <1>4, <2>1, <2>2 DEF D!Ack, D!TypeOK, D!rowVars, D!historyVars, D!sendVars
  <1>5. CASE D!Nack(w)
    <2>1. /\ task' \in [Emails -> D!TaskStates]
          /\ retried' \in [Emails -> 0..MaxRetry]
          /\ lease' \in [Emails -> Workers \cup {NoWorker}]
      BY <1>5, DeliveryRetryTypeOK DEF D!Nack, D!queueVars, D!TypeOK
    <2>2. QED
      BY <1>5, <2>1 DEF D!Nack, D!TypeOK, D!rowVars, D!historyVars, D!sendVars, D!Steps
  <1>6. QED
    BY <1>1, <1>2, <1>3, <1>4, <1>5 DEF D!Handle

LEMMA DeliveryNextTypeOK == D!TypeOK /\ [D!Next]_D!vars => D!TypeOK'
  <1>. SUFFICES ASSUME D!TypeOK, [D!Next]_D!vars PROVE D!TypeOK'
    OBVIOUS
  <1>1. ASSUME NEW e \in Emails, D!Create(e) PROVE D!TypeOK'
    BY <1>1 DEF D!Create, D!CreateRow, D!TypeOK, D!queueVars, D!workerVars, D!historyVars, D!sendVars, D!Stored, D!EventTypes
  <1>2. ASSUME NEW e \in Emails, D!EnqueueSend(e) PROVE D!TypeOK'
    <2>1. asks' \in [Emails -> 0..MaxAsks]
      <3>1. asks[e] + 1 \in 0..MaxAsks
        BY <1>2, OutboundAssumption DEF D!EnqueueSend, D!TypeOK
      <3>2. QED
        BY <1>2, <3>1 DEF D!EnqueueSend, D!TypeOK
    <2>2. task' \in [Emails -> D!TaskStates] /\ retried' \in [Emails -> 0..MaxRetry]
      <3>1. 0 \in 0..MaxRetry
        BY OutboundAssumption
      <3>2. CASE task[e] = "none"
        BY <1>2, <3>1, <3>2 DEF D!EnqueueSend, D!TypeOK, D!TaskStates
      <3>3. CASE task[e] # "none"
        BY <1>2, <3>3 DEF D!EnqueueSend, D!TypeOK
      <3>4. QED
        BY <3>2, <3>3
    <2>3. QED
      BY <1>2, <2>1, <2>2 DEF D!EnqueueSend, D!TypeOK, D!rowVars, D!workerVars, D!sendVars
  <1>3. ASSUME NEW w \in Workers, D!Handle(w) PROVE D!TypeOK'
    BY <1>3, DeliveryHandleTypeOK
  <1>4. ASSUME NEW e \in Emails, D!ForwardRetry(e) PROVE D!TypeOK'
    BY <1>4 DEF D!ForwardRetry, D!TypeOK, D!rowVars, D!workerVars, D!historyVars, D!sendVars, D!TaskStates
  <1>5. ASSUME NEW e \in Emails, D!Recover(e) PROVE D!TypeOK'
    BY <1>5, DeliveryRetryTypeOK DEF D!Recover, D!TypeOK, D!rowVars, D!workerVars, D!historyVars, D!sendVars
  <1>6. ASSUME NEW w \in Workers, NEW e \in Emails, D!Dequeue(w, e) PROVE D!TypeOK'
    BY <1>6 DEF D!Dequeue, D!TypeOK, D!rowVars, D!historyVars, D!sendVars, D!TaskStates, D!Steps
  <1>7. ASSUME NEW w \in Workers, D!LoseLease(w) PROVE D!TypeOK'
    <2>1. job[w] \in Emails
      BY <1>7 DEF D!LoseLease, D!TypeOK
    <2>2. QED
      BY <1>7, <2>1, DeliveryRetryTypeOK DEF D!LoseLease, D!TypeOK, D!rowVars, D!workerVars, D!historyVars, D!sendVars
  <1>8. ASSUME NEW w \in Workers, D!Crash(w) PROVE D!TypeOK'
    BY <1>8 DEF D!Crash, D!TypeOK, D!rowVars, D!historyVars, D!sendVars, D!Steps
  <1>9. ASSUME NEW w \in Workers, D!Abort(w) PROVE D!TypeOK'
    <2>1. stops' \in 0..MaxStops
      BY <1>9, OutboundAssumption DEF D!Abort, D!TypeOK
    <2>2. QED
      BY <1>9, <2>1 DEF D!Abort, D!TypeOK, D!rowVars, D!sendVars, D!TaskStates, D!Steps
  <1>10. ASSUME NEW S \in SUBSET Emails, D!DeleteWorkspaces(S) PROVE D!TypeOK'
    BY <1>10 DEF D!DeleteWorkspaces, D!ForgetRows, D!TypeOK, D!queueVars, D!workerVars, D!historyVars, D!sendVars
  <1>11. CASE UNCHANGED D!vars
    BY <1>11 DEF D!vars, D!rowVars, D!queueVars, D!workerVars, D!historyVars, D!sendVars, D!TypeOK
  <1>12. QED
    BY <1>1, <1>2, <1>3, <1>4, <1>5, <1>6, <1>7, <1>8, <1>9, <1>10, <1>11
       DEF D!Next, D!Queue, D!Failure

-----------------------------------------------------------------------------
(* Every step is one of Delivery's or changes nothing Delivery sees.        *)

LEMMA CallIsDelivery ==
  ASSUME TypeOK, NEW c \in Emails, Call(c) \/ CallFails(c)
  PROVE  \/ UNCHANGED deliveryVars
         \/ D!Create(c)
         \/ \E e \in Emails : D!EnqueueSend(e)
  <1>1. CASE Enqueue(c)
    <2>1. found[c] \in Emails
      BY <1>1 DEF Enqueue, TypeOK
    <2>2. QED
      BY <1>1, <2>1 DEF Enqueue
  <1>2. CASE Create(c)
    BY <1>2 DEF Create
  <1>3. CASE Arrive(c) \/ LookUp(c) \/ Compare(c) \/ Resolve(c) \/ Reread(c) \/ Attach(c) \/ CallFails(c)
    BY <1>3 DEF Arrive, LookUp, Compare, Resolve, Reread, Attach, CallFails
  <1>4. QED
    BY <1>1, <1>2, <1>3 DEF Call

LEMMA StepIsDelivery ==
  ASSUME TypeOK, [Next]_vars
  PROVE  [D!Next]_(D!vars)
  <1>1. UNCHANGED deliveryVars => UNCHANGED D!vars
    BY DEF deliveryVars, D!vars, D!rowVars, D!queueVars, D!workerVars, D!historyVars, D!sendVars
  <1>2. ASSUME NEW a \in Attachments, UploadAttachment(a) PROVE UNCHANGED deliveryVars
    BY <1>2 DEF UploadAttachment, Put, InsertAttachment, CleanUp, UploadAt
  <1>3. ASSUME NEW c \in Emails, Call(c) \/ CallFails(c) PROVE D!Next \/ UNCHANGED deliveryVars
    BY <1>3, CallIsDelivery DEF D!Next
  <1>4. ASSUME NEW w \in Workers, Handle(w) PROVE D!Next
    <2>1. D!Handle(w)
      BY <1>4 DEF Handle, LoadAttachments, ReceiverTakes, OtherHandling, D!Handle
    <2>2. QED
      BY <2>1 DEF D!Next
  <1>5. CASE DeleteWorkspace
    <2>1. {e \in Emails : status[e] \in D!Stored} \in SUBSET Emails
      OBVIOUS
    <2>2. QED
      BY <1>5, <2>1 DEF DeleteWorkspace, D!Next
  <1>6. CASE D!Queue \/ D!Failure
    BY <1>6 DEF D!Next
  <1>7. CASE UNCHANGED vars
    BY <1>1, <1>7 DEF vars
  <1>8. QED
    BY <1>1, <1>2, <1>3, <1>4, <1>5, <1>6, <1>7 DEF Next

-----------------------------------------------------------------------------
(* Type correctness.                                                        *)

\* What TypeOK says of the calls and of the files.
CallsTyped ==
    /\ step \in [Emails -> CallSteps]
    /\ req \in [Emails -> Requests]
    /\ found \in [Emails -> Emails \cup {NoEmail}]
    /\ seen \in [Emails -> D!Stored \cup {"absent"}]
    /\ \A c \in Emails : step[c] \in {"compare", "reEnqueue", "enqueue", "attach"} => found[c] # NoEmail

FilesTyped ==
    /\ attachedTo \in [Attachments -> Emails \cup {NoEmail}]
    /\ loaded \in [Workers -> SUBSET Attachments]
    /\ sentWith \in [Emails -> SUBSET Attachments]
    /\ open \in BOOLEAN
    /\ upload \in [Attachments -> UploadSteps]
    /\ blobs \subseteq Attachments
    /\ \A a \in Attachments : attachedTo[a] # NoEmail => upload[a] = "told"

\* A request that is past its arrival names uploaded files only.
FilesTold ==
    \A c \in Emails : step[c] # "idle" => \A a \in req[c].files : upload[a] = "told"

LEMMA TypeParts == TypeOK <=> D!TypeOK /\ CallsTyped /\ FilesTyped
  BY DEF TypeOK, CallsTyped, FilesTyped

LEMMA RequestFiles == ASSUME TypeOK, NEW c \in Emails PROVE req[c].files \subseteq Attachments
  BY OutboundAssumption DEF TypeOK

LEMMA UploadTypes ==
  ASSUME TypeOK, FilesTold, NEW a \in Attachments, UploadAttachment(a)
  PROVE  CallsTyped' /\ FilesTyped' /\ FilesTold'
  <1>1. /\ upload[a] # "told"
        /\ \E s \in UploadSteps : upload' = [upload EXCEPT ![a] = s]
        /\ blobs' \in {blobs, blobs \cup {a}, blobs \ {a}}
        /\ UNCHANGED <<callVars, attachedTo, loaded, sentWith, open>>
    BY DEF UploadAttachment, Put, InsertAttachment, CleanUp, UploadAt, UploadSteps
  <1>2. \A b \in Attachments : upload[b] = "told" => upload'[b] = "told"
    BY <1>1 DEF TypeOK
  <1>3. CallsTyped'
    BY <1>1, TypeParts DEF CallsTyped, callVars
  <1>4. FilesTyped'
    BY <1>1, <1>2, TypeParts DEF FilesTyped
  <1>5. FilesTold'
    BY <1>1, <1>2, RequestFiles DEF FilesTold, callVars
  <1>6. QED
    BY <1>3, <1>4, <1>5

LEMMA CallTypes ==
  ASSUME TypeOK, FilesTold, NEW c \in Emails, Call(c) \/ CallFails(c)
  PROVE  CallsTyped' /\ FilesTyped' /\ FilesTold'
  <1>1. CASE Arrive(c)
    BY <1>1, TypeParts DEF Arrive, MoveTo, CallsTyped, FilesTyped, FilesTold, fileVars, uploadVars, CallSteps
  <1>2. CASE LookUp(c)
    <2>1. /\ \E s \in {"resolve", "compare", "refused"} : step' = [step EXCEPT ![c] = s]
          /\ step[c] = "lookUp"
          /\ \/ step'[c] = "resolve" /\ UNCHANGED <<found, seen>>
             \/ \E e \in Emails : /\ status[e] \in D!Stored
                                  /\ found' = [found EXCEPT ![c] = e]
                                  /\ seen' = [seen EXCEPT ![c] = status[e]]
          /\ UNCHANGED <<req, fileVars>>
      BY <1>2 DEF LookUp, MoveTo, RowsWithKey, TypeOK
    <2>2. CallsTyped'
      BY <2>1, OutboundAssumption, TypeParts DEF CallsTyped, CallSteps, Ended
    <2>3. QED
      BY <2>1, <2>2, TypeParts DEF FilesTyped, FilesTold, fileVars, uploadVars, CallsTyped
  <1>3. CASE Compare(c) \/ Resolve(c) \/ CallFails(c)
    BY <1>3, TypeParts DEF Compare, Resolve, CallFails, MoveTo, CallsTyped, FilesTyped, FilesTold,
       fileVars, uploadVars, CallSteps, Ended
  <1>4. CASE Create(c)
    <2>1. /\ \/ /\ found' = [found EXCEPT ![c] = c]
                /\ \E s \in {"enqueue", "attach"} : step' = [step EXCEPT ![c] = s]
             \/ /\ UNCHANGED found
                /\ \E s \in {"reread", "failed"} : step' = [step EXCEPT ![c] = s]
          /\ step[c] = "create"
          /\ UNCHANGED <<req, seen, fileVars>>
      BY <1>4 DEF Create, MoveTo
    <2>2. CallsTyped'
      BY <2>1, OutboundAssumption, TypeParts DEF CallsTyped, CallSteps, Ended
    <2>3. QED
      BY <2>1, <2>2, TypeParts DEF FilesTyped, FilesTold, fileVars, uploadVars, CallsTyped
  <1>5. CASE Reread(c)
    <2>1. /\ \E s \in {"handedBack", "failed"} : step' = [step EXCEPT ![c] = s]
          /\ step[c] = "reread"
          /\ UNCHANGED found \/ \E e \in Emails : found' = [found EXCEPT ![c] = e]
          /\ UNCHANGED <<req, seen, fileVars>>
      BY <1>5 DEF Reread, MoveTo, RowsWithKey
    <2>2. CallsTyped'
      BY <2>1, OutboundAssumption, TypeParts DEF CallsTyped, CallSteps, Ended
    <2>3. QED
      BY <2>1, <2>2, TypeParts DEF FilesTyped, FilesTold, fileVars, uploadVars, CallsTyped
  <1>6. CASE Attach(c)
    <2>1. /\ \E s \in {"enqueue", "refused"} : step' = [step EXCEPT ![c] = s]
          /\ step[c] = "attach"
          /\ attachedTo' = [a \in Attachments |->
                IF a \in {b \in req[c].files : Free(b)} THEN c ELSE attachedTo[a]]
          /\ UNCHANGED <<req, found, seen, loaded, sentWith, open, uploadVars>>
      BY <1>6 DEF Attach, MoveTo
    <2>2. CallsTyped'
      BY <2>1, TypeParts DEF CallsTyped, CallSteps, Ended
    <2>3. \A a \in Attachments : attachedTo'[a] = attachedTo[a] \/ (attachedTo'[a] = c /\ a \in req[c].files)
      BY <2>1
    <2>4. \A a \in req[c].files : upload[a] = "told"
      BY <2>1 DEF FilesTold
    <2>5. FilesTyped'
      BY <2>1, <2>3, <2>4, TypeParts DEF FilesTyped, uploadVars
    <2>6. QED
      BY <2>1, <2>2, <2>5, TypeParts DEF FilesTold, uploadVars, CallsTyped
  <1>7. CASE Enqueue(c)
    BY <1>7, TypeParts DEF Enqueue, MoveTo, CallsTyped, FilesTyped, FilesTold, fileVars, uploadVars,
       CallSteps, Ended
  <1>8. QED
    BY <1>1, <1>2, <1>3, <1>4, <1>5, <1>6, <1>7 DEF Call

LEMMA InitTypeOK == Init => TypeOK /\ FilesTold
  <1>. SUFFICES ASSUME Init PROVE TypeOK /\ FilesTold
    OBVIOUS
  <1>1. D!TypeOK
    BY DeliveryInitTypeOK DEF Init
  <1>2. CallsTyped /\ FilesTyped /\ FilesTold
    BY DEF Init, CallsTyped, FilesTyped, FilesTold, CallSteps, UploadSteps
  <1>3. QED
    BY <1>1, <1>2, TypeParts

LEMMA NextTypeOK == TypeOK /\ FilesTold /\ [Next]_vars => TypeOK' /\ FilesTold'
  <1>. SUFFICES ASSUME TypeOK, FilesTold, [Next]_vars PROVE TypeOK' /\ FilesTold'
    OBVIOUS
  <1>1. D!TypeOK'
    BY StepIsDelivery, DeliveryNextTypeOK, TypeParts
  <1>. SUFFICES CallsTyped' /\ FilesTyped' /\ FilesTold'
    BY <1>1 DEF TypeOK, CallsTyped, FilesTyped
  <1>2. ASSUME NEW a \in Attachments, UploadAttachment(a) PROVE CallsTyped' /\ FilesTyped' /\ FilesTold'
    BY <1>2, UploadTypes
  <1>3. ASSUME NEW c \in Emails, Call(c) \/ CallFails(c) PROVE CallsTyped' /\ FilesTyped' /\ FilesTold'
    BY <1>3, CallTypes
  <1>4. ASSUME NEW w \in Workers, Handle(w) PROVE CallsTyped' /\ FilesTyped' /\ FilesTold'
    <2>1. CallsTyped' /\ FilesTold'
      BY <1>4, TypeParts DEF Handle, LoadAttachments, ReceiverTakes, OtherHandling, callVars, fileVars,
         uploadVars, CallsTyped, FilesTold
    <2>2. CASE LoadAttachments(w)
      BY <2>1, <2>2, TypeParts DEF LoadAttachments, FilesOf, FilesTyped, uploadVars
    <2>3. CASE ReceiverTakes(w)
      <3>1. loaded[w] \in SUBSET Attachments
        BY DEF TypeOK
      <3>2. QED
        BY <2>1, <2>3, <3>1, TypeParts DEF ReceiverTakes, FilesTyped, uploadVars
    <2>4. CASE OtherHandling(w)
      BY <2>1, <2>4, TypeParts DEF OtherHandling, FilesTyped, fileVars, uploadVars
    <2>5. QED
      BY <1>4, <2>1, <2>2, <2>3, <2>4 DEF Handle
  <1>5. CASE DeleteWorkspace
    BY <1>5, TypeParts DEF DeleteWorkspace, CallsTyped, FilesTyped, FilesTold, callVars, uploadVars
  <1>6. CASE UNCHANGED <<callVars, fileVars>>
    BY <1>6, TypeParts DEF CallsTyped, FilesTyped, FilesTold, callVars, fileVars, uploadVars
  <1>7. QED
    BY <1>2, <1>3, <1>4, <1>5, <1>6 DEF Next, vars

\* Every variable keeps its type, and only rows whose id a client was told have a message.
LEMMA TypesHold == Spec => [](TypeOK /\ FilesTold)
  BY InitTypeOK, NextTypeOK, PTL DEF Spec

THEOREM OutboundTypes == Spec => []TypeOK
  BY TypesHold, PTL

-----------------------------------------------------------------------------
(***************************************************************************)
(* One message per key.  A key belongs to the row that was first inserted  *)
(* with it, for ever: while the workspace is there the unique index keeps  *)
(* others out, afterwards nothing is inserted any more.  Whatever a call   *)
(* has found under its key is that row.                                    *)
(***************************************************************************)

Known(e) == status[e] # "absent"

KeyIsUnique ==
    \A e, f \in Emails :
        Known(e) /\ Known(f) /\ req[e].key = req[f].key /\ req[e].key # NoKey => e = f

FoundByKey ==
    \A c \in Emails : found[c] # NoEmail => Known(found[c]) /\ req[found[c]].key = req[c].key

KeyInv ==
    /\ open => \A e \in Emails : status[e] # "deleted"
    /\ ~open => \A e \in Emails : status[e] \notin D!Stored
    /\ KeyIsUnique
    /\ FoundByKey
    /\ \A c \in Emails : Accepted(c) => found[c] # NoEmail
    /\ \A c \in Emails : step[c] \in {"lookUp", "compare"} => req[c].key # NoKey

\* A row stays what it is or changes its status.
RowsKept == \A e \in Emails : status'[e] = status[e] \/ {status[e], status'[e]} \subseteq D!Stored

LEMMA HandlersKeepRows ==
  ASSUME TypeOK, NEW w \in Workers, D!Handle(w)
  PROVE  RowsKept
  <1>. D!TypeOK
    BY TypeParts
  <1>1. CASE \/ D!Load(w) \/ D!LoadAttachments(w) \/ D!ResolveDKIM(w) \/ D!ReceiverTakes(w)
             \/ D!SendSucceeds(w) \/ D!SendFails(w) \/ D!Ack(w) \/ D!Nack(w)
    BY <1>1 DEF D!Load, D!LoadAttachments, D!ResolveDKIM, D!ReceiverTakes, D!SendSucceeds, D!SendFails,
       D!Ack, D!Nack, D!rowVars, RowsKept
  <1>2. CASE D!Claim(w) \/ D!ClaimFails(w)
    BY <1>2 DEF D!Claim, D!ClaimFails, D!Claimable, D!Finish, D!rowVars, D!Stored, D!TypeOK, RowsKept
  <1>3. CASE D!RecordSent(w) \/ D!GiveUp(w) \/ D!RetryLater(w)
    BY <1>3 DEF D!RecordSent, D!GiveUp, D!RetryLater, D!Mark, D!Finish, D!rowVars, D!Stored, D!TypeOK, RowsKept
  <1>4. QED
    BY <1>1, <1>2, <1>3 DEF D!Handle

LEMMA QueueKeepsRows ==
  ASSUME D!Queue \/ D!Failure
  PROVE  RowsKept /\ UNCHANGED <<status, copies>>
  BY DEF D!Queue, D!Failure, D!ForwardRetry, D!Recover, D!Dequeue, D!LoseLease, D!Crash, D!Abort,
     D!rowVars, D!historyVars, D!sendVars, RowsKept

LEMMA KeptRowsKeepKeys ==
  ASSUME KeyInv, RowsKept, TypeOK, UNCHANGED <<callVars, open>>
  PROVE  KeyInv'
  <1>1. \A e \in Emails : /\ Known(e)' <=> Known(e)
                          /\ status'[e] = "deleted" <=> status[e] = "deleted"
                          /\ status'[e] \in D!Stored <=> status[e] \in D!Stored
    BY DEF RowsKept, Known, D!Stored
  <1>2. KeyIsUnique' /\ FoundByKey'
    BY <1>1 DEF KeyInv, KeyIsUnique, FoundByKey, callVars, TypeOK
  <1>3. QED
    BY <1>1, <1>2 DEF KeyInv, callVars, Accepted

\* A call that leaves the rows alone and finds nothing, or a row under its key.
LEMMA CallKeepsKeys ==
  ASSUME TypeOK, KeyInv, NEW c \in Emails, NEW s \in CallSteps, MoveTo(c, s),
         UNCHANGED <<status, open>>,
         \/ UNCHANGED found
         \/ \E e \in Emails : /\ Known(e) /\ req[e].key = req[c].key
                              /\ found' = [found EXCEPT ![c] = e],
         s \in {"accepted", "handedBack"} => found'[c] # NoEmail,
         s \in {"lookUp", "compare"} => req[c].key # NoKey
  PROVE  KeyInv'
  <1>1. /\ step' = [step EXCEPT ![c] = s] /\ req' = req
        /\ \A d \in Emails \ {c} : step'[d] = step[d] /\ found'[d] = found[d]
        /\ step'[c] = s
    BY DEF MoveTo, TypeOK
  <1>2. \A e \in Emails : Known(e)' <=> Known(e)
    BY DEF Known
  <1>3. KeyIsUnique'
    BY <1>1, <1>2 DEF KeyInv, KeyIsUnique
  <1>4. FoundByKey'
    <2>1. ASSUME NEW d \in Emails, found'[d] # NoEmail
          PROVE  found'[d] \in Emails /\ Known(found'[d]) /\ req[found'[d]].key = req[d].key
      BY <1>1, <2>1 DEF KeyInv, FoundByKey, TypeOK
    <2>2. QED
      BY <1>1, <2>1 DEF FoundByKey, Known
  <1>5. \A d \in Emails : Accepted(d)' => found'[d] # NoEmail
    BY <1>1 DEF KeyInv, Accepted
  <1>6. \A d \in Emails : step'[d] \in {"lookUp", "compare"} => req'[d].key # NoKey
    BY <1>1 DEF KeyInv
  <1>7. QED
    BY <1>3, <1>4, <1>5, <1>6 DEF KeyInv

\* A row is found under a key that is one.
LEMMA RowsUnderKey ==
  ASSUME NEW c \in Emails, NEW e \in RowsWithKey(req[c].key)
  PROVE  e \in Emails /\ Known(e) /\ status[e] \in D!Stored /\ req[e].key = req[c].key /\ req[c].key # NoKey
  BY DEF RowsWithKey, Known, D!Stored

LEMMA CallKeyInv ==
  ASSUME TypeOK, KeyInv, NEW c \in Emails, Call(c) \/ CallFails(c)
  PROVE  KeyInv'
  <1>. USE DEF CallSteps, Ended
  <1>1. CASE Arrive(c)
    <2>1. UNCHANGED <<status, found, open>>
      BY <1>1 DEF Arrive, deliveryVars, fileVars
    <2>2. QED
      BY <1>1, <2>1, CallKeepsKeys DEF Arrive
  <1>2. CASE LookUp(c)
    <2>1. UNCHANGED <<status, open>> /\ step[c] = "lookUp"
      BY <1>2 DEF LookUp, deliveryVars, fileVars
    <2>2. CASE MoveTo(c, "resolve") /\ UNCHANGED found
      BY <2>1, <2>2, CallKeepsKeys
    <2>3. ASSUME NEW e \in RowsWithKey(req[c].key), found' = [found EXCEPT ![c] = e],
                 NEW s \in {"compare", "refused"}, MoveTo(c, s)
          PROVE  KeyInv'
      BY <2>1, <2>3, RowsUnderKey, CallKeepsKeys
    <2>4. QED
      BY <1>2, <2>2, <2>3 DEF LookUp
  <1>3. CASE Compare(c) \/ Resolve(c) \/ CallFails(c)
    <2>1. UNCHANGED <<status, found, open>>
      BY <1>3 DEF Compare, Resolve, CallFails, deliveryVars, fileVars
    <2>2. \E s \in CallSteps \ {"handedBack", "lookUp", "compare"} :
             MoveTo(c, s) /\ (s = "accepted" => step[c] = "compare")
      BY <1>3 DEF Compare, Resolve, CallFails
    <2>3. step[c] = "compare" => found[c] # NoEmail
      BY DEF TypeOK
    <2>4. QED
      BY <2>1, <2>2, <2>3, CallKeepsKeys
  <1>4. CASE Create(c)
    <2>1. CASE UNCHANGED <<deliveryVars, found>>
      <3>1. UNCHANGED <<status, found, open>>
        BY <1>4, <2>1 DEF Create, deliveryVars, fileVars
      <3>2. \E s \in {"enqueue", "attach", "reread", "failed"} : MoveTo(c, s)
        BY <1>4 DEF Create
      <3>3. QED
        BY <3>1, <3>2, CallKeepsKeys
    <2>2. CASE open /\ RowsWithKey(req[c].key) = {} /\ D!Create(c) /\ found' = [found EXCEPT ![c] = c]
      <3>1. /\ status[c] = "absent" /\ status' = [status EXCEPT ![c] = "queued"]
            /\ open' = open /\ req' = req
            /\ \E s \in {"enqueue", "attach"} : step' = [step EXCEPT ![c] = s]
        BY <1>4, <2>2 DEF Create, D!Create, D!CreateRow, MoveTo, fileVars
      <3>2. /\ \A e \in Emails \ {c} : Known(e)' <=> Known(e)
            /\ Known(c)'
            /\ \A e \in Emails : status'[e] # "deleted"
        BY <2>2, <3>1 DEF Known, KeyInv, TypeOK, D!TypeOK
      <3>3. \A e \in Emails : Known(e) => req[e].key # req[c].key \/ req[c].key = NoKey
        BY <2>2 DEF Known, KeyInv, RowsWithKey, TypeOK, D!TypeOK
      <3>4. KeyIsUnique'
        BY <3>1, <3>2, <3>3 DEF KeyInv, KeyIsUnique
      <3>5. FoundByKey'
        BY <2>2, <3>1, <3>2 DEF KeyInv, FoundByKey, TypeOK
      <3>6. \A d \in Emails : Accepted(d)' => found'[d] # NoEmail
        BY <2>2, <3>1 DEF KeyInv, Accepted, TypeOK
      <3>7. \A d \in Emails : step'[d] \in {"lookUp", "compare"} => req'[d].key # NoKey
        BY <3>1 DEF KeyInv, TypeOK
      <3>8. QED
        BY <2>2, <3>1, <3>2, <3>4, <3>5, <3>6, <3>7 DEF KeyInv
    <2>3. QED
      BY <1>4, <2>1, <2>2 DEF Create
  <1>5. CASE Reread(c)
    <2>1. UNCHANGED <<status, open>>
      BY <1>5 DEF Reread, deliveryVars, fileVars
    <2>2. CASE MoveTo(c, "failed") /\ UNCHANGED found
      BY <2>1, <2>2, CallKeepsKeys
    <2>3. ASSUME NEW e \in RowsWithKey(req[c].key), found' = [found EXCEPT ![c] = e], MoveTo(c, "handedBack")
          PROVE  KeyInv'
      <3>1. found'[c] # NoEmail
        BY <2>3, RowsUnderKey, OutboundAssumption DEF TypeOK
      <3>2. QED
        BY <2>1, <2>3, <3>1, RowsUnderKey, CallKeepsKeys
    <2>4. QED
      BY <1>5, <2>2, <2>3 DEF Reread
  <1>6. CASE Attach(c)
    <2>1. UNCHANGED <<status, found, open>>
      BY <1>6 DEF Attach, deliveryVars
    <2>2. \E s \in {"enqueue", "refused"} : MoveTo(c, s)
      BY <1>6 DEF Attach
    <2>3. QED
      BY <2>1, <2>2, CallKeepsKeys
  <1>7. CASE Enqueue(c)
    <2>1. UNCHANGED <<status, found, open>> /\ found[c] # NoEmail
      BY <1>7 DEF Enqueue, D!EnqueueSend, D!rowVars, fileVars, TypeOK
    <2>2. \E s \in {"accepted", "failed"} : MoveTo(c, s)
      BY <1>7 DEF Enqueue
    <2>3. QED
      BY <2>1, <2>2, CallKeepsKeys
  <1>8. QED
    BY <1>1, <1>2, <1>3, <1>4, <1>5, <1>6, <1>7 DEF Call

LEMMA DeletionKeepsKeys ==
  ASSUME TypeOK, KeyInv, DeleteWorkspace
  PROVE  KeyInv'
  <1>1. /\ \A e \in Emails : status'[e] = IF status[e] \in D!Stored THEN "deleted" ELSE status[e]
        /\ UNCHANGED callVars /\ open' = FALSE
    BY DEF DeleteWorkspace, D!DeleteWorkspaces, D!ForgetRows, TypeOK, D!TypeOK
  <1>2. \A e \in Emails : (Known(e)' <=> Known(e)) /\ status'[e] \notin D!Stored
    BY <1>1 DEF Known, D!Stored
  <1>3. KeyIsUnique' /\ FoundByKey'
    BY <1>1, <1>2 DEF KeyInv, KeyIsUnique, FoundByKey, callVars, TypeOK
  <1>4. QED
    BY <1>1, <1>2, <1>3 DEF KeyInv, callVars, Accepted

LEMMA InitKeyInv == Init => KeyInv
  BY DEF Init, D!Init, KeyInv, KeyIsUnique, FoundByKey, Known, Accepted, D!Stored

LEMMA NextKeyInv == TypeOK /\ KeyInv /\ [Next]_vars => KeyInv'
  <1>. SUFFICES ASSUME TypeOK, KeyInv, [Next]_vars PROVE KeyInv'
    OBVIOUS
  <1>1. ASSUME NEW a \in Attachments, UploadAttachment(a) PROVE KeyInv'
    <2>1. UNCHANGED <<status, callVars, open>>
      BY <1>1 DEF UploadAttachment, Put, InsertAttachment, CleanUp, UploadAt, deliveryVars
    <2>2. QED
      BY <2>1, KeptRowsKeepKeys DEF RowsKept
  <1>2. ASSUME NEW c \in Emails, Call(c) \/ CallFails(c) PROVE KeyInv'
    BY <1>2, CallKeyInv
  <1>3. ASSUME NEW w \in Workers, Handle(w) PROVE KeyInv'
    <2>1. D!Handle(w) /\ UNCHANGED <<callVars, open>>
      BY <1>3 DEF Handle, LoadAttachments, ReceiverTakes, OtherHandling, D!Handle, fileVars
    <2>2. QED
      BY <2>1, HandlersKeepRows, KeptRowsKeepKeys
  <1>4. CASE (D!Queue \/ D!Failure) /\ UNCHANGED <<callVars, fileVars>>
    BY <1>4, QueueKeepsRows, KeptRowsKeepKeys DEF fileVars
  <1>5. CASE DeleteWorkspace
    BY <1>5, DeletionKeepsKeys
  <1>6. CASE UNCHANGED vars
    <2>1. UNCHANGED <<status, callVars, open>>
      BY <1>6 DEF vars, deliveryVars, fileVars
    <2>2. QED
      BY <2>1, KeptRowsKeepKeys DEF RowsKept
  <1>7. QED
    BY <1>1, <1>2, <1>3, <1>4, <1>5, <1>6 DEF Next

LEMMA KeysHold == Spec => []KeyInv
  BY TypesHold, InitKeyInv, NextKeyInv, PTL DEF Spec

LEMMA KeyInvDecides == TypeOK /\ KeyInv => OneMessagePerKey
  BY DEF KeyInv, KeyIsUnique, FoundByKey, OneMessagePerKey, TypeOK

\* Calls answered under one idempotency key are answered with one message, however many
\* there are and however their lookups and inserts interleave.
THEOREM OneMessage == Spec => []OneMessagePerKey
  BY TypesHold, KeysHold, KeyInvDecides, PTL

-----------------------------------------------------------------------------
(* What the steps of the queue and the handlers do to messages under way.   *)

\* The worker has read the files and not sent them.
Carries(w) == pc[w] \in {"sign", "send"}

Underway(e) ==
    \/ task[e] # "none"
    \/ \E w \in Workers : pc[w] # "idle" /\ job[w] = e
    \/ copies[e] > 0

\* Nothing is started or carried that was not before.
NothingNew ==
    /\ \A e \in Emails : Underway(e)' => Underway(e)
    /\ \A w \in Workers : Carries(w)' => Carries(w) /\ job'[w] = job[w]

\* A handler's step that leaves the queue alone.
LEMMA HandlerMoves ==
  ASSUME TypeOK, NEW w \in Workers, NEW s \in D!Steps, D!GoTo(w, s), pc[w] # "idle",
         s \in {"sign", "send"} => Carries(w), UNCHANGED copies
  PROVE  NothingNew
  <1>1. /\ pc' = [pc EXCEPT ![w] = s] /\ UNCHANGED <<job, task>>
        /\ pc \in [Workers -> D!Steps]
    BY DEF D!GoTo, D!queueVars, TypeOK, D!TypeOK
  <1>2. QED
    BY <1>1 DEF NothingNew, Underway, Carries

\* A handler that ends, leaving at most a task for its message.
LEMMA HandlerEnds ==
  ASSUME TypeOK, NEW w \in Workers, pc[w] # "idle", pc' = [pc EXCEPT ![w] = "idle"],
         UNCHANGED <<job, copies>>,
         \A e \in Emails \ {job[w]} : task'[e] = task[e]
  PROVE  NothingNew
  <1>1. /\ pc \in [Workers -> D!Steps] /\ job[w] \in Emails
        /\ \A v \in Workers \ {w} : pc'[v] = pc[v]
        /\ pc'[w] = "idle"
    BY DEF TypeOK, D!TypeOK
  <1>2. \A e \in Emails : Underway(e)' => Underway(e)
    BY <1>1 DEF Underway
  <1>3. QED
    BY <1>1, <1>2 DEF NothingNew, Carries

\* A retried or archived task was there, or has a handler.
LEMMA RetriesMove ==
  ASSUME TypeOK, NEW e \in Emails, D!RetryOrArchive(e)
  PROVE  \A f \in Emails \ {e} : task'[f] = task[f]
  BY DEF D!RetryOrArchive, TypeOK, D!TypeOK

LEMMA OtherHandlingMoves ==
  ASSUME TypeOK, NEW w \in Workers, OtherHandling(w)
  PROVE  NothingNew /\ UNCHANGED copies
  <1>1. UNCHANGED copies /\ pc[w] # "idle"
    BY DEF OtherHandling, D!Load, D!Claim, D!ClaimFails, D!ResolveDKIM, D!SendSucceeds, D!SendFails,
       D!RecordSent, D!GiveUp, D!RetryLater, D!Ack, D!Nack, D!sendVars, D!historyVars
  <1>2. CASE \/ D!Load(w) \/ D!Claim(w) \/ D!ClaimFails(w) \/ D!ResolveDKIM(w) \/ D!SendSucceeds(w)
             \/ D!SendFails(w) \/ D!RecordSent(w) \/ D!GiveUp(w) \/ D!RetryLater(w)
    <2>1. \E s \in D!Steps : D!GoTo(w, s) /\ (s \in {"sign", "send"} => Carries(w))
      BY <1>2 DEF D!Load, D!Claim, D!ClaimFails, D!ResolveDKIM, D!SendSucceeds, D!SendFails,
         D!RecordSent, D!GiveUp, D!RetryLater, D!Steps, Carries
    <2>2. QED
      BY <1>1, <2>1, HandlerMoves
  <1>3. CASE D!Ack(w) \/ D!Nack(w)
    <2>1. pc' = [pc EXCEPT ![w] = "idle"] /\ job' = job /\ job[w] \in Emails
      BY <1>1, <1>3 DEF D!Ack, D!Nack, TypeOK, D!TypeOK
    <2>2. \A e \in Emails \ {job[w]} : task'[e] = task[e]
      <3>1. task \in [Emails -> D!TaskStates]
        BY DEF TypeOK, D!TypeOK
      <3>2. CASE D!Ack(w)
        BY <2>1, <3>1, <3>2 DEF D!Ack
      <3>3. CASE D!Nack(w)
        <4>1. D!RetryOrArchive(job[w]) \/ UNCHANGED task
          BY <3>3 DEF D!Nack, D!queueVars
        <4>2. QED
          BY <2>1, <4>1, RetriesMove
      <3>4. QED
        BY <1>3, <3>2, <3>3
    <2>3. QED
      BY <1>1, <2>1, <2>2, HandlerEnds
  <1>4. QED
    BY <1>1, <1>2, <1>3 DEF OtherHandling

LEMMA QueueMoves ==
  ASSUME TypeOK, D!Queue \/ D!Failure
  PROVE  NothingNew /\ UNCHANGED copies
  <1>. UNCHANGED copies
    BY QueueKeepsRows
  <1>1. ASSUME NEW e \in Emails, D!ForwardRetry(e) \/ D!Recover(e) PROVE NothingNew
    <2>1. /\ task[e] # "none" /\ UNCHANGED <<pc, job>>
          /\ \A f \in Emails \ {e} : task'[f] = task[f]
      BY <1>1, RetriesMove DEF D!ForwardRetry, D!Recover, D!workerVars, TypeOK, D!TypeOK
    <2>2. QED
      BY <2>1 DEF NothingNew, Underway, Carries
  <1>2. ASSUME NEW w \in Workers, NEW e \in Emails, D!Dequeue(w, e) PROVE NothingNew
    <2>1. /\ task[e] # "none"
          /\ \A f \in Emails \ {e} : task'[f] = task[f]
          /\ \A v \in Workers \ {w} : pc'[v] = pc[v] /\ job'[v] = job[v]
          /\ pc'[w] = "load" /\ job'[w] = e
      BY <1>2 DEF D!Dequeue, TypeOK, D!TypeOK
    <2>2. QED
      BY <2>1 DEF NothingNew, Underway, Carries
  <1>3. ASSUME NEW w \in Workers, D!LoseLease(w) PROVE NothingNew
    <2>1. /\ pc[w] # "idle" /\ job[w] \in Emails /\ UNCHANGED <<pc, job>>
          /\ \A f \in Emails \ {job[w]} : task'[f] = task[f]
      BY <1>3, RetriesMove DEF D!LoseLease, D!workerVars, TypeOK, D!TypeOK
    <2>2. QED
      BY <2>1 DEF NothingNew, Underway, Carries
  <1>4. ASSUME NEW w \in Workers, D!Crash(w) \/ D!Abort(w) PROVE NothingNew
    <2>1. /\ pc[w] # "idle" /\ pc' = [pc EXCEPT ![w] = "idle"] /\ UNCHANGED job
          /\ \A f \in Emails \ {job[w]} : task'[f] = task[f]
      BY <1>4 DEF D!Crash, D!Abort, TypeOK, D!TypeOK
    <2>2. QED
      BY <2>1, HandlerEnds
  <1>5. QED
    BY <1>1, <1>2, <1>3, <1>4 DEF D!Queue, D!Failure

LEMMA LoadMoves ==
  ASSUME TypeOK, NEW w \in Workers, LoadAttachments(w)
  PROVE  /\ pc[w] = "prepare" /\ job[w] \in Emails
         /\ \A v \in Workers \ {w} : pc'[v] = pc[v] /\ loaded'[v] = loaded[v]
         /\ loaded'[w] = FilesOf(job[w])
         /\ pc'[w] \in {"sign", "giveUp"}
         /\ UNCHANGED <<job, task, copies, status, callVars, attachedTo, sentWith, open, uploadVars>>
  BY DEF LoadAttachments, D!LoadAttachments, D!GoTo, D!queueVars, D!rowVars, D!sendVars, TypeOK, D!TypeOK

LEMMA ReceiverMoves ==
  ASSUME TypeOK, NEW w \in Workers, ReceiverTakes(w)
  PROVE  /\ pc[w] = "send" /\ job[w] \in Emails
         /\ \A v \in Workers \ {w} : pc'[v] = pc[v]
         /\ pc'[w] = "answer"
         /\ \A e \in Emails \ {job[w]} : copies'[e] = copies[e] /\ sentWith'[e] = sentWith[e]
         /\ sentWith'[job[w]] = loaded[w]
         /\ UNCHANGED <<job, task, status, callVars, attachedTo, loaded, open, uploadVars>>
  BY DEF ReceiverTakes, D!ReceiverTakes, D!GoTo, D!queueVars, D!rowVars, TypeOK, D!TypeOK

-----------------------------------------------------------------------------
(***************************************************************************)
(* One message per file.  A file that is in a copy, or that a worker has   *)
(* read for one, is attached to that message while the workspace is there; *)
(* what was carried when it goes stays where it is.                        *)
(***************************************************************************)

InHand(a, e) ==
    \/ a \in sentWith[e]
    \/ \E w \in Workers : Carries(w) /\ job[w] = e /\ a \in loaded[w]

FileInv ==
    /\ \A e, f \in Emails : \A a \in Attachments : InHand(a, e) /\ InHand(a, f) => e = f
    /\ open => \A e \in Emails : \A a \in Attachments : InHand(a, e) => attachedTo[a] = e
    /\ ~open => \A a \in Attachments : attachedTo[a] = NoEmail

\* Nothing new in hand, and no file that has a message moves.
LEMMA FilesKept ==
  ASSUME FileInv, open' = open,
         \A e \in Emails, a \in Attachments : InHand(a, e)' => InHand(a, e),
         \A a \in Attachments : attachedTo[a] # NoEmail => attachedTo'[a] = attachedTo[a],
         ~open => UNCHANGED attachedTo
  PROVE  FileInv'
  BY OutboundAssumption DEF FileInv

LEMMA StillInHand ==
  ASSUME NothingNew, UNCHANGED <<loaded, sentWith>>
  PROVE  \A e \in Emails, a \in Attachments : InHand(a, e)' => InHand(a, e)
  BY DEF NothingNew, InHand

LEMMA HandleFileInv ==
  ASSUME TypeOK, FileInv, NEW w \in Workers, Handle(w)
  PROVE  FileInv'
  <1>1. CASE LoadAttachments(w)
    <2>1. \A e \in Emails, a \in Attachments :
             InHand(a, e)' => InHand(a, e) \/ (e = job[w] /\ attachedTo[a] = e)
      BY <1>1, LoadMoves DEF InHand, Carries, FilesOf
    <2>2. UNCHANGED <<attachedTo, open>>
      BY <1>1, LoadMoves
    <2>3. CASE open
      BY <2>1, <2>2, <2>3 DEF FileInv
    <2>4. CASE ~open
      BY <2>1, <2>2, <2>4, OutboundAssumption DEF FileInv
    <2>5. QED
      BY <2>3, <2>4
  <1>2. CASE ReceiverTakes(w)
    <2>1. \A e \in Emails, a \in Attachments : InHand(a, e)' => InHand(a, e)
      BY <1>2, ReceiverMoves DEF InHand, Carries
    <2>2. QED
      BY <1>2, <2>1, ReceiverMoves, FilesKept
  <1>3. CASE OtherHandling(w)
    BY <1>3, OtherHandlingMoves, StillInHand, FilesKept DEF OtherHandling, fileVars
  <1>4. QED
    BY <1>1, <1>2, <1>3 DEF Handle

LEMMA CallFileInv ==
  ASSUME TypeOK, FileInv, NEW c \in Emails, Call(c) \/ CallFails(c)
  PROVE  FileInv'
  <1>1. UNCHANGED <<pc, job, loaded, sentWith, open>>
    BY DEF Call, Arrive, LookUp, Compare, Resolve, Create, Reread, Attach, Enqueue, CallFails, D!Create,
       D!EnqueueSend, D!workerVars, deliveryVars, fileVars
  <1>2. \A e \in Emails, a \in Attachments : InHand(a, e)' <=> InHand(a, e)
    BY <1>1 DEF InHand, Carries
  <1>3. CASE Attach(c)
    <2>1. \A a \in Attachments : /\ attachedTo[a] # NoEmail => attachedTo'[a] = attachedTo[a]
                                 /\ ~open => attachedTo'[a] = attachedTo[a]
      BY <1>3 DEF Attach, Free
    <2>2. QED
      BY <1>1, <1>2, <2>1, OutboundAssumption DEF FileInv
  <1>4. CASE ~Attach(c)
    <2>1. attachedTo' = attachedTo
      BY <1>4 DEF Call, Arrive, LookUp, Compare, Resolve, Create, Reread, Enqueue, CallFails, fileVars
    <2>2. QED
      BY <1>1, <1>2, <2>1, FilesKept
  <1>5. QED
    BY <1>3, <1>4

LEMMA InitFileInv == Init => FileInv
  BY DEF Init, D!Init, FileInv, InHand, Carries

LEMMA NextFileInv == TypeOK /\ FileInv /\ [Next]_vars => FileInv'
  <1>. SUFFICES ASSUME TypeOK, FileInv, [Next]_vars PROVE FileInv'
    OBVIOUS
  <1>1. CASE \/ UNCHANGED vars
             \/ \E a \in Attachments : UploadAttachment(a)
    <2>1. UNCHANGED <<pc, job, loaded, sentWith, attachedTo, open>>
      BY <1>1 DEF vars, UploadAttachment, Put, InsertAttachment, CleanUp, UploadAt, deliveryVars, fileVars
    <2>2. \A e \in Emails, a \in Attachments : InHand(a, e)' <=> InHand(a, e)
      BY <2>1 DEF InHand, Carries
    <2>3. QED
      BY <2>1, <2>2, FilesKept
  <1>2. ASSUME NEW c \in Emails, Call(c) \/ CallFails(c) PROVE FileInv'
    BY <1>2, CallFileInv
  <1>3. ASSUME NEW w \in Workers, Handle(w) PROVE FileInv'
    BY <1>3, HandleFileInv
  <1>4. CASE (D!Queue \/ D!Failure) /\ UNCHANGED <<callVars, fileVars>>
    BY <1>4, QueueMoves, StillInHand, FilesKept DEF fileVars
  <1>5. CASE DeleteWorkspace
    <2>1. /\ UNCHANGED <<pc, job, loaded, sentWith>> /\ open' = FALSE
          /\ \A a \in Attachments : attachedTo'[a] = NoEmail
      BY <1>5 DEF DeleteWorkspace, D!DeleteWorkspaces, D!workerVars
    <2>2. \A e \in Emails, a \in Attachments : InHand(a, e)' <=> InHand(a, e)
      BY <2>1 DEF InHand, Carries
    <2>3. QED
      BY <2>1, <2>2 DEF FileInv
  <1>6. QED
    BY <1>1, <1>2, <1>3, <1>4, <1>5 DEF Next

LEMMA FilesHold == Spec => []FileInv
  BY TypesHold, InitFileInv, NextFileInv, PTL DEF Spec

LEMMA FileInvDecides == TypeOK /\ FileInv => FileSentOnce
  BY DEF FileInv, FileSentOnce, InHand, TypeOK

\* A file goes out in one message at most, whatever requests name it and however many
\* workers carry them out.
THEOREM FileOnce == Spec => []FileSentOnce
  BY TypesHold, FilesHold, FileInvDecides, PTL

-----------------------------------------------------------------------------
(***************************************************************************)
(* Whole messages.  A task is only asked for a row whose files are all     *)
(* attached: by the call that attached them, or by one that compared its   *)
(* own request with them, which says the same when a key always comes with *)
(* the same files.  Nothing is detached while the workspace is there.      *)
(***************************************************************************)

SameFilesUnderKey == \A r, s \in Requests : r.key = s.key /\ r.key # NoKey => r.files = s.files

Whole(e) == FilesOf(e) = req[e].files

OwnFilesOnly == \A a \in Attachments : attachedTo[a] # NoEmail => a \in req[attachedTo[a]].files

CarriedWhole ==
    /\ \A e \in Emails : Underway(e) => Whole(e)
    /\ \A c \in Emails : step[c] \in {"enqueue", "reEnqueue"} => Whole(found[c])
    /\ \A w \in Workers : Carries(w) => loaded[w] = req[job[w]].files
    /\ \A e \in Emails : copies[e] > 0 => sentWith[e] = req[e].files

WholeInv ==
    /\ \A e \in Emails : Underway(e) => Known(e)
    /\ \A c \in Emails : step[c] = "attach" => found[c] = c
    /\ OwnFilesOnly
    /\ open => CarriedWhole

\* Nothing is started, carried or about to be enqueued that was not before.
LEMMA WholeKept ==
  ASSUME WholeInv, UNCHANGED <<open, req, attachedTo, sentWith, copies>>,
         NothingNew, \A w \in Workers : Carries(w)' => loaded'[w] = loaded[w],
         \A e \in Emails : Known(e) => Known(e)',
         \A c \in Emails :
            /\ step'[c] \in {"enqueue", "reEnqueue"} => step'[c] = step[c] /\ found'[c] = found[c]
            /\ step'[c] = "attach" => found'[c] = c
  PROVE  WholeInv'
  <1>1. \A e \in Emails : Underway(e)' => Underway(e)
    BY DEF NothingNew
  <1>2. \A e : Whole(e)' <=> Whole(e)
    BY DEF Whole, FilesOf
  <1>3. OwnFilesOnly'
    BY DEF WholeInv, OwnFilesOnly
  <1>4. open => CarriedWhole'
    BY <1>1, <1>2 DEF WholeInv, CarriedWhole, NothingNew
  <1>5. QED
    BY <1>1, <1>3, <1>4 DEF WholeInv

\* Steps of the calls that start nothing: no handler moves, no task appears.
LEMMA CallsKeepWhole ==
  ASSUME TypeOK, WholeInv, NEW c \in Emails, MoveTo(c, step'[c]),
         UNCHANGED <<open, attachedTo, sentWith, loaded, copies, pc, job, task>>,
         \A e \in Emails : Known(e) => Known(e)',
         \A d \in Emails \ {c} : found'[d] = found[d],
         step'[c] \in {"enqueue", "reEnqueue"} => Whole(found'[c]),
         step'[c] = "attach" => found'[c] = c
  PROVE  WholeInv'
  <1>1. /\ req' = req
        /\ \A d \in Emails \ {c} : step'[d] = step[d]
    BY DEF MoveTo, TypeOK
  <1>2. /\ \A e \in Emails : Underway(e)' <=> Underway(e)
        /\ \A w \in Workers : Carries(w)' <=> Carries(w)
    BY DEF Underway, Carries
  <1>3. \A e : Whole(e)' <=> Whole(e)
    BY <1>1 DEF Whole, FilesOf
  <1>4. OwnFilesOnly'
    BY <1>1 DEF WholeInv, OwnFilesOnly
  <1>5. open => CarriedWhole'
    <2>. SUFFICES ASSUME open PROVE CarriedWhole'
      OBVIOUS
    <2>1. \A d \in Emails : step'[d] \in {"enqueue", "reEnqueue"} => Whole(found[d])'
      <3>1. ASSUME NEW d \in Emails, step'[d] \in {"enqueue", "reEnqueue"} PROVE Whole(found'[d])
        BY <1>1, <3>1 DEF WholeInv, CarriedWhole
      <3>2. QED
        BY <1>1, <3>1 DEF Whole, FilesOf
    <2>2. QED
      BY <1>1, <1>2, <1>3, <2>1 DEF WholeInv, CarriedWhole
  <1>6. QED
    BY <1>1, <1>2, <1>4, <1>5 DEF WholeInv

LEMMA CallWholeInv ==
  ASSUME SameFilesUnderKey, TypeOK, KeyInv, WholeInv, NEW c \in Emails, Call(c) \/ CallFails(c)
  PROVE  WholeInv'
  <1>1. CASE Arrive(c) \/ LookUp(c) \/ Resolve(c) \/ Reread(c) \/ CallFails(c)
    <2>1. UNCHANGED <<status, open, attachedTo, sentWith, loaded, copies, pc, job, task>>
      BY <1>1 DEF Arrive, LookUp, Resolve, Reread, CallFails, deliveryVars, fileVars
    <2>2. /\ \A d \in Emails \ {c} : found'[d] = found[d]
          /\ \E s \in CallSteps \ {"enqueue", "reEnqueue", "attach"} : MoveTo(c, s)
      BY <1>1 DEF Arrive, LookUp, Resolve, Reread, CallFails, CallSteps, Ended, TypeOK
    <2>3. MoveTo(c, step'[c]) /\ step'[c] \notin {"enqueue", "reEnqueue", "attach"}
      BY <2>2 DEF MoveTo, TypeOK
    <2>4. QED
      BY <2>1, <2>2, <2>3, CallsKeepWhole DEF Known
  <1>2. CASE Compare(c)
    <2>1. /\ UNCHANGED <<status, found, open, attachedTo, sentWith, loaded, copies, pc, job, task>>
          /\ step[c] = "compare"
      BY <1>2 DEF Compare, deliveryVars, fileVars
    <2>2. /\ MoveTo(c, step'[c])
          /\ step'[c] \in {"refused", "reEnqueue", "accepted"}
          /\ step'[c] = "reEnqueue" => FilesOf(found[c]) = req[c].files
      BY <1>2 DEF Compare, MoveTo, TypeOK
    <2>3. req[found[c]].files = req[c].files
      <3>1. /\ found[c] \in Emails /\ req[found[c]].key = req[c].key /\ req[c].key # NoKey
        BY <2>1 DEF KeyInv, FoundByKey, TypeOK
      <3>2. QED
        BY <3>1 DEF SameFilesUnderKey, TypeOK
    <2>4. QED
      BY <2>1, <2>2, <2>3, CallsKeepWhole DEF Known, Whole
  <1>3. CASE Create(c)
    <2>1. UNCHANGED <<open, attachedTo, sentWith, loaded, copies, pc, job, task>>
      BY <1>3 DEF Create, D!Create, D!queueVars, D!workerVars, D!historyVars, D!sendVars, deliveryVars,
         fileVars
    <2>2. /\ \A e \in Emails : Known(e) => Known(e)'
          /\ \A d \in Emails \ {c} : found'[d] = found[d]
      BY <1>3 DEF Create, D!Create, D!CreateRow, deliveryVars, Known, TypeOK, D!TypeOK
    <2>3. /\ MoveTo(c, step'[c])
          /\ \/ step'[c] \in {"reread", "failed"}
             \/ step'[c] = "attach" /\ found'[c] = c
             \/ step'[c] = "enqueue" /\ found'[c] = c /\ req[c].files = {}
      BY <1>3 DEF Create, MoveTo, TypeOK
    <2>4. req[c].files = {} => Whole(c)
      BY OutboundAssumption DEF WholeInv, OwnFilesOnly, Whole, FilesOf
    <2>5. QED
      BY <2>1, <2>2, <2>3, <2>4, CallsKeepWhole
  <1>4. CASE Attach(c)
    <2>1. /\ UNCHANGED <<open, sentWith, loaded, copies, pc, job, task, status, found>>
          /\ step[c] = "attach"
      BY <1>4 DEF Attach, deliveryVars
    <2>2. /\ MoveTo(c, step'[c]) /\ req' = req
          /\ step'[c] \in {"refused", "enqueue"}
          /\ step'[c] = "enqueue" => \A a \in req[c].files : Free(a)
          /\ \A d \in Emails \ {c} : step'[d] = step[d]
      BY <1>4 DEF Attach, MoveTo, TypeOK
    <2>3. /\ \A a \in Attachments :
                \/ attachedTo'[a] = attachedTo[a]
                \/ attachedTo'[a] = c /\ attachedTo[a] = NoEmail /\ a \in req[c].files
          /\ \A a \in req[c].files : Free(a) => attachedTo'[a] = c
      BY <1>4, RequestFiles DEF Attach, Free
    <2>4. OwnFilesOnly'
      BY <2>2, <2>3 DEF WholeInv, OwnFilesOnly
    <2>5. \A e \in Emails : Whole(e) => Whole(e)'
      <3>1. ASSUME NEW e \in Emails, Whole(e) PROVE FilesOf(e)' = req[e].files
        <4>1. \A a \in Attachments : attachedTo'[a] = e => a \in req[e].files
          BY <2>3, <3>1 DEF Whole, FilesOf
        <4>2. \A a \in req[e].files : a \in Attachments /\ attachedTo'[a] = e
          BY <2>3, <3>1, OutboundAssumption DEF Whole, FilesOf
        <4>3. QED
          BY <4>1, <4>2 DEF FilesOf
      <3>2. QED
        BY <2>2, <3>1 DEF Whole
    <2>6. step'[c] = "enqueue" => found[c] = c /\ Whole(c)'
      <3>. SUFFICES ASSUME step'[c] = "enqueue" PROVE FilesOf(c)' = req[c].files
        BY <2>1, <2>2 DEF WholeInv, Whole
      <3>1. \A a \in req[c].files : a \in Attachments /\ attachedTo'[a] = c
        BY <2>2, <2>3, RequestFiles
      <3>2. \A a \in Attachments : attachedTo'[a] = c => a \in req[c].files
        BY <2>2, <2>4, OutboundAssumption DEF OwnFilesOnly
      <3>3. QED
        BY <3>1, <3>2 DEF FilesOf
    <2>7. /\ \A e \in Emails : Underway(e)' <=> Underway(e)
          /\ \A w \in Workers : Carries(w)' <=> Carries(w)
          /\ \A e \in Emails : Known(e)' <=> Known(e)
      BY <2>1 DEF Underway, Carries, Known
    <2>8. open => CarriedWhole'
      <3>. SUFFICES ASSUME open PROVE CarriedWhole'
        OBVIOUS
      <3>1. \A d \in Emails : step'[d] \in {"enqueue", "reEnqueue"} => Whole(found[d])'
        <4>1. ASSUME NEW d \in Emails \ {c}, step'[d] \in {"enqueue", "reEnqueue"} PROVE Whole(found[d])'
          <5>1. found[d] \in Emails /\ Whole(found[d]) /\ found'[d] = found[d]
            BY <2>1, <2>2, <4>1 DEF WholeInv, CarriedWhole, TypeOK
          <5>2. PICK e \in Emails : e = found[d]
            BY <5>1
          <5>3. Whole(e)'
            BY <2>5, <5>1, <5>2
          <5>4. QED
            BY <5>1, <5>2, <5>3 DEF Whole, FilesOf
        <4>2. step'[c] = "enqueue" => Whole(found[c])'
          BY <2>1, <2>6 DEF Whole, FilesOf
        <4>3. QED
          BY <2>2, <4>1, <4>2
      <3>2. \A e \in Emails : Underway(e)' => Whole(e)'
        BY <2>5, <2>7 DEF WholeInv, CarriedWhole
      <3>3. QED
        BY <2>1, <2>2, <2>7, <3>1, <3>2 DEF WholeInv, CarriedWhole
    <2>9. QED
      BY <2>1, <2>2, <2>4, <2>7, <2>8 DEF WholeInv
  <1>5. CASE Enqueue(c)
    <2>1. /\ UNCHANGED <<open, attachedTo, sentWith, loaded, copies, pc, job, status, found>>
          /\ step[c] \in {"enqueue", "reEnqueue"} /\ found[c] \in Emails
          /\ \A e \in Emails \ {found[c]} : task'[e] = task[e]
      BY <1>5 DEF Enqueue, D!EnqueueSend, D!rowVars, D!workerVars, D!sendVars, fileVars, uploadVars, TypeOK,
         D!TypeOK
    <2>2. /\ req' = req
          /\ step'[c] \in {"accepted", "failed"}
          /\ \A d \in Emails \ {c} : step'[d] = step[d]
      BY <1>5 DEF Enqueue, MoveTo, TypeOK
    <2>3. Known(found[c])
      BY <2>1, OutboundAssumption DEF KeyInv, FoundByKey
    <2>4. /\ \A e \in Emails \ {found[c]} : Underway(e)' => Underway(e)
          /\ \A w \in Workers : Carries(w)' <=> Carries(w)
          /\ \A e \in Emails : Known(e)' <=> Known(e)
      BY <2>1 DEF Underway, Carries, Known
    <2>5. \A e : Whole(e)' <=> Whole(e)
      BY <2>1, <2>2 DEF Whole, FilesOf
    <2>6. OwnFilesOnly'
      BY <2>1, <2>2 DEF WholeInv, OwnFilesOnly
    <2>7. open => CarriedWhole'
      <3>. SUFFICES ASSUME open PROVE CarriedWhole'
        OBVIOUS
      <3>1. \A e \in Emails : Underway(e)' => Whole(e)'
        BY <2>1, <2>4, <2>5 DEF WholeInv, CarriedWhole
      <3>2. QED
        BY <2>1, <2>2, <2>4, <2>5, <3>1 DEF WholeInv, CarriedWhole
    <2>8. QED
      BY <2>1, <2>2, <2>3, <2>4, <2>6, <2>7 DEF WholeInv
  <1>6. QED
    BY <1>1, <1>2, <1>3, <1>4, <1>5 DEF Call

LEMMA HandleWholeInv ==
  ASSUME TypeOK, WholeInv, NEW w \in Workers, Handle(w)
  PROVE  WholeInv'
  <1>1. /\ UNCHANGED <<callVars, open, attachedTo>>
        /\ \A e \in Emails : Known(e)' <=> Known(e)
    <2>1. D!Handle(w)
      BY DEF Handle, LoadAttachments, ReceiverTakes, OtherHandling, D!Handle
    <2>2. QED
      BY <2>1, HandlersKeepRows DEF RowsKept, Known, D!Stored, Handle, LoadAttachments, ReceiverTakes,
         OtherHandling, fileVars
  <1>2. CASE OtherHandling(w)
    BY <1>1, <1>2, OtherHandlingMoves, WholeKept DEF OtherHandling, fileVars, callVars, WholeInv
  <1>3. UNCHANGED <<step, req, found>>
    BY <1>1 DEF callVars
  <1>4. \A e : Whole(e)' <=> Whole(e)
    BY <1>1, <1>3 DEF Whole, FilesOf
  <1>5. OwnFilesOnly'
    BY <1>1, <1>3 DEF WholeInv, OwnFilesOnly
  <1>6. CASE LoadAttachments(w)
    <2>1. \A e \in Emails : Underway(e)' => Underway(e)
      BY <1>6, LoadMoves DEF Underway
    <2>2. open => \A v \in Workers : Carries(v)' => loaded'[v] = req[job[v]].files
      <3>1. Underway(job[w])
        BY <1>6, LoadMoves DEF Underway
      <3>2. QED
        BY <1>6, <3>1, LoadMoves DEF WholeInv, CarriedWhole, Whole, Carries
    <2>3. open => CarriedWhole'
      BY <1>3, <1>4, <1>6, <2>1, <2>2, LoadMoves DEF WholeInv, CarriedWhole
    <2>4. QED
      BY <1>1, <1>3, <1>5, <2>1, <2>3 DEF WholeInv
  <1>7. CASE ReceiverTakes(w)
    <2>1. \A e \in Emails : Underway(e)' => Underway(e)
      BY <1>7, ReceiverMoves DEF Underway
    <2>2. open => \A v \in Workers : Carries(v)' => loaded'[v] = req[job[v]].files
      BY <1>7, ReceiverMoves DEF WholeInv, CarriedWhole, Carries
    <2>3. open => \A e \in Emails : copies'[e] > 0 => sentWith'[e] = req[e].files
      <3>1. Carries(w)
        BY <1>7, ReceiverMoves DEF Carries
      <3>2. open => sentWith'[job[w]] = req[job[w]].files
        BY <1>7, <3>1, ReceiverMoves DEF WholeInv, CarriedWhole
      <3>3. open => \A e \in Emails \ {job[w]} : copies'[e] > 0 => sentWith'[e] = req[e].files
        BY <1>7, ReceiverMoves DEF WholeInv, CarriedWhole
      <3>4. QED
        BY <3>2, <3>3
    <2>4. open => CarriedWhole'
      BY <1>1, <1>3, <1>4, <1>7, <2>1, <2>2, <2>3, ReceiverMoves DEF WholeInv, CarriedWhole
    <2>5. QED
      BY <1>1, <1>3, <1>5, <2>1, <2>4 DEF WholeInv
  <1>8. QED
    BY <1>2, <1>6, <1>7 DEF Handle

LEMMA InitWholeInv == Init => WholeInv
  BY DEF Init, D!Init, WholeInv, CarriedWhole, OwnFilesOnly, Underway, Carries

LEMMA NextWholeInv ==
  ASSUME SameFilesUnderKey
  PROVE  TypeOK /\ KeyInv /\ WholeInv /\ [Next]_vars => WholeInv'
  <1>. SUFFICES ASSUME TypeOK, KeyInv, WholeInv, [Next]_vars PROVE WholeInv'
    OBVIOUS
  <1>1. CASE \/ UNCHANGED vars
             \/ \E a \in Attachments : UploadAttachment(a)
    <2>1. UNCHANGED <<status, step, req, found, pc, job, task, copies, loaded, sentWith, attachedTo, open>>
      BY <1>1 DEF vars, UploadAttachment, Put, InsertAttachment, CleanUp, UploadAt, deliveryVars, callVars,
         fileVars
    <2>2. NothingNew
      BY <2>1 DEF NothingNew, Underway, Carries
    <2>3. QED
      BY <2>1, <2>2, WholeKept DEF Known, WholeInv
  <1>2. ASSUME NEW c \in Emails, Call(c) \/ CallFails(c) PROVE WholeInv'
    BY <1>2, CallWholeInv
  <1>3. ASSUME NEW w \in Workers, Handle(w) PROVE WholeInv'
    BY <1>3, HandleWholeInv
  <1>4. CASE (D!Queue \/ D!Failure) /\ UNCHANGED <<callVars, fileVars>>
    BY <1>4, QueueMoves, QueueKeepsRows, WholeKept DEF fileVars, callVars, Known, WholeInv
  <1>5. CASE DeleteWorkspace
    <2>1. /\ UNCHANGED <<step, found, req, pc, job, task, copies>> /\ open' = FALSE
          /\ \A a \in Attachments : attachedTo'[a] = NoEmail
          /\ \A e \in Emails : status[e] # "absent" => status'[e] # "absent"
      BY <1>5 DEF DeleteWorkspace, D!DeleteWorkspaces, D!ForgetRows, D!workerVars, D!queueVars, D!historyVars,
         D!sendVars, callVars
    <2>2. QED
      BY <2>1 DEF WholeInv, OwnFilesOnly, Underway, Known
  <1>6. QED
    BY <1>1, <1>2, <1>3, <1>4, <1>5 DEF Next

LEMMA WholeInvDecides == TypeOK /\ KeyInv /\ WholeInv => SentWhole
  <1>. SUFFICES ASSUME TypeOK, KeyInv, WholeInv, NEW e \in Emails, copies[e] > 0, status[e] # "deleted"
                PROVE  sentWith[e] = req[e].files
    BY DEF SentWhole
  <1>1. status[e] \in D!Stored
    BY DEF WholeInv, Underway, Known, TypeOK, D!TypeOK
  <1>2. open
    BY <1>1 DEF KeyInv, TypeOK
  <1>3. QED
    BY <1>2 DEF WholeInv, CarriedWhole

\* When a key always comes with the same files, the receiver gets every message with all
\* the files its request named.
THEOREM WholeMessages ==
  ASSUME SameFilesUnderKey
  PROVE  Spec => []SentWhole
  BY TypesHold, KeysHold, InitWholeInv, NextWholeInv, WholeInvDecides, PTL DEF Spec

-----------------------------------------------------------------------------
(***************************************************************************)
(* Refused messages.  A row is blocked from its insertion until its files  *)
(* are attached, and for good when they are not: nothing has begun with    *)
(* it, and a call that finds it sees other files than its own request.     *)
(***************************************************************************)

Blocked(c) == step[c] \in {"attach", "refused"}

\* Calls that queue the row they found, or were told it is accepted.
Queues(d) == step[d] \in {"enqueue", "reEnqueue", "accepted"}

RefusedInv ==
    /\ \A c \in Emails : step[c] \in {"idle", "lookUp", "compare", "resolve", "create"} => ~Known(c)
    /\ \A c \in Emails : step[c] = "attach" => FilesOf(c) = {} /\ req[c].files # {}
    /\ \A c \in Emails : Blocked(c) => ~Underway(c) /\ (Known(c) => ~Whole(c))
    /\ \A c, d \in Emails : Blocked(c) /\ Queues(d) => found[d] # c
    /\ \A a \in Attachments : attachedTo[a] # NoEmail => Known(attachedTo[a])

\* Steps that are no call's and start nothing.
LEMMA RefusedKept ==
  ASSUME TypeOK, RefusedInv, UNCHANGED <<step, found, req, attachedTo>>,
         \A e \in Emails : Known(e)' <=> Known(e),
         \A e \in Emails : Underway(e)' => Underway(e)
  PROVE  RefusedInv'
  <1>1. \A e \in Emails : /\ FilesOf(e)' = FilesOf(e)
                          /\ Whole(e)' <=> Whole(e)
                          /\ Blocked(e)' <=> Blocked(e)
                          /\ Queues(e)' <=> Queues(e)
    BY DEF FilesOf, Whole, Blocked, Queues
  <1>2. \A a \in Attachments : attachedTo[a] # NoEmail => attachedTo[a] \in Emails
    BY DEF TypeOK
  <1>3. QED
    BY <1>1, <1>2 DEF RefusedInv

\* Steps of one call that start nothing and attach nothing.
LEMMA CallKeepsRefused ==
  ASSUME TypeOK, RefusedInv, NEW c \in Emails, MoveTo(c, step'[c]),
         UNCHANGED <<attachedTo, copies, pc, job, task>>,
         \A e \in Emails : Known(e) => Known(e)',
         \A e \in Emails \ {c} : Known(e)' => Known(e),
         \A d \in Emails \ {c} : found'[d] = found[d],
         step'[c] \in {"idle", "lookUp", "compare", "resolve", "create"} => ~Known(c)',
         step'[c] = "attach" => FilesOf(c) = {} /\ req[c].files # {},
         Blocked(c)' => ~Underway(c) /\ (Known(c)' => ~Whole(c)),
         Blocked(c)' => \A d \in Emails \ {c} : Queues(d) => found[d] # c,
         Queues(c)' => \A e \in Emails \ {c} : Blocked(e) => found'[c] # e
  PROVE  RefusedInv'
  <1>1. /\ req' = req
        /\ \A d \in Emails \ {c} : step'[d] = step[d]
    BY DEF MoveTo, TypeOK
  <1>2. \A e \in Emails : /\ FilesOf(e)' = FilesOf(e)
                          /\ Whole(e)' <=> Whole(e)
                          /\ Underway(e)' <=> Underway(e)
    BY <1>1 DEF FilesOf, Whole, Underway
  <1>3. \A d \in Emails \ {c} : /\ Blocked(d)' <=> Blocked(d)
                                /\ Queues(d)' <=> Queues(d)
    BY <1>1 DEF Blocked, Queues
  <1>4. ~(Blocked(c)' /\ Queues(c)')
    BY DEF Blocked, Queues
  <1>5. \A e, d \in Emails : Blocked(e)' /\ Queues(d)' => found'[d] # e
    <2>1. ASSUME NEW e \in Emails, NEW d \in Emails, Blocked(e)', Queues(d)' PROVE found'[d] # e
      <3>1. CASE d = c
        BY <1>3, <1>4, <2>1, <3>1
      <3>2. CASE d # c /\ e = c
        BY <1>3, <2>1, <3>2
      <3>3. CASE d # c /\ e # c
        BY <1>3, <2>1, <3>3 DEF RefusedInv
      <3>4. QED
        BY <3>1, <3>2, <3>3
    <2>2. QED
      BY <2>1
  <1>6. \A a \in Attachments : attachedTo'[a] # NoEmail => Known(attachedTo[a])'
    <2>1. ASSUME NEW a \in Attachments, attachedTo[a] # NoEmail PROVE Known(attachedTo[a])'
      <3>1. PICK e \in Emails : e = attachedTo[a]
        BY <2>1 DEF TypeOK
      <3>2. Known(e)
        BY <2>1, <3>1 DEF RefusedInv
      <3>3. Known(e)'
        BY <3>2
      <3>4. QED
        BY <3>1, <3>3 DEF Known
    <2>2. QED
      BY <2>1 DEF Known
  <1>7. \A e \in Emails : Blocked(e)' => ~Underway(e)' /\ (Known(e)' => ~Whole(e)')
    BY <1>2, <1>3 DEF RefusedInv
  <1>8. \A e \in Emails : step'[e] = "attach" => FilesOf(e)' = {} /\ req'[e].files # {}
    BY <1>1, <1>2 DEF RefusedInv
  <1>9. \A e \in Emails :
           step'[e] \in {"idle", "lookUp", "compare", "resolve", "create"} => ~Known(e)'
    BY <1>1 DEF RefusedInv
  <1>10. QED
    BY <1>5, <1>6, <1>7, <1>8, <1>9 DEF RefusedInv

LEMMA CallRefusedInv ==
  ASSUME SameFilesUnderKey, TypeOK, KeyInv, WholeInv, RefusedInv, NEW c \in Emails, Call(c) \/ CallFails(c)
  PROVE  RefusedInv'
  <1>1. \A d \in Emails : Queues(d) => Known(found[d]) /\ found[d] # NoEmail
    BY DEF Queues, KeyInv, FoundByKey, Accepted, TypeOK
  <1>2. ~Known(c) => /\ ~Underway(c)
                     /\ FilesOf(c) = {}
                     /\ \A d \in Emails : Queues(d) => found[d] # c
    BY <1>1, OutboundAssumption DEF WholeInv, RefusedInv, FilesOf
  <1>3. CASE Arrive(c) \/ LookUp(c) \/ Resolve(c)
    <2>1. /\ UNCHANGED <<status, attachedTo, copies, pc, job, task>>
          /\ step[c] \in {"idle", "lookUp", "resolve"}
      BY <1>3 DEF Arrive, LookUp, Resolve, deliveryVars, fileVars
    <2>2. /\ \A d \in Emails \ {c} : found'[d] = found[d]
          /\ MoveTo(c, step'[c])
          /\ step'[c] \in {"lookUp", "resolve", "compare", "create", "refused"}
      BY <1>3 DEF Arrive, LookUp, Resolve, MoveTo, TypeOK
    <2>3. ~Known(c)
      BY <2>1 DEF RefusedInv
    <2>4. \A e \in Emails : Known(e)' <=> Known(e)
      BY <2>1 DEF Known
    <2>5. ~Queues(c)' /\ step'[c] # "attach"
      BY <2>2 DEF Queues
    <2>6. QED
      BY <1>2, <2>1, <2>2, <2>3, <2>4, <2>5, CallKeepsRefused
  <1>4. CASE Reread(c) \/ CallFails(c)
    <2>1. UNCHANGED <<status, attachedTo, copies, pc, job, task>>
      BY <1>4 DEF Reread, CallFails, deliveryVars, fileVars
    <2>2. /\ \A d \in Emails \ {c} : found'[d] = found[d]
          /\ MoveTo(c, step'[c])
          /\ step'[c] \in {"handedBack", "failed"}
      BY <1>4 DEF Reread, CallFails, MoveTo, TypeOK
    <2>3. \A e \in Emails : Known(e)' <=> Known(e)
      BY <2>1 DEF Known
    <2>4. ~Queues(c)' /\ ~Blocked(c)'
      BY <2>2 DEF Queues, Blocked
    <2>5. QED
      BY <2>1, <2>2, <2>3, <2>4, CallKeepsRefused
  <1>5. CASE Compare(c)
    <2>1. /\ UNCHANGED <<status, found, attachedTo, copies, pc, job, task>>
          /\ step[c] = "compare"
      BY <1>5 DEF Compare, deliveryVars, fileVars
    <2>2. /\ MoveTo(c, step'[c])
          /\ step'[c] \in {"refused", "reEnqueue", "accepted"}
          /\ step'[c] # "refused" => FilesOf(found[c]) = req[c].files
      BY <1>5 DEF Compare, MoveTo, TypeOK
    <2>3. /\ found[c] \in Emails /\ Known(found[c])
          /\ req[found[c]].key = req[c].key /\ req[c].key # NoKey
      BY <2>1 DEF KeyInv, FoundByKey, TypeOK
    <2>4. req[found[c]].files = req[c].files
      BY <2>3 DEF SameFilesUnderKey, TypeOK
    <2>5. ~Known(c)
      BY <2>1 DEF RefusedInv
    <2>6. \A e \in Emails : Known(e)' <=> Known(e)
      BY <2>1 DEF Known
    <2>7. Queues(c)' => \A e \in Emails \ {c} : Blocked(e) => found'[c] # e
      BY <2>1, <2>2, <2>3, <2>4 DEF Queues, RefusedInv, Whole
    <2>8. QED
      BY <1>2, <2>1, <2>2, <2>5, <2>6, <2>7, CallKeepsRefused
  <1>6. CASE Create(c)
    <2>1. /\ UNCHANGED <<attachedTo, copies, pc, job, task>>
          /\ step[c] = "create"
      BY <1>6 DEF Create, D!Create, D!queueVars, D!workerVars, D!historyVars, D!sendVars, deliveryVars,
         fileVars
    <2>2. /\ \A e \in Emails : Known(e) => Known(e)'
          /\ \A e \in Emails \ {c} : Known(e)' => Known(e)
          /\ \A d \in Emails \ {c} : found'[d] = found[d]
      BY <1>6 DEF Create, D!Create, D!CreateRow, deliveryVars, Known, TypeOK, D!TypeOK
    <2>3. /\ MoveTo(c, step'[c])
          /\ \/ step'[c] \in {"reread", "failed"}
             \/ step'[c] = "attach" /\ req[c].files # {}
             \/ step'[c] = "enqueue" /\ found'[c] = c
      BY <1>6 DEF Create, MoveTo, TypeOK
    <2>4. ~Known(c)
      BY <2>1 DEF RefusedInv
    <2>5. step'[c] = "attach" => ~Whole(c)
      BY <1>2, <2>3, <2>4 DEF Whole
    <2>6. Queues(c)' => \A e \in Emails \ {c} : Blocked(e) => found'[c] # e
      BY <2>3 DEF Queues
    <2>7. step'[c] \notin {"idle", "lookUp", "compare", "resolve", "create", "refused"}
      BY <2>3
    <2>8. Blocked(c)' => ~Underway(c) /\ (Known(c)' => ~Whole(c))
      BY <1>2, <2>4, <2>5, <2>7 DEF Blocked
    <2>9. step'[c] = "attach" => FilesOf(c) = {} /\ req[c].files # {}
      BY <1>2, <2>3, <2>4
    <2>10. QED
      BY <1>2, <2>1, <2>2, <2>3, <2>4, <2>6, <2>7, <2>8, <2>9, CallKeepsRefused
  <1>7. CASE Attach(c)
    <2>1. /\ UNCHANGED <<copies, pc, job, task, status, found>>
          /\ step[c] = "attach" /\ found[c] = c
      BY <1>7 DEF Attach, deliveryVars, WholeInv
    <2>2. /\ req' = req
          /\ step'[c] \in {"refused", "enqueue"}
          /\ step'[c] = "refused" => \E a \in req[c].files : ~Free(a)
          /\ \A d \in Emails \ {c} : step'[d] = step[d]
      BY <1>7 DEF Attach, MoveTo, TypeOK
    <2>3. \A a \in Attachments :
             \/ attachedTo'[a] = attachedTo[a]
             \/ attachedTo'[a] = c /\ attachedTo[a] = NoEmail /\ Free(a)
      BY <1>7 DEF Attach, Free
    <2>4. FilesOf(c) = {} /\ Known(c)
      BY <2>1, OutboundAssumption DEF RefusedInv, KeyInv, FoundByKey
    <2>5. \A e \in Emails \ {c} : FilesOf(e)' = FilesOf(e)
      <3>1. ASSUME NEW e \in Emails \ {c} PROVE FilesOf(e)' = FilesOf(e)
        BY <2>3, OutboundAssumption DEF FilesOf
      <3>2. QED
        BY <3>1
    <2>6. step'[c] = "refused" => FilesOf(c)' # req[c].files
      <3>. SUFFICES ASSUME step'[c] = "refused" PROVE FilesOf(c)' # req[c].files
        OBVIOUS
      <3>1. PICK a \in req[c].files : ~Free(a)
        BY <2>2
      <3>2. a \in Attachments /\ attachedTo[a] # c
        BY <2>4, RequestFiles DEF FilesOf
      <3>3. attachedTo'[a] # c
        BY <1>7, <3>1, <3>2 DEF Attach
      <3>4. QED
        BY <3>1, <3>3 DEF FilesOf
    <2>7. \A e \in Emails : /\ Known(e)' <=> Known(e)
                            /\ Underway(e)' <=> Underway(e)
      BY <2>1 DEF Known, Underway
    <2>8. \A e \in Emails : Blocked(e)' => Blocked(e) /\ ~Queues(e)'
      BY <2>1, <2>2 DEF Blocked, Queues
    <2>9. \A d \in Emails \ {c} : Queues(d)' <=> Queues(d)
      BY <2>2 DEF Queues
    <2>10. \A e \in Emails : Blocked(e)' => ~Underway(e)' /\ (Known(e)' => ~Whole(e)')
      <3>1. ASSUME NEW e \in Emails \ {c}, Blocked(e)' PROVE ~Underway(e)' /\ (Known(e)' => ~Whole(e)')
        BY <2>2, <2>5, <2>7, <2>8, <3>1 DEF RefusedInv, Whole
      <3>2. ASSUME Blocked(c)' PROVE ~Underway(c)' /\ ~Whole(c)'
        BY <2>2, <2>6, <2>7, <2>8, <3>2 DEF RefusedInv, Whole, Blocked
      <3>3. QED
        BY <3>1, <3>2
    <2>11. \A e, d \in Emails : Blocked(e)' /\ Queues(d)' => found'[d] # e
      <3>1. ASSUME NEW e \in Emails, NEW d \in Emails, Blocked(e)', Queues(d)' PROVE found'[d] # e
        <4>1. CASE d = c
          BY <2>1, <2>8, <3>1, <4>1
        <4>2. CASE d # c
          BY <2>1, <2>8, <2>9, <3>1, <4>2 DEF RefusedInv
        <4>3. QED
          BY <4>1, <4>2
      <3>2. QED
        BY <3>1
    <2>12. \A a \in Attachments : attachedTo'[a] # NoEmail => Known(attachedTo[a])'
      <3>1. ASSUME NEW a \in Attachments, attachedTo'[a] # NoEmail PROVE Known(attachedTo'[a])
        BY <2>3, <2>4, <3>1 DEF RefusedInv
      <3>2. QED
        BY <2>1, <3>1 DEF Known
    <2>13. /\ \A e \in Emails : step'[e] = "attach" => FilesOf(e)' = {} /\ req'[e].files # {}
           /\ \A e \in Emails :
                 step'[e] \in {"idle", "lookUp", "compare", "resolve", "create"} => ~Known(e)'
      <3>1. \A e \in Emails : step'[e] = "attach" => FilesOf(e)' = {} /\ req'[e].files # {}
        BY <2>2, <2>5 DEF RefusedInv
      <3>2. \A e \in Emails :
               step'[e] \in {"idle", "lookUp", "compare", "resolve", "create"} => ~Known(e)'
        BY <2>2, <2>7 DEF RefusedInv
      <3>3. QED
        BY <3>1, <3>2
    <2>14. QED
      BY <2>10, <2>11, <2>12, <2>13 DEF RefusedInv
  <1>8. CASE Enqueue(c)
    <2>1. /\ UNCHANGED <<attachedTo, copies, pc, job, status, found>>
          /\ Queues(c) /\ found[c] \in Emails
          /\ \A e \in Emails \ {found[c]} : task'[e] = task[e]
      BY <1>8 DEF Enqueue, D!EnqueueSend, D!rowVars, D!workerVars, D!sendVars, fileVars, uploadVars, TypeOK,
         D!TypeOK, Queues
    <2>2. /\ req' = req
          /\ step'[c] \in {"accepted", "failed"}
          /\ \A d \in Emails \ {c} : step'[d] = step[d]
      BY <1>8 DEF Enqueue, MoveTo, TypeOK
    <2>3. \A e \in Emails : /\ Known(e)' <=> Known(e)
                            /\ FilesOf(e)' = FilesOf(e)
                            /\ Whole(e)' <=> Whole(e)
                            /\ Blocked(e)' => Blocked(e)
                            /\ Queues(e)' => Queues(e)
      BY <2>1, <2>2 DEF Known, FilesOf, Whole, Blocked, Queues
    <2>4. ~Blocked(found[c])
      BY <2>1 DEF RefusedInv
    <2>5. \A e \in Emails : Blocked(e) => (Underway(e)' <=> Underway(e))
      <3>1. \A e \in Emails \ {found[c]} : Underway(e)' <=> Underway(e)
        BY <2>1 DEF Underway
      <3>2. QED
        BY <2>4, <3>1
    <2>6. \A e \in Emails : Blocked(e)' => ~Underway(e)' /\ (Known(e)' => ~Whole(e)')
      BY <2>3, <2>5 DEF RefusedInv
    <2>7. \A e, d \in Emails : Blocked(e)' /\ Queues(d)' => found'[d] # e
      BY <2>1, <2>3 DEF RefusedInv
    <2>8. \A a \in Attachments : attachedTo'[a] # NoEmail => Known(attachedTo[a])'
      BY <2>1 DEF RefusedInv, Known
    <2>9. \A e \in Emails : step'[e] = "attach" => FilesOf(e)' = {} /\ req'[e].files # {}
      BY <2>2, <2>3 DEF RefusedInv
    <2>10. \A e \in Emails :
              step'[e] \in {"idle", "lookUp", "compare", "resolve", "create"} => ~Known(e)'
      BY <2>2, <2>3 DEF RefusedInv
    <2>11. QED
      BY <2>6, <2>7, <2>8, <2>9, <2>10 DEF RefusedInv
  <1>9. QED
    BY <1>3, <1>4, <1>5, <1>6, <1>7, <1>8 DEF Call

LEMMA HandleStartsNothing ==
  ASSUME TypeOK, NEW w \in Workers, Handle(w)
  PROVE  /\ UNCHANGED <<step, found, req, attachedTo>>
         /\ \A e \in Emails : Known(e)' <=> Known(e)
         /\ \A e \in Emails : Underway(e)' => Underway(e)
  <1>1. /\ UNCHANGED <<step, found, req, attachedTo>>
        /\ \A e \in Emails : Known(e)' <=> Known(e)
    <2>1. D!Handle(w)
      BY DEF Handle, LoadAttachments, ReceiverTakes, OtherHandling, D!Handle
    <2>2. QED
      BY <2>1, HandlersKeepRows DEF RowsKept, Known, D!Stored, Handle, LoadAttachments, ReceiverTakes,
         OtherHandling, fileVars, callVars
  <1>2. CASE OtherHandling(w)
    BY <1>1, <1>2, OtherHandlingMoves DEF OtherHandling, NothingNew
  <1>3. CASE LoadAttachments(w)
    BY <1>1, <1>3, LoadMoves DEF Underway
  <1>4. CASE ReceiverTakes(w)
    BY <1>1, <1>4, ReceiverMoves DEF Underway
  <1>5. QED
    BY <1>1, <1>2, <1>3, <1>4 DEF Handle

LEMMA InitRefusedInv == Init => RefusedInv
  BY DEF Init, D!Init, RefusedInv, Blocked, Queues, Known

LEMMA NextRefusedInv ==
  ASSUME SameFilesUnderKey
  PROVE  TypeOK /\ KeyInv /\ WholeInv /\ RefusedInv /\ [Next]_vars => RefusedInv'
  <1>. SUFFICES ASSUME TypeOK, KeyInv, WholeInv, RefusedInv, [Next]_vars PROVE RefusedInv'
    OBVIOUS
  <1>1. CASE \/ UNCHANGED vars
             \/ \E a \in Attachments : UploadAttachment(a)
    <2>1. UNCHANGED <<status, step, req, found, pc, job, task, copies, attachedTo>>
      BY <1>1 DEF vars, UploadAttachment, Put, InsertAttachment, CleanUp, UploadAt, deliveryVars, callVars,
         fileVars
    <2>2. \A e \in Emails : (Known(e)' <=> Known(e)) /\ (Underway(e)' => Underway(e))
      BY <2>1 DEF Known, Underway
    <2>3. QED
      BY <2>1, <2>2, RefusedKept
  <1>2. ASSUME NEW c \in Emails, Call(c) \/ CallFails(c) PROVE RefusedInv'
    BY <1>2, CallRefusedInv
  <1>3. ASSUME NEW w \in Workers, Handle(w) PROVE RefusedInv'
    BY <1>3, HandleStartsNothing, RefusedKept
  <1>4. CASE (D!Queue \/ D!Failure) /\ UNCHANGED <<callVars, fileVars>>
    BY <1>4, QueueMoves, QueueKeepsRows, RefusedKept DEF fileVars, callVars, Known, NothingNew
  <1>5. CASE DeleteWorkspace
    <2>1. /\ UNCHANGED <<step, found, req, pc, job, task, copies>>
          /\ \A a \in Attachments : attachedTo'[a] = NoEmail
          /\ \A e \in Emails : Known(e)' <=> Known(e)
      BY <1>5 DEF DeleteWorkspace, D!DeleteWorkspaces, D!ForgetRows, D!workerVars, D!queueVars, D!historyVars,
         D!sendVars, callVars, Known, TypeOK, D!TypeOK, D!Stored
    <2>2. \A e \in Emails : FilesOf(e)' = {}
      BY <2>1, OutboundAssumption DEF FilesOf
    <2>3. \A e \in Emails : /\ Underway(e)' <=> Underway(e)
                            /\ Blocked(e)' <=> Blocked(e)
                            /\ Queues(e)' <=> Queues(e)
      BY <2>1 DEF Underway, Blocked, Queues
    <2>4. \A e \in Emails : Known(e) /\ ~Whole(e) => ~Whole(e)'
      <3>1. ASSUME NEW e \in Emails, ~Whole(e) PROVE ~Whole(e)'
        <4>1. FilesOf(e) \subseteq req[e].files
          BY OutboundAssumption DEF WholeInv, OwnFilesOnly, FilesOf
        <4>2. req[e].files # {}
          BY <3>1, <4>1 DEF Whole
        <4>3. QED
          BY <2>1, <2>2, <4>2 DEF Whole
      <3>2. QED
        BY <3>1
    <2>5. QED
      BY <2>1, <2>2, <2>3, <2>4 DEF RefusedInv
  <1>6. QED
    BY <1>1, <1>2, <1>3, <1>4, <1>5 DEF Next

LEMMA RefusedInvDecides == TypeOK /\ RefusedInv => RefusedIsNotSent
  BY DEF RefusedInv, RefusedIsNotSent, Blocked, Queues, Underway, TypeOK, D!TypeOK

\* When a key always comes with the same files, a message whose request was refused is
\* never sent, whatever other calls, retries and workers do.
THEOREM RefusedNotSent ==
  ASSUME SameFilesUnderKey
  PROVE  Spec => []RefusedIsNotSent
  <1>1. Spec => [](TypeOK /\ KeyInv /\ WholeInv)
    BY TypesHold, KeysHold, InitWholeInv, NextWholeInv, PTL DEF Spec
  <1>2. QED
    BY <1>1, InitRefusedInv, NextRefusedInv, RefusedInvDecides, PTL DEF Spec

-----------------------------------------------------------------------------
(***************************************************************************)
(* Accepted messages.  While the workers and their database do not fail,   *)
(* every task that is active has one handler, which holds its lease and    *)
(* knows where the row stands: it acknowledges only what is settled and    *)
(* asks for another run only while the budget has one left.  So a message  *)
(* with a task is settled before it loses it.                              *)
(***************************************************************************)

Calm == faults \cap WorkerFaults = {}

Alive == {"pending", "active", "retry"}
Over == {"sent", "dead", "deleted"}

\* Where the row of a handler's message can stand.
Expected(s) ==
    IF s = "load" THEN {"queued", "failed"} \cup Over
    ELSE IF s = "claim" THEN {"queued", "failed", "deleted"}
    ELSE IF s = "ack" THEN Over
    ELSE IF s = "nack" THEN {"failed", "deleted"}
    ELSE {"processing", "deleted"}

OneHandlerEach ==
    /\ \A w \in Workers : pc[w] # "idle" => lease[job[w]] = w /\ attempt[w] = retried[job[w]]
    /\ \A e \in Emails : lease[e] # NoWorker =>
          task[e] = "active" /\ pc[lease[e]] # "idle" /\ job[lease[e]] = e
    /\ \A e \in Emails : /\ task[e] = "active" => lease[e] # NoWorker
                         /\ task[e] # "archived"

RowsAsExpected ==
    /\ \A w \in Workers : pc[w] # "idle" => status[job[w]] \in Expected(pc[w])
    /\ \A w \in Workers : pc[w] = "nack" => attempt[w] < MaxRetry
    /\ \A e \in Emails : /\ task[e] # "none" => Known(e)
                         /\ status[e] = "processing" => lease[e] # NoWorker
                         /\ status[e] = "failed" => task[e] \in Alive

Served == OneHandlerEach /\ RowsAsExpected

Settled(e) == status[e] \in Over \/ task[e] \in Alive

AcceptedSettled ==
    /\ \A c \in Emails : step[c] = "accepted" => Settled(found[c])
    /\ \A c \in Emails : step[c] = "compare" =>
          seen[c] \in D!Stored /\ (seen[c] # "queued" => status[found[c]] # "queued")

\* What the calls rely on, of the rows there are.
Steady ==
    \A e \in Emails : Known(e) =>
        (Settled(e) => Settled(e)') /\ (status'[e] = "queued" => status[e] = "queued")

\* A step of the one handler of a message, which may record something.
LEMMA HandlerServes ==
  ASSUME TypeOK, Served, NEW w \in Workers, pc[w] # "idle",
         NEW s \in D!Steps \ {"idle"}, D!GoTo(w, s),
         NEW x \in Expected(s), status' = [status EXCEPT ![job[w]] = x],
         x = "queued" => status[job[w]] = "queued",
         s = "nack" => attempt[w] < MaxRetry
  PROVE  Served' /\ Steady
  <1>1. /\ UNCHANGED <<job, attempt, task, retried, lease>>
        /\ job[w] \in Emails
        /\ pc'[w] = s /\ \A v \in Workers \ {w} : pc'[v] = pc[v]
        /\ status'[job[w]] = x /\ \A e \in Emails \ {job[w]} : status'[e] = status[e]
    BY DEF D!GoTo, D!queueVars, TypeOK, D!TypeOK
  <1>2. lease[job[w]] = w /\ task[job[w]] = "active" /\ w # NoWorker
    BY <1>1, OutboundAssumption DEF Served, OneHandlerEach
  <1>3. \A v \in Workers \ {w} : pc[v] # "idle" => job[v] # job[w]
    BY <1>2 DEF Served, OneHandlerEach
  <1>4. OneHandlerEach'
    <2>1. \A e \in Emails : lease[e] # NoWorker => lease[e] \in Workers /\ pc'[lease[e]] # "idle"
      BY <1>1 DEF Served, OneHandlerEach, TypeOK, D!TypeOK
    <2>2. \A v \in Workers : pc'[v] # "idle" => lease[job[v]] = v /\ attempt[v] = retried[job[v]]
      BY <1>1 DEF Served, OneHandlerEach
    <2>3. QED
      BY <1>1, <2>1, <2>2 DEF Served, OneHandlerEach
  <1>5. x # "absent"
    BY DEF Expected, Over
  <1>6. RowsAsExpected'
    <2>1. \A v \in Workers : pc'[v] # "idle" => status'[job[v]] \in Expected(pc'[v])
      <3>1. ASSUME NEW v \in Workers \ {w}, pc[v] # "idle" PROVE status'[job[v]] \in Expected(pc[v])
        <4>1. job[v] \in Emails \ {job[w]}
          BY <1>3, <3>1 DEF TypeOK, D!TypeOK
        <4>2. QED
          BY <1>1, <3>1, <4>1 DEF Served, RowsAsExpected
      <3>2. QED
        BY <1>1, <3>1
    <2>2. \A v \in Workers : pc'[v] = "nack" => attempt[v] < MaxRetry
      BY <1>1 DEF Served, RowsAsExpected
    <2>3. \A e \in Emails : /\ task[e] # "none" => Known(e)'
                            /\ status'[e] = "processing" => lease[e] # NoWorker
                            /\ status'[e] = "failed" => task[e] \in Alive
      BY <1>1, <1>2, <1>5 DEF Served, RowsAsExpected, Known, Alive
    <2>4. QED
      BY <1>1, <2>1, <2>2, <2>3 DEF RowsAsExpected
  <1>7. Steady
    BY <1>1, <1>2 DEF Steady, Settled, Alive
  <1>8. QED
    BY <1>4, <1>6, <1>7 DEF Served

\* A handler ends and gives its lease back: the message is settled, or to be retried.
LEMMA HandlerLeaves ==
  ASSUME TypeOK, Served, NEW w \in Workers, pc[w] # "idle",
         pc' = [pc EXCEPT ![w] = "idle"], UNCHANGED <<job, attempt, status>>,
         lease' = [lease EXCEPT ![job[w]] = NoWorker],
         NEW t \in {"none", "retry"}, task' = [task EXCEPT ![job[w]] = t],
         \A e \in Emails \ {job[w]} : retried'[e] = retried[e],
         t = "none" => status[job[w]] \in Over,
         status[job[w]] # "processing"
  PROVE  Served' /\ Steady
  <1>1. /\ job[w] \in Emails
        /\ pc'[w] = "idle" /\ \A v \in Workers \ {w} : pc'[v] = pc[v]
        /\ lease'[job[w]] = NoWorker /\ task'[job[w]] = t
        /\ \A e \in Emails \ {job[w]} : lease'[e] = lease[e] /\ task'[e] = task[e]
    BY DEF TypeOK, D!TypeOK
  <1>2. \A v \in Workers \ {w} : pc[v] # "idle" => job[v] \in Emails \ {job[w]}
    BY DEF Served, OneHandlerEach, TypeOK, D!TypeOK
  <1>3. \A e \in Emails \ {job[w]} : lease[e] # w
    BY OutboundAssumption DEF Served, OneHandlerEach
  <1>4. lease[job[w]] = w /\ Known(job[w])
    BY <1>1, OutboundAssumption DEF Served, OneHandlerEach, RowsAsExpected
  <1>5. OneHandlerEach'
    <2>1. \A v \in Workers : pc'[v] # "idle" => lease'[job[v]] = v /\ attempt'[v] = retried'[job[v]]
      BY <1>1, <1>2 DEF Served, OneHandlerEach
    <2>2. \A e \in Emails : lease'[e] # NoWorker =>
             task'[e] = "active" /\ pc'[lease'[e]] # "idle" /\ job[lease'[e]] = e
      <3>1. ASSUME NEW e \in Emails, lease'[e] # NoWorker
            PROVE  task'[e] = "active" /\ pc'[lease'[e]] # "idle" /\ job[lease'[e]] = e
        <4>1. e # job[w] /\ lease'[e] = lease[e] /\ lease[e] \in Workers \ {w}
          BY <1>1, <1>3, <3>1 DEF TypeOK, D!TypeOK
        <4>2. QED
          BY <1>1, <3>1, <4>1 DEF Served, OneHandlerEach
      <3>2. QED
        BY <3>1
    <2>3. \A e \in Emails : /\ task'[e] = "active" => lease'[e] # NoWorker
                            /\ task'[e] # "archived"
      BY <1>1 DEF Served, OneHandlerEach
    <2>4. QED
      BY <2>1, <2>2, <2>3 DEF OneHandlerEach
  <1>6. RowsAsExpected'
    <2>1. \A v \in Workers : pc'[v] # "idle" => status[job[v]] \in Expected(pc'[v])
      BY <1>1 DEF Served, RowsAsExpected
    <2>2. \A v \in Workers : pc'[v] = "nack" => attempt[v] < MaxRetry
      BY <1>1 DEF Served, RowsAsExpected
    <2>3. \A e \in Emails : /\ task'[e] # "none" => Known(e)
                            /\ status[e] = "processing" => lease'[e] # NoWorker
                            /\ status[e] = "failed" => task'[e] \in Alive
      BY <1>1, <1>4 DEF Served, RowsAsExpected, Alive, Over
    <2>4. QED
      BY <2>1, <2>2, <2>3 DEF RowsAsExpected, Known
  <1>7. Steady
    BY <1>1 DEF Steady, Settled, Alive
  <1>8. QED
    BY <1>5, <1>6, <1>7 DEF Served

LEMMA HandleServes ==
  ASSUME TypeOK, Calm, Served, NEW w \in Workers, D!Handle(w)
  PROVE  Served' /\ Steady
  <1>1. /\ pc[w] # "idle" /\ job[w] \in Emails
        /\ ~D!CallMayFail(w)
        /\ status[job[w]] \in Expected(pc[w])
        /\ attempt[w] = retried[job[w]] /\ lease[job[w]] = w
        /\ status \in [Emails -> D!Stored \cup {"absent", "deleted"}]
    <2>1. pc[w] # "idle"
      BY DEF D!Handle, D!Load, D!Claim, D!ClaimFails, D!LoadAttachments, D!ResolveDKIM, D!ReceiverTakes,
         D!SendSucceeds, D!SendFails, D!RecordSent, D!GiveUp, D!RetryLater, D!Ack, D!Nack
    <2>2. QED
      BY <2>1 DEF Calm, WorkerFaults, D!CallMayFail, Served, OneHandlerEach, RowsAsExpected, TypeOK, D!TypeOK
  <1>2. status' = [status EXCEPT ![job[w]] = status[job[w]]] <=> status' = status
    BY <1>1
  <1>3. CASE D!Load(w)
    <2>1. /\ pc[w] = "load" /\ status' = status
          /\ D!GoTo(w, IF status[job[w]] \in D!Stored \ D!Terminal THEN "claim" ELSE "ack")
      BY <1>1, <1>3 DEF D!Load, D!rowVars
    <2>2. CASE status[job[w]] \in D!Stored \ D!Terminal
      <3>1. D!GoTo(w, "claim") /\ status[job[w]] \in Expected("claim")
        BY <1>1, <2>1, <2>2 DEF Expected, Over, D!Terminal
      <3>2. QED
        BY <1>1, <1>2, <2>1, <3>1, HandlerServes DEF D!Steps
    <2>3. CASE status[job[w]] \notin D!Stored \ D!Terminal
      <3>1. D!GoTo(w, "ack") /\ status[job[w]] \in Expected("ack")
        BY <1>1, <2>1, <2>3 DEF Expected, Over, D!Terminal, D!Stored
      <3>2. QED
        BY <1>1, <1>2, <2>1, <3>1, HandlerServes DEF D!Steps
    <2>4. QED
      BY <2>2, <2>3
  <1>4. CASE D!Claim(w)
    <2>1. CASE D!Claimable(job[w])
      <3>1. /\ D!GoTo(w, "prepare") /\ status' = [status EXCEPT ![job[w]] = "processing"]
            /\ "processing" \in Expected("prepare")
        BY <1>4, <2>1 DEF D!Claim, D!Finish, Expected
      <3>2. QED
        BY <1>1, <3>1, HandlerServes DEF D!Steps
    <2>2. CASE ~D!Claimable(job[w])
      <3>1. D!GoTo(w, "ack") /\ status' = status /\ status[job[w]] \in Expected("ack")
        BY <1>1, <1>4, <2>2 DEF D!Claim, D!Claimable, D!rowVars, Expected, Over
      <3>2. QED
        BY <1>1, <1>2, <3>1, HandlerServes DEF D!Steps
    <2>3. QED
      BY <2>1, <2>2
  <1>5. CASE D!ClaimFails(w)
    BY <1>1, <1>5 DEF D!ClaimFails
  <1>6. CASE D!LoadAttachments(w) \/ D!ResolveDKIM(w) \/ D!ReceiverTakes(w) \/ D!SendSucceeds(w) \/ D!SendFails(w)
    <2>1. \E s \in {"sign", "giveUp", "send", "answer", "recordSent"} :
             D!GoTo(w, s) /\ status' = status /\ status[job[w]] \in Expected(s)
      BY <1>1, <1>6 DEF D!LoadAttachments, D!ResolveDKIM, D!ReceiverTakes, D!SendSucceeds, D!SendFails,
         D!rowVars, Expected
    <2>2. QED
      BY <1>1, <1>2, <2>1, HandlerServes DEF D!Steps
  <1>7. CASE D!RecordSent(w) \/ D!GiveUp(w) \/ D!RetryLater(w)
    <2>1. \E s \in {"ack", "nack"}, y \in {"sent", "dead", "failed"} :
             /\ D!GoTo(w, s) /\ D!Mark(job[w], y, IF y = "sent" THEN "sent" ELSE "failed")
             /\ s = "nack" <=> y = "failed"
             /\ s = "nack" => attempt[w] < MaxRetry
      BY <1>1, <1>7 DEF D!RecordSent, D!GiveUp, D!RetryLater
    <2>2. status[job[w]] \in {"processing", "deleted"}
      BY <1>1, <1>7 DEF D!RecordSent, D!GiveUp, D!RetryLater, Expected
    <2>3. PICK s \in {"ack", "nack"}, y \in {"sent", "dead", "failed"} :
             /\ D!GoTo(w, s) /\ D!Mark(job[w], y, IF y = "sent" THEN "sent" ELSE "failed")
             /\ s = "nack" <=> y = "failed"
             /\ s = "nack" => attempt[w] < MaxRetry
      BY <2>1
    <2>4. PICK x \in {y, "deleted"} : status' = [status EXCEPT ![job[w]] = x]
      <3>1. CASE status[job[w]] = "deleted"
        BY <1>2, <2>3, <3>1 DEF D!Mark, D!rowVars, D!Stored
      <3>2. CASE status[job[w]] = "processing"
        BY <2>3, <3>2 DEF D!Mark, D!Finish, D!Stored
      <3>3. QED
        BY <2>2, <3>1, <3>2
    <2>5. x \in Expected(s) /\ x # "queued"
      BY <2>3, <2>4 DEF Expected, Over
    <2>6. s \in D!Steps \ {"idle"}
      BY DEF D!Steps
    <2>7. QED
      BY <1>1, <2>3, <2>4, <2>5, <2>6, HandlerServes
  <1>8. CASE D!Ack(w)
    <2>1. /\ pc' = [pc EXCEPT ![w] = "idle"] /\ UNCHANGED <<job, attempt, status, retried>>
          /\ lease' = [lease EXCEPT ![job[w]] = NoWorker]
          /\ task' = [task EXCEPT ![job[w]] = "none"]
          /\ status[job[w]] \in Over
      BY <1>1, <1>8 DEF D!Ack, D!rowVars, Expected
    <2>2. QED
      BY <1>1, <2>1, HandlerLeaves DEF Over
  <1>9. CASE D!Nack(w)
    <2>1. retried[job[w]] < MaxRetry /\ status[job[w]] \in {"failed", "deleted"}
      BY <1>1, <1>9 DEF D!Nack, Expected, Served, RowsAsExpected
    <2>2. /\ pc' = [pc EXCEPT ![w] = "idle"] /\ UNCHANGED <<job, attempt, status>>
          /\ lease' = [lease EXCEPT ![job[w]] = NoWorker]
          /\ task' = [task EXCEPT ![job[w]] = "retry"]
          /\ \A e \in Emails \ {job[w]} : retried'[e] = retried[e]
      BY <1>1, <1>9, <2>1 DEF D!Nack, D!rowVars, D!RetryOrArchive, TypeOK, D!TypeOK
    <2>3. QED
      BY <1>1, <2>1, <2>2, HandlerLeaves
  <1>10. QED
    BY <1>3, <1>4, <1>5, <1>6, <1>7, <1>8, <1>9 DEF D!Handle

LEMMA QueueServes ==
  ASSUME TypeOK, Calm, Served, D!Queue \/ D!Failure
  PROVE  Served' /\ Steady
  <1>1. ASSUME NEW e \in Emails, D!ForwardRetry(e) PROVE Served' /\ Steady
    <2>1. /\ UNCHANGED <<status, pc, job, attempt, retried, lease>>
          /\ task[e] = "retry" /\ task'[e] = "pending"
          /\ \A f \in Emails \ {e} : task'[f] = task[f]
      BY <1>1 DEF D!ForwardRetry, D!rowVars, D!workerVars, TypeOK, D!TypeOK
    <2>2. QED
      BY <2>1 DEF Served, OneHandlerEach, RowsAsExpected, Steady, Settled, Alive, Known
  <1>2. ASSUME NEW e \in Emails, D!Recover(e) PROVE FALSE
    BY <1>2 DEF D!Recover, Served, OneHandlerEach
  <1>3. ASSUME NEW w \in Workers, NEW e \in Emails, D!Dequeue(w, e) PROVE Served' /\ Steady
    <2>1. /\ UNCHANGED <<status, retried>>
          /\ pc[w] = "idle" /\ task[e] = "pending" /\ w # NoWorker
          /\ task'[e] = "active" /\ lease'[e] = w
          /\ \A f \in Emails \ {e} : task'[f] = task[f] /\ lease'[f] = lease[f]
          /\ pc'[w] = "load" /\ job'[w] = e /\ attempt'[w] = retried[e]
          /\ \A v \in Workers \ {w} : pc'[v] = pc[v] /\ job'[v] = job[v] /\ attempt'[v] = attempt[v]
      BY <1>3, OutboundAssumption DEF D!Dequeue, D!rowVars, TypeOK, D!TypeOK
    <2>2. /\ lease[e] = NoWorker
          /\ \A v \in Workers : pc[v] # "idle" => job[v] # e /\ job[v] \in Emails
          /\ \A f \in Emails : lease[f] # w
      <3>1. lease[e] = NoWorker
        BY <2>1 DEF Served, OneHandlerEach
      <3>2. \A v \in Workers : pc[v] # "idle" => job[v] # e /\ job[v] \in Emails
        BY <3>1, OutboundAssumption DEF Served, OneHandlerEach, TypeOK, D!TypeOK
      <3>3. \A f \in Emails : lease[f] # w
        BY <2>1 DEF Served, OneHandlerEach
      <3>4. QED
        BY <3>1, <3>2, <3>3
    <2>3. OneHandlerEach'
      <3>1. \A v \in Workers : pc'[v] # "idle" => lease'[job'[v]] = v /\ attempt'[v] = retried'[job'[v]]
        BY <2>1, <2>2 DEF Served, OneHandlerEach
      <3>2. \A f \in Emails : lease'[f] # NoWorker =>
               task'[f] = "active" /\ pc'[lease'[f]] # "idle" /\ job'[lease'[f]] = f
        <4>1. ASSUME NEW f \in Emails \ {e}, lease[f] # NoWorker
              PROVE  task'[f] = "active" /\ pc'[lease'[f]] # "idle" /\ job'[lease'[f]] = f
          <5>1. lease[f] \in Workers \ {w} /\ lease'[f] = lease[f]
            BY <2>1, <2>2, <4>1 DEF TypeOK, D!TypeOK
          <5>2. QED
            BY <2>1, <4>1, <5>1 DEF Served, OneHandlerEach
        <4>2. QED
          BY <2>1, <4>1
      <3>3. \A f \in Emails : /\ task'[f] = "active" => lease'[f] # NoWorker
                              /\ task'[f] # "archived"
        BY <2>1 DEF Served, OneHandlerEach
      <3>4. QED
        BY <3>1, <3>2, <3>3 DEF OneHandlerEach
    <2>4. status[e] \in Expected("load")
      <3>1. status[e] \in D!Stored \cup {"deleted"} /\ status[e] # "processing"
        BY <2>1, <2>2 DEF Served, RowsAsExpected, Known, TypeOK, D!TypeOK
      <3>2. QED
        BY <3>1 DEF Expected, Over, D!Stored
    <2>5. RowsAsExpected'
      <3>1. \A v \in Workers : pc'[v] # "idle" => status[job'[v]] \in Expected(pc'[v])
        BY <2>1, <2>4 DEF Served, RowsAsExpected
      <3>2. \A v \in Workers : pc'[v] = "nack" => attempt'[v] < MaxRetry
        BY <2>1 DEF Served, RowsAsExpected
      <3>3. \A f \in Emails : /\ task'[f] # "none" => Known(f)
                              /\ status[f] = "processing" => lease'[f] # NoWorker
                              /\ status[f] = "failed" => task'[f] \in Alive
        BY <2>1 DEF Served, RowsAsExpected, Alive
      <3>4. QED
        BY <2>1, <3>1, <3>2, <3>3 DEF RowsAsExpected, Known
    <2>6. Steady
      BY <2>1 DEF Steady, Settled, Alive
    <2>7. QED
      BY <2>3, <2>5, <2>6 DEF Served
  <1>4. ASSUME D!Failure PROVE FALSE
    BY <1>4 DEF D!Failure, D!LoseLease, D!Crash, D!Abort, Calm, WorkerFaults
  <1>5. QED
    BY <1>1, <1>2, <1>3, <1>4 DEF D!Queue

\* Rows and queue as they were: a request's step, or none.
LEMMA ServedStays ==
  ASSUME Served, UNCHANGED <<status, task, retried, lease, pc, job, attempt>>
  PROVE  Served' /\ Steady
  BY DEF Served, OneHandlerEach, RowsAsExpected, Steady, Settled, Known

LEMMA AcceptedStays ==
  ASSUME TypeOK, KeyInv, AcceptedSettled, Steady, UNCHANGED callVars
  PROVE  AcceptedSettled'
  <1>1. \A c \in Emails : step[c] \in {"accepted", "compare"} => found[c] \in Emails /\ Known(found[c])
    BY DEF KeyInv, FoundByKey, Accepted, TypeOK
  <1>2. QED
    BY <1>1 DEF AcceptedSettled, Steady, callVars, Settled

\* One call moves, the others stay answered.
LEMMA CallAnswers ==
  ASSUME TypeOK, KeyInv, AcceptedSettled, Steady, NEW c \in Emails, NEW s \in CallSteps, MoveTo(c, s),
         \A d \in Emails \ {c} : found'[d] = found[d] /\ seen'[d] = seen[d],
         s = "accepted" => found'[c] \in Emails /\ Settled(found[c])' ,
         s = "compare" => seen'[c] \in D!Stored /\ (seen'[c] # "queued" => status'[found'[c]] # "queued")
  PROVE  AcceptedSettled'
  <1>1. /\ step'[c] = s
        /\ \A d \in Emails \ {c} : step'[d] = step[d]
    BY DEF MoveTo, TypeOK
  <1>2. \A d \in Emails : step[d] \in {"accepted", "compare"} => found[d] \in Emails /\ Known(found[d])
    BY DEF KeyInv, FoundByKey, Accepted, TypeOK
  <1>3. ASSUME NEW d \in Emails, step'[d] = "accepted" PROVE Settled(found[d])'
    BY <1>1, <1>2, <1>3 DEF AcceptedSettled, Steady, Settled
  <1>4. ASSUME NEW d \in Emails, step'[d] = "compare"
        PROVE  seen'[d] \in D!Stored /\ (seen'[d] # "queued" => status'[found'[d]] # "queued")
    BY <1>1, <1>2, <1>4 DEF AcceptedSettled, Steady
  <1>5. QED
    BY <1>3, <1>4 DEF AcceptedSettled

\* A lookup remembers what it saw.
LEMMA LookUpServes ==
  ASSUME TypeOK, KeyInv, Served, AcceptedSettled, NEW c \in Emails, LookUp(c)
  PROVE  Served' /\ AcceptedSettled'
  <1>1. UNCHANGED <<status, task, retried, lease, pc, job, attempt>>
    BY DEF LookUp, deliveryVars
  <1>2. Served' /\ Steady
    BY <1>1, ServedStays
  <1>3. CASE MoveTo(c, "resolve") /\ UNCHANGED <<found, seen>>
    BY <1>2, <1>3, CallAnswers DEF CallSteps
  <1>4. ASSUME NEW e \in RowsWithKey(req[c].key), found' = [found EXCEPT ![c] = e],
               seen' = [seen EXCEPT ![c] = status[e]], NEW s \in {"compare", "refused"}, MoveTo(c, s)
        PROVE  AcceptedSettled'
    <2>1. e \in Emails /\ status[e] \in D!Stored
      BY RowsUnderKey
    <2>2. /\ found'[c] = e /\ seen'[c] = status[e]
          /\ \A d \in Emails \ {c} : found'[d] = found[d] /\ seen'[d] = seen[d]
      BY <1>4, <2>1 DEF TypeOK
    <2>3. QED
      BY <1>1, <1>2, <1>4, <2>1, <2>2, CallAnswers DEF CallSteps, Ended
  <1>5. QED
    BY <1>2, <1>3, <1>4 DEF LookUp

\* A row seen past "queued" is settled: it left the queue's care only with an outcome.
LEMMA CompareServes ==
  ASSUME TypeOK, KeyInv, Served, AcceptedSettled, NEW c \in Emails, Compare(c)
  PROVE  Served' /\ AcceptedSettled'
  <1>1. /\ step[c] = "compare" /\ UNCHANGED <<found, seen>> /\ found[c] \in Emails
        /\ UNCHANGED <<status, task, retried, lease, pc, job, attempt>>
    BY DEF Compare, TypeOK, deliveryVars
  <1>2. Served' /\ Steady
    BY <1>1, ServedStays
  <1>3. CASE MoveTo(c, "accepted") /\ seen[c] # "queued"
    <2>1. status[found[c]] \notin {"queued", "absent"}
      BY <1>1, <1>3, OutboundAssumption DEF AcceptedSettled, KeyInv, FoundByKey, Known
    <2>2. Settled(found[c])
      <3>1. status[found[c]] \in {"processing", "failed"} \cup Over
        BY <1>1, <2>1 DEF TypeOK, D!TypeOK, D!Stored, Over
      <3>2. CASE status[found[c]] = "processing"
        BY <1>1, <3>2 DEF Served, OneHandlerEach, RowsAsExpected, Settled, Alive
      <3>3. CASE status[found[c]] = "failed"
        BY <1>1, <3>3 DEF Served, RowsAsExpected, Settled
      <3>4. QED
        BY <3>1, <3>2, <3>3 DEF Settled
    <2>3. Settled(found[c])'
      BY <1>1, <2>2 DEF Settled
    <2>4. QED
      BY <1>1, <1>2, <1>3, <2>3, CallAnswers DEF CallSteps, Ended
  <1>4. CASE MoveTo(c, "refused") \/ MoveTo(c, "reEnqueue")
    BY <1>1, <1>2, <1>4, CallAnswers DEF CallSteps, Ended
  <1>5. QED
    BY <1>2, <1>3, <1>4 DEF Compare

\* A new row has no task and no handler yet.
LEMMA CreateServes ==
  ASSUME TypeOK, KeyInv, Served, NEW c \in Emails, D!Create(c)
  PROVE  Served' /\ Steady
  <1>1. /\ UNCHANGED <<task, retried, lease, pc, job, attempt>>
        /\ status[c] = "absent" /\ status'[c] = "queued"
        /\ \A e \in Emails \ {c} : status'[e] = status[e]
    BY DEF D!Create, D!CreateRow, D!queueVars, D!workerVars, TypeOK, D!TypeOK
  <1>2. OneHandlerEach'
    BY <1>1 DEF Served, OneHandlerEach
  <1>3. /\ \A w \in Workers : pc[w] # "idle" => job[w] \in Emails \ {c}
        /\ task[c] = "none"
    <2>1. task[c] = "none"
      BY <1>1 DEF Served, RowsAsExpected, Known
    <2>2. \A w \in Workers : pc[w] # "idle" => job[w] # c
      BY <2>1, OutboundAssumption DEF Served, OneHandlerEach
    <2>3. QED
      BY <2>1, <2>2 DEF TypeOK, D!TypeOK
  <1>4. RowsAsExpected'
    <2>1. \A w \in Workers : pc[w] # "idle" => status'[job[w]] \in Expected(pc[w])
      BY <1>1, <1>3 DEF Served, RowsAsExpected
    <2>2. \A e \in Emails : /\ task[e] # "none" => Known(e)'
                            /\ status'[e] = "processing" => lease[e] # NoWorker
                            /\ status'[e] = "failed" => task[e] \in Alive
      BY <1>1, <1>3 DEF Served, RowsAsExpected, Known
    <2>3. QED
      BY <1>1, <2>1, <2>2 DEF Served, RowsAsExpected
  <1>5. Steady
    BY <1>1 DEF Steady, Settled, Known
  <1>6. QED
    BY <1>2, <1>4, <1>5 DEF Served

\* A task for a message that has none, or the one it has.
LEMMA EnqueueServes ==
  ASSUME TypeOK, Served, NEW e \in Emails, Known(e), D!EnqueueSend(e)
  PROVE  Served' /\ Steady /\ Settled(e)'
  <1>1. UNCHANGED <<status, lease, pc, job, attempt>>
    BY DEF D!EnqueueSend, D!rowVars, D!workerVars
  <1>2. CASE task[e] = "none"
    <2>1. /\ task'[e] = "pending"
          /\ \A f \in Emails \ {e} : task'[f] = task[f] /\ retried'[f] = retried[f]
      BY <1>2 DEF D!EnqueueSend, TypeOK, D!TypeOK
    <2>2. lease[e] = NoWorker /\ \A w \in Workers : pc[w] # "idle" => job[w] \in Emails \ {e}
      <3>1. lease[e] = NoWorker
        BY <1>2 DEF Served, OneHandlerEach
      <3>2. QED
        BY <3>1, OutboundAssumption DEF Served, OneHandlerEach, TypeOK, D!TypeOK
    <2>3. OneHandlerEach'
      BY <1>1, <2>1, <2>2 DEF Served, OneHandlerEach
    <2>4. RowsAsExpected'
      BY <1>1, <2>1 DEF Served, RowsAsExpected, Known, Alive
    <2>5. QED
      BY <1>1, <2>1, <2>3, <2>4 DEF Served, Steady, Settled, Alive
  <1>3. CASE task[e] # "none"
    <2>1. UNCHANGED <<task, retried>>
      BY <1>3 DEF D!EnqueueSend
    <2>2. task[e] \in Alive
      BY <1>3 DEF Served, OneHandlerEach, TypeOK, D!TypeOK, D!TaskStates, Alive
    <2>3. QED
      BY <1>1, <2>1, <2>2, ServedStays DEF Settled
  <1>4. QED
    BY <1>2, <1>3

LEMMA CallServes ==
  ASSUME TypeOK, KeyInv, Served, AcceptedSettled, NEW c \in Emails, Call(c) \/ CallFails(c)
  PROVE  Served' /\ AcceptedSettled'
  <1>1. CASE Arrive(c) \/ Resolve(c) \/ Reread(c) \/ Attach(c) \/ CallFails(c)
    <2>1. UNCHANGED <<status, task, retried, lease, pc, job, attempt>>
      BY <1>1 DEF Arrive, Resolve, Reread, Attach, CallFails, deliveryVars
    <2>2. /\ \E s \in CallSteps \ {"accepted", "compare"} : MoveTo(c, s)
          /\ \A d \in Emails \ {c} : found'[d] = found[d] /\ seen'[d] = seen[d]
      BY <1>1 DEF Arrive, Resolve, Reread, Attach, CallFails, CallSteps, Ended, TypeOK
    <2>3. QED
      BY <2>1, <2>2, ServedStays, CallAnswers
  <1>2. CASE Create(c)
    <2>1. /\ \E s \in CallSteps \ {"accepted", "compare"} : MoveTo(c, s)
          /\ \A d \in Emails \ {c} : found'[d] = found[d] /\ seen'[d] = seen[d]
          /\ D!Create(c) \/ UNCHANGED deliveryVars
      BY <1>2 DEF Create, CallSteps, Ended, TypeOK
    <2>2. Served' /\ Steady
      BY <2>1, CreateServes, ServedStays DEF deliveryVars
    <2>3. QED
      BY <2>1, <2>2, CallAnswers
  <1>3. CASE Enqueue(c)
    <2>1. found[c] \in Emails /\ Known(found[c]) /\ D!EnqueueSend(found[c]) /\ UNCHANGED <<found, seen>>
      BY <1>3 DEF Enqueue, TypeOK, KeyInv, FoundByKey
    <2>2. Served' /\ Steady /\ Settled(found[c])'
      BY <2>1, EnqueueServes DEF Settled
    <2>3. QED
      BY <1>3, <2>1, <2>2, CallAnswers DEF Enqueue, CallSteps, Ended
  <1>4. QED
    BY <1>1, <1>2, <1>3, LookUpServes, CompareServes DEF Call

LEMMA DeletionServes ==
  ASSUME TypeOK, Served, DeleteWorkspace
  PROVE  Served' /\ Steady
  <1>1. /\ UNCHANGED <<task, retried, lease, pc, job, attempt>>
        /\ \A e \in Emails : status'[e] = IF status[e] \in D!Stored THEN "deleted" ELSE status[e]
    BY DEF DeleteWorkspace, D!DeleteWorkspaces, D!ForgetRows, D!queueVars, D!workerVars
  <1>2. OneHandlerEach'
    BY <1>1 DEF Served, OneHandlerEach
  <1>3. RowsAsExpected'
    <2>1. \A w \in Workers : pc[w] # "idle" => status'[job[w]] \in Expected(pc[w])
      <3>1. ASSUME NEW w \in Workers, pc[w] # "idle" PROVE status'[job[w]] \in Expected(pc[w])
        <4>1. job[w] \in Emails /\ status[job[w]] \in Expected(pc[w])
          BY <3>1 DEF Served, RowsAsExpected, TypeOK, D!TypeOK
        <4>2. "deleted" \in Expected(pc[w])
          BY DEF Expected, Over
        <4>3. status'[job[w]] \in {"deleted", status[job[w]]}
          BY <1>1, <4>1
        <4>4. QED
          BY <4>1, <4>2, <4>3
      <3>2. QED
        BY <3>1
    <2>2. \A e \in Emails : /\ task[e] # "none" => Known(e)'
                            /\ status'[e] = "processing" => lease[e] # NoWorker
                            /\ status'[e] = "failed" => task[e] \in Alive
      BY <1>1 DEF Served, RowsAsExpected, Known, D!Stored
    <2>3. QED
      BY <1>1, <2>1, <2>2 DEF Served, RowsAsExpected
  <1>4. Steady
    BY <1>1 DEF Steady, Settled, Over, D!Stored
  <1>5. QED
    BY <1>2, <1>3, <1>4 DEF Served

-----------------------------------------------------------------------------
\* The client is told of files that are in storage, and they stay there.
UploadInv == \A a \in Attachments : upload[a] \in {"stored", "told"} => a \in blobs

AcceptedInv == UploadInv /\ (Calm => Served /\ AcceptedSettled)

LEMMA UploadsStay ==
  ASSUME TypeOK, UploadInv, NEW a \in Attachments, UploadAttachment(a)
  PROVE  UploadInv'
  <1>1. \A b \in Attachments \ {a} : upload'[b] = upload[b] /\ (b \in blobs => b \in blobs')
    BY DEF UploadAttachment, Put, InsertAttachment, CleanUp, UploadAt, TypeOK
  <1>2. upload'[a] \in {"stored", "told"} => a \in blobs'
    BY DEF UploadAttachment, Put, InsertAttachment, CleanUp, UploadAt, TypeOK, UploadInv
  <1>3. QED
    BY <1>1, <1>2 DEF UploadInv

LEMMA InitAcceptedInv == Init => AcceptedInv
  BY DEF Init, D!Init, AcceptedInv, UploadInv, Served, OneHandlerEach, RowsAsExpected, AcceptedSettled

LEMMA NextAcceptedInv == TypeOK /\ KeyInv /\ AcceptedInv /\ [Next]_vars => AcceptedInv'
  <1>. SUFFICES ASSUME TypeOK, KeyInv, AcceptedInv, [Next]_vars PROVE AcceptedInv'
    OBVIOUS
  <1>1. faults' = faults
    <2>1. UNCHANGED D!vars => faults' = faults
      BY DEF D!vars, D!historyVars
    <2>2. D!Next => faults' = faults
      BY DEF D!Next, D!Create, D!EnqueueSend, D!Handle, D!Load, D!Claim, D!ClaimFails, D!LoadAttachments,
         D!ResolveDKIM, D!ReceiverTakes, D!SendSucceeds, D!SendFails, D!RecordSent, D!GiveUp, D!RetryLater,
         D!Ack, D!Nack, D!GoTo, D!Queue, D!ForwardRetry, D!Recover, D!Dequeue, D!Failure, D!LoseLease,
         D!Crash, D!Abort, D!DeleteWorkspaces, D!historyVars
    <2>3. QED
      BY <2>1, <2>2, StepIsDelivery
  <1>2. Calm' => Calm
    BY <1>1 DEF Calm
  <1>3. ASSUME NEW a \in Attachments, UploadAttachment(a) PROVE AcceptedInv'
    <2>1. UNCHANGED <<status, task, retried, lease, pc, job, attempt, callVars>>
      BY <1>3 DEF UploadAttachment, Put, InsertAttachment, CleanUp, UploadAt, deliveryVars
    <2>2. QED
      BY <1>2, <1>3, <2>1, UploadsStay, ServedStays, AcceptedStays DEF AcceptedInv
  <1>4. ASSUME NEW c \in Emails, Call(c) \/ CallFails(c) PROVE AcceptedInv'
    <2>1. UNCHANGED uploadVars
      BY <1>4 DEF Call, Arrive, LookUp, Compare, Resolve, Create, Reread, Attach, Enqueue, CallFails, fileVars
    <2>2. QED
      BY <1>2, <1>4, <2>1, CallServes DEF AcceptedInv, UploadInv, uploadVars
  <1>5. ASSUME NEW w \in Workers, Handle(w) PROVE AcceptedInv'
    <2>1. D!Handle(w) /\ UNCHANGED <<callVars, uploadVars>>
      BY <1>5 DEF Handle, LoadAttachments, ReceiverTakes, OtherHandling, D!Handle, fileVars
    <2>2. QED
      BY <1>2, <2>1, HandleServes, AcceptedStays DEF AcceptedInv, UploadInv, uploadVars
  <1>6. CASE (D!Queue \/ D!Failure) /\ UNCHANGED <<callVars, fileVars>>
    BY <1>2, <1>6, QueueServes, AcceptedStays DEF AcceptedInv, UploadInv, fileVars, uploadVars
  <1>7. CASE DeleteWorkspace
    <2>1. UNCHANGED <<callVars, uploadVars>>
      BY <1>7 DEF DeleteWorkspace
    <2>2. QED
      BY <1>2, <1>7, <2>1, DeletionServes, AcceptedStays DEF AcceptedInv, UploadInv, uploadVars
  <1>8. CASE UNCHANGED vars
    <2>1. UNCHANGED <<status, task, retried, lease, pc, job, attempt, callVars, uploadVars>>
      BY <1>8 DEF vars, deliveryVars, fileVars
    <2>2. QED
      BY <1>2, <2>1, ServedStays, AcceptedStays DEF AcceptedInv, UploadInv, uploadVars
  <1>9. QED
    BY <1>3, <1>4, <1>5, <1>6, <1>7, <1>8 DEF Next

LEMMA AcceptedInvDecides == TypeOK /\ KeyInv /\ AcceptedInv => AcceptedIsUnderway
  <1>. SUFFICES ASSUME TypeOK, KeyInv, AcceptedInv, Calm, NEW c \in Emails, step[c] = "accepted"
                PROVE  \/ status[found[c]] \in D!Terminal \cup {"deleted"}
                       \/ task[found[c]] \in Alive /\ FilesOf(found[c]) \subseteq blobs
    BY DEF AcceptedIsUnderway, Calm, Alive
  <1>1. found[c] \in Emails /\ Settled(found[c])
    BY DEF AcceptedInv, AcceptedSettled, KeyInv, Accepted, TypeOK
  <1>2. FilesOf(found[c]) \subseteq blobs
    BY <1>1, OutboundAssumption DEF FilesOf, AcceptedInv, UploadInv, TypeOK
  <1>3. QED
    BY <1>1, <1>2 DEF Settled, Over, D!Terminal

\* While the workers, their database and their leases hold, a call that was told its
\* message is accepted has it delivered, buried or in the queue with its files in
\* storage, whatever becomes of other calls, of their uploads and of the workspace.
THEOREM AcceptedUnderway == Spec => []AcceptedIsUnderway
  BY TypesHold, KeysHold, InitAcceptedInv, NextAcceptedInv, AcceptedInvDecides, PTL DEF Spec

=============================================================================
