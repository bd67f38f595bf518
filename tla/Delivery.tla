------------------------------ MODULE Delivery ------------------------------
(***************************************************************************)
(* The delivery of stored messages: the emails and email_events tables,    *)
(* the asynq queue in Redis and the workers of cmd/worker, with every      *)
(* database transaction, queue call and provider call a step of its own.   *)
(*                                                                         *)
(* Source: internal/email/queue.go, internal/email/store.go.  asynq is a   *)
(* library outside the repository, modelled from how queue.go uses it: a   *)
(* task per email id, a lease per running task, retries with a count, the  *)
(* archive.  A worker here is one running handler.                         *)
(*                                                                         *)
(* A definition named Mut... is the one that follows it with a plausible   *)
(* bug; no behaviour uses it.  It shows that a property would notice.      *)
(***************************************************************************)
EXTENDS Naturals, Sequences, FiniteSets

CONSTANTS
    Emails,     \* message ids
    Workers,    \* handlers that can run at the same time
    MaxRetry,   \* asynq.MaxRetry: maxAttempts in queue.go
    MaxAsks,    \* how many EnqueueSend calls one message ever gets (a bound)
    MaxStops,   \* how many handlers are ever cut short by a shutdown (a bound)
    FaultSets,  \* the kinds of failure that may happen together
    NoEmail, NoWorker

\* A worker's database call fails, a worker dies, a lease is lost or a handler times
\* out, a handler is cut short by a shutdown, a workspace is deleted, a call of the
\* API fails (Outbound).
FaultKinds == {"db", "crash", "lease", "shutdown", "delete", "api"}

ASSUME DeliveryAssumption ==
    /\ MaxRetry \in Nat /\ MaxAsks \in Nat /\ MaxStops \in Nat
    /\ FaultSets \subseteq SUBSET FaultKinds
    /\ NoEmail \notin Emails /\ NoWorker \notin Workers

VARIABLES
    status,     \* emails.status; "absent" before the insert, "deleted" after the cascade
    trail,      \* email_events.type, oldest first
    copies,     \* how often the receiving server took the message
    handOffs,   \* how often sender.Send returned success for it
    task,       \* the asynq task whose TaskID is the message's id
    retried,    \* the task's retry count
    lease,      \* the worker whose lease on the task is valid
    asks,       \* how many times EnqueueSend was called
    stops,      \* how many handlers were cut short by a shutdown
    faults,     \* the kinds of failure this behaviour meets, never changed
    pc,         \* where each worker's handler stands
    job,        \* the message it delivers
    attempt     \* the retry count it was started with

rowVars == <<status, trail>>
queueVars == <<task, retried, lease>>
workerVars == <<pc, job, attempt>>
sendVars == <<copies, handOffs>>
historyVars == <<sendVars, asks, stops, faults>>
vars == <<rowVars, queueVars, workerVars, historyVars>>

Terminal == {"sent", "dead"}
Stored == {"queued", "processing", "sent", "failed", "dead"}
\* The event types that are ever written.
EventTypes == {"queued", "processing", "sent", "failed"}
TaskStates == {"none", "pending", "active", "retry", "archived"}
Steps == {"idle", "load", "claim", "prepare", "sign", "send", "answer", "recordSent", "giveUp",
          "ack", "nack"}

TypeOK ==
    /\ status \in [Emails -> Stored \cup {"absent", "deleted"}]
    /\ trail \in [Emails -> Seq(EventTypes)]
    /\ copies \in [Emails -> Nat]
    /\ handOffs \in [Emails -> Nat]
    /\ task \in [Emails -> TaskStates]
    /\ retried \in [Emails -> 0..MaxRetry]
    /\ lease \in [Emails -> Workers \cup {NoWorker}]
    /\ asks \in [Emails -> 0..MaxAsks]
    /\ stops \in 0..MaxStops
    /\ faults \in FaultSets
    /\ pc \in [Workers -> Steps]
    /\ job \in [Workers -> Emails \cup {NoEmail}]
    /\ attempt \in [Workers -> 0..MaxRetry]
    /\ \A w \in Workers : pc[w] # "idle" => job[w] \in Emails

Init ==
    /\ status = [e \in Emails |-> "absent"]
    /\ trail = [e \in Emails |-> <<>>]
    /\ copies = [e \in Emails |-> 0]
    /\ handOffs = [e \in Emails |-> 0]
    /\ task = [e \in Emails |-> "none"]
    /\ retried = [e \in Emails |-> 0]
    /\ lease = [e \in Emails |-> NoWorker]
    /\ asks = [e \in Emails |-> 0]
    /\ stops = 0
    /\ faults \in FaultSets
    /\ pc = [w \in Workers |-> "idle"]
    /\ job = [w \in Workers |-> NoEmail]
    /\ attempt = [w \in Workers |-> 0]

-----------------------------------------------------------------------------
(* The API's two steps on a message: its row, then its task.               *)

\* Store.Create: the row and its first event in one transaction.
CreateRow(e) ==
    /\ status[e] = "absent"
    /\ status' = [status EXCEPT ![e] = "queued"]
    /\ trail' = [trail EXCEPT ![e] = <<"queued">>]

Create(e) == CreateRow(e) /\ UNCHANGED <<queueVars, workerVars, historyVars>>

\* AsynqEnqueuer.EnqueueSend: a task that already exists, archived or running,
\* answers ErrTaskIDConflict, which counts as success.
EnqueueSend(e) ==
    /\ status[e] # "absent"
    /\ asks[e] < MaxAsks
    /\ asks' = [asks EXCEPT ![e] = @ + 1]
    /\ IF task[e] = "none"
          THEN /\ task' = [task EXCEPT ![e] = "pending"]
               /\ retried' = [retried EXCEPT ![e] = 0]
          ELSE UNCHANGED <<task, retried>>
    /\ UNCHANGED <<rowVars, workerVars, sendVars, stops, faults, lease>>

-----------------------------------------------------------------------------
(* asynq.                                                                   *)

\* The scheduler forwards a task whose backoff has passed.
ForwardRetry(e) ==
    /\ task[e] = "retry"
    /\ task' = [task EXCEPT ![e] = "pending"]
    /\ UNCHANGED <<rowVars, workerVars, historyVars, retried, lease>>

\* A free worker takes a pending task and its lease.
Dequeue(w, e) ==
    /\ pc[w] = "idle"
    /\ task[e] = "pending"
    /\ task' = [task EXCEPT ![e] = "active"]
    /\ lease' = [lease EXCEPT ![e] = w]
    /\ pc' = [pc EXCEPT ![w] = "load"]
    /\ job' = [job EXCEPT ![w] = e]
    /\ attempt' = [attempt EXCEPT ![w] = retried[e]]
    /\ UNCHANGED <<rowVars, historyVars, retried>>

\* Mutant: retries that are not counted.
MutRetryUncounted(e) ==
    /\ lease' = [lease EXCEPT ![e] = NoWorker]
    /\ task' = [task EXCEPT ![e] = "retry"]
    /\ UNCHANGED retried

\* A failed run is retried later, or archived when the budget is used up.
RetryOrArchive(e) ==
    /\ lease' = [lease EXCEPT ![e] = NoWorker]
    /\ IF retried[e] < MaxRetry
          THEN /\ task' = [task EXCEPT ![e] = "retry"]
               /\ retried' = [retried EXCEPT ![e] = @ + 1]
          ELSE /\ task' = [task EXCEPT ![e] = "archived"]
               /\ UNCHANGED retried

\* The handler's nil ends the task, unless the lease is no longer its own.
Ack(w) ==
    /\ pc[w] = "ack"
    /\ pc' = [pc EXCEPT ![w] = "idle"]
    /\ IF lease[job[w]] = w
          THEN /\ task' = [task EXCEPT ![job[w]] = "none"]
               /\ lease' = [lease EXCEPT ![job[w]] = NoWorker]
          ELSE UNCHANGED <<task, lease>>
    /\ UNCHANGED <<rowVars, job, attempt, historyVars, retried>>

\* The handler's error asks for another attempt.
Nack(w) ==
    /\ pc[w] = "nack"
    /\ pc' = [pc EXCEPT ![w] = "idle"]
    /\ IF lease[job[w]] = w THEN RetryOrArchive(job[w]) ELSE UNCHANGED queueVars
    /\ UNCHANGED <<rowVars, job, attempt, historyVars>>

\* The two-minute timeout, or an expired lease: the task goes back to the queue
\* while its handler is still running.
LoseLease(w) ==
    /\ "lease" \in faults
    /\ pc[w] # "idle"
    /\ lease[job[w]] = w
    /\ RetryOrArchive(job[w])
    /\ UNCHANGED <<rowVars, workerVars, historyVars>>

\* A worker dies; its task stays active until the recoverer sees the lease run out.
Crash(w) ==
    /\ "crash" \in faults
    /\ pc[w] # "idle"
    /\ pc' = [pc EXCEPT ![w] = "idle"]
    /\ IF lease[job[w]] = w
          THEN lease' = [lease EXCEPT ![job[w]] = NoWorker]
          ELSE UNCHANGED lease
    /\ UNCHANGED <<rowVars, job, attempt, historyVars, task, retried>>

\* A worker told to stop gives back, uncounted, the task it cannot finish in time.
Abort(w) ==
    /\ "shutdown" \in faults
    /\ stops < MaxStops
    /\ stops' = stops + 1
    /\ pc[w] # "idle"
    /\ pc' = [pc EXCEPT ![w] = "idle"]
    /\ IF lease[job[w]] = w
          THEN /\ lease' = [lease EXCEPT ![job[w]] = NoWorker]
               /\ task' = [task EXCEPT ![job[w]] = "pending"]
          ELSE UNCHANGED <<lease, task>>
    /\ UNCHANGED <<rowVars, job, attempt, sendVars, asks, faults, retried>>

\* Mutant: nobody looks after the tasks of dead workers.
MutRecoverNever(e) == FALSE /\ UNCHANGED vars

Recover(e) ==
    /\ task[e] = "active"
    /\ lease[e] = NoWorker
    /\ RetryOrArchive(e)
    /\ UNCHANGED <<rowVars, workerVars, historyVars>>

-----------------------------------------------------------------------------
(* Worker.Deliver.  A store call may fail on a database error, or because   *)
(* the handler's context ended with its lease; a transaction that failed    *)
(* may have committed all the same, its answer lost.                        *)

CallMayFail(w) == "db" \in faults \/ lease[job[w]] # w

\* Mutant: the event is written outside the transaction and lost.
MutFinishNoEvent(e, s, event) ==
    /\ status' = [status EXCEPT ![e] = s]
    /\ UNCHANGED trail

\* Store.finish: a status and its event in one transaction.
Finish(e, s, event) ==
    /\ status' = [status EXCEPT ![e] = s]
    /\ trail' = [trail EXCEPT ![e] = Append(@, event)]

\* MarkSent, MarkFailed and MarkDead update the row whatever its status is.
Mark(e, s, event) ==
    IF status[e] \in Stored THEN Finish(e, s, event) ELSE UNCHANGED rowVars

GoTo(w, step) ==
    /\ pc' = [pc EXCEPT ![w] = step]
    /\ UNCHANGED <<job, attempt, queueVars, asks, stops, faults>>

\* ByIDUnscoped, then the check for a message that needs nothing more.
Load(w) ==
    /\ pc[w] = "load"
    /\ \/ GoTo(w, IF status[job[w]] \in Stored \ Terminal THEN "claim" ELSE "ack")
       \/ CallMayFail(w) /\ GoTo(w, "nack")
    /\ UNCHANGED <<rowVars, sendVars>>

\* Mutants: a claim without the status guard's full list.
MutClaimableAnyOpen(e) == status[e] \in {"queued", "failed", "processing"}
MutClaimableUnlessBusy(e) == status[e] \in Stored \ {"processing"}

\* MarkProcessing: only a queued or failed message can be claimed.
Claimable(e) == status[e] \in {"queued", "failed"}

Claim(w) ==
    /\ pc[w] = "claim"
    /\ IF Claimable(job[w])
          THEN /\ Finish(job[w], "processing", "processing")
               /\ GoTo(w, "prepare")
          ELSE GoTo(w, "ack") /\ UNCHANGED rowVars
    /\ UNCHANGED sendVars

ClaimFails(w) ==
    /\ pc[w] = "claim"
    /\ CallMayFail(w)
    /\ \/ UNCHANGED rowVars
       \/ Claimable(job[w]) /\ Finish(job[w], "processing", "processing")
    /\ GoTo(w, "nack")
    /\ UNCHANGED sendVars

\* loadAttachments: a file's row, or the bucket, may fail, and fails the attempt.
LoadAttachments(w) ==
    /\ pc[w] = "prepare"
    /\ GoTo(w, "sign") \/ GoTo(w, "giveUp")
    /\ UNCHANGED <<rowVars, sendVars>>

\* SigningKeyForDomain: a key, none for this workspace, or an error.
SigningKeyAnswers == {"key", "unsigned", "error"}

\* resolveDKIM: no key means an unsigned message, an error fails the attempt.
ResolveDKIM(w) ==
    /\ pc[w] = "sign"
    /\ \E answer \in SigningKeyAnswers : GoTo(w, IF answer = "error" THEN "giveUp" ELSE "send")
    /\ UNCHANGED <<rowVars, sendVars>>

\* sender.Send, in two: the receiving server takes the message, then the sender
\* reads its answer.
ReceiverTakes(w) ==
    /\ pc[w] = "send"
    /\ copies' = [copies EXCEPT ![job[w]] = @ + 1]
    /\ GoTo(w, "answer")
    /\ UNCHANGED <<rowVars, handOffs>>

SendSucceeds(w) ==
    /\ pc[w] = "answer"
    /\ handOffs' = [handOffs EXCEPT ![job[w]] = @ + 1]
    /\ GoTo(w, "recordSent")
    /\ UNCHANGED <<rowVars, copies>>

\* Mutant: the provider's error is swallowed.
MutSendFailsUnnoticed(w) ==
    /\ pc[w] = "send"
    /\ GoTo(w, "recordSent")
    /\ UNCHANGED <<rowVars, sendVars>>

\* The sender refuses the message, the server does, or the connection ends: before
\* the server took the message, or with its answer still on the way.
SendFails(w) ==
    /\ pc[w] \in {"send", "answer"}
    /\ GoTo(w, "giveUp")
    /\ UNCHANGED <<rowVars, sendVars>>

\* MarkSent; its failure is only logged, the task is over either way.
RecordSent(w) ==
    /\ pc[w] = "recordSent"
    /\ \/ Mark(job[w], "sent", "sent")
       \/ CallMayFail(w) /\ UNCHANGED rowVars
    /\ GoTo(w, "ack")
    /\ UNCHANGED sendVars

\* Mutant: the last attempt ends without MarkDead.
MutGiveUpSilently(w) ==
    /\ pc[w] = "giveUp"
    /\ attempt[w] >= MaxRetry
    /\ GoTo(w, "ack")
    /\ UNCHANGED <<rowVars, sendVars>>

\* giveUpOrRetry with its last attempt used: MarkDead, then nil.
GiveUp(w) ==
    /\ pc[w] = "giveUp"
    /\ attempt[w] >= MaxRetry
    /\ \/ Mark(job[w], "dead", "failed")
       \/ CallMayFail(w) /\ UNCHANGED rowVars
    /\ GoTo(w, "ack")
    /\ UNCHANGED sendVars

\* giveUpOrRetry with attempts left: MarkFailed, then the error.
RetryLater(w) ==
    /\ pc[w] = "giveUp"
    /\ attempt[w] < MaxRetry
    /\ \/ Mark(job[w], "failed", "failed")
       \/ CallMayFail(w) /\ UNCHANGED rowVars
    /\ GoTo(w, "nack")
    /\ UNCHANGED sendVars

\* Deleting workspaces cascades to their messages and events (migration 0001, 0003).
ForgetRows(S) ==
    /\ \A e \in S : status[e] \in Stored
    /\ status' = [e \in Emails |-> IF e \in S THEN "deleted" ELSE status[e]]
    /\ trail' = [e \in Emails |-> IF e \in S THEN <<>> ELSE trail[e]]

DeleteWorkspaces(S) ==
    /\ "delete" \in faults
    /\ ForgetRows(S)
    /\ UNCHANGED <<queueVars, workerVars, historyVars>>

Handle(w) ==
    \/ Load(w) \/ Claim(w) \/ ClaimFails(w) \/ LoadAttachments(w) \/ ResolveDKIM(w)
    \/ ReceiverTakes(w) \/ SendSucceeds(w) \/ SendFails(w) \/ RecordSent(w) \/ GiveUp(w) \/ RetryLater(w)
    \/ Ack(w) \/ Nack(w)

Queue ==
    \/ \E e \in Emails : ForwardRetry(e) \/ Recover(e)
    \/ \E w \in Workers, e \in Emails : Dequeue(w, e)

Failure == \E w \in Workers : LoseLease(w) \/ Crash(w) \/ Abort(w)

Next ==
    \/ \E e \in Emails : Create(e) \/ EnqueueSend(e)
    \/ \E w \in Workers : Handle(w)
    \/ Queue
    \/ Failure
    \/ \E S \in SUBSET Emails : DeleteWorkspaces(S)

Spec == Init /\ [][Next]_vars

(***************************************************************************)
(* Fairness: the asynq server keeps its scheduler, recoverer and handlers  *)
(* running, and serves a queue in order, so a pending task is eventually   *)
(* taken whenever workers keep becoming free.                              *)
(***************************************************************************)
QueueFairness ==
    /\ \A w \in Workers : WF_vars(Handle(w))
    /\ \A e \in Emails :
          /\ WF_vars(ForwardRetry(e))
          /\ WF_vars(Recover(e))
          /\ SF_vars(\E w \in Workers : Dequeue(w, e))

FairSpec == Spec /\ QueueFairness

-----------------------------------------------------------------------------
(* Properties.                                                              *)

\* The worker is between its claim and the record of the attempt's outcome.
Holds(w) == pc[w] \in {"prepare", "sign", "send", "answer", "recordSent", "giveUp"}

\* No two workers ever deliver the same message at once, whatever leases expire,
\* tasks are redelivered or handlers outlive their task: the claim in
\* MarkProcessing is the only guard (store.go:102-104).
ClaimIsExclusive ==
    \A v, w \in Workers : Holds(v) /\ Holds(w) /\ job[v] = job[w] => v = w

\* A message the provider confirmed once is never handed over again: not by a
\* redelivered task, not by a worker that lost its lease, not after a crash
\* between the hand-off and the record of it (queue.go:126-135, 178-184).
AtMostOneHandOff == \A e \in Emails : handOffs[e] <= 1

\* The recorded outcome is the real one: "sent" only for a message the provider
\* confirmed and the receiver has, "failed" and "dead" only for one never confirmed.
OutcomeIsTrue ==
    \A e \in Emails :
        /\ status[e] = "sent" => handOffs[e] = 1 /\ copies[e] >= 1
        /\ status[e] \in {"queued", "failed", "dead"} => handOffs[e] = 0

\* The status and the event trail never disagree (store.go:152-153): the last
\* event names the status, and every outcome closes an attempt of its own.
EventOf(s) == IF s = "dead" THEN "failed" ELSE s

TrailAgrees ==
    \A e \in Emails : status[e] \in Stored =>
        /\ trail[e] # <<>>
        /\ trail[e][Len(trail[e])] = EventOf(status[e])
        /\ trail[e][1] = "queued"
        /\ \A i \in 2..Len(trail[e]) :
              /\ trail[e][i] # "queued"
              /\ trail[e][i] \in {"sent", "failed"} <=> trail[e][i - 1] = "processing"

Claims(e) == Cardinality({i \in DOMAIN trail[e] : trail[e][i] = "processing"})

\* The retry budget holds across redeliveries, crashes and lost leases: one
\* accepted EnqueueSend starts at most MaxRetry + 1 attempts, and only a handler
\* cut short by a shutdown adds one.  The receiver gets one copy per attempt at most,
\* so an answer lost on its way back costs a bounded number of duplicates.
AttemptsWithinBudget ==
    \A e \in Emails :
        /\ Claims(e) <= (MaxRetry + 1) * asks[e] + stops
        /\ status[e] \in Stored => copies[e] <= Claims(e)

\* Sent and dead are final: no late handler, retried request or redelivered task
\* reopens a message (only deleting its workspace ends it), store.go:115-116.
TerminalIsFinal ==
    [][\A e \in Emails : status[e] \in Terminal => status'[e] \in {status[e], "deleted"}]_vars

\* Every task leaves the queue, delivered or archived: worker crashes, lost leases
\* and database errors cost attempts but never wedge a task.
QueueDrains ==
    \A e \in Emails : task[e] \in {"pending", "active", "retry"} ~> task[e] \in {"none", "archived"}

\* With a working database and workers that stay up, a queued task brings its
\* message to sent or dead.
EventuallySettled ==
    \A e \in Emails :
        faults = {} /\ status[e] = "queued" /\ task[e] # "none" ~> status[e] \in Terminal

\* What the comment on HandleSend promises: "a retry that will never happen must
\* not leave the row looking like it is still being worked on" (queue.go:92-93).
NotLeftProcessing ==
    \A e \in Emails : status[e] = "processing" ~> status[e] # "processing"

\* The pipeline implements its promise: of its state the promise sees the status
\* column, the receiver's copies and the provider's confirmations, and the rest is how
\* they are kept true.
Promise == INSTANCE EmailPromise WITH
              Emails <- Emails, status <- status, copies <- copies, handOffs <- handOffs
ImplementsPromise == Promise!Spec
=============================================================================
