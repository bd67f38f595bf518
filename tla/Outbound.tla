------------------------------ MODULE Outbound ------------------------------
(***************************************************************************)
(* The outbound path from the API request to the provider: Service.Send    *)
(* (internal/email/service.go) composed with Delivery.  A call of Send is  *)
(* one process: it looks its idempotency key up, resolves its attachments, *)
(* writes the row, claims the attachments and enqueues the task, each in   *)
(* a database or Redis call of its own, while other calls and the workers  *)
(* run between them.                                                       *)
(*                                                                         *)
(* A call writes at most one row, so the row a call writes has the call's  *)
(* name: Emails are both the calls of Send and the rows they may write.    *)
(* One workspace.  Requests that fail validation, or name a From address   *)
(* the workspace may not use, change nothing and are left out.             *)
(***************************************************************************)
EXTENDS Naturals, Sequences, FiniteSets

CONSTANTS
    Emails, Workers, MaxRetry, MaxAsks, MaxStops, FaultSets, NoEmail, NoWorker,
    Attachments,    \* files to be uploaded
    Requests,       \* what clients ask: records [key, content, files]
    NoKey           \* a request without Idempotency-Key

ASSUME OutboundAssumption ==
    /\ MaxRetry \in Nat /\ MaxAsks \in Nat /\ MaxStops \in Nat
    /\ NoEmail \notin Emails /\ NoWorker \notin Workers
    /\ \A r \in Requests : r.files \subseteq Attachments
    /\ Cardinality(Emails) <= MaxAsks

VARIABLES
    status, trail, copies, handOffs, task, retried, lease, asks, stops, faults, pc, job, attempt,
    step,       \* where each call of Send stands, or how it ended
    req,        \* what it was asked
    found,      \* the message it found or wrote
    seen,       \* that message's status when it was looked up
    attachedTo, \* attachments.email_id
    loaded,     \* the files a worker has read for the message it delivers
    sentWith,   \* the files in the copy the receiver took last
    open,       \* the workspace exists
    upload,     \* where the upload of each file stands
    blobs       \* the files in object storage

D == INSTANCE Delivery

deliveryVars == <<status, trail, copies, handOffs, task, retried, lease, asks, stops, faults,
                  pc, job, attempt>>
callVars == <<step, req, found, seen>>
uploadVars == <<upload, blobs>>
fileVars == <<attachedTo, loaded, sentWith, open, uploadVars>>
vars == <<deliveryVars, callVars, fileVars>>

\* told: the client has the id of the row.
UploadSteps == {"none", "stored", "told", "cleanUp", "ended"}
Ended == {"accepted", "handedBack", "refused", "failed"}
CallSteps == {"idle", "lookUp", "compare", "reEnqueue", "resolve", "create", "reread",
              "attach", "enqueue"} \cup Ended

\* handedBack: accepted with the row a concurrent call won the key with.
Accepted(c) == step[c] \in {"accepted", "handedBack"}

TypeOK ==
    /\ D!TypeOK
    /\ step \in [Emails -> CallSteps]
    /\ req \in [Emails -> Requests]
    /\ found \in [Emails -> Emails \cup {NoEmail}]
    /\ seen \in [Emails -> D!Stored \cup {"absent"}]
    /\ attachedTo \in [Attachments -> Emails \cup {NoEmail}]
    /\ loaded \in [Workers -> SUBSET Attachments]
    /\ sentWith \in [Emails -> SUBSET Attachments]
    /\ open \in BOOLEAN
    /\ upload \in [Attachments -> UploadSteps]
    /\ blobs \subseteq Attachments
    /\ \A a \in Attachments : attachedTo[a] # NoEmail => upload[a] = "told"
    /\ \A c \in Emails : step[c] \in {"compare", "reEnqueue", "enqueue", "attach"} => found[c] # NoEmail

\* Each call is asked one of the requests, from the start.
Init ==
    /\ D!Init
    /\ step = [c \in Emails |-> "idle"]
    /\ req \in [Emails -> Requests]
    /\ found = [c \in Emails |-> NoEmail]
    /\ seen = [c \in Emails |-> "absent"]
    /\ attachedTo = [a \in Attachments |-> NoEmail]
    /\ loaded = [w \in Workers |-> {}]
    /\ sentWith = [e \in Emails |-> {}]
    /\ open = TRUE
    /\ upload = [a \in Attachments |-> "none"]
    /\ blobs = {}

-----------------------------------------------------------------------------
(* What the store's queries see.                                            *)

FilesOf(e) == {a \in Attachments : attachedTo[a] = e}

\* Mutant: the query forgets email_id IS NULL.
MutFreeTaken(a) == open

\* AttachmentsByIDs asks for unattached files of the workspace.
Free(a) == open /\ attachedTo[a] = NoEmail

\* Mutant: only queued rows count.
MutRowsWithKeyQueued(key) ==
    {e \in Emails : status[e] = "queued" /\ req[e].key = key /\ key # NoKey}

\* The unique index on (workspace_id, idempotency_key).
RowsWithKey(key) == {e \in Emails : status[e] \in D!Stored /\ req[e].key = key /\ key # NoKey}

-----------------------------------------------------------------------------
(* Service.UploadAttachment: the file goes to storage before its row.       *)

UploadAt(a, s) ==
    /\ upload' = [upload EXCEPT ![a] = s]
    /\ UNCHANGED <<deliveryVars, callVars, attachedTo, loaded, sentWith, open>>

Put(a) ==
    /\ upload[a] = "none" /\ open
    /\ \/ UploadAt(a, "stored") /\ blobs' = blobs \cup {a}
       \/ "api" \in faults /\ UploadAt(a, "ended") /\ UNCHANGED blobs

\* The row may be there although its answer was lost; then nobody knows its id.
InsertAttachment(a) ==
    /\ upload[a] = "stored"
    /\ \/ open /\ UploadAt(a, "told")
       \/ (~open \/ "api" \in faults) /\ UploadAt(a, "cleanUp")
    /\ UNCHANGED blobs

\* An error here is ignored.
CleanUp(a) ==
    /\ upload[a] = "cleanUp"
    /\ UploadAt(a, "ended")
    /\ blobs' = blobs \ {a} \/ UNCHANGED blobs

UploadAttachment(a) == Put(a) \/ InsertAttachment(a) \/ CleanUp(a)

-----------------------------------------------------------------------------
(* Service.Send.                                                            *)

MoveTo(c, s) ==
    /\ step' = [step EXCEPT ![c] = s]
    /\ UNCHANGED req

\* A request names files by the ids their uploads answered with.
Arrive(c) ==
    /\ step[c] = "idle"
    /\ \A a \in req[c].files : upload[a] = "told"
    /\ MoveTo(c, IF req[c].key = NoKey THEN "resolve" ELSE "lookUp")
    /\ UNCHANGED <<deliveryVars, found, seen, fileVars>>

\* ByIdempotencyKey; a row with other content refuses the request.
LookUp(c) ==
    /\ step[c] = "lookUp"
    /\ \/ /\ RowsWithKey(req[c].key) = {}
          /\ MoveTo(c, "resolve")
          /\ UNCHANGED <<found, seen>>
       \/ \E e \in RowsWithKey(req[c].key) :
             /\ MoveTo(c, IF req[e].content = req[c].content THEN "compare" ELSE "refused")
             /\ found' = [found EXCEPT ![c] = e]
             /\ seen' = [seen EXCEPT ![c] = status[e]]
    /\ UNCHANGED <<deliveryVars, fileVars>>

\* Mutant: a message found under the key is never queued again.
MutCompareOnly(c) ==
    /\ step[c] = "compare"
    /\ MoveTo(c, IF FilesOf(found[c]) # req[c].files THEN "refused" ELSE "accepted")
    /\ UNCHANGED <<deliveryVars, found, seen, fileVars>>

\* Mutant: only the text is compared.
MutCompareText(c) ==
    /\ step[c] = "compare"
    /\ MoveTo(c, IF seen[c] = "queued" THEN "reEnqueue" ELSE "accepted")
    /\ UNCHANGED <<deliveryVars, found, seen, fileVars>>

\* AttachmentsByEmailID; the status is the one the lookup returned.
Compare(c) ==
    /\ step[c] = "compare"
    /\ MoveTo(c, IF FilesOf(found[c]) # req[c].files THEN "refused"
                 ELSE IF seen[c] = "queued" THEN "reEnqueue" ELSE "accepted")
    /\ UNCHANGED <<deliveryVars, found, seen, fileVars>>

\* AttachmentsByIDs: every file must be free.
Resolve(c) ==
    /\ step[c] = "resolve"
    /\ MoveTo(c, IF \A a \in req[c].files : Free(a) THEN "create" ELSE "refused")
    /\ UNCHANGED <<deliveryVars, found, seen, fileVars>>

\* Store.Create.  The unique index lets one row per key in, the foreign key none
\* into a deleted workspace.
Create(c) ==
    /\ step[c] = "create"
    /\ \/ /\ open
          /\ RowsWithKey(req[c].key) = {}
          /\ D!Create(c)
          /\ MoveTo(c, IF req[c].files = {} THEN "enqueue" ELSE "attach")
          /\ found' = [found EXCEPT ![c] = c]
       \/ /\ RowsWithKey(req[c].key) # {}
          /\ MoveTo(c, "reread")
          /\ UNCHANGED <<deliveryVars, found>>
       \/ /\ ~open
          /\ MoveTo(c, "failed")
          /\ UNCHANGED <<deliveryVars, found>>
    /\ UNCHANGED <<seen, fileVars>>

\* The loser of a race for the key answers with the winner's row, as it is.
Reread(c) ==
    /\ step[c] = "reread"
    /\ \/ \E e \in RowsWithKey(req[c].key) :
             /\ found' = [found EXCEPT ![c] = e]
             /\ MoveTo(c, "handedBack")
       \/ /\ RowsWithKey(req[c].key) = {}
          /\ MoveTo(c, "failed")
          /\ UNCHANGED found
    /\ UNCHANGED <<deliveryVars, seen, fileVars>>

\* Mutant: the count of claimed files is not compared.
MutAttachWhatever(c) ==
    /\ step[c] = "attach"
    /\ attachedTo' = [a \in Attachments |-> IF a \in req[c].files /\ Free(a) THEN c ELSE attachedTo[a]]
    /\ MoveTo(c, "enqueue")
    /\ UNCHANGED <<deliveryVars, found, seen, loaded, sentWith, open, uploadVars>>

\* AttachToEmail claims whatever is still free; a file lost to another request
\* fails this one and leaves the row as it is.
Attach(c) ==
    /\ step[c] = "attach"
    /\ LET claimed == {a \in req[c].files : Free(a)} IN
          /\ attachedTo' = [a \in Attachments |-> IF a \in claimed THEN c ELSE attachedTo[a]]
          /\ MoveTo(c, IF claimed = req[c].files THEN "enqueue" ELSE "refused")
    /\ UNCHANGED <<deliveryVars, found, seen, loaded, sentWith, open, uploadVars>>

\* EnqueueSend, for the call's own row or for one it found still queued.  The
\* answer may be lost on the way back.
Enqueue(c) ==
    /\ step[c] \in {"enqueue", "reEnqueue"}
    /\ D!EnqueueSend(found[c])
    /\ MoveTo(c, "accepted") \/ ("api" \in faults /\ MoveTo(c, "failed"))
    /\ UNCHANGED <<found, seen, fileVars>>

\* A store or queue call of the request fails, or the API dies: it ends where it stands.
CallFails(c) ==
    /\ "api" \in faults
    /\ step[c] \notin Ended \cup {"idle"}
    /\ MoveTo(c, "failed")
    /\ UNCHANGED <<deliveryVars, found, seen, fileVars>>

Call(c) ==
    \/ Arrive(c) \/ LookUp(c) \/ Compare(c) \/ Resolve(c) \/ Create(c) \/ Reread(c)
    \/ Attach(c) \/ Enqueue(c)

-----------------------------------------------------------------------------
(* The workers, with the files they read and send.                          *)

LoadAttachments(w) ==
    /\ D!LoadAttachments(w)
    /\ pc'[w] = "sign" => FilesOf(job[w]) \subseteq blobs
    /\ loaded' = [loaded EXCEPT ![w] = FilesOf(job[w])]
    /\ UNCHANGED <<callVars, attachedTo, sentWith, open, uploadVars>>

ReceiverTakes(w) ==
    /\ D!ReceiverTakes(w)
    /\ sentWith' = [sentWith EXCEPT ![job[w]] = loaded[w]]
    /\ UNCHANGED <<callVars, attachedTo, loaded, open, uploadVars>>

OtherHandling(w) ==
    /\ \/ D!Load(w) \/ D!Claim(w) \/ D!ClaimFails(w) \/ D!ResolveDKIM(w)
       \/ D!SendSucceeds(w) \/ D!SendFails(w) \/ D!RecordSent(w)
       \/ D!GiveUp(w) \/ D!RetryLater(w) \/ D!Ack(w) \/ D!Nack(w)
    /\ UNCHANGED <<callVars, fileVars>>

Handle(w) == LoadAttachments(w) \/ ReceiverTakes(w) \/ OtherHandling(w)

\* Deleting the workspace cascades to its messages, events and attachments.
DeleteWorkspace ==
    /\ open
    /\ D!DeleteWorkspaces({e \in Emails : status[e] \in D!Stored})
    /\ attachedTo' = [a \in Attachments |-> NoEmail]
    /\ open' = FALSE
    /\ UNCHANGED <<callVars, loaded, sentWith, uploadVars>>

Next ==
    \/ \E a \in Attachments : UploadAttachment(a)
    \/ \E c \in Emails : Call(c) \/ CallFails(c)
    \/ \E w \in Workers : Handle(w)
    \/ (D!Queue \/ D!Failure) /\ UNCHANGED <<callVars, fileVars>>
    \/ DeleteWorkspace

Spec == Init /\ [][Next]_vars

-----------------------------------------------------------------------------
(* Properties.                                                              *)

\* Calls answered under one idempotency key are answered with one message,
\* however their lookups and inserts interleave (service.go:173-207, 244-248).
OneMessagePerKey ==
    \A c, d \in Emails :
        /\ Accepted(c) /\ Accepted(d)
        /\ req[c].key = req[d].key /\ req[c].key # NoKey
        => found[c] = found[d]

\* A message the receiver took carried the files its request named, all of them: a
\* message is not queued before its files are its own (service.go:209-211).
SentWhole ==
    \A e \in Emails :
        copies[e] > 0 /\ status[e] # "deleted" => sentWith[e] = req[e].files

\* A file goes out in one message at most: two requests that name it cannot both
\* send it (store.go:329-332).
FileSentOnce ==
    \A e, f \in Emails : e # f => sentWith[e] \cap sentWith[f] = {}

\* A call that was told its message is accepted has it delivered, buried or in the
\* queue, with its files in storage, even when other calls and uploads fail half-way.
\* Failures of the workers and answers that hand back a concurrent call's row are the
\* exceptions.
WorkerFaults == {"db", "crash", "lease", "shutdown"}

AcceptedIsUnderway ==
    faults \cap WorkerFaults = {} =>
        \A c \in Emails : step[c] = "accepted" =>
            \/ status[found[c]] \in D!Terminal \cup {"deleted"}
            \/ /\ task[found[c]] \in {"pending", "active", "retry"}
               /\ FilesOf(found[c]) \subseteq blobs

\* A key answers for one message only: an accepted request is answered with a
\* message of its own content (service.go:178-180, "idempotency key belongs to a
\* different message").
AnsweredWithOwnContent ==
    \A c \in Emails : Accepted(c) => req[found[c]].content = req[c].content

\* A message whose own request was refused is never sent, and no retry of that request
\* is told it is accepted: the row a lost file leaves behind (service.go:258-263) stays
\* queued, and for good.  Answers that hand back a concurrent call's row are the
\* exception, and a key must always come with the same files.
RefusedIsNotSent ==
    \A c \in Emails : step[c] = "refused" =>
        /\ copies[c] = 0
        /\ \A d \in Emails : step[d] = "accepted" => found[d] # c
=============================================================================
