---------------------------- MODULE EmailPromise ----------------------------
(***************************************************************************)
(* What the outbound pipeline promises about one stored message, without   *)
(* the queue, the workers or the database between them.  A message is      *)
(* accepted, attempted, confirmed by the provider at most once, never sent *)
(* again after that, and its recorded outcome tells the truth about it.    *)
(* Until the confirmation the receiver may get it more than once.          *)
(*                                                                         *)
(* Delivery implements this specification (see Delivery!Promise and the    *)
(* theorem DeliveryImplementsPromise in DeliveryProofs).                   *)
(***************************************************************************)
EXTENDS Naturals

CONSTANT Emails

VARIABLES
    status,     \* emails.status of every message, "absent" and "deleted" included
    copies,     \* how often the receiving server took each message
    handOffs    \* how often the provider confirmed each message

sendVars == <<copies, handOffs>>
promiseVars == <<status, sendVars>>

Init ==
    /\ status = [e \in Emails |-> "absent"]
    /\ copies = [e \in Emails |-> 0]
    /\ handOffs = [e \in Emails |-> 0]

Accept(e) ==
    /\ status[e] = "absent"
    /\ status' = [status EXCEPT ![e] = "queued"]
    /\ UNCHANGED sendVars

\* An attempt starts on a message that waits for one.
Attempt(e) ==
    /\ status[e] \in {"queued", "failed"}
    /\ handOffs[e] = 0
    /\ status' = [status EXCEPT ![e] = "processing"]
    /\ UNCHANGED sendVars

\* The receiver takes the message, in an attempt and never after a confirmation.
\* The workspace may disappear meanwhile.
Receive(e) ==
    /\ status[e] \in {"processing", "deleted"}
    /\ handOffs[e] = 0
    /\ copies' = [copies EXCEPT ![e] = @ + 1]
    /\ UNCHANGED <<status, handOffs>>

\* The one confirmation, of a message the receiver has.
HandOff(e) ==
    /\ status[e] \in {"processing", "deleted"}
    /\ handOffs[e] = 0
    /\ copies[e] >= 1
    /\ handOffs' = [handOffs EXCEPT ![e] = 1]
    /\ UNCHANGED <<status, copies>>

\* An outcome is recorded for the attempt in progress, and it is the real one.
RecordSuccess(e) ==
    /\ status[e] = "processing"
    /\ handOffs[e] = 1
    /\ status' = [status EXCEPT ![e] = "sent"]
    /\ UNCHANGED sendVars

RecordFailure(e) ==
    /\ status[e] = "processing"
    /\ handOffs[e] = 0
    /\ \E outcome \in {"failed", "dead"} : status' = [status EXCEPT ![e] = outcome]
    /\ UNCHANGED sendVars

\* Workspaces may be deleted with everything in them.
Forget(S) ==
    /\ status' = [e \in Emails |-> IF e \in S THEN "deleted" ELSE status[e]]
    /\ \A e \in S : status[e] # "absent"
    /\ UNCHANGED sendVars

Next ==
    \/ \E e \in Emails :
          Accept(e) \/ Attempt(e) \/ Receive(e) \/ HandOff(e) \/
          RecordSuccess(e) \/ RecordFailure(e)
    \/ \E S \in SUBSET Emails : Forget(S)

Spec == Init /\ [][Next]_promiseVars
=============================================================================
