------------------------------ MODULE MailAccess ------------------------------
(***************************************************************************)
(* The ways received mail is read, over Workspaces: the web client's       *)
(* requests (internal/httpapi) and IMAP connections (internal/imapservice, *)
(* whose work on the messages is ImapSessions).                            *)
(*                                                                         *)
(* An IMAP connection keeps what it logged in with.  Every command asks    *)
(* again whether that still holds, by two queries, and then reads.  `held' *)
(* keeps book of the commands and requests whose right there was at some   *)
(* moment since they were sent.                                            *)
(***************************************************************************)
EXTENDS Workspaces

CONSTANT Conns      \* IMAP connections

VARIABLES
    conn,       \* IMAP connections
    held        \* commands and requests in flight that have had a right

accessVars == <<conn, held>>

Grant == [user : Someone, box : Nat, ws : Nat, hash : Nat, app : BOOLEAN]
NoGrant == [user |-> NoOne, box |-> 0, ws |-> 0, hash |-> 0, app |-> FALSE]
Closed == [at |-> "out", grant |-> NoGrant]
ConnSteps == {"out", "in", "asked", "checked", "answer"}

AccessTypeOK ==
    /\ conn \in [Conns -> [at : ConnSteps, grant : Grant]]
    /\ held \subseteq Conns \cup Requests

AccessInit ==
    /\ conn = [c \in Conns |-> Closed]
    /\ held = {}

-----------------------------------------------------------------------------

\* A member reads what is shared or their own.
CanAccess(u, box) ==
    /\ box # 0 /\ db.box.id = box
    /\ db.role[u] # "none"
    /\ db.box.owner \in {NoOne, u}

\* What the password of an account opens: the mailbox of its own.
AccountGrants ==
    {[user |-> u, box |-> db.box.id, ws |-> db.ws, hash |-> db.password[u], app |-> FALSE] :
        u \in {u \in {db.box.owner} \ {NoOne} : db.role[u] # "none"}}

\* The second query: whose the mailbox is, and the password.
Active(g) ==
    /\ g.box # 0 /\ db.box.id = g.box
    /\ db.box.owner = g.user
    /\ db.password[g.user] = g.hash

ConnAt(c, at) ==
    /\ conn' = [conn EXCEPT ![c].at = at]
    /\ UNCHANGED <<scene, db, req, last>>

Login(c) ==
    /\ conn[c].at = "out"
    /\ \E g \in AccountGrants : conn' = [conn EXCEPT ![c] = [at |-> "in", grant |-> g]]
    /\ UNCHANGED <<scene, db, req, last>>

Command(c) ==
    /\ conn[c].at = "in"
    /\ ConnAt(c, "asked")

CheckAccess(c) ==
    /\ conn[c].at = "asked"
    /\ CanAccess(conn[c].grant.user, conn[c].grant.box)
    /\ ConnAt(c, "checked")

CheckActive(c) ==
    /\ conn[c].at = "checked"
    /\ Active(conn[c].grant)
    /\ ConnAt(c, "answer")

\* Answered, refused or failed.
EndCommand(c) ==
    /\ conn[c].at \in {"asked", "checked", "answer"}
    /\ ConnAt(c, "in")

Close(c) ==
    /\ conn[c].at # "out"
    /\ conn' = [conn EXCEPT ![c] = Closed]
    /\ UNCHANGED <<scene, db, req, last>>

IMAP(c) == Login(c) \/ Command(c) \/ CheckAccess(c) \/ CheckActive(c) \/ EndCommand(c) \/ Close(c)

-----------------------------------------------------------------------------
(* The web client.                                                          *)

Show(r) ==
    /\ req' = [req EXCEPT ![r].at = "shown"]
    /\ UNCHANGED <<scene, db, last, conn>>

\* The mailbox must be of the workspace, and open to the caller.
ListMessages(r) ==
    /\ Acts(r, "ListMessages")
    /\ CanAccess(req[r].by, req[r].box)
    /\ Show(r)

\* The message is found through the workspace, then its mailbox is asked for.
ReadableMessage(r) == Acts(r, req[r].op) /\ CanAccess(req[r].by, req[r].box)

GetMessage(r) ==
    /\ req[r].op = "GetMessage"
    /\ ReadableMessage(r)
    /\ Show(r)

DownloadReceivedAttachment(r) ==
    /\ req[r].op = "DownloadReceivedAttachment"
    /\ ReadableMessage(r)
    /\ Show(r)

MarkMessageRead(r) ==
    /\ req[r].op = "MarkMessageRead"
    /\ ReadableMessage(r)
    /\ Show(r)

Reading(r) ==
    ListMessages(r) \/ GetMessage(r) \/ DownloadReceivedAttachment(r) \/ MarkMessageRead(r)

-----------------------------------------------------------------------------

AccessNext ==
    \/ "Imap" \in scene.ops /\ \E c \in Conns : IMAP(c)
    \/ \E r \in Requests : Reading(r)

\* In flight, and what it needs.
InFlight ==
    {c \in Conns : conn[c].at \in {"asked", "checked", "answer"}}
    \cup {r \in Requests : req[r].op \in ReadOps /\ req[r].at \in {"act", "shown"}}

Permitted ==
    {c \in Conns : conn[c].grant \in AccountGrants}
    \cup {r \in Requests : req[r].op \in ReadOps /\ CanAccess(req[r].by, req[r].box)}

Remember == held' = InFlight' \cap (Permitted' \cup (held \cap InFlight))
=============================================================================
