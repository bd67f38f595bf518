------------------------------ MODULE Workspaces ------------------------------
(***************************************************************************)
(* One workspace slug and what hangs on it: members, a verified domain,    *)
(* one address under it, the address's SMTP password, an API key and the   *)
(* mail sent from the address (internal/workspace, httpapi, inbound).      *)
(*                                                                         *)
(* A handler looks up the caller's role once and acts in later statements, *)
(* by ids it has read; anything may change in between.  `req' holds the    *)
(* requests in flight.  MailAccess adds the ways mail is read, Submission  *)
(* those it is sent.                                                       *)
(*                                                                         *)
(* Personal workspaces, whose members never change, are left out; so is an *)
(* unverified domain, which allows nothing here.                           *)
(***************************************************************************)
EXTENDS Naturals, FiniteSets

CONSTANTS
    Users,
    NoOne,      \* NULL: the owner of a shared mailbox, the sender behind an API key
    Requests,   \* HTTP requests in flight
    Scenes      \* bounds: the roles and the mailbox owner there are at the start, what is
                \* done, how many ids and password hashes are given out, how many mails are sent

Admins == {"owner", "admin"}
Roles == Admins \cup {"member"}
OwnerOps == {"AddMember", "UpdateMember", "RemoveMember", "DeleteWorkspace", "AssignOwner"}
AdminOps == {"VerifyDomain", "DeleteDomain", "CreateMailbox", "SetSMTPPassword",
             "DeleteSMTPPassword", "CreateApiKey", "RevokeApiKey"}
ReadOps == {"ListMessages", "GetMessage", "MarkMessageRead", "DownloadReceivedAttachment"}
Ops == OwnerOps \cup AdminOps \cup ReadOps \cup {"Send"}

ASSUME WorkspaceAssumption ==
    /\ NoOne \notin Users
    /\ \A s \in Scenes :
          /\ s.role \in [Users -> Roles \cup {"none"}]
          /\ \E o \in Users : \A u \in Users : s.role[u] = "owner" <=> u = o
          /\ s.owner \in Users \cup {NoOne}
          /\ s.ops \subseteq Ops \cup {"UpdatePassword", "Submit", "Imap"}
          /\ s.ids \in Nat /\ s.mails \in Nat
          /\ s.limited \in BOOLEAN

VARIABLES
    scene,      \* one of Scenes, from the start
    db,         \* the committed rows
    req,        \* requests in flight
    last,       \* the last id or hash given out
    revoked     \* SMTP passwords that were good once and then no longer

Idle == [at |-> "idle", op |-> "Send", by |-> NoOne, who |-> NoOne, as |-> "member", ws |-> 0,
         domain |-> 0, box |-> 0, hash |-> 0, over |-> FALSE, private |-> FALSE]
RequestSteps == {"idle", "act", "insert", "commit", "shown", "allowed", "domain", "create"}

NoBox == [id |-> 0, owner |-> NoOne]
NoCredential == [hash |-> 0, by |-> NoOne]

Someone == Users \cup {NoOne}
Mail == [by : Someone, retained : Someone, open : SUBSET Users]
Database == [ws : Nat, role : [Users -> Roles \cup {"none"}], domain : Nat,
             box : [id : Nat, owner : Someone], cred : [hash : Nat, by : Someone],
             password : [Users -> Nat], key : BOOLEAN, mails : SUBSET Mail]
Request == [at : RequestSteps, op : Ops, by : Someone, who : Someone, as : Roles \ {"owner"}, ws : Nat,
            domain : Nat, box : Nat, hash : Nat, over : BOOLEAN, private : BOOLEAN]

OneOwner == \E o \in Users : \A u \in Users : db.role[u] = "owner" <=> u = o

\* A workspace has one owner; what hangs on it goes with it.
Rooted ==
    /\ db.ws # 0 => OneOwner
    /\ db.ws = 0 => (\A u \in Users : db.role[u] = "none") /\ db.domain = 0 /\ db.mails = {}
    /\ db.domain = 0 => db.box.id = 0
    /\ db.box.id = 0 => db.box = NoBox /\ db.cred = NoCredential

WorkspaceTypeOK ==
    /\ db \in Database
    /\ req \in [Requests -> Request]
    /\ last \in Nat /\ revoked \subseteq 1..last
    /\ Rooted

WorkspaceInit ==
    /\ scene \in Scenes
    /\ db = [ws |-> 1, role |-> scene.role, domain |-> 2, box |-> [id |-> 3, owner |-> scene.owner],
             cred |-> NoCredential, password |-> [u \in Users |-> 0], key |-> FALSE, mails |-> {}]
    /\ req = [r \in Requests |-> Idle]
    /\ last = 3
    /\ revoked = {}

-----------------------------------------------------------------------------
(* Requests.                                                                *)

\* The least role is asked for by each handler.
May(op) == IF op \in OwnerOps THEN {"owner"} ELSE IF op \in AdminOps THEN Admins ELSE Roles

\* scope finds the workspace behind the slug and the caller's role in it.
Scope(r, op, u, who, as) ==
    /\ req[r].at = "idle"
    /\ op \in scene.ops
    /\ db.ws # 0
    /\ db.role[u] \in May(op)
    /\ req' = [req EXCEPT ![r] = [Idle EXCEPT !.at = "act", !.op = op, !.by = u, !.who = who,
                                  !.as = as, !.ws = db.ws, !.box = db.box.id]]
    /\ UNCHANGED <<scene, db, last>>

\* Later statements name the workspace by its id, not its slug.
Acts(r, op) == req[r].at = "act" /\ req[r].op = op /\ req[r].ws = db.ws

Done(r) == req' = [req EXCEPT ![r] = Idle]

Fresh == last < scene.ids /\ last' = last + 1

\* A statement finds nothing to change or fails, or the caller goes away.
RequestFails(r) ==
    /\ req[r].at # "idle"
    /\ Done(r)
    /\ UNCHANGED <<scene, db, last>>

-----------------------------------------------------------------------------
(* SMTP passwords.                                                          *)

\* A password being written and not committed; `over' when it replaces one, whose row is
\* locked meanwhile.
Writing(r) == req[r].at = "commit"
Locked == \E r \in Requests : Writing(r) /\ req[r].over

\* INSERT ... SELECT ... ON CONFLICT: the rights are those of the statement's snapshot.
SetSMTPPassword(r) ==
    /\ Acts(r, "SetSMTPPassword")
    /\ db.box.id # 0 /\ req[r].box = db.box.id
    /\ db.role[req[r].by] \in Admins
    /\ ~\E q \in Requests : Writing(q)
    /\ Fresh
    /\ req' = [req EXCEPT ![r].at = "commit", ![r].hash = last + 1, ![r].over = db.cred.hash # 0]
    /\ UNCHANGED <<scene, db>>

CommitSMTPPassword(r) ==
    /\ Writing(r)
    /\ db' = [db EXCEPT !.cred = [hash |-> req[r].hash, by |-> req[r].by]]
    /\ Done(r)
    /\ UNCHANGED <<scene, last>>

DeleteSMTPPassword(r) ==
    /\ Acts(r, "DeleteSMTPPassword")
    /\ req[r].box = db.box.id
    /\ db.cred.hash # 0 /\ ~Locked
    /\ db' = [db EXCEPT !.cred = NoCredential]
    /\ Done(r)
    /\ UNCHANGED <<scene, last>>

\* Mutant: no trigger on memberships.
MutWithoutIssuerNever(u) == db.cred

\* The trigger on memberships deletes the passwords a member has issued.
WithoutIssuer(u) == IF db.cred.by = u THEN NoCredential ELSE db.cred

IssuerFree(u) == db.cred.by = u => ~Locked

-----------------------------------------------------------------------------
(* Members.                                                                 *)

AddMember(r) ==
    /\ Acts(r, "AddMember")
    /\ db.role[req[r].who] = "none"
    /\ db' = [db EXCEPT !.role[req[r].who] = req[r].as]
    /\ Done(r)
    /\ UNCHANGED <<scene, last>>

\* WHERE role <> 'owner'.
NotOwner(u) == db.role[u] \in Roles \ {"owner"}

UpdateMember(r) ==
    LET u == req[r].who
    IN  /\ Acts(r, "UpdateMember")
        /\ NotOwner(u) /\ IssuerFree(u)
        /\ db' = [db EXCEPT !.role[u] = req[r].as, !.cred = WithoutIssuer(u)]
        /\ Done(r)
        /\ UNCHANGED <<scene, last>>

\* A mailbox of the member stays theirs.
RemoveMember(r) ==
    LET u == req[r].who
    IN  /\ Acts(r, "RemoveMember")
        /\ NotOwner(u) /\ IssuerFree(u)
        /\ db' = [db EXCEPT !.role[u] = "none", !.cred = WithoutIssuer(u)]
        /\ Done(r)
        /\ UNCHANGED <<scene, last>>

-----------------------------------------------------------------------------
(* Workspace, domain, mailbox, key.                                         *)

CreateWorkspace(u) ==
    /\ "DeleteWorkspace" \in scene.ops
    /\ db.ws = 0
    /\ Fresh
    /\ db' = [db EXCEPT !.ws = last + 1, !.role[u] = "owner"]
    /\ UNCHANGED <<scene, req>>

\* DeleteOwned goes by the slug and asks for the owner again; everything cascades.
DeleteWorkspace(r) ==
    /\ req[r].at = "act" /\ req[r].op = "DeleteWorkspace"
    /\ db.role[req[r].by] = "owner"
    /\ ~\E q \in Requests : Writing(q)
    /\ db' = [db EXCEPT !.ws = 0, !.role = [u \in Users |-> "none"], !.domain = 0, !.box = NoBox,
                        !.cred = NoCredential, !.key = FALSE, !.mails = {}]
    /\ Done(r)
    /\ UNCHANGED <<scene, last>>

VerifyDomain(r) ==
    /\ Acts(r, "VerifyDomain")
    /\ db.domain = 0
    /\ Fresh
    /\ db' = [db EXCEPT !.domain = last + 1]
    /\ Done(r)
    /\ UNCHANGED scene

\* Mutant: no trigger before a domain is deleted.
MutRetainedNever(m) == m

\* The trigger notes whose mail it was, whatever an earlier one has noted.
Retained(m) == IF db.box.owner = NoOne THEN m ELSE [m EXCEPT !.retained = db.box.owner]

DeleteDomain(r) ==
    /\ Acts(r, "DeleteDomain")
    /\ db.domain # 0
    /\ ~\E q \in Requests : Writing(q)
    /\ db' = [db EXCEPT !.domain = 0, !.box = NoBox, !.cred = NoCredential,
                        !.mails = {Retained(m) : m \in db.mails}]
    /\ Done(r)
    /\ UNCHANGED <<scene, last>>

Member(u) == u # NoOne => db.role[u] # "none"

\* Who gets the address may read what was sent from it: `open' keeps book.
OpenTo(M, U) == {[m EXCEPT !.open = @ \cup U] : m \in M}

CreateMailbox(r) ==
    /\ Acts(r, "CreateMailbox")
    /\ db.domain # 0
    /\ Member(req[r].who)
    /\ req' = [req EXCEPT ![r].at = "insert", ![r].domain = db.domain]
    /\ UNCHANGED <<scene, db, last>>

InsertMailbox(r) ==
    /\ req[r].at = "insert"
    /\ req[r].domain = db.domain
    /\ db.box.id = 0
    /\ Fresh
    /\ db' = [db EXCEPT !.box = [id |-> last + 1, owner |-> req[r].who],
                        !.mails = OpenTo(@, {req[r].who} \ {NoOne})]
    /\ Done(r)
    /\ UNCHANGED scene

\* The owner must be a member; the trigger deletes the SMTP password if the owner changes.
Assigns(u) ==
    LET changes == db.box.owner # u
    IN  /\ Member(u)
        /\ changes => ~Locked
        /\ db' = [db EXCEPT !.box.owner = u, !.cred = IF changes THEN NoCredential ELSE @,
                            !.mails = OpenTo(@, IF u = NoOne THEN Users ELSE {u})]

AssignOwner(r) ==
    /\ Acts(r, "AssignOwner")
    /\ db.box.id # 0 /\ req[r].box = db.box.id
    /\ Assigns(req[r].who)
    /\ Done(r)
    /\ UNCHANGED <<scene, last>>

CreateApiKey(r) ==
    /\ Acts(r, "CreateApiKey")
    /\ db' = [db EXCEPT !.key = TRUE]
    /\ Done(r)
    /\ UNCHANGED <<scene, last>>

RevokeApiKey(r) ==
    /\ Acts(r, "RevokeApiKey")
    /\ db' = [db EXCEPT !.key = FALSE]
    /\ Done(r)
    /\ UNCHANGED <<scene, last>>

\* The account password: a bcrypt hash is new each time.
UpdatePassword(u) ==
    /\ "UpdatePassword" \in scene.ops
    /\ Fresh
    /\ db' = [db EXCEPT !.password[u] = last + 1]
    /\ UNCHANGED <<scene, req>>

Statement(r) ==
    \/ AddMember(r) \/ UpdateMember(r) \/ RemoveMember(r) \/ DeleteWorkspace(r)
    \/ VerifyDomain(r) \/ DeleteDomain(r)
    \/ CreateMailbox(r) \/ InsertMailbox(r) \/ AssignOwner(r)
    \/ SetSMTPPassword(r) \/ CommitSMTPPassword(r) \/ DeleteSMTPPassword(r)
    \/ CreateApiKey(r) \/ RevokeApiKey(r)
    \/ RequestFails(r)

Ask(r, u) ==
    \/ \E op \in ReadOps \cup {"DeleteWorkspace", "VerifyDomain", "DeleteDomain", "SetSMTPPassword",
                             "DeleteSMTPPassword", "CreateApiKey", "RevokeApiKey"} :
          Scope(r, op, u, NoOne, "member")
    \/ \E op \in {"CreateMailbox", "AssignOwner"}, who \in Users \cup {NoOne} :
          Scope(r, op, u, who, "member")
    \/ \E op \in {"AddMember", "UpdateMember"}, who \in Users, as \in {"admin", "member"} :
          Scope(r, op, u, who, as)
    \/ \E who \in Users : Scope(r, "RemoveMember", u, who, "member")

WorkspaceNext ==
    \/ \E r \in Requests : Statement(r) \/ \E u \in Users : Ask(r, u)
    \/ \E u \in Users : CreateWorkspace(u) \/ UpdatePassword(u)

-----------------------------------------------------------------------------

\* The SMTP password that opens a session: its issuer still administers the workspace.
Honoured ==
    {h \in {db.cred.hash} : /\ db.box.id # 0 /\ h # 0
                            /\ db.cred.by \in Users /\ db.role[db.cred.by] \in Admins}

\* A live API key gives its workspace; nobody is signed in with it.
KeyHolds == db.key /\ db.ws # 0

\* Sent mail: not another's by what was noted, nor by the mailbox there is.
CanReadOutbound(u, m) == m.retained \in {NoOne, u} /\ db.box.owner \in {NoOne, u}

\* The three ways to it: by API key, by session, and the search over all workspaces,
\* which has a query of its own.
GetEmail(m) == KeyHolds /\ CanReadOutbound(NoOne, m)

GetWorkspaceEmail(u, m) == db.role[u] # "none" /\ CanReadOutbound(u, m)

SearchForUser(u, m) ==
    /\ db.role[u] # "none"
    /\ m.retained = NoOne \/ m.retained = u
    /\ ~(db.box.owner # NoOne /\ db.box.owner # u)
=============================================================================
