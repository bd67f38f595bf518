-------------------------- MODULE SubmissionProofs --------------------------
(***************************************************************************)
(* Proofs about Submission, for every set of users, requests, connections  *)
(* and sessions, every scene and every limit.                              *)
(***************************************************************************)
EXTENDS Submission, TLAPS

\* What a request in flight has found out stays so until it is done.
Asked ==
    \A r \in Requests :
        /\ req[r].at # "idle" => req[r].ws # 0
        /\ req[r].at = "insert" => req[r].domain # 0
        /\ req[r].at = "commit" => db.box.id # 0 /\ req[r].hash \in 1..last
        /\ req[r].at \in {"domain", "create"} /\ req[r].private => req[r].by \in Users
        /\ req[r].at = "shown" => req[r].op \in ReadOps

Issued == db.box.id <= last /\ db.cred.hash <= last /\ \A u \in Users : db.password[u] <= last

TypeInv == TypeOK /\ Asked /\ Issued

\* What has been let through was counted.
QuotaInv ==
    \A k \in Rules :
        /\ submitted[k] <= Limit[k] /\ submitted[k] <= count[k]
        /\ k \notin blind => passed[k] <= Limit[k] /\ passed[k] <= count[k]

\* Nobody can read a mail who is not in its book.
Booked ==
    \A m \in db.mails :
        /\ m.retained = NoOne /\ db.box.owner = NoOne => m.open = Users
        /\ m.retained # NoOne => m.retained \in m.open
        /\ db.box.owner # NoOne => db.box.owner \in m.open

\* No password is given out twice.
Distinct ==
    /\ db.cred.hash \notin revoked
    /\ \A u \in Users : /\ db.password[u] \notin revoked
                        /\ db.cred.hash # 0 => db.password[u] # db.cred.hash
    /\ \A r \in Requests : Writing(r) =>
          /\ req[r].hash \notin revoked \cup {db.cred.hash}
          /\ \A u \in Users : req[r].hash # db.password[u]
          /\ \A q \in Requests : Writing(q) => q = r

\* A session that found its password revoked has signed and goes no further.
Late == \A s \in Sessions : sess[s].late => sess[s].at = "signed" /\ sess[s].grant.hash \in revoked

\* What a connection logged in with is old, and of the workspace its mailbox is in.
Granted ==
    \A c \in Conns : conn[c].at # "out" =>
        LET g == conn[c].grant
        IN  /\ ~g.app /\ g.user \in Users /\ g.box # 0 /\ g.box <= last /\ g.hash <= last
            /\ g.box = db.box.id => g.ws = db.ws

\* A command that will pass the second query had its right.
Held ==
    /\ \A c \in Conns : conn[c].at = "checked" /\ Active(conn[c].grant) => c \in held
    /\ \A c \in Conns : conn[c].at = "answer" => c \in held
    /\ \A r \in Requests : req[r].at = "shown" => r \in held

RevokedInv == Distinct /\ Late /\ Granted /\ Held

-----------------------------------------------------------------------------

\* The steps that write the rows.
Writes(r) ==
    \/ CommitSMTPPassword(r) \/ DeleteSMTPPassword(r)
    \/ AddMember(r) \/ UpdateMember(r) \/ RemoveMember(r)
    \/ DeleteWorkspace(r) \/ VerifyDomain(r) \/ DeleteDomain(r)
    \/ InsertMailbox(r) \/ AssignOwner(r) \/ CreateApiKey(r) \/ RevokeApiKey(r)
    \/ CreateMail(r)

\* The steps by which a request goes on without writing.
Goes(r) ==
    \/ RequestFails(r) \/ SetSMTPPassword(r) \/ CreateMailbox(r)
    \/ \E u \in Users : Ask(r, u) \/ SendWorkspaceEmail(r, u)
    \/ Reading(r) \/ SendEmail(r) \/ SendQuota(r) \/ CheckSender(r) \/ CheckDomain(r)

\* Those of a connection, of a session, and of time.
Aside ==
    /\ \/ \E c \in Conns : IMAP(c) /\ UNCHANGED sess
       \/ \E s \in Sessions : SMTP(s) /\ UNCHANGED conn
       \/ Tick /\ UNCHANGED <<conn, sess>>
    /\ UNCHANGED <<db, req, last>>

LEMMA NextCases ==
  ASSUME Next
  PROVE  \/ \E r \in Requests : Writes(r) /\ UNCHANGED <<conn, sess>>
         \/ \E u \in Users : CreateWorkspace(u) /\ UNCHANGED <<conn, sess>>
         \/ \E u \in Users : UpdatePassword(u) /\ UNCHANGED <<conn, sess>>
         \/ \E r \in Requests : Goes(r) /\ UNCHANGED <<db, conn, sess>>
         \/ Aside
  <1>1. CASE WorkspaceNext /\ UNCHANGED <<conn, sess, limitVars>>
    <2>1. ASSUME NEW r \in Requests, Statement(r)
          PROVE  (Writes(r) \/ (Goes(r) /\ UNCHANGED db)) /\ UNCHANGED <<conn, sess>>
      BY <1>1, <2>1 DEF Statement, Writes, Goes, RequestFails, SetSMTPPassword, CreateMailbox
    <2>2. ASSUME NEW r \in Requests, NEW u \in Users, Ask(r, u)
          PROVE  Goes(r) /\ UNCHANGED <<db, conn, sess>>
      BY <1>1, <2>2 DEF Ask, Scope, Goes
    <2>3. QED
      BY <1>1, <2>1, <2>2 DEF WorkspaceNext
  <1>2. CASE AccessNext /\ UNCHANGED <<sess, limitVars>>
    <2>1. ASSUME NEW c \in Conns, IMAP(c)
          PROVE  Aside
      BY <1>2, <2>1 DEF Aside, IMAP, Login, Command, CheckAccess, CheckActive, EndCommand, Close, ConnAt
    <2>2. ASSUME NEW r \in Requests, Reading(r)
          PROVE  Goes(r) /\ UNCHANGED <<db, conn, sess>>
      BY <1>2, <2>2 DEF Goes, Reading, ListMessages, GetMessage, DownloadReceivedAttachment,
                        MarkMessageRead, Show
    <2>3. QED
      BY <1>2, <2>1, <2>2 DEF AccessNext
  <1>3. CASE Sends /\ UNCHANGED conn
    <2>1. ASSUME NEW s \in Sessions, SMTP(s)
          PROVE  Aside
      BY <1>3, <2>1 DEF Aside, SMTP, Auth, MailFrom, RcptTo, Data, Quota, Sign, Recheck,
                        EndTransaction, Logout, SessionAt
    <2>2. ASSUME NEW r \in Requests, Sending(r)
          PROVE  (Writes(r) \/ (Goes(r) /\ UNCHANGED db)) /\ UNCHANGED <<conn, sess>>
      BY <1>3, <2>2 DEF Sending, Writes, Goes, SendQuota, CheckSender, CheckDomain, CreateMail
    <2>3. ASSUME NEW r \in Requests, SendEmail(r)
          PROVE  Goes(r) /\ UNCHANGED <<db, conn, sess>>
      BY <1>3, <2>3 DEF SendEmail, Goes
    <2>4. ASSUME NEW r \in Requests, NEW u \in Users, SendWorkspaceEmail(r, u)
          PROVE  Goes(r) /\ UNCHANGED <<db, conn, sess>>
      BY <1>3, <2>4 DEF SendWorkspaceEmail, Scope, Goes
    <2>5. ASSUME Tick PROVE Aside
      BY <1>3, <2>5 DEF Tick, Aside
    <2>6. QED
      BY <1>3, <2>1, <2>2, <2>3, <2>4, <2>5 DEF Sends
  <1>4. QED
    BY <1>1, <1>2, <1>3 DEF Next

-----------------------------------------------------------------------------
(* Quota.                                                                   *)

LEMMA CountedOne ==
  ASSUME NEW f, NEW K, NEW k \in Rules, f[k] \in 0..Limit[k] + 1
  PROVE  /\ Counted(f, K)[k] = IF k \in K /\ f[k] <= Limit[k] THEN f[k] + 1 ELSE f[k]
         /\ Counted(f, K)[k] \in 0..Limit[k] + 1
  BY LimitAssumption DEF Counted, Rules

LimitTypeOK ==
    /\ \A k \in Rules : {count[k], passed[k], submitted[k]} \subseteq 0..Limit[k] + 1
    /\ blind \subseteq Rules

LEMMA QuotaStep ==
  ASSUME LimitTypeOK, QuotaInv, [Next]_vars
  PROVE  (LimitTypeOK /\ QuotaInv)'
  <1>0. CASE UNCHANGED limitVars
    BY <1>0 DEF limitVars, LimitTypeOK, QuotaInv
  <1>1. CASE Tick
    BY <1>1, LimitAssumption DEF Tick, LimitTypeOK, QuotaInv, Rules
  <1>2. ASSUME NEW ok \in BOOLEAN, AllowAll(ok), scene.limited
        PROVE  (LimitTypeOK /\ QuotaInv)'
    <2>1. PICK seen \in SUBSET Rules :
            /\ count' = Counted(count, seen)
            /\ ok <=> \A k \in seen : Within(k)
            /\ IF ok THEN LetThrough(Rules \ seen) ELSE Refused
            /\ UNCHANGED submitted
      BY <1>2 DEF AllowAll
    <2>2. ASSUME NEW k \in Rules
          PROVE  /\ count'[k] \in 0..Limit[k] + 1 /\ passed'[k] \in 0..Limit[k] + 1
                 /\ count'[k] >= count[k]
                 /\ k \notin blind' => passed'[k] <= Limit[k] /\ passed'[k] <= count'[k]
      BY <2>1, CountedOne, LimitAssumption
         DEF LimitTypeOK, QuotaInv, LetThrough, Refused, Within
    <2>3. QED
      BY <2>1, <2>2, LimitAssumption DEF LimitTypeOK, QuotaInv, LetThrough, Refused
  <1>3. ASSUME NEW ok \in BOOLEAN, AllowStrict(ok), scene.limited
        PROVE  (LimitTypeOK /\ QuotaInv)'
    <2>1. PICK seen \in {{}, {"minute"}, Rules} :
            /\ count' = Counted(count, seen)
            /\ ok <=> \A k \in Rules : k \in seen /\ Within(k)
            /\ IF ok THEN LetThrough({}) /\ submitted' = Counted(submitted, Rules)
               ELSE Refused /\ UNCHANGED submitted
      BY <1>3 DEF AllowStrict
    <2>2. ASSUME NEW k \in Rules
          PROVE  /\ count'[k] \in 0..Limit[k] + 1 /\ passed'[k] \in 0..Limit[k] + 1
                 /\ submitted'[k] \in 0..Limit[k] + 1
                 /\ submitted'[k] <= Limit[k] /\ submitted'[k] <= count'[k]
                 /\ k \notin blind' => passed'[k] <= Limit[k] /\ passed'[k] <= count'[k]
      BY <2>1, CountedOne, LimitAssumption
         DEF LimitTypeOK, QuotaInv, LetThrough, Refused, Within
    <2>3. QED
      BY <2>1, <2>2, LimitAssumption DEF LimitTypeOK, QuotaInv, LetThrough, Refused
  <1>4. ASSUME NEW s \in Sessions, SMTP(s)
        PROVE  \/ UNCHANGED limitVars
               \/ scene.limited /\ \E ok \in BOOLEAN : AllowStrict(ok)
    BY <1>4 DEF SMTP, Auth, MailFrom, RcptTo, Data, Quota, Sign, Recheck, EndTransaction, Logout,
                AllowStrict
  <1>5. ASSUME NEW r \in Requests, Sending(r)
        PROVE  \/ UNCHANGED limitVars
               \/ scene.limited /\ \E ok \in BOOLEAN : AllowAll(ok)
    BY <1>5 DEF Sending, SendQuota, CheckSender, CheckDomain, CreateMail, AllowAll
  <1>6. ASSUME Sends PROVE (LimitTypeOK /\ QuotaInv)'
    BY <1>0, <1>1, <1>2, <1>3, <1>4, <1>5, <1>6 DEF Sends, SendEmail, SendWorkspaceEmail
  <1>7. QED
    BY <1>0, <1>6 DEF Next, vars

\* Across all ways together no window lets through more than the limit, and SMTP none even
\* when Redis fails (limits.go:44-46, ratelimit.go:60): for every limit.
THEOREM QuotaAlwaysHolds == Spec => []QuotaHolds
  <1>1. Init => LimitTypeOK /\ QuotaInv
    BY LimitAssumption DEF Init, LimitTypeOK, QuotaInv, Rules
  <1>2. LimitTypeOK /\ QuotaInv /\ [Next]_vars => (LimitTypeOK /\ QuotaInv)'
    BY QuotaStep
  <1>3. QuotaInv => QuotaHolds
    BY DEF QuotaInv, QuotaHolds
  <1>4. QED
    BY <1>1, <1>2, <1>3, PTL DEF Spec

-----------------------------------------------------------------------------
(* Types.                                                                   *)

LEMMA DatabaseFields ==
  ASSUME db \in Database
  PROVE  /\ db.ws \in Nat /\ db.role \in [Users -> Roles \cup {"none"}] /\ db.domain \in Nat
         /\ db.box \in [id : Nat, owner : Someone] /\ db.box.id \in Nat /\ db.box.owner \in Someone
         /\ db.cred \in [hash : Nat, by : Someone] /\ db.cred.hash \in Nat /\ db.cred.by \in Someone
         /\ db.password \in [Users -> Nat] /\ db.key \in BOOLEAN /\ db.mails \subseteq Mail
  BY DEF Database

LEMMA Blank == NoBox \in [id : Nat, owner : Someone] /\ NoCredential \in [hash : Nat, by : Someone]
               /\ Idle \in Request
  BY DEF NoBox, NoCredential, Someone, Idle, Request, RequestSteps, Ops, OwnerOps, AdminOps, ReadOps,
         Roles, Admins

LEMMA RequestFields ==
  ASSUME req \in [Requests -> Request], NEW r \in Requests
  PROVE  /\ req[r] \in Request /\ req[r].at \in RequestSteps /\ req[r].op \in Ops
         /\ req[r].by \in Someone /\ req[r].who \in Someone /\ req[r].as \in Roles \ {"owner"}
         /\ req[r].ws \in Nat /\ req[r].domain \in Nat /\ req[r].box \in Nat /\ req[r].hash \in Nat
         /\ req[r].over \in BOOLEAN /\ req[r].private \in BOOLEAN
  <1>1. req[r] \in Request
    OBVIOUS
  <1>2. QED
    BY <1>1 DEF Request

\* A request is answered after its rows are written; the rows a password is being written
\* for do not go meanwhile.
LEMMA WritesEnd ==
  ASSUME NEW r \in Requests, Writes(r)
  PROVE  /\ req' = [req EXCEPT ![r] = Idle]
         /\ req[r].at \in {"act", "insert", "commit", "create"}
  BY DEF Writes, CommitSMTPPassword, DeleteSMTPPassword, AddMember, UpdateMember, RemoveMember,
         DeleteWorkspace, VerifyDomain, DeleteDomain, InsertMailbox, AssignOwner, Assigns, CreateApiKey,
         RevokeApiKey, CreateMail, Done, Acts, Writing

\* The rows as a step has left them.
RowsOK ==
    /\ db \in Database
    /\ Rooted
    /\ last \in Nat
    /\ Issued

LEMMA WithoutIssuerIs ==
  ASSUME db \in Database, NEW u
  PROVE  WithoutIssuer(u) \in {db.cred, NoCredential}
  BY DEF WithoutIssuer

LEMMA OtherRole ==
  ASSUME db \in Database, OneOwner, NEW u, NEW x \in Roles \cup {"none"}, x # "owner",
         u \in Users => db.role[u] # "owner",
         db'.role = [db.role EXCEPT ![u] = x]
  PROVE  OneOwner'
  <1>1. PICK o \in Users : \A v \in Users : db.role[v] = "owner" <=> v = o
    BY DEF OneOwner
  <1>2. \A v \in Users : db'.role[v] = "owner" <=> v = o
    BY <1>1, DatabaseFields
  <1>3. QED
    BY <1>2 DEF OneOwner

LEMMA WritesRows ==
  ASSUME TypeInv, NEW r \in Requests, Writes(r)
  PROVE  /\ RowsOK' /\ last <= last'
         /\ db.box.id # 0 /\ db'.box.id = 0 => ~\E q \in Requests : Writing(q)
  <1>0. /\ db.ws \in Nat /\ db.role \in [Users -> Roles \cup {"none"}] /\ db.domain \in Nat
        /\ db.box \in [id : Nat, owner : Someone] /\ db.box.id \in Nat /\ db.box.owner \in Someone
        /\ db.cred \in [hash : Nat, by : Someone] /\ db.cred.hash \in Nat /\ db.cred.by \in Someone
        /\ db.password \in [Users -> Nat] /\ db.key \in BOOLEAN /\ db.mails \subseteq Mail
        /\ NoBox \in [id : Nat, owner : Someone] /\ NoCredential \in [hash : Nat, by : Someone]
        /\ req[r].by \in Someone /\ req[r].who \in Someone /\ req[r].as \in Roles \ {"owner"}
        /\ req[r].domain \in Nat /\ req[r].hash \in Nat
        /\ db \in Database /\ Rooted /\ last \in Nat
        /\ db.box.id <= last /\ db.cred.hash <= last /\ \A u \in Users : db.password[u] <= last
        /\ req[r].at # "idle" => req[r].ws # 0
        /\ req[r].at = "insert" => req[r].domain # 0
        /\ req[r].at = "commit" => db.box.id # 0 /\ req[r].hash \in 1..last
        /\ req[r].at \in {"domain", "create"} /\ req[r].private => req[r].by \in Users
    BY DatabaseFields, RequestFields, Blank DEF TypeInv, TypeOK, WorkspaceTypeOK, Asked, Issued
  <1>a. CASE CommitSMTPPassword(r)
    <2>1. db' = [db EXCEPT !.cred = [hash |-> req[r].hash, by |-> req[r].by]] /\ last' = last
      BY <1>a DEF CommitSMTPPassword
    <2>2. db' \in Database
      BY <1>0, <2>1 DEF Database
    <2>3. db'.ws = db.ws /\ db'.role = db.role /\ db'.domain = db.domain /\ db'.box = db.box
          /\ db'.mails = db.mails /\ db'.cred.hash = req[r].hash /\ db'.password = db.password
      BY <1>0, <2>1 DEF Database
    <2>4. db.box.id # 0
      BY <1>0, <1>a DEF CommitSMTPPassword, Writing
    <2>5. Rooted'
      BY <1>0, <2>3, <2>4 DEF Rooted, OneOwner
    <2>6. QED
      BY <1>0, <1>a, <2>1, <2>2, <2>3, <2>4, <2>5 DEF RowsOK, Issued, CommitSMTPPassword, Writing
  <1>b. CASE DeleteSMTPPassword(r)
    <2>1. db' = [db EXCEPT !.cred = NoCredential] /\ last' = last
      BY <1>b DEF DeleteSMTPPassword
    <2>2. db' \in Database
      BY <1>0, <2>1 DEF Database
    <2>3. QED
      BY <1>0, <2>1, <2>2 DEF RowsOK, Rooted, OneOwner, Issued, NoCredential, Database
  <1>c. CASE AddMember(r)
    <2>1. db' = [db EXCEPT !.role[req[r].who] = req[r].as] /\ last' = last
          /\ db.role[req[r].who] = "none" /\ db.ws # 0
      BY <1>0, <1>c DEF AddMember, Acts
    <2>2. db' \in Database
      BY <1>0, <2>1 DEF Database
    <2>3. db'.role = [db.role EXCEPT ![req[r].who] = req[r].as] /\ db'.ws = db.ws
      BY <1>0, <2>1 DEF Database
    <2>4. OneOwner'
      BY <1>0, <2>1, <2>3, OtherRole DEF Rooted
    <2>5. db'.domain = db.domain /\ db'.box = db.box /\ db'.cred = db.cred /\ db'.password = db.password
          /\ db'.mails = db.mails
      BY <1>0, <2>1 DEF Database
    <2>6. QED
      BY <1>0, <2>1, <2>2, <2>3, <2>4, <2>5 DEF RowsOK, Rooted, Issued
  <1>d. ASSUME NEW x \in Roles \cup {"none"}, x # "owner", UpdateMember(r) \/ RemoveMember(r),
               db' = [db EXCEPT !.role[req[r].who] = x, !.cred = WithoutIssuer(req[r].who)]
        PROVE  RowsOK' /\ last <= last' /\ db'.box.id = db.box.id
    <2>1. last' = last /\ NotOwner(req[r].who) /\ db.ws # 0
      BY <1>0, <1>d DEF UpdateMember, RemoveMember, Acts
    <2>2. WithoutIssuer(req[r].who) \in {db.cred, NoCredential}
      BY <1>0, WithoutIssuerIs
    <2>3. db' \in Database
      BY <1>0, <1>d, <2>2 DEF Database
    <2>4. db'.role = [db.role EXCEPT ![req[r].who] = x] /\ db'.ws = db.ws
          /\ db'.domain = db.domain /\ db'.box = db.box /\ db'.mails = db.mails
          /\ db'.password = db.password /\ db'.cred \in {db.cred, NoCredential}
      BY <1>0, <1>d, <2>2 DEF Database
    <2>5. OneOwner'
      BY <1>0, <1>d, <2>1, <2>4, OtherRole DEF Rooted, NotOwner
    <2>6. QED
      BY <1>0, <2>1, <2>3, <2>4, <2>5 DEF RowsOK, Rooted, Issued, NoCredential
  <1>e. CASE DeleteWorkspace(r)
    <2>1. /\ db' = [db EXCEPT !.ws = 0, !.role = [u \in Users |-> "none"], !.domain = 0,
                              !.box = NoBox, !.cred = NoCredential, !.key = FALSE, !.mails = {}]
          /\ last' = last /\ ~\E q \in Requests : Writing(q)
      BY <1>e DEF DeleteWorkspace
    <2>2. db' \in Database
      BY <1>0, <2>1 DEF Database
    <2>3. QED
      BY <1>0, <2>1, <2>2 DEF RowsOK, Rooted, Issued, NoCredential, NoBox, Database
  <1>f. CASE VerifyDomain(r)
    <2>1. db' = [db EXCEPT !.domain = last + 1] /\ last' = last + 1 /\ db.ws # 0
      BY <1>0, <1>f DEF VerifyDomain, Fresh, Acts
    <2>2. db' \in Database
      BY <1>0, <2>1 DEF Database
    <2>3. QED
      BY <1>0, <2>1, <2>2 DEF RowsOK, Rooted, OneOwner, Issued, Database
  <1>g. CASE DeleteDomain(r)
    <2>1. /\ db' = [db EXCEPT !.domain = 0, !.box = NoBox, !.cred = NoCredential,
                              !.mails = {Retained(m) : m \in db.mails}]
          /\ last' = last /\ ~\E q \in Requests : Writing(q) /\ db.ws # 0
      BY <1>0, <1>g DEF DeleteDomain, Acts
    <2>2. {Retained(m) : m \in db.mails} \subseteq Mail
      BY <1>0 DEF Retained, Mail
    <2>3. db' \in Database
      BY <1>0, <2>1, <2>2 DEF Database
    <2>4. db'.ws = db.ws /\ db'.role = db.role /\ db'.domain = 0 /\ db'.box = NoBox
          /\ db'.cred = NoCredential /\ db'.password = db.password
      BY <1>0, <2>1 DEF Database
    <2>5. QED
      BY <1>0, <2>1, <2>3, <2>4 DEF RowsOK, Rooted, OneOwner, Issued, NoCredential, NoBox
  <1>h. CASE InsertMailbox(r)
    <2>. DEFINE box == [id |-> last + 1, owner |-> req[r].who]
                m == OpenTo(db.mails, {req[r].who} \ {NoOne})
    <2>1. db' = [db EXCEPT !.box = box, !.mails = m] /\ last' = last + 1
          /\ db.domain # 0 /\ db.box.id = 0
      BY <1>0, <1>h DEF InsertMailbox, Fresh
    <2>2. m \subseteq Mail /\ box \in [id : Nat, owner : Someone]
      BY <1>0 DEF OpenTo, Mail, Someone
    <2>3. db' \in Database
      BY <1>0, <2>1, <2>2 DEF Database
    <2>4. db'.ws = db.ws /\ db'.role = db.role /\ db'.domain = db.domain /\ db'.box.id = last + 1
          /\ db'.cred = db.cred /\ db'.password = db.password
      BY <1>0, <2>1 DEF Database
    <2>5. db.ws # 0 /\ db.cred.hash = 0
      BY <1>0, <2>1 DEF Rooted, NoCredential
    <2>6. QED
      BY <1>0, <2>1, <2>3, <2>4, <2>5 DEF RowsOK, Rooted, OneOwner, Issued
  <1>i. CASE AssignOwner(r)
    <2>. DEFINE u == req[r].who
                c == IF db.box.owner # u THEN NoCredential ELSE db.cred
                m == OpenTo(db.mails, IF u = NoOne THEN Users ELSE {u})
    <2>1. db' = [db EXCEPT !.box.owner = u, !.cred = c, !.mails = m] /\ last' = last
          /\ db.box.id # 0
      BY <1>0, <1>i DEF AssignOwner, Assigns, Database
    <2>2. m \subseteq Mail /\ c \in {db.cred, NoCredential}
      BY <1>0 DEF OpenTo, Mail, Someone
    <2>3. db' \in Database
      BY <1>0, <2>1, <2>2 DEF Database
    <2>4. db'.box.id = db.box.id /\ db'.cred = c /\ db'.ws = db.ws /\ db'.role = db.role
          /\ db'.domain = db.domain /\ db'.password = db.password
      BY <1>0, <2>1 DEF Database
    <2>5. db.ws # 0
      BY <1>0, <1>i DEF AssignOwner, Assigns, Acts
    <2>6. QED
      BY <1>0, <2>1, <2>2, <2>3, <2>4, <2>5 DEF RowsOK, Rooted, OneOwner, Issued, NoCredential
  <1>j. ASSUME NEW k \in BOOLEAN, db' = [db EXCEPT !.key = k], last' = last
        PROVE  RowsOK' /\ db'.box = db.box
    BY <1>0, <1>j DEF RowsOK, Rooted, OneOwner, Issued, Database
  <1>k. CASE CreateMail(r)
    <2>. DEFINE kept == req[r].private /\ req[r].box = db.box.id
                readers == IF ~kept \/ db.box.owner = NoOne THEN Users
                           ELSE {req[r].by, db.box.owner}
                mail == [by |-> req[r].by, retained |-> NoOne, open |-> readers]
    <2>1. db' = [db EXCEPT !.mails = @ \cup {mail}] /\ last' = last /\ db.ws # 0
      BY <1>0, <1>k DEF CreateMail
    <2>2. mail \in Mail
      BY <1>0, <1>k DEF CreateMail, Mail, Someone
    <2>3. db' \in Database
      BY <1>0, <2>1, <2>2 DEF Database
    <2>4. /\ db'.ws = db.ws /\ db'.role = db.role /\ db'.domain = db.domain /\ db'.box = db.box
          /\ db'.cred = db.cred /\ db'.password = db.password /\ db'.mails = db.mails \cup {mail}
      BY <1>0, <2>1 DEF Database
    <2>5. Rooted'
      BY <1>0, <2>1, <2>4 DEF Rooted, OneOwner
    <2>6. Issued'
      BY <1>0, <2>1, <2>4 DEF Issued
    <2>7. QED
      BY <1>0, <2>1, <2>3, <2>4, <2>5, <2>6 DEF RowsOK
  <1>z. QED
    <2>1. CASE UpdateMember(r)
      BY <1>0, <1>d, <2>1 DEF UpdateMember, Roles
    <2>2. CASE RemoveMember(r)
      BY <1>0, <1>d, <2>2 DEF RemoveMember, Roles
    <2>3. CASE CreateApiKey(r) \/ RevokeApiKey(r)
      <3>1. /\ db' = [db EXCEPT !.key = TRUE] \/ db' = [db EXCEPT !.key = FALSE]
            /\ last' = last
        BY <2>3 DEF CreateApiKey, RevokeApiKey
      <3>2. RowsOK' /\ db'.box = db.box
        BY <3>1, <1>j
      <3>3. QED
        BY <1>0, <3>1, <3>2
    <2>4. QED
      BY <1>a, <1>b, <1>c, <1>e, <1>f, <1>g, <1>h, <1>i, <1>k, <2>1, <2>2, <2>3 DEF Writes

LEMMA UserWritesRows ==
  ASSUME TypeInv, NEW u \in Users, CreateWorkspace(u) \/ UpdatePassword(u)
  PROVE  RowsOK' /\ last' = last + 1 /\ UNCHANGED req /\ db'.box = db.box /\ db'.cred = db.cred
  <1>0. /\ db.ws \in Nat /\ db.role \in [Users -> Roles \cup {"none"}]
        /\ db.password \in [Users -> Nat] /\ db.box.id \in Nat /\ db.cred.hash \in Nat
        /\ db \in Database /\ Rooted /\ last \in Nat
        /\ db.box.id <= last /\ db.cred.hash <= last /\ \A v \in Users : db.password[v] <= last
    BY DatabaseFields DEF TypeInv, TypeOK, WorkspaceTypeOK, Issued
  <1>1. CASE CreateWorkspace(u)
    <2>0. [db.role EXCEPT ![u] = "owner"] \in [Users -> Roles \cup {"none"}]
      BY <1>0 DEF Roles, Admins
    <2>1. PICK role \in [Users -> Roles \cup {"none"}] :
            /\ role = [db.role EXCEPT ![u] = "owner"]
            /\ db' = [db EXCEPT !.ws = last + 1, !.role = role]
      BY <2>0, <1>1, Zenon DEF CreateWorkspace
    <2>2. db.ws = 0 /\ last' = last + 1 /\ UNCHANGED req
      BY <1>1 DEF CreateWorkspace, Fresh
    <2>. db \in Database /\ last + 1 \in Nat
      BY <1>0
    <2>3. db' \in Database
      BY <2>1 DEF Database
    <2>4. /\ db'.role = role /\ db'.ws = last + 1
          /\ db'.domain = db.domain /\ db'.box = db.box /\ db'.cred = db.cred
          /\ db'.mails = db.mails /\ db'.password = db.password
      BY <1>0, <2>1, <2>2 DEF Database
    <2>5. \A v \in Users : db'.role[v] = "owner" <=> v = u
      BY <1>0, <2>1, <2>2, <2>4 DEF Rooted
    <2>6. QED
      BY <1>0, <2>1, <2>2, <2>3, <2>4, <2>5 DEF RowsOK, Rooted, OneOwner, Issued
  <1>2. CASE UpdatePassword(u)
    <2>1. /\ db' = [db EXCEPT !.password[u] = last + 1] /\ last' = last + 1 /\ UNCHANGED req
      BY <1>2 DEF UpdatePassword, Fresh
    <2>2. db' \in Database
      BY <1>0, <2>1 DEF Database
    <2>3. /\ db'.password = [db.password EXCEPT ![u] = last + 1] /\ db'.role = db.role
          /\ db'.ws = db.ws /\ db'.domain = db.domain /\ db'.box = db.box /\ db'.cred = db.cred
          /\ db'.mails = db.mails
      BY <1>0, <2>1 DEF Database
    <2>4. QED
      BY <1>0, <2>1, <2>2, <2>3 DEF RowsOK, Rooted, OneOwner, Issued
  <1>3. QED
    BY <1>1, <1>2

\* What a request that goes on becomes.
LEMMA GoesOn ==
  ASSUME TypeInv, NEW r \in Requests, Goes(r), UNCHANGED db
  PROVE  /\ last' \in Nat /\ last <= last'
         /\ \E x \in Request :
              /\ req' = [req EXCEPT ![r] = x]
              /\ x.at # "idle" => x.ws # 0
              /\ x.at = "insert" => x.domain # 0
              /\ x.at = "commit" => /\ db.box.id # 0 /\ last' = last + 1 /\ x.hash = last'
                                    /\ ~\E q \in Requests : Writing(q)
              /\ x.at \in {"domain", "create"} /\ x.private => x.by \in Users
              /\ x.at = "shown" => x.op \in ReadOps /\ CanAccess(x.by, x.box)
  <1>. DEFINE Good(x) ==
         /\ x \in Request
         /\ req' = [req EXCEPT ![r] = x]
         /\ x.at # "idle" => x.ws # 0
         /\ x.at = "insert" => x.domain # 0
         /\ x.at = "commit" => /\ db.box.id # 0 /\ last' = last + 1 /\ x.hash = last'
                               /\ ~\E q \in Requests : Writing(q)
         /\ x.at \in {"domain", "create"} /\ x.private => x.by \in Users
         /\ x.at = "shown" => x.op \in ReadOps /\ CanAccess(x.by, x.box)
  <1>0. /\ db.ws \in Nat /\ db.domain \in Nat /\ db.box.id \in Nat /\ db.box.owner \in Someone
        /\ db.cred.hash \in Nat /\ last \in Nat /\ req \in [Requests -> Request]
        /\ req[r] \in Request /\ Idle \in Request
        /\ req[r].at # "idle" => req[r].ws # 0
    BY DatabaseFields, Blank DEF TypeInv, TypeOK, WorkspaceTypeOK, Asked
  <1>1. ASSUME RequestFails(r) PROVE UNCHANGED last /\ Good(Idle)
    BY <1>0, <1>1 DEF RequestFails, Done, Idle
  <1>2. ASSUME SetSMTPPassword(r) PROVE last' = last + 1 /\ \E x : Good(x)
    <2>1. PICK over \in BOOLEAN :
            req' = [req EXCEPT ![r] = [req[r] EXCEPT !.at = "commit", !.hash = last + 1, !.over = over]]
      BY <1>0, <1>2 DEF SetSMTPPassword
    <2>2. /\ last' = last + 1 /\ db.box.id # 0
          /\ req[r].at = "act" /\ ~\E q \in Requests : Writing(q)
      BY <1>2 DEF SetSMTPPassword, Fresh, Acts
    <2>. DEFINE x == [req[r] EXCEPT !.at = "commit", !.hash = last + 1, !.over = over]
    <2>. req[r] \in Request /\ last + 1 \in Nat
      BY <1>0
    <2>3. x \in Request /\ x.at = "commit" /\ x.hash = last + 1 /\ x.ws = req[r].ws
      BY DEF Request, RequestSteps
    <2>4. Good(x)
      BY <1>0, <2>1, <2>2, <2>3
    <2>5. QED
      BY <2>2, <2>4
  <1>3. ASSUME CreateMailbox(r)
        PROVE  UNCHANGED last /\ Good([req[r] EXCEPT !.at = "insert", !.domain = db.domain])
    BY <1>0, <1>3 DEF CreateMailbox, Acts, Request, RequestSteps
  <1>4. ASSUME NEW op \in Ops, NEW u \in Users, NEW who \in Someone, NEW as \in Roles \ {"owner"},
               Scope(r, op, u, who, as)
        PROVE  UNCHANGED last /\ Good([Idle EXCEPT !.at = "act", !.op = op, !.by = u, !.who = who,
                                         !.as = as, !.ws = db.ws, !.box = db.box.id])
    BY <1>0, <1>4 DEF Scope, Request, RequestSteps, Someone
  <1>5. ASSUME NEW u \in Users, Ask(r, u) PROVE UNCHANGED last /\ \E x : Good(x)
    BY <1>4, <1>5 DEF Ask, Someone, Ops, OwnerOps, AdminOps, Roles, Admins
  <1>6. ASSUME NEW u \in Users, SendWorkspaceEmail(r, u) PROVE UNCHANGED last /\ \E x : Good(x)
    BY <1>4, <1>6 DEF SendWorkspaceEmail, Someone, Ops, Roles, Admins
  <1>7. ASSUME Reading(r)
        PROVE  UNCHANGED last /\ Good([req[r] EXCEPT !.at = "shown"])
    <2>1. req[r].at = "act" /\ req[r].op \in ReadOps /\ CanAccess(req[r].by, req[r].box) /\ Show(r)
      BY <1>7 DEF Reading, ListMessages, GetMessage, DownloadReceivedAttachment, MarkMessageRead,
                  ReadableMessage, Acts, ReadOps
    <2>2. QED
      BY <1>0, <2>1 DEF Show, Request, RequestSteps
  <1>8. ASSUME SendEmail(r)
        PROVE  UNCHANGED last /\ Good([Idle EXCEPT !.at = "act", !.ws = db.ws])
    BY <1>0, <1>8 DEF SendEmail, KeyHolds, Request, RequestSteps
  <1>9. ASSUME SendQuota(r)
        PROVE  UNCHANGED last /\ (Good([req[r] EXCEPT !.at = "allowed"]) \/ Good(Idle))
    BY <1>0, <1>9 DEF SendQuota, Done, Idle, Request, RequestSteps
  <1>10. ASSUME CheckSender(r)
         PROVE  UNCHANGED last /\ Good([req[r] EXCEPT !.at = "domain", !.box = db.box.id,
                                                      !.private = db.box.owner # NoOne])
    BY <1>0, <1>10 DEF CheckSender, SenderAllowed, Someone, Request, RequestSteps
  <1>11. ASSUME CheckDomain(r)
         PROVE  UNCHANGED last /\ Good([req[r] EXCEPT !.at = "create"])
    <2>1. req[r].at = "domain" /\ req[r].private => req[r].by \in Users
      BY DEF TypeInv, Asked
    <2>2. QED
      BY <1>0, <1>11, <2>1 DEF CheckDomain, Request, RequestSteps
  <1>12. last' \in {last, last + 1} /\ \E x : Good(x)
    BY <1>1, <1>2, <1>3, <1>5, <1>6, <1>7, <1>8, <1>9, <1>10, <1>11 DEF Goes
  <1>13. PICK x : Good(x)
    BY <1>12
  <1>14. x \in Request
    BY <1>13
  <1>15. last' \in Nat /\ last <= last'
    BY <1>0, <1>12
  <1>16. QED
    BY <1>13, <1>14, <1>15, Zenon

LEMMA GrantsTyped ==
  ASSUME db \in Database
  PROVE  /\ AccountGrants \subseteq Grant /\ CredentialGrants \subseteq Grant
         /\ \A g \in AccountGrants :
               /\ g.user \in Users /\ g.box = db.box.id /\ g.ws = db.ws /\ ~g.app
               /\ g.hash = db.password[g.user] /\ db.box.owner = g.user /\ db.role[g.user] # "none"
  <1>1. /\ db.ws \in Nat /\ db.box.id \in Nat /\ db.box.owner \in Someone /\ db.cred.by \in Someone
        /\ db.password \in [Users -> Nat] /\ db.cred.hash \in Nat
    BY DatabaseFields
  <1>2. Honoured \subseteq Nat
    BY <1>1 DEF Honoured
  <1>3. CredentialGrants \subseteq Grant
    <2>. SUFFICES ASSUME NEW h \in Honoured
                  PROVE  [user |-> db.cred.by, box |-> db.box.id, ws |-> db.ws, hash |-> h,
                          app |-> TRUE] \in Grant
      BY DEF CredentialGrants
    <2>1. QED
      BY <1>1, <1>2 DEF Grant
  <1>4. ASSUME NEW g \in AccountGrants
        PROVE  /\ g \in Grant /\ g.user \in Users /\ g.box = db.box.id /\ g.ws = db.ws /\ ~g.app
               /\ g.hash = db.password[g.user] /\ db.box.owner = g.user
               /\ db.role[g.user] # "none"
    <2>1. PICK u \in {db.box.owner} \ {NoOne} :
            /\ g = [user |-> u, box |-> db.box.id, ws |-> db.ws, hash |-> db.password[u], app |-> FALSE]
            /\ db.role[u] # "none"
      BY DEF AccountGrants
    <2>2. u \in Users /\ db.password[u] \in Nat
      BY <1>1, <2>1 DEF Someone
    <2>3. QED
      BY <1>1, <2>1, <2>2 DEF Grant, Someone
  <1>5. QED
    BY <1>3, <1>4

LEMMA InitTypeInv == Init => TypeInv
  <1>. SUFFICES ASSUME Init PROVE TypeInv
    OBVIOUS
  <1>1. /\ scene.role \in [Users -> Roles \cup {"none"}] /\ scene.owner \in Someone
        /\ \E o \in Users : \A u \in Users : scene.role[u] = "owner" <=> u = o
    BY WorkspaceAssumption DEF Init, WorkspaceInit, Someone
  <1>2. db \in Database /\ Rooted
    BY <1>1, Blank DEF Init, WorkspaceInit, Database, Rooted, OneOwner, NoCredential
  <1>3. WorkspaceTypeOK
    BY <1>2, Blank DEF Init, WorkspaceInit, WorkspaceTypeOK
  <1>4. NoGrant \in Grant
    BY DEF NoGrant, Grant, Someone
  <1>5. AccessTypeOK /\ sess \in [Sessions -> [at : SessionSteps, grant : Grant, late : BOOLEAN]]
    BY <1>4 DEF Init, AccessInit, AccessTypeOK, Closed, Out, ConnSteps, SessionSteps
  <1>6. TypeOK
    BY <1>3, <1>5, LimitAssumption DEF Init, TypeOK, Rules
  <1>7. Asked /\ Issued
    BY DEF Init, WorkspaceInit, Asked, Issued, Idle, NoCredential
  <1>8. QED
    BY <1>6, <1>7 DEF TypeInv

LEMMA SessionsTyped ==
  ASSUME TypeOK, NEW s \in Sessions, SMTP(s)
  PROVE  sess' \in [Sessions -> [at : SessionSteps, grant : Grant, late : BOOLEAN]]
  <1>. DEFINE S == [at : SessionSteps, grant : Grant, late : BOOLEAN]
  <1>1. sess \in [Sessions -> S] /\ db \in Database
    BY DEF TypeOK, WorkspaceTypeOK
  <1>2. ASSUME NEW at \in SessionSteps, sess' = [sess EXCEPT ![s].at = at]
        PROVE  sess' \in [Sessions -> S]
    BY <1>1, <1>2
  <1>3. CASE Auth(s)
    <2>1. PICK g \in Grant : sess' = [sess EXCEPT ![s].at = "in", ![s].grant = g]
      BY <1>1, <1>3, GrantsTyped DEF Auth, Grants
    <2>2. "in" \in SessionSteps
      BY DEF SessionSteps
    <2>3. QED
      BY <1>1, <2>1, <2>2
  <1>4. CASE Sign(s)
    <2>0. (sess[s].grant.hash \in revoked) \in BOOLEAN
      OBVIOUS
    <2>1. PICK late \in BOOLEAN : sess' = [sess EXCEPT ![s].at = "signed", ![s].late = late]
      BY <1>4, <2>0, Zenon DEF Sign
    <2>2. QED
      BY <1>1, <2>1 DEF SessionSteps
  <1>5. CASE EndTransaction(s)
    BY <1>1, <1>5 DEF EndTransaction, SessionSteps
  <1>6. CASE Logout(s)
    BY <1>1, <1>6 DEF Logout, Out, SessionSteps, Grant, NoGrant, Someone
  <1>7. CASE MailFrom(s) \/ RcptTo(s) \/ Data(s) \/ Quota(s) \/ Recheck(s)
    BY <1>2, <1>7 DEF MailFrom, RcptTo, Data, Quota, Recheck, SessionAt, SessionSteps
  <1>8. QED
    BY <1>3, <1>4, <1>5, <1>6, <1>7 DEF SMTP

LEMMA ConnsTyped ==
  ASSUME TypeOK, NEW c \in Conns, IMAP(c)
  PROVE  conn' \in [Conns -> [at : ConnSteps, grant : Grant]]
  <1>. DEFINE C == [at : ConnSteps, grant : Grant]
  <1>1. conn \in [Conns -> C] /\ db \in Database
    BY DEF TypeOK, AccessTypeOK, WorkspaceTypeOK
  <1>2. ASSUME NEW at \in ConnSteps, ConnAt(c, at)
        PROVE  conn' \in [Conns -> C]
    BY <1>1, <1>2 DEF ConnAt
  <1>3. CASE Login(c)
    BY <1>1, <1>3, GrantsTyped DEF Login, ConnSteps
  <1>4. CASE Close(c)
    BY <1>1, <1>4 DEF Close, Closed, NoGrant, Grant, Someone, ConnSteps
  <1>5. CASE Command(c) \/ CheckAccess(c) \/ CheckActive(c) \/ EndCommand(c)
    BY <1>2, <1>5 DEF Command, CheckAccess, CheckActive, EndCommand, ConnSteps
  <1>6. QED
    BY <1>3, <1>4, <1>5 DEF IMAP

LEMMA TypeStep ==
  ASSUME TypeInv, QuotaInv, [Next]_vars
  PROVE  TypeInv'
  <1>0. CASE UNCHANGED vars
    BY <1>0 DEF vars, accessVars, limitVars, TypeInv, TypeOK, WorkspaceTypeOK, AccessTypeOK, Rooted,
                OneOwner, Asked, Issued
  <1>1. CASE Next
    <2>0. /\ RowsOK /\ req \in [Requests -> Request] /\ Asked /\ revoked \subseteq 1..last
          /\ conn \in [Conns -> [at : ConnSteps, grant : Grant]]
          /\ sess \in [Sessions -> [at : SessionSteps, grant : Grant, late : BOOLEAN]]
      BY DEF TypeInv, TypeOK, WorkspaceTypeOK, AccessTypeOK, RowsOK
    <2>1. RowsOK' /\ last' >= last
      <3>1. ASSUME NEW r \in Requests, Writes(r) PROVE RowsOK' /\ last' >= last
        BY <2>0, <3>1, WritesRows DEF RowsOK
      <3>2. ASSUME NEW u \in Users, CreateWorkspace(u) \/ UpdatePassword(u)
            PROVE  RowsOK' /\ last' >= last
        BY <2>0, <3>2, UserWritesRows DEF RowsOK
      <3>3. ASSUME UNCHANGED db, last' \in Nat, last' >= last PROVE RowsOK'
        <4>1. /\ db.box.id \in Nat /\ db.cred.hash \in Nat /\ db.password \in [Users -> Nat]
              /\ last \in Nat
          BY <2>0, DatabaseFields DEF RowsOK
        <4>2. Issued'
          BY <2>0, <3>3, <4>1 DEF RowsOK, Issued
        <4>3. QED
          BY <2>0, <3>3, <4>2 DEF RowsOK, Rooted, OneOwner
      <3>4. ASSUME NEW r \in Requests, Goes(r), UNCHANGED db PROVE RowsOK' /\ last' >= last
        BY <2>0, <3>3, <3>4, GoesOn DEF RowsOK
      <3>5. CASE Aside
        BY <2>0, <3>3, <3>5 DEF RowsOK, Aside
      <3>6. QED
        BY <1>1, <3>1, <3>2, <3>4, <3>5, NextCases
    <2>2. req' \in [Requests -> Request] /\ Asked'
      <3>0. last \in Nat /\ last' \in Nat
        BY <2>0, <2>1 DEF RowsOK
      <3>1. ASSUME NEW r \in Requests, Writes(r) PROVE req' \in [Requests -> Request] /\ Asked'
        <4>1. /\ req' = [req EXCEPT ![r] = Idle]
              /\ db.box.id # 0 /\ db'.box.id = 0 => ~\E q \in Requests : Writing(q)
          BY <3>1, WritesEnd, WritesRows
        <4>2. Asked'
          BY <2>0, <2>1, <3>0, <4>1 DEF Asked, Idle, Writing
        <4>3. QED
          BY <2>0, <4>1, <4>2, Blank
      <3>2. ASSUME NEW u \in Users, CreateWorkspace(u) \/ UpdatePassword(u)
            PROVE  req' \in [Requests -> Request] /\ Asked'
        <4>1. UNCHANGED req /\ db'.box = db.box
          BY <3>2, UserWritesRows
        <4>2. QED
          BY <2>0, <2>1, <3>0, <4>1 DEF Asked
      <3>3. ASSUME NEW r \in Requests, Goes(r), UNCHANGED db
            PROVE  req' \in [Requests -> Request] /\ Asked'
        <4>1. PICK x \in Request :
                /\ req' = [req EXCEPT ![r] = x]
                /\ x.at # "idle" => x.ws # 0
                /\ x.at = "insert" => x.domain # 0
                /\ x.at = "commit" => db.box.id # 0 /\ last' = last + 1 /\ x.hash = last'
                /\ x.at \in {"domain", "create"} /\ x.private => x.by \in Users
                /\ x.at = "shown" => x.op \in ReadOps
          BY <3>3, GoesOn
        <4>2. ASSUME NEW q \in Requests
              PROVE  /\ req'[q].at # "idle" => req'[q].ws # 0
                     /\ req'[q].at = "insert" => req'[q].domain # 0
                     /\ req'[q].at = "commit" => db'.box.id # 0 /\ req'[q].hash \in 1..last'
                     /\ req'[q].at \in {"domain", "create"} /\ req'[q].private => req'[q].by \in Users
                     /\ req'[q].at = "shown" => req'[q].op \in ReadOps
          <5>1. CASE q = r
            BY <2>0, <3>0, <3>3, <4>1, <5>1
          <5>2. CASE q # r
            BY <2>0, <2>1, <3>0, <3>3, <4>1, <5>2 DEF Asked
          <5>3. QED
            BY <5>1, <5>2
        <4>3. QED
          BY <2>0, <4>1, <4>2 DEF Asked
      <3>4. CASE Aside
        BY <2>0, <2>1, <3>4 DEF Aside, Asked
      <3>5. QED
        BY <1>1, <3>1, <3>2, <3>3, <3>4, NextCases
    <2>3. revoked' \subseteq 1..last'
      <3>1. db.cred.hash \in Nat /\ db.cred.hash <= last /\ last \in Nat /\ last' \in Nat
        BY <2>0, <2>1, DatabaseFields DEF RowsOK, Issued
      <3>2. Honoured \subseteq 1..last
        BY <3>1 DEF Honoured
      <3>3. revoked' \subseteq 1..last
        BY <1>1, <2>0, <3>2 DEF Next
      <3>4. QED
        BY <2>1, <3>1, <3>3
    <2>4. AccessTypeOK'
      <3>1. conn' \in [Conns -> [at : ConnSteps, grant : Grant]]
        BY <1>1, <2>0, NextCases, ConnsTyped DEF Aside, TypeInv
      <3>2. held' \subseteq Conns \cup Requests
        BY <1>1 DEF Next, Remember, InFlight
      <3>3. QED
        BY <3>1, <3>2 DEF AccessTypeOK
    <2>5. sess' \in [Sessions -> [at : SessionSteps, grant : Grant, late : BOOLEAN]]
      BY <1>1, <2>0, NextCases, SessionsTyped DEF Aside, TypeInv
    <2>6. LimitTypeOK'
      BY QuotaStep DEF TypeInv, TypeOK, LimitTypeOK
    <2>7. QED
      BY <2>1, <2>2, <2>3, <2>4, <2>5, <2>6 DEF TypeInv, TypeOK, WorkspaceTypeOK, RowsOK, LimitTypeOK
  <1>2. QED
    BY <1>0, <1>1

LEMMA TypeAndQuota == Spec => [](TypeInv /\ QuotaInv)
  <1>1. Init => TypeInv /\ QuotaInv
    BY InitTypeInv, LimitAssumption DEF Init, QuotaInv, Rules
  <1>2. TypeInv /\ QuotaInv /\ [Next]_vars => (TypeInv /\ QuotaInv)'
    BY TypeStep, QuotaStep DEF TypeInv, TypeOK, LimitTypeOK
  <1>3. QED
    BY <1>1, <1>2, PTL DEF Spec

\* The rows, the requests, the sessions and the counters are always of their types, a
\* workspace has one owner, and no address or password outlives the domain it hangs on.
THEOREM TypesCorrect == Spec => []TypeOK
  <1>1. TypeInv => TypeOK
    BY DEF TypeInv
  <1>2. QED
    BY <1>1, TypeAndQuota, PTL

-----------------------------------------------------------------------------
(* Mail from a private mailbox.                                             *)

LEMMA BookedStep ==
  ASSUME TypeInv, Booked, [Next]_vars
  PROVE  Booked'
  <1>0. /\ db \in Database /\ Rooted /\ db.box.owner \in Someone /\ NoOne \notin Users
        /\ db.mails \subseteq Mail /\ req \in [Requests -> Request]
    BY DatabaseFields, WorkspaceAssumption DEF TypeInv, TypeOK, WorkspaceTypeOK
  <1>1. ASSUME db'.mails = db.mails, db'.box.owner = db.box.owner PROVE Booked'
    BY <1>1 DEF Booked
  <1>2. ASSUME NEW r \in Requests, Writes(r) PROVE Booked'
    <2>1. CASE \/ CommitSMTPPassword(r) \/ DeleteSMTPPassword(r) \/ AddMember(r)
               \/ UpdateMember(r) \/ RemoveMember(r) \/ VerifyDomain(r)
               \/ CreateApiKey(r) \/ RevokeApiKey(r)
      <3>1. db'.mails = db.mails /\ db'.box = db.box
        BY <1>0, <2>1 DEF CommitSMTPPassword, DeleteSMTPPassword, AddMember, UpdateMember,
             RemoveMember, VerifyDomain, CreateApiKey, RevokeApiKey, Database
      <3>2. QED
        BY <1>1, <3>1
    <2>2. CASE DeleteWorkspace(r)
      <3>1. db'.mails = {}
        BY <1>0, <2>2 DEF DeleteWorkspace, Database
      <3>2. QED
        BY <3>1 DEF Booked
    <2>3. CASE DeleteDomain(r)
      <3>1. db'.mails = {Retained(m) : m \in db.mails} /\ db'.box.owner = NoOne
        BY <1>0, <2>3 DEF DeleteDomain, NoBox, Database
      <3>2. ASSUME NEW m \in db.mails
            PROVE  /\ Retained(m).retained = NoOne => Retained(m).open = Users
                   /\ Retained(m).retained # NoOne => Retained(m).retained \in Retained(m).open
        BY <1>0 DEF Booked, Retained, Mail
      <3>3. QED
        BY <3>1, <3>2 DEF Booked
    <2>4. CASE InsertMailbox(r)
      <3>1. /\ db'.mails = {[m EXCEPT !.open = @ \cup ({req[r].who} \ {NoOne})] : m \in db.mails}
            /\ db'.box.owner = req[r].who
        BY <1>0, <2>4 DEF InsertMailbox, OpenTo, Database
      <3>2. db.box.owner = NoOne
        BY <1>0, <2>4 DEF InsertMailbox, Rooted, NoBox
      <3>3. ASSUME NEW m \in db.mails,
                   NEW n, n = [m EXCEPT !.open = @ \cup ({req[r].who} \ {NoOne})]
            PROVE  /\ n.retained = NoOne /\ req[r].who = NoOne => n.open = Users
                   /\ n.retained # NoOne => n.retained \in n.open
                   /\ req[r].who # NoOne => req[r].who \in n.open
        BY <1>0, <3>2, <3>3 DEF Booked, Mail
      <3>4. QED
        BY <3>1, <3>3 DEF Booked
    <2>5. CASE AssignOwner(r)
      <3>. DEFINE u == req[r].who
                  U == IF u = NoOne THEN Users ELSE {u}
      <3>1. db'.mails = {[m EXCEPT !.open = @ \cup U] : m \in db.mails} /\ db'.box.owner = u
        BY <1>0, <2>5 DEF AssignOwner, Assigns, OpenTo, Database
      <3>2. u \in Someone
        BY <1>0, RequestFields
      <3>3. ASSUME NEW m \in db.mails, NEW n, n = [m EXCEPT !.open = @ \cup U]
            PROVE  /\ n.retained = NoOne /\ u = NoOne => n.open = Users
                   /\ n.retained # NoOne => n.retained \in n.open
                   /\ u # NoOne => u \in n.open
        BY <1>0, <3>2, <3>3 DEF Booked, Mail
      <3>4. QED
        BY <3>1, <3>3 DEF Booked
    <2>6. CASE CreateMail(r)
      <3>. DEFINE kept == req[r].private /\ req[r].box = db.box.id
                  readers == IF ~kept \/ db.box.owner = NoOne THEN Users
                             ELSE {req[r].by, db.box.owner}
                  mail == [by |-> req[r].by, retained |-> NoOne, open |-> readers]
      <3>1. db'.mails = db.mails \cup {mail} /\ db'.box = db.box
        BY <1>0, <2>6 DEF CreateMail, Database
      <3>2. db.box.owner # NoOne => db.box.owner \in readers
        BY <1>0 DEF Someone
      <3>3. QED
        BY <3>1, <3>2 DEF Booked
    <2>7. QED
      BY <1>2, <2>1, <2>2, <2>3, <2>4, <2>5, <2>6 DEF Writes
  <1>3. ASSUME NEW u \in Users, CreateWorkspace(u) \/ UpdatePassword(u) PROVE Booked'
    <2>1. db'.mails = db.mails /\ db'.box = db.box
      BY <1>0, <1>3 DEF CreateWorkspace, UpdatePassword, Database
    <2>2. QED
      BY <1>1, <2>1
  <1>4. QED
    BY <1>1, <1>2, <1>3, NextCases DEF Aside, vars

LEMMA BookedIsPrivate ==
  ASSUME TypeInv, Booked
  PROVE  PrivateMailStaysPrivate
  <1>1. NoOne \notin Users
    BY WorkspaceAssumption
  <1>2. ASSUME NEW m \in db.mails, NEW u \in Users, CanReadOutbound(u, m)
        PROVE  u \in m.open
    BY <1>1, <1>2 DEF Booked, CanReadOutbound
  <1>3. ASSUME NEW m \in db.mails, CanReadOutbound(NoOne, m)
        PROVE  m.open = Users
    BY <1>3 DEF Booked, CanReadOutbound
  <1>4. ASSUME NEW m \in db.mails, NEW u \in Users, SearchForUser(u, m)
        PROVE  CanReadOutbound(u, m)
    BY <1>4 DEF SearchForUser, CanReadOutbound
  <1>5. QED
    BY <1>2, <1>3, <1>4 DEF PrivateMailStaysPrivate, GetWorkspaceEmail, GetEmail

\* Mail sent from a private mailbox is read by its sender and by those the address was later
\* given to or shared with, and by nobody else, through deleted and re-created domains and
\* mailboxes and by each of the three queries (0013_retained_mail_privacy.sql:1).
THEOREM PrivateAlways == Spec => []PrivateMailStaysPrivate
  <1>1. Init => Booked
    BY DEF Init, WorkspaceInit, Booked
  <1>2. TypeInv /\ Booked /\ [Next]_vars => Booked'
    BY BookedStep
  <1>3. TypeInv /\ Booked => PrivateMailStaysPrivate
    BY BookedIsPrivate
  <1>4. QED
    BY <1>1, <1>2, <1>3, TypeAndQuota, PTL DEF Spec

-----------------------------------------------------------------------------
(* Rights that have gone.                                                   *)

LEMMA Facts ==
  ASSUME TypeInv
  PROVE  /\ db \in Database /\ Rooted /\ db.ws \in Nat /\ db.domain \in Nat
         /\ db.role \in [Users -> Roles \cup {"none"}] /\ db.password \in [Users -> Nat]
         /\ db.box.id \in Nat /\ db.box.owner \in Someone
         /\ db.cred.hash \in Nat /\ db.cred.by \in Someone
         /\ req \in [Requests -> Request] /\ last \in Nat /\ revoked \subseteq 1..last
         /\ db.box.id <= last /\ db.cred.hash <= last /\ \A u \in Users : db.password[u] <= last
         /\ NoOne \notin Users
  BY DatabaseFields, WorkspaceAssumption DEF TypeInv, TypeOK, WorkspaceTypeOK, Issued

\* A password that holds stays, or goes, or another takes its place: never does the row stay
\* and its issuer's right go.
LEMMA CredentialStep ==
  ASSUME TypeInv, Next
  PROVE  \/ db'.cred = NoCredential
         \/ db'.cred = db.cred /\ Honoured \subseteq Honoured'
         \/ \E r \in Requests : CommitSMTPPassword(r)
  <1>0. /\ db \in Database /\ Rooted
        /\ db.role \in [Users -> Roles \cup {"none"}]
    BY Facts
  <1>1. ASSUME db'.cred = db.cred, db.box.id # 0 => db'.box.id # 0,
               db.box.id # 0 /\ db.cred.by \in Users /\ db.role[db.cred.by] \in Admins
                  => db'.role[db.cred.by] \in Admins
        PROVE  Honoured \subseteq Honoured'
    BY <1>1 DEF Honoured
  <1>2. ASSUME NEW r \in Requests, Writes(r), ~CommitSMTPPassword(r)
        PROVE  db'.cred = NoCredential \/ (db'.cred = db.cred /\ Honoured \subseteq Honoured')
    <2>1. CASE DeleteSMTPPassword(r) \/ DeleteWorkspace(r) \/ DeleteDomain(r)
      BY <1>0, <2>1 DEF DeleteSMTPPassword, DeleteWorkspace, DeleteDomain, Database
    <2>2. CASE VerifyDomain(r) \/ CreateApiKey(r) \/ RevokeApiKey(r) \/ CreateMail(r)
      <3>1. db'.cred = db.cred /\ db'.box = db.box /\ db'.role = db.role
        BY <1>0, <2>2 DEF VerifyDomain, CreateApiKey, RevokeApiKey, CreateMail, Database
      <3>2. QED
        BY <1>1, <3>1
    <2>3. CASE AddMember(r)
      <3>1. /\ db'.cred = db.cred /\ db'.box = db.box /\ db.role[req[r].who] = "none"
            /\ db'.role = [db.role EXCEPT ![req[r].who] = req[r].as]
        BY <1>0, <2>3 DEF AddMember, Database
      <3>2. QED
        BY <1>0, <1>1, <3>1 DEF Admins
    <2>4. CASE UpdateMember(r) \/ RemoveMember(r)
      <3>. DEFINE u == req[r].who
      <3>1. PICK x : /\ db'.cred = WithoutIssuer(u) /\ db'.box = db.box
                     /\ db'.role = [db.role EXCEPT ![u] = x]
        <4>1. PICK x : db' = [db EXCEPT !.role[u] = x, !.cred = WithoutIssuer(u)]
          BY <2>4 DEF UpdateMember, RemoveMember
        <4>2. QED
          BY <1>0, <4>1 DEF Database
      <3>2. CASE db.cred.by = u
        BY <3>1, <3>2 DEF WithoutIssuer
      <3>3. CASE db.cred.by # u
        <4>1. db'.cred = db.cred
          BY <3>1, <3>3 DEF WithoutIssuer
        <4>2. db.cred.by \in Users => db'.role[db.cred.by] = db.role[db.cred.by]
          BY <1>0, <3>1, <3>3
        <4>3. QED
          BY <1>1, <3>1, <4>1, <4>2
      <3>4. QED
        BY <3>2, <3>3
    <2>5. CASE InsertMailbox(r)
      <3>1. db'.cred = db.cred /\ db.box.id = 0
        BY <1>0, <2>5 DEF InsertMailbox, Database
      <3>2. Honoured = {}
        BY <3>1 DEF Honoured
      <3>3. QED
        BY <3>1, <3>2
    <2>6. CASE AssignOwner(r)
      <3>1. /\ db'.cred \in {NoCredential, db.cred} /\ db'.box.id = db.box.id
            /\ db'.role = db.role
        BY <1>0, <2>6 DEF AssignOwner, Assigns, Database
      <3>2. QED
        BY <1>1, <3>1
    <2>7. QED
      BY <1>2, <2>1, <2>2, <2>3, <2>4, <2>5, <2>6 DEF Writes
  <1>3. ASSUME NEW u \in Users, CreateWorkspace(u)
        PROVE  db'.cred = db.cred /\ Honoured \subseteq Honoured'
    <2>1. db'.cred = db.cred
      BY <1>3, UserWritesRows
    <2>2. db.box.id = 0
      BY <1>0, <1>3 DEF CreateWorkspace, Rooted
    <2>3. QED
      BY <2>1, <2>2 DEF Honoured
  <1>4. ASSUME NEW u \in Users, UpdatePassword(u)
        PROVE  db'.cred = db.cred /\ Honoured \subseteq Honoured'
    <2>1. db'.cred = db.cred /\ db'.box = db.box
      BY <1>4, UserWritesRows
    <2>2. db'.role = db.role
      BY <1>0, <1>4 DEF UpdatePassword, Database
    <2>3. QED
      BY <1>1, <2>1, <2>2
  <1>5. ASSUME UNCHANGED db PROVE db'.cred = db.cred /\ Honoured \subseteq Honoured'
    BY <1>1, <1>5
  <1>6. QED
    BY <1>2, <1>3, <1>4, <1>5, NextCases DEF Aside

\* An account's password stays or is new.
LEMMA PasswordStep ==
  ASSUME TypeInv, Next
  PROVE  \/ db'.password = db.password
         \/ \E u \in Users : /\ db'.password = [db.password EXCEPT ![u] = last + 1]
                             /\ db'.cred = db.cred /\ UNCHANGED req
  <1>0. db \in Database
    BY Facts
  <1>1. ASSUME NEW r \in Requests, Writes(r) PROVE db'.password = db.password
    BY <1>0, <1>1 DEF Writes, CommitSMTPPassword, DeleteSMTPPassword, AddMember, UpdateMember,
         RemoveMember, DeleteWorkspace, VerifyDomain, DeleteDomain, InsertMailbox, AssignOwner, Assigns,
         CreateApiKey, RevokeApiKey, CreateMail, Database
  <1>2. ASSUME NEW u \in Users, CreateWorkspace(u) PROVE db'.password = db.password
    BY <1>0, <1>2 DEF CreateWorkspace, Database
  <1>3. ASSUME NEW u \in Users, UpdatePassword(u)
        PROVE  /\ db'.password = [db.password EXCEPT ![u] = last + 1]
               /\ db'.cred = db.cred /\ UNCHANGED req
    BY <1>0, <1>3 DEF UpdatePassword, Database
  <1>4. QED
    BY <1>1, <1>2, <1>3, NextCases DEF Aside

\* A password being written goes on being written, or is new and the only one.
LEMMA WritingStep ==
  ASSUME TypeInv, Next
  PROVE  \/ \A q \in Requests : Writing(q)' => Writing(q) /\ req'[q].hash = req[q].hash
         \/ /\ UNCHANGED db /\ last' = last + 1
            /\ \A q \in Requests : Writing(q)' => req'[q].hash = last + 1
            /\ \A p, q \in Requests : Writing(p)' /\ Writing(q)' => p = q
  <1>0. req \in [Requests -> Request]
    BY Facts
  <1>1. ASSUME NEW r \in Requests, req' = [req EXCEPT ![r] = Idle]
        PROVE  \A q \in Requests : Writing(q)' => Writing(q) /\ req'[q].hash = req[q].hash
    BY <1>0, <1>1 DEF Writing, Idle
  <1>2. ASSUME UNCHANGED req
        PROVE  \A q \in Requests : Writing(q)' => Writing(q) /\ req'[q].hash = req[q].hash
    BY <1>2 DEF Writing
  <1>3. ASSUME NEW r \in Requests, Goes(r), UNCHANGED db
        PROVE  \/ \A q \in Requests : Writing(q)' => Writing(q) /\ req'[q].hash = req[q].hash
               \/ /\ UNCHANGED db /\ last' = last + 1
                  /\ \A q \in Requests : Writing(q)' => req'[q].hash = last + 1
                  /\ \A p, q \in Requests : Writing(p)' /\ Writing(q)' => p = q
    <2>1. PICK x \in Request :
            /\ req' = [req EXCEPT ![r] = x]
            /\ x.at = "commit" => /\ last' = last + 1 /\ x.hash = last'
                                  /\ ~\E q \in Requests : Writing(q)
      BY <1>3, GoesOn
    <2>2. CASE x.at = "commit"
      BY <1>0, <1>3, <2>1, <2>2 DEF Writing
    <2>3. CASE x.at # "commit"
      BY <1>0, <2>1, <2>3 DEF Writing
    <2>4. QED
      BY <2>2, <2>3
  <1>4. QED
    BY <1>1, <1>2, <1>3, WritesEnd, UserWritesRows, NextCases DEF Aside

LEMMA RevokedStep ==
  ASSUME TypeInv, Next
  PROVE  /\ revoked \subseteq revoked'
         /\ revoked' \subseteq revoked \cup ({db.cred.hash} \ {0})
  BY DEF Next, Honoured

LEMMA DistinctStep ==
  ASSUME TypeInv, Distinct, Next
  PROVE  Distinct'
  <1>0. /\ revoked \subseteq 1..last /\ last \in Nat /\ db.cred.hash \in Nat /\ db.cred.hash <= last
        /\ db.password \in [Users -> Nat] /\ \A u \in Users : db.password[u] <= last
        /\ revoked' \subseteq revoked \cup ({db.cred.hash} \ {0})
    BY Facts, RevokedStep
  <1>1. ASSUME NEW r \in Requests, CommitSMTPPassword(r)
        PROVE  Distinct'
    <2>1. /\ db'.cred.hash = req[r].hash /\ db'.password = db.password
          /\ Writing(r) /\ req' = [req EXCEPT ![r] = Idle]
      BY <1>1, Facts DEF CommitSMTPPassword, Done, Database
    <2>2. req[r].hash \notin revoked'
      BY <1>0, <2>1 DEF Distinct
    <2>3. \A u \in Users : db.password[u] \notin revoked' /\ db.password[u] # req[r].hash
      BY <1>0, <2>1 DEF Distinct
    <2>4. \A q \in Requests : ~Writing(q)'
      BY <2>1, Facts DEF Distinct, Writing, Idle
    <2>5. QED
      BY <2>1, <2>2, <2>3, <2>4 DEF Distinct
  <1>2. ASSUME ~\E r \in Requests : CommitSMTPPassword(r)
        PROVE  Distinct'
    <2>1. /\ db'.cred.hash \in {0, db.cred.hash}
          /\ db'.cred.hash # 0 => revoked' = revoked
      <3>1. CASE db'.cred = NoCredential
        BY <3>1 DEF NoCredential
      <3>2. CASE db'.cred = db.cred /\ Honoured \subseteq Honoured'
        BY <3>2 DEF Next
      <3>3. QED
        BY <1>2, <3>1, <3>2, CredentialStep
    <2>2. db'.cred.hash \notin revoked'
      BY <1>0, <2>1 DEF Distinct
    <2>3. \A u \in Users : \/ db'.password[u] = db.password[u]
                           \/ db'.password[u] = last + 1 /\ db'.cred = db.cred /\ UNCHANGED req
      BY <1>0, PasswordStep
    <2>4. \A u \in Users : /\ db'.password[u] \notin revoked'
                           /\ db'.cred.hash # 0 => db'.password[u] # db'.cred.hash
      BY <1>0, <2>1, <2>3 DEF Distinct
    <2>5. ASSUME \A q \in Requests : Writing(q)' => Writing(q) /\ req'[q].hash = req[q].hash,
                 NEW r \in Requests, Writing(r)'
          PROVE  /\ req'[r].hash \notin revoked' \cup {db'.cred.hash}
                 /\ \A u \in Users : req'[r].hash # db'.password[u]
                 /\ \A q \in Requests : Writing(q)' => q = r
      <3>1. Writing(r) /\ req'[r].hash = req[r].hash /\ req[r].hash \in 1..last
        BY <2>5 DEF TypeInv, Asked, Writing
      <3>2. req'[r].hash \notin revoked' \cup {db'.cred.hash}
        BY <1>0, <2>1, <3>1 DEF Distinct
      <3>3. \A u \in Users : req'[r].hash # db'.password[u]
        BY <1>0, <2>3, <3>1 DEF Distinct
      <3>4. QED
        BY <2>5, <3>1, <3>2, <3>3 DEF Distinct
    <2>6. ASSUME UNCHANGED db, NEW r \in Requests, req'[r].hash = last + 1
          PROVE  /\ req'[r].hash \notin revoked' \cup {db'.cred.hash}
                 /\ \A u \in Users : req'[r].hash # db'.password[u]
      BY <1>0, <2>6
    <2>7. QED
      BY <2>2, <2>4, <2>5, <2>6, WritingStep DEF Distinct
  <1>3. QED
    BY <1>1, <1>2

LEMMA LateStep ==
  ASSUME TypeInv, Distinct, Late, Next
  PROVE  Late'
  <1>0. /\ revoked \subseteq revoked' /\ db \in Database
        /\ sess \in [Sessions -> [at : SessionSteps, grant : Grant, late : BOOLEAN]]
    BY RevokedStep, Facts DEF TypeInv, TypeOK
  <1>1. ASSUME UNCHANGED sess PROVE Late'
    BY <1>0, <1>1 DEF Late
  <1>2. ASSUME NEW s \in Sessions, SMTP(s) PROVE Late'
    <2>0. ASSUME NEW g \in Grants PROVE g.hash \notin revoked
      <3>1. CASE g \in CredentialGrants
        <4>1. g.hash = db.cred.hash
          BY <3>1 DEF CredentialGrants, Honoured
        <4>2. QED
          BY <4>1 DEF Distinct
      <3>2. CASE g \in AccountGrants
        <4>1. g.user \in Users /\ g.hash = db.password[g.user]
          BY <1>0, <3>2, GrantsTyped
        <4>2. QED
          BY <4>1 DEF Distinct
      <3>3. QED
        BY <2>0, <3>1, <3>2 DEF Grants
    <2>1. CASE Recheck(s)
      <3>1. ~sess[s].late
        BY <1>0, <2>0, <2>1 DEF Recheck, Right, Late
      <3>2. QED
        BY <1>0, <2>1, <3>1 DEF Recheck, SessionAt, Late
    <2>2. CASE Sign(s)
      <3>1. sess' = [sess EXCEPT ![s].at = "signed", ![s].late = sess[s].grant.hash \in revoked]
        BY <2>2 DEF Sign
      <3>2. /\ sess'[s].at = "signed" /\ sess'[s].grant = sess[s].grant
            /\ sess'[s].late = (sess[s].grant.hash \in revoked)
        BY <1>0, <3>1, Zenon
      <3>3. \A t \in Sessions \ {s} : sess'[t] = sess[t]
        BY <1>0, <3>1
      <3>4. QED
        BY <1>0, <3>2, <3>3 DEF Late
    <2>3. CASE Auth(s)
      BY <1>0, <2>3 DEF Auth, Late
    <2>4. CASE EndTransaction(s) \/ Logout(s)
      BY <1>0, <2>4 DEF EndTransaction, Logout, Out, Late
    <2>5. CASE MailFrom(s) \/ RcptTo(s) \/ Data(s) \/ Quota(s)
      BY <1>0, <2>5 DEF MailFrom, RcptTo, Data, Quota, SessionAt, Late
    <2>6. QED
      BY <1>2, <2>1, <2>2, <2>3, <2>4, <2>5 DEF SMTP
  <1>3. QED
    BY <1>1, <1>2, NextCases DEF Aside, Late

\* A mailbox stays in its workspace, or goes, or is new.
LEMMA MailboxStep ==
  ASSUME TypeInv, Next
  PROVE  /\ last' \in Nat /\ last <= last'
         /\ \/ db'.box.id = db.box.id /\ db'.ws = db.ws
            \/ db'.box.id \in {0, last + 1}
  <1>0. db \in Database /\ Rooted /\ last \in Nat /\ db.box.id \in Nat
    BY Facts
  <1>1. ASSUME NEW r \in Requests, Writes(r)
        PROVE  \/ db'.box.id = db.box.id /\ db'.ws = db.ws
               \/ db'.box.id \in {0, last + 1}
    <2>1. CASE DeleteWorkspace(r) \/ DeleteDomain(r) \/ InsertMailbox(r)
      <3>1. CASE DeleteWorkspace(r) \/ DeleteDomain(r)
        <4>1. db'.box = NoBox
          BY <1>0, <3>1 DEF DeleteWorkspace, DeleteDomain, Database
        <4>2. QED
          BY <1>0, <4>1 DEF NoBox
      <3>2. CASE InsertMailbox(r)
        BY <1>0, <3>2 DEF InsertMailbox, Database
      <3>3. QED
        BY <2>1, <3>1, <3>2
    <2>2. CASE AssignOwner(r)
      BY <1>0, <2>2 DEF AssignOwner, Assigns, Database
    <2>3. CASE CommitSMTPPassword(r) \/ DeleteSMTPPassword(r)
      BY <1>0, <2>3 DEF CommitSMTPPassword, DeleteSMTPPassword, Database
    <2>4. CASE AddMember(r)
      BY <1>0, <2>4 DEF AddMember, Database
    <2>5. CASE UpdateMember(r)
      BY <1>0, <2>5 DEF UpdateMember, Database
    <2>6. CASE RemoveMember(r)
      BY <1>0, <2>6 DEF RemoveMember, Database
    <2>7. CASE VerifyDomain(r) \/ CreateApiKey(r) \/ RevokeApiKey(r)
      BY <1>0, <2>7 DEF VerifyDomain, CreateApiKey, RevokeApiKey, Database
    <2>8. CASE CreateMail(r)
      BY <1>0, <2>8 DEF CreateMail, Database
    <2>9. QED
      BY <1>1, <2>1, <2>2, <2>3, <2>4, <2>5, <2>6, <2>7, <2>8 DEF Writes
  <1>2. ASSUME NEW u \in Users, CreateWorkspace(u) PROVE db'.box.id = 0
    BY <1>0, <1>2, UserWritesRows DEF CreateWorkspace, Rooted
  <1>3. ASSUME NEW u \in Users, UpdatePassword(u)
        PROVE  db'.box.id = db.box.id /\ db'.ws = db.ws
    BY <1>0, <1>3 DEF UpdatePassword, Database
  <1>4. last' \in Nat /\ last <= last'
    BY <1>0, WritesRows, UserWritesRows, GoesOn, NextCases DEF RowsOK, Aside
  <1>5. QED
    BY <1>1, <1>2, <1>3, <1>4, NextCases DEF Aside

LEMMA GrantedStep ==
  ASSUME TypeInv, Granted, Next
  PROVE  Granted'
  <1>0. /\ last \in Nat /\ conn \in [Conns -> [at : ConnSteps, grant : Grant]]
        /\ db \in Database /\ Rooted /\ db.box.id \in Nat /\ db.box.id <= last
        /\ \A u \in Users : db.password[u] <= last
    BY Facts DEF TypeInv, TypeOK, AccessTypeOK
  <1>. DEFINE Fits(g) == /\ ~g.app /\ g.user \in Users /\ g.box # 0 /\ g.box <= last /\ g.hash <= last
                         /\ g.box = db.box.id => g.ws = db.ws
              Keeps(g) == /\ ~g.app /\ g.user \in Users /\ g.box # 0 /\ g.box <= last' /\ g.hash <= last'
                          /\ g.box = db'.box.id => g.ws = db'.ws
  <1>1. ASSUME NEW g \in Grant, Fits(g) PROVE Keeps(g)
    BY <1>0, <1>1, MailboxStep DEF Grant
  <1>2. \A c \in Conns : conn[c].at # "out" => Fits(conn[c].grant)
    BY DEF Granted
  <1>3. \A c \in Conns : conn'[c].at # "out" => conn'[c].grant \in Grant /\ Fits(conn'[c].grant)
    <2>1. CASE UNCHANGED conn
      BY <1>0, <1>2, <2>1
    <2>2. ASSUME NEW c \in Conns, IMAP(c)
          PROVE  \A b \in Conns : conn'[b].at # "out" => conn'[b].grant \in Grant /\ Fits(conn'[b].grant)
      <3>1. CASE Login(c)
        <4>1. PICK g \in AccountGrants : conn' = [conn EXCEPT ![c] = [at |-> "in", grant |-> g]]
          BY <3>1 DEF Login
        <4>2. db.box.owner # NoOne
          BY <1>0, <4>1, GrantsTyped, Facts
        <4>3. g \in Grant /\ Fits(g)
          BY <1>0, <4>1, <4>2, GrantsTyped DEF Rooted, NoBox
        <4>4. QED
          BY <1>0, <1>2, <4>1, <4>3
      <3>2. CASE Close(c)
        BY <1>0, <1>2, <3>2 DEF Close, Closed
      <3>3. CASE Command(c) \/ CheckAccess(c) \/ CheckActive(c) \/ EndCommand(c)
        BY <1>0, <1>2, <3>3 DEF Command, CheckAccess, CheckActive, EndCommand, ConnAt
      <3>4. QED
        BY <2>2, <3>1, <3>2, <3>3 DEF IMAP
    <2>3. QED
      BY <2>1, <2>2, NextCases DEF Aside
  <1>4. \A c \in Conns : conn'[c].at # "out" => Keeps(conn'[c].grant)
    BY <1>1, <1>3
  <1>5. QED
    BY <1>4 DEF Granted

\* Only AssignOwner can make a mailbox that was there already somebody's, and it asks
\* whether they are a member.
LEMMA ActiveStep ==
  ASSUME TypeInv, Next, NEW g \in Grant, g.user \in Users, g.box # 0, g.box <= last, g.hash <= last,
         ~Active(g),
         db'.box.id = g.box, db'.box.owner = g.user, db'.password[g.user] = g.hash
  PROVE  db'.role[g.user] # "none"
  <1>0. /\ db \in Database /\ Rooted /\ last \in Nat /\ db.box.id \in Nat
        /\ db.password \in [Users -> Nat] /\ \A u \in Users : db.password[u] <= last
        /\ g.box \in Nat /\ g.hash \in Nat /\ NoOne \notin Users
    BY Facts DEF Grant
  <1>1. db.password[g.user] = g.hash
    <2>1. ASSUME NEW u \in Users, db'.password = [db.password EXCEPT ![u] = last + 1]
          PROVE  u # g.user
      BY <1>0, <2>1
    <2>2. QED
      BY <1>0, <2>1, PasswordStep
  <1>2. ASSUME db'.box = db.box PROVE FALSE
    BY <1>1, <1>2 DEF Active
  <1>3. ASSUME NEW r \in Requests, Writes(r) PROVE AssignOwner(r)
    <2>1. CASE DeleteWorkspace(r) \/ DeleteDomain(r) \/ InsertMailbox(r)
      <3>1. CASE DeleteWorkspace(r) \/ DeleteDomain(r)
        <4>1. db'.box = NoBox
          BY <1>0, <3>1 DEF DeleteWorkspace, DeleteDomain, Database
        <4>2. QED
          BY <1>0, <4>1 DEF NoBox
      <3>2. CASE InsertMailbox(r)
        <4>1. db'.box.id = last + 1
          BY <1>0, <3>2 DEF InsertMailbox, Database
        <4>2. QED
          BY <1>0, <4>1
      <3>3. QED
        BY <2>1, <3>1, <3>2
    <2>2. CASE ~(DeleteWorkspace(r) \/ DeleteDomain(r) \/ InsertMailbox(r) \/ AssignOwner(r))
      <3>1. db'.box = db.box
        BY <1>0, <1>3, <2>2 DEF Writes, CommitSMTPPassword, DeleteSMTPPassword, AddMember,
             UpdateMember, RemoveMember, VerifyDomain, CreateApiKey, RevokeApiKey, CreateMail, Database
      <3>2. QED
        BY <1>2, <3>1
    <2>3. QED
      BY <2>1, <2>2
  <1>4. PICK r \in Requests : AssignOwner(r)
    BY <1>2, <1>3, UserWritesRows, NextCases DEF Aside
  <1>5. db'.box.owner = req[r].who /\ db'.role = db.role /\ Member(req[r].who)
    BY <1>0, <1>4 DEF AssignOwner, Assigns, Database
  <1>6. QED
    BY <1>0, <1>5 DEF Member

LEMMA HeldStep ==
  ASSUME TypeInv, Granted, Held, Next
  PROVE  Held'
  <1>0. /\ last \in Nat /\ conn \in [Conns -> [at : ConnSteps, grant : Grant]]
        /\ db \in Database /\ db.box.owner \in Someone /\ NoOne \notin Users
        /\ req \in [Requests -> Request]
        /\ held' = InFlight' \cap (Permitted' \cup (held \cap InFlight))
    BY Facts DEF TypeInv, TypeOK, AccessTypeOK, Next, Remember
  <1>1. TypeInv => Granted'
    BY GrantedStep
  <1>2. ASSUME NEW c \in Conns, conn'[c].at \in {"checked", "answer"},
               conn[c].at \in {"checked", "answer"}, c \in held
        PROVE  c \in held'
    BY <1>0, <1>2 DEF InFlight
  <1>3. ASSUME NEW c \in Conns, conn'[c].at = "checked", conn'[c].grant \in Grant,
               Active(conn[c].grant)', db'.role[conn'[c].grant.user] # "none"
        PROVE  c \in held'
    <2>. DEFINE g == conn'[c].grant
    <2>1. /\ ~g.app /\ g.user \in Users /\ g.box = db'.box.id /\ g.ws = db'.ws
          /\ g.user = db'.box.owner /\ g.hash = db'.password[g.user] /\ g.app \in BOOLEAN
      BY <1>1, <1>3 DEF Granted, Active, Grant
    <2>2. g = [user |-> g.user, box |-> db'.box.id, ws |-> db'.ws,
               hash |-> db'.password[g.user], app |-> FALSE]
      BY <1>3, <2>1 DEF Grant
    <2>3. g.user \in {u \in {db'.box.owner} \ {NoOne} : db'.role[u] # "none"}
      BY <1>0, <1>3, <2>1
    <2>4. g \in AccountGrants'
      BY <2>2, <2>3 DEF AccountGrants
    <2>5. QED
      BY <1>0, <1>3, <2>4 DEF InFlight, Permitted
  <1>4. ASSUME UNCHANGED conn, NEW c \in Conns, conn'[c].at = "checked", Active(conn[c].grant)'
        PROVE  c \in held'
    <2>1. conn[c].at = "checked" /\ conn[c].grant \in Grant /\ conn'[c] = conn[c]
      BY <1>0, <1>4
    <2>2. CASE Active(conn[c].grant)
      BY <1>2, <1>4, <2>1, <2>2 DEF Held
    <2>3. CASE ~Active(conn[c].grant)
      <3>1. db'.role[conn[c].grant.user] # "none"
        BY <1>4, <2>1, <2>3, ActiveStep DEF Active, Granted
      <3>2. QED
        BY <1>3, <1>4, <2>1, <3>1
    <2>4. QED
      BY <2>2, <2>3
  <1>5. ASSUME UNCHANGED conn, NEW c \in Conns, conn'[c].at = "answer"
        PROVE  c \in held'
    BY <1>2, <1>5 DEF Held
  <1>6. ASSUME NEW b \in Conns, IMAP(b), UNCHANGED db, NEW c \in Conns
        PROVE  /\ conn'[c].at = "checked" /\ Active(conn[c].grant)' => c \in held'
               /\ conn'[c].at = "answer" => c \in held'
    <2>1. CASE conn'[c] = conn[c]
      <3>1. conn'[c].at = "checked" /\ Active(conn[c].grant)' => c \in held'
        BY <1>2, <1>6, <2>1 DEF Held, Active
      <3>2. QED
        BY <1>2, <2>1, <3>1 DEF Held
    <2>2. CASE CheckAccess(b) /\ b = c
      <3>1. conn'[c].at = "checked" /\ conn'[c].grant = conn[c].grant /\ conn[c].grant \in Grant
        BY <1>0, <2>2 DEF CheckAccess, ConnAt
      <3>2. db'.role[conn'[c].grant.user] # "none"
        BY <1>6, <2>2, <3>1 DEF CheckAccess, CanAccess
      <3>3. QED
        BY <1>3, <3>1, <3>2
    <2>3. CASE CheckActive(b) /\ b = c
      <3>1. conn[c].at = "checked" /\ Active(conn[c].grant) /\ conn'[c].at = "answer"
        BY <1>0, <2>3 DEF CheckActive, ConnAt
      <3>2. QED
        BY <1>2, <3>1 DEF Held
    <2>4. CASE b = c /\ (Login(b) \/ Command(b) \/ EndCommand(b) \/ Close(b))
      BY <1>0, <2>4 DEF Login, Command, EndCommand, Close, Closed, ConnAt
    <2>5. CASE b # c
      BY <1>0, <1>6, <2>1, <2>5 DEF IMAP, Login, Command, CheckAccess, CheckActive, EndCommand, Close,
                                    ConnAt
    <2>6. QED
      BY <1>6, <2>2, <2>3, <2>4, <2>5 DEF IMAP
  <1>7. \A c \in Conns : /\ conn'[c].at = "checked" /\ Active(conn[c].grant)' => c \in held'
                         /\ conn'[c].at = "answer" => c \in held'
    BY <1>4, <1>5, <1>6, NextCases DEF Aside
  <1>8. ASSUME NEW q \in Requests, req'[q].at = "shown" PROVE q \in held'
    <2>1. CASE req'[q] = req[q]
      <3>1. q \in held /\ req[q].op \in ReadOps
        BY <1>8, <2>1 DEF Held, TypeInv, Asked
      <3>2. QED
        BY <1>0, <1>8, <2>1, <3>1 DEF InFlight
    <2>2. ASSUME NEW r \in Requests, Goes(r), UNCHANGED db PROVE q \in held'
      <3>1. PICK x \in Request :
              /\ req' = [req EXCEPT ![r] = x]
              /\ x.at = "shown" => x.op \in ReadOps /\ CanAccess(x.by, x.box)
        BY <2>2, GoesOn
      <3>2. CASE q = r
        <4>1. req'[q] = x /\ x.at = "shown" /\ x.op \in ReadOps /\ CanAccess(x.by, x.box)
          BY <1>0, <1>8, <3>1, <3>2
        <4>2. q \in Permitted'
          BY <2>2, <4>1 DEF Permitted, CanAccess
        <4>3. QED
          BY <1>0, <4>1, <4>2 DEF InFlight
      <3>3. CASE q # r
        BY <1>0, <2>1, <3>1, <3>3
      <3>4. QED
        BY <3>2, <3>3
    <2>3. ASSUME NEW r \in Requests, Writes(r) PROVE q \in held'
      <3>1. req' = [req EXCEPT ![r] = Idle]
        BY <2>3, WritesEnd
      <3>2. q # r
        BY <1>0, <1>8, <3>1 DEF Idle
      <3>3. QED
        BY <1>0, <2>1, <3>1, <3>2
    <2>4. CASE UNCHANGED req
      BY <2>1, <2>4
    <2>5. QED
      BY <2>2, <2>3, <2>4, UserWritesRows, NextCases DEF Aside
  <1>9. QED
    BY <1>7, <1>8 DEF Held

LEMMA RevokedInvStep ==
  ASSUME TypeInv, RevokedInv, [Next]_vars
  PROVE  RevokedInv'
  <1>1. CASE Next
    BY <1>1, DistinctStep, LateStep, GrantedStep, HeldStep DEF RevokedInv
  <1>2. CASE UNCHANGED vars
    BY <1>2 DEF vars, accessVars, RevokedInv, Distinct, Late, Granted, Held, Active, Writing
  <1>3. QED
    BY <1>1, <1>2

\* A right that has gone serves nobody (server.go:215-218, 0017_mailbox_smtp_password.sql:8-22,
\* backend.go:95): for any number of members, requests, connections and SMTP sessions.
THEOREM RevokedStaysRevoked == Spec => []RevokedForGood
  <1>1. Init => RevokedInv
    BY DEF Init, WorkspaceInit, AccessInit, RevokedInv, Distinct, Late, Granted, Held, Writing, Idle,
           Out, Closed, NoCredential
  <1>2. TypeInv /\ RevokedInv /\ [Next]_vars => RevokedInv'
    BY RevokedInvStep
  <1>3. TypeInv /\ RevokedInv => RevokedForGood
    BY DEF RevokedInv, Distinct, Late, Held, Honoured, RevokedForGood
  <1>4. QED
    BY <1>1, <1>2, <1>3, TypeAndQuota, PTL DEF Spec
=============================================================================
