------------------------------ MODULE Submission ------------------------------
(***************************************************************************)
(* The ways mail leaves a workspace, over MailAccess: the SMTP submission  *)
(* service (internal/submission), which signs and relays by itself, and    *)
(* the sends of the web client and of API keys, which end in a message row *)
(* (Outbound goes on from there).  All of them count against one quota.    *)
(*                                                                         *)
(* An SMTP session keeps what it logged in with and asks again whether     *)
(* that still holds: at MAIL, at DATA and after signing.                   *)
(***************************************************************************)
EXTENDS MailAccess

CONSTANTS
    Sessions,   \* SMTP connections
    Limit       \* messages per window: send:minute, send:day

Rules == {"minute", "day"}

ASSUME LimitAssumption == Limit \in [Rules -> Nat]

VARIABLES
    sess,       \* SMTP sessions
    count,      \* Redis: the counter of each rule's current window
    passed,     \* what was let through in that window, by any way
    submitted,  \* of it, by SMTP
    blind       \* rules that let something through without Redis in that window

limitVars == <<count, passed, submitted, blind>>
vars == <<scene, db, req, last, revoked, accessVars, sess, limitVars>>

Out == [at |-> "out", grant |-> NoGrant, late |-> FALSE]
SessionSteps == {"out", "in", "mail", "rcpt", "quota", "sign", "signed", "relay"}

TypeOK ==
    /\ WorkspaceTypeOK
    /\ AccessTypeOK
    /\ sess \in [Sessions -> [at : SessionSteps, grant : Grant, late : BOOLEAN]]
    /\ \A k \in Rules : {count[k], passed[k], submitted[k]} \subseteq 0..Limit[k] + 1
    /\ blind \subseteq Rules

Init ==
    /\ WorkspaceInit
    /\ AccessInit
    /\ sess = [s \in Sessions |-> Out]
    /\ count = [k \in Rules |-> 0]
    /\ passed = [k \in Rules |-> 0]
    /\ submitted = [k \in Rules |-> 0]
    /\ blind = {}

-----------------------------------------------------------------------------
(* Quota.                                                                   *)

\* One more; from one above the limit on it makes no difference.
Counted(f, K) == [k \in Rules |-> IF k \in K /\ f[k] <= Limit[k] THEN f[k] + 1 ELSE f[k]]

\* Mutant: the count is compared before it is raised.
MutWithinBefore(k) == count[k] <= Limit[k]

\* INCR answered with a number within the limit.
Within(k) == count[k] < Limit[k]

LetThrough(unseen) ==
    /\ passed' = Counted(passed, Rules)
    /\ blind' = blind \cup unseen

Refused == UNCHANGED <<passed, blind>>

\* AllowAll counts every rule; a rule Redis does not answer for is no obstacle.
AllowAll(ok) ==
    IF ~scene.limited THEN ok /\ UNCHANGED limitVars
    ELSE \E seen \in SUBSET Rules :
            /\ count' = Counted(count, seen)
            /\ ok <=> \A k \in seen : Within(k)
            /\ IF ok THEN LetThrough(Rules \ seen) ELSE Refused
            /\ UNCHANGED submitted

\* AllowStrict, one rule after the other; the first refusal or error is the end.
AllowStrict(ok) ==
    IF ~scene.limited THEN ok /\ UNCHANGED limitVars
    ELSE \E seen \in {{}, {"minute"}, Rules} :
            /\ "day" \in seen => Within("minute")
            /\ count' = Counted(count, seen)
            /\ ok <=> \A k \in Rules : k \in seen /\ Within(k)
            /\ IF ok THEN LetThrough({}) /\ submitted' = Counted(submitted, Rules)
               ELSE Refused /\ UNCHANGED submitted

\* Time passes into another minute, or another day; the window is part of the key.
Tick ==
    /\ scene.limited
    /\ \E K \in {{"minute"}, Rules} :
          LET Cleared(f) == [k \in Rules |-> IF k \in K THEN 0 ELSE f[k]]
          IN  /\ count' = Cleared(count)
              /\ passed' = Cleared(passed)
              /\ submitted' = Cleared(submitted)
              /\ blind' = blind \ K
    /\ UNCHANGED <<scene, db, req, last, sess>>

-----------------------------------------------------------------------------
(* SMTP submission.                                                         *)

\* What a password opens now: the mailbox's, by its issuer, or the account's of its owner.
CredentialGrants ==
    {[user |-> db.cred.by, box |-> db.box.id, ws |-> db.ws, hash |-> h, app |-> TRUE] : h \in Honoured}

Grants == CredentialGrants \cup AccountGrants

Right(s) == sess[s].grant \in Grants

SessionAt(s, at) ==
    /\ sess' = [sess EXCEPT ![s].at = at]
    /\ UNCHANGED <<scene, db, req, last>>

Auth(s) ==
    /\ sess[s].at = "out"
    /\ \E g \in Grants : sess' = [sess EXCEPT ![s].at = "in", ![s].grant = g]
    /\ UNCHANGED <<scene, db, req, last, limitVars>>

\* MAIL FROM the mailbox's own address.
MailFrom(s) ==
    /\ sess[s].at \in {"in", "mail", "rcpt"}
    /\ Right(s)
    /\ SessionAt(s, "mail")
    /\ UNCHANGED limitVars

RcptTo(s) ==
    /\ sess[s].at = "mail"
    /\ SessionAt(s, "rcpt")
    /\ UNCHANGED limitVars

\* DATA up to the quota: the message names no other author.
Data(s) ==
    /\ sess[s].at = "rcpt"
    /\ Right(s)
    /\ SessionAt(s, "quota")
    /\ UNCHANGED limitVars

Quota(s) ==
    /\ sess[s].at = "quota"
    /\ \E ok \in BOOLEAN : AllowStrict(ok) /\ SessionAt(s, IF ok THEN "sign" ELSE "in")

\* The workspace's key for the domain.  `late': the password had been revoked by then.
Sign(s) ==
    /\ sess[s].at = "sign"
    /\ db.domain # 0 /\ db.ws = sess[s].grant.ws
    /\ sess' = [sess EXCEPT ![s].at = "signed", ![s].late = sess[s].grant.hash \in revoked]
    /\ UNCHANGED <<scene, db, req, last, limitVars>>

\* After signing.
Recheck(s) ==
    /\ sess[s].at = "signed"
    /\ Right(s)
    /\ SessionAt(s, "relay")
    /\ UNCHANGED limitVars

\* Any end of a transaction: relayed, refused or failed.
EndTransaction(s) ==
    /\ sess[s].at \notin {"out", "in"}
    /\ sess' = [sess EXCEPT ![s].at = "in", ![s].late = FALSE]
    /\ UNCHANGED <<scene, db, req, last, limitVars>>

Logout(s) ==
    /\ sess[s].at # "out"
    /\ sess' = [sess EXCEPT ![s] = Out]
    /\ UNCHANGED <<scene, db, req, last, limitVars>>

SMTP(s) ==
    \/ Auth(s) \/ MailFrom(s) \/ RcptTo(s) \/ Data(s) \/ Quota(s) \/ Sign(s) \/ Recheck(s)
    \/ EndTransaction(s) \/ Logout(s)

-----------------------------------------------------------------------------
(* The web client and API keys.                                             *)

\* A private mailbox is its owner's alone.
SenderAllowed(u) == db.box.owner \in {NoOne, u}

\* The address must be a mailbox of the workspace that the member may use.
SendWorkspaceEmail(r, u) ==
    /\ db.box.id # 0 /\ SenderAllowed(u)
    /\ Scope(r, "Send", u, NoOne, "member")
    /\ UNCHANGED <<sess, limitVars>>

\* The key gives the workspace; nobody is signed in.
SendEmail(r) ==
    /\ req[r].at = "idle" /\ "Send" \in scene.ops
    /\ KeyHolds
    /\ req' = [req EXCEPT ![r] = [Idle EXCEPT !.at = "act", !.ws = db.ws]]
    /\ UNCHANGED <<scene, db, last, sess, limitVars>>

SendQuota(r) ==
    /\ req[r].at = "act" /\ req[r].op = "Send"
    /\ \E ok \in BOOLEAN :
          /\ AllowAll(ok)
          /\ IF ok THEN req' = [req EXCEPT ![r].at = "allowed"] ELSE Done(r)
    /\ UNCHANGED <<scene, db, last, sess>>

\* Send asks for the sender itself: first whose the mailbox is ...
CheckSender(r) ==
    /\ req[r].at = "allowed"
    /\ SenderAllowed(req[r].by)
    /\ req' = [req EXCEPT ![r].at = "domain", ![r].box = db.box.id,
                          ![r].private = db.box.owner # NoOne]
    /\ UNCHANGED <<scene, db, last, sess, limitVars>>

\* ... then whose the domain is.
CheckDomain(r) ==
    /\ req[r].at = "domain"
    /\ db.domain # 0 /\ db.ws = req[r].ws
    /\ req' = [req EXCEPT ![r].at = "create"]
    /\ UNCHANGED <<scene, db, last, sess, limitVars>>

\* The row.  If the mailbox it was checked against has gone, nothing is known of it.
CreateMail(r) ==
    LET kept == req[r].private /\ req[r].box = db.box.id
        readers == IF ~kept \/ db.box.owner = NoOne THEN Users ELSE {req[r].by, db.box.owner}
    IN  /\ req[r].at = "create"
        /\ db.ws = req[r].ws
        /\ Cardinality(db.mails) < scene.mails
        /\ db' = [db EXCEPT !.mails = @ \cup {[by |-> req[r].by, retained |-> NoOne, open |-> readers]}]
        /\ Done(r)
        /\ UNCHANGED <<scene, last, sess, limitVars>>

Sending(r) == SendQuota(r) \/ CheckSender(r) \/ CheckDomain(r) \/ CreateMail(r)

-----------------------------------------------------------------------------

Sends ==
    \/ "Submit" \in scene.ops /\ \E s \in Sessions : SMTP(s)
    \/ \E r \in Requests : Sending(r) \/ SendEmail(r) \/ \E u \in Users : SendWorkspaceEmail(r, u)
    \/ Tick

Next ==
    /\ \/ WorkspaceNext /\ UNCHANGED <<conn, sess, limitVars>>
       \/ AccessNext /\ UNCHANGED <<sess, limitVars>>
       \/ Sends /\ UNCHANGED conn
    /\ Remember
    /\ revoked' = revoked \cup (Honoured \ Honoured')

Spec == Init /\ [][Next]_vars

-----------------------------------------------------------------------------
(* Properties.                                                              *)

\* A right that has gone serves nobody: an SMTP password that has stopped to hold is never
\* good again, whoever is re-added or re-assigned; an open SMTP session relays nothing on it
\* that was still to be signed then; and an IMAP command or a web request that shows mail
\* has had its right, whole, since it was sent (server.go:215-218,
\* 0017_mailbox_smtp_password.sql:8-22, backend.go:95).
RevokedForGood ==
    /\ Honoured \cap revoked = {}
    /\ \A s \in Sessions : sess[s].at = "relay" => ~sess[s].late
    /\ \A c \in Conns : conn[c].at = "answer" => c \in held
    /\ \A r \in Requests : req[r].at = "shown" => r \in held

\* Mail sent from a private mailbox is read by its sender and by those the address was
\* later given to or shared with, also after the domain has gone and come back
\* (0013_retained_mail_privacy.sql:1), and with an API key only if everybody may.  Mail
\* whose mailbox went while it was being sent is excepted: the trigger has not seen it.
PrivateMailStaysPrivate ==
    \A m \in db.mails :
        /\ \A u \in Users : GetWorkspaceEmail(u, m) \/ SearchForUser(u, m) => u \in m.open
        /\ GetEmail(m) => m.open = Users

\* In one window no more than the limit is let through by all ways together, and by SMTP
\* even when Redis fails in between (limits.go:44-46, ratelimit.go:60).
QuotaHolds ==
    \A k \in Rules : /\ submitted[k] <= Limit[k]
                     /\ k \notin blind => passed[k] <= Limit[k]
=============================================================================
