-------------------------- MODULE PasswordSessions --------------------------
(***************************************************************************)
(* The ways into one account, its password with the reset links and its    *)
(* identities at external providers, and the sessions opened with them:    *)
(* Register, Login, SignInWithIdentity, ResetPassword and                  *)
(* ChangeInitialPassword run concurrently, every database statement or     *)
(* transaction a step of its own.                                          *)
(*                                                                         *)
(* Source: internal/account/service.go, store.go, initial_password.go.     *)
(* The account is the one with a given address; nothing deletes it.        *)
(* A call is asked one request and leaves at most one session, which has   *)
(* the call's name.  A stored hash is the password and a version: bcrypt   *)
(* salts, so the same password set again is another hash.                  *)
(***************************************************************************)
EXTENDS Naturals, FiniteSets

CONSTANTS
    Calls,      \* requests to the account endpoints
    Links,      \* reset links, in the hands of whoever reads the mail
    Passwords,
    Subjects,   \* identities at external providers, by provider and subject
    Requests,   \* what calls ask, see AccountRequests
    NoHash      \* no password identity

Ops == {"register", "login", "reset", "change", "sso"}

\* given and chosen are passwords; subject is whom a provider asserts, proven whether
\* it vouches for the account's address.
AccountRequests ==
    [op : Ops, given : Passwords, chosen : Passwords, link : Links,
     subject : Subjects, proven : BOOLEAN]

ASSUME SessionsAssumption ==
    /\ Requests \subseteq AccountRequests
    /\ NoHash \notin [secret : Passwords, version : Nat]

VARIABLES
    hash,       \* the password identity's hash
    mustChange, \* users.must_change_password
    verified,   \* users.email_verified_at is set
    linked,     \* the identities of external providers
    link,       \* user_tokens, purpose password_reset
    session,    \* the session of each call
    pc,         \* where each call stands
    ask,        \* what it was asked
    known,      \* the hash it has verified or set
    newest      \* the link issued last, a history variable

accountVars == <<hash, mustChange, verified, linked>>
callVars == <<pc, ask, known>>
vars == <<accountVars, link, session, callVars, newest>>

Hashes == [secret : Passwords, version : Nat]
LinkStates == {"unissued", "live", "expired", "consumed", "deleted"}
Steps == {"idle", "matchEmail", "linkIdentity", "createUser", "openChecked", "open",
          "checkFlag", "compareOld", "update", "revokeAll", "markVerified",
          "change", "done", "refused", "failed"}

\* A user has at least one way to sign in: both are inserted together.
AccountExists == hash # NoHash \/ linked # {}

TypeOK ==
    /\ hash \in Hashes \cup {NoHash}
    /\ mustChange \in BOOLEAN
    /\ verified \in BOOLEAN
    /\ linked \subseteq Subjects
    /\ link \in [Links -> LinkStates]
    /\ session \in [Calls -> {"none", "live", "ended"}]
    /\ pc \in [Calls -> Steps]
    /\ ask \in [Calls -> Requests]
    /\ known \in [Calls -> Hashes \cup {NoHash}]
    /\ newest \in Links \cup {NoHash}
    /\ hash = NoHash => \A t \in Links : link[t] = "unissued"
    /\ hash = NoHash => \A c \in Calls : pc[c] \notin {"checkFlag", "compareOld", "update"}

\* No account yet, or one that an administrator gave an initial password.
Init ==
    /\ \/ hash = NoHash /\ mustChange = FALSE
       \/ hash \in [secret : Passwords, version : {0}] /\ mustChange = TRUE
    /\ verified = FALSE
    /\ linked = {}
    /\ link = [t \in Links |-> "unissued"]
    /\ session = [c \in Calls |-> "none"]
    /\ pc = [c \in Calls |-> "idle"]
    /\ ask \in [Calls -> Requests]
    /\ known = [c \in Calls |-> NoHash]
    /\ newest = NoHash

-----------------------------------------------------------------------------

MoveTo(c, step) ==
    /\ pc' = [pc EXCEPT ![c] = step]
    /\ UNCHANGED ask

\* UPDATE sessions SET revoked_at ... WHERE revoked_at IS NULL.
Revoked == [c \in Calls |-> IF session[c] = "live" THEN "ended" ELSE session[c]]

SetPassword(c, version) ==
    /\ hash' = [secret |-> ask[c].chosen, version |-> version]
    /\ known' = [known EXCEPT ![c] = hash']

HasPasswordIdentity == hash # NoHash

\* verifyPassword, on an identity that must exist.
PasswordIs(p) == HasPasswordIdentity /\ hash.secret = p

\* Store.CreateWithPassword: users.email is unique.
CreateWithPassword(c) ==
    /\ ~AccountExists
    /\ SetPassword(c, 0)

Register(c) ==
    /\ pc[c] = "idle" /\ ask[c].op = "register"
    /\ \/ /\ CreateWithPassword(c)
          /\ MoveTo(c, "open")
       \/ /\ AccountExists
          /\ MoveTo(c, "refused")
          /\ UNCHANGED <<hash, known>>
    /\ UNCHANGED <<mustChange, verified, linked, link, session, newest>>

\* Login: PasswordIdentity, then the comparison with what it returned.
VerifyPassword(c) ==
    /\ pc[c] = "idle" /\ ask[c].op = "login"
    /\ \/ /\ PasswordIs(ask[c].given)
          /\ known' = [known EXCEPT ![c] = hash]
          /\ MoveTo(c, "openChecked")
       \/ /\ ~PasswordIs(ask[c].given)
          /\ MoveTo(c, "refused")
          /\ UNCHANGED known
    /\ UNCHANGED <<accountVars, link, session, newest>>

\* Mutant: an address the provider does not vouch for is matched too.
MutLookUpIdentity(c) ==
    /\ pc[c] = "idle" /\ ask[c].op = "sso"
    /\ MoveTo(c, IF ask[c].subject \in linked THEN "open" ELSE "matchEmail")
    /\ UNCHANGED <<accountVars, link, session, known, newest>>

\* SignInWithIdentity: a known subject signs in.  Only an address its provider
\* vouches for is looked for among the accounts.
LookUpIdentity(c) ==
    /\ pc[c] = "idle" /\ ask[c].op = "sso"
    /\ MoveTo(c, IF ask[c].subject \in linked THEN "open"
                 ELSE IF ask[c].proven THEN "matchEmail" ELSE "createUser")
    /\ UNCHANGED <<accountVars, link, session, known, newest>>

MatchEmail(c) ==
    /\ pc[c] = "matchEmail"
    /\ MoveTo(c, IF AccountExists THEN "linkIdentity" ELSE "createUser")
    /\ UNCHANGED <<accountVars, link, session, known, newest>>

\* Store.LinkIdentity: a subject is linked once.
LinkIdentity(c) ==
    /\ pc[c] = "linkIdentity"
    /\ linked' = linked \cup {ask[c].subject}
    /\ MoveTo(c, IF ask[c].subject \in linked THEN "refused" ELSE "open")
    /\ UNCHANGED <<hash, mustChange, verified, link, session, known, newest>>

\* Store.CreateUserWithIdentity: an account without a password.
CreateUserWithIdentity(c) ==
    /\ pc[c] = "createUser"
    /\ \/ /\ ~AccountExists
          /\ linked' = {ask[c].subject}
          /\ verified' = ask[c].proven
          /\ MoveTo(c, "open")
       \/ /\ AccountExists
          /\ MoveTo(c, "refused")
          /\ UNCHANGED <<linked, verified>>
    /\ UNCHANGED <<hash, mustChange, link, session, known, newest>>

\* Mutant: the session is opened without looking at the hash again.
MutStartPasswordSession(c) ==
    /\ pc[c] = "openChecked"
    /\ session' = [session EXCEPT ![c] = "live"]
    /\ MoveTo(c, "done")
    /\ UNCHANGED <<accountVars, link, known, newest>>

\* startPasswordSession: the hash must still be the one that was verified.
StartPasswordSession(c) ==
    /\ pc[c] = "openChecked"
    /\ \/ /\ hash = known[c]
          /\ session' = [session EXCEPT ![c] = "live"]
          /\ MoveTo(c, "done")
       \/ /\ hash # known[c]
          /\ MoveTo(c, "refused")
          /\ UNCHANGED session
    /\ UNCHANGED <<accountVars, link, known, newest>>

\* startSession, without a condition.
StartSession(c) ==
    /\ pc[c] = "open"
    /\ session' = [session EXCEPT ![c] = "live"]
    /\ MoveTo(c, "done")
    /\ UNCHANGED <<accountVars, link, known, newest>>

\* Mutant: the UPDATE does not ask for consumed_at IS NULL.
MutUsable(t) == link[t] \in {"live", "consumed"}

Usable(t) == link[t] = "live"

\* ResetPassword.  ConsumeToken is a single UPDATE.
ConsumeToken(c) ==
    /\ pc[c] = "idle" /\ ask[c].op = "reset"
    /\ \/ /\ Usable(ask[c].link)
          /\ link' = [link EXCEPT ![ask[c].link] = "consumed"]
          /\ MoveTo(c, "checkFlag")
       \/ /\ ~Usable(ask[c].link)
          /\ MoveTo(c, "refused")
          /\ UNCHANGED link
    /\ UNCHANGED <<accountVars, session, known, newest>>

\* Mutant: the flag is not looked at.
MutCheckFlag(c) ==
    /\ pc[c] = "checkFlag"
    /\ MoveTo(c, "update")
    /\ UNCHANGED <<accountVars, link, session, known, newest>>

\* The flag is read first, the password it is about in another query.
CheckFlag(c) ==
    /\ pc[c] = "checkFlag"
    /\ MoveTo(c, IF mustChange THEN "compareOld" ELSE "update")
    /\ UNCHANGED <<accountVars, link, session, known, newest>>

CompareOld(c) ==
    /\ pc[c] = "compareOld"
    /\ MoveTo(c, IF PasswordIs(ask[c].chosen) THEN "refused" ELSE "update")
    /\ UNCHANGED <<accountVars, link, session, known, newest>>

\* Mutant: revocation is left to the statement after the transaction.
MutUpdatePassword(c) ==
    /\ pc[c] = "update"
    /\ SetPassword(c, hash.version + 1)
    /\ mustChange' = FALSE
    /\ MoveTo(c, "revokeAll")
    /\ UNCHANGED <<verified, linked, link, session, newest>>

\* UpdatePassword: hash, flag and sessions in one transaction.
UpdatePassword(c) ==
    /\ pc[c] = "update"
    /\ SetPassword(c, hash.version + 1)
    /\ mustChange' = FALSE
    /\ session' = Revoked
    /\ MoveTo(c, "revokeAll")
    /\ UNCHANGED <<verified, linked, link, newest>>

RevokeAllSessions(c) ==
    /\ pc[c] = "revokeAll"
    /\ session' = Revoked
    /\ MoveTo(c, "markVerified")
    /\ UNCHANGED <<accountVars, link, known, newest>>

\* MarkEmailVerified; its failure is only logged.
MarkVerified(c) ==
    /\ pc[c] = "markVerified"
    /\ verified' \in {verified, TRUE}
    /\ MoveTo(c, "open")
    /\ UNCHANGED <<hash, mustChange, linked, link, session, known, newest>>

\* RequireSession lets a signed-in caller through to ChangeInitialPassword.
Admit(c) ==
    /\ pc[c] = "idle" /\ ask[c].op = "change"
    /\ \E d \in Calls : session[d] = "live"
    /\ MoveTo(c, IF ask[c].given = ask[c].chosen THEN "refused" ELSE "change")
    /\ UNCHANGED <<accountVars, link, session, known, newest>>

\* ChangeInitialPassword's transaction; it also deletes the reset links.
ChangeInitial(c) ==
    /\ pc[c] = "change"
    /\ \/ /\ mustChange /\ PasswordIs(ask[c].given)
          /\ SetPassword(c, hash.version + 1)
          /\ mustChange' = FALSE
          /\ session' = Revoked
          /\ link' = [t \in Links |-> IF link[t] = "unissued" THEN "unissued" ELSE "deleted"]
          /\ MoveTo(c, "open")
       \/ /\ ~(mustChange /\ PasswordIs(ask[c].given))
          /\ MoveTo(c, "refused")
          /\ UNCHANGED <<hash, mustChange, session, link, known>>
    /\ UNCHANGED <<verified, linked, newest>>

\* IssueToken: a new link in the place of the one before, unless it was used.
IssueToken(t) ==
    link' = [u \in Links |-> IF u = t THEN "live"
                             ELSE IF link[u] \in {"live", "expired"} THEN "deleted" ELSE link[u]]

\* RequestPasswordReset: an account without a password has nothing to reset.
RequestReset(t) ==
    /\ HasPasswordIdentity
    /\ link[t] = "unissued"
    /\ IssueToken(t)
    /\ newest' = t
    /\ UNCHANGED <<accountVars, session, callVars>>

\* A link lives an hour.
ExpireLink(t) ==
    /\ link[t] = "live"
    /\ link' = [link EXCEPT ![t] = "expired"]
    /\ UNCHANGED <<accountVars, session, callVars, newest>>

\* RevokeSession, at the Logout of whoever holds the session, or thirty days.
EndSession(c) ==
    /\ session[c] = "live"
    /\ session' = [session EXCEPT ![c] = "ended"]
    /\ UNCHANGED <<accountVars, link, callVars, newest>>

\* A database error, or the end of the API process, ends a call where it stands.
CallFails(c) ==
    /\ pc[c] \notin {"idle", "done", "refused", "failed"}
    /\ MoveTo(c, "failed")
    /\ UNCHANGED <<accountVars, link, session, known, newest>>

(* The calls, each with its steps in their order. *)

LoginCall(c) == VerifyPassword(c) \/ StartPasswordSession(c)

SignInWithIdentity(c) ==
    LookUpIdentity(c) \/ MatchEmail(c) \/ LinkIdentity(c) \/ CreateUserWithIdentity(c)

ResetCall(c) ==
    \/ ConsumeToken(c) \/ CheckFlag(c) \/ CompareOld(c)
    \/ UpdatePassword(c) \/ RevokeAllSessions(c) \/ MarkVerified(c)

ChangeInitialCall(c) == Admit(c) \/ ChangeInitial(c)

\* All but the login end with startSession.
Call(c) ==
    \/ Register(c) \/ LoginCall(c) \/ SignInWithIdentity(c) \/ ResetCall(c)
    \/ ChangeInitialCall(c) \/ StartSession(c)

Next ==
    \/ \E c \in Calls : Call(c) \/ CallFails(c) \/ EndSession(c)
    \/ \E t \in Links : RequestReset(t) \/ ExpireLink(t)

Spec == Init /\ [][Next]_vars

-----------------------------------------------------------------------------
(* Properties.                                                              *)

\* "Password verification and session creation cannot straddle a password change"
\* (initial_password.go:62), and no change of the password leaves a session behind:
\* whoever is signed in through Login has proved the password of this moment.
LoginSessionIsCurrent ==
    \A c \in Calls : session[c] = "live" /\ ask[c].op = "login" => known[c] = hash

\* The step that lifts the duty to replace an initial password replaces it with a
\* different one, whatever resets and changes run at once (service.go:393-400,
\* initial_password.go:14-16).
InitialPasswordReplaced ==
    [][mustChange /\ ~mustChange' => hash'.secret # hash.secret]_vars

Redeemed(c) == ask[c].op = "reset" /\ pc[c] \notin {"idle", "refused"}

\* A reset link sets a password once, "even under concurrent clicks"
\* (store.go:263-264), and stops working the moment a new one is sent
\* (store.go:238-239): a call that gets past its link holds the link issued last, and
\* no other call got past the same link, however clicks, requests, expiries and the
\* deletion of links by ChangeInitialPassword interleave.
LinkHonouredOnce ==
    [][\A c \in Calls : ~Redeemed(c) /\ Redeemed(c)' =>
          /\ ask[c].link = newest
          /\ \A d \in Calls \ {c} : Redeemed(d) => ask[d].link # ask[c].link]_vars

\* The ways into an account that exists grow only by identities whose provider vouches
\* for its address: no reset link, no registration and no unproven assertion that
\* races the creation of the account "would quietly add a second way into an account"
\* (store.go:183-188, service.go:210-213).
WaysInAreProven ==
    [][AccountExists =>
          /\ hash = NoHash => hash' = NoHash
          /\ \A s \in linked' \ linked :
                \E c \in Calls : /\ ask[c].op = "sso" /\ ask[c].subject = s /\ ask[c].proven
                               /\ pc'[c] # pc[c]]_vars
=============================================================================
