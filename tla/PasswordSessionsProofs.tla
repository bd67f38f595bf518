----------------------- MODULE PasswordSessionsProofs -----------------------
(***************************************************************************)
(* Proofs about PasswordSessions, for every number of calls, links and     *)
(* passwords.                                                              *)
(***************************************************************************)
EXTENDS PasswordSessions, TLAPS

-----------------------------------------------------------------------------
(* Type correctness.                                                        *)

LEMMA RequestFields ==
  ASSUME TypeOK, NEW c \in Calls
  PROVE  ask[c].op \in Ops /\ ask[c].given \in Passwords /\ ask[c].chosen \in Passwords
         /\ ask[c].link \in Links /\ ask[c].subject \in Subjects /\ ask[c].proven \in BOOLEAN
  BY SessionsAssumption DEF TypeOK, AccountRequests

\* A password that is set is a hash of its own version.
LEMMA SetPasswordType ==
  ASSUME TypeOK, NEW c \in Calls, NEW version \in Nat, SetPassword(c, version)
  PROVE  /\ hash' \in Hashes
         /\ hash' # NoHash
         /\ hash'.secret = ask[c].chosen
         /\ known' \in [Calls -> Hashes \cup {NoHash}]
  <1>1. ask[c].chosen \in Passwords
    BY RequestFields
  <1>2. hash' \in Hashes /\ hash'.secret = ask[c].chosen
    BY <1>1 DEF SetPassword, Hashes
  <1>3. QED
    BY <1>2, SessionsAssumption DEF SetPassword, TypeOK, Hashes

LEMMA MoveToType ==
  ASSUME TypeOK, NEW c \in Calls, NEW step \in Steps, MoveTo(c, step)
  PROVE  /\ pc' \in [Calls -> Steps]
         /\ ask' \in [Calls -> Requests]
         /\ pc'[c] = step
         /\ \A d \in Calls : d # c => pc'[d] = pc[d]
  BY DEF TypeOK, MoveTo

LEMMA InitTypeOK == Init => TypeOK
  <1>. SUFFICES ASSUME Init PROVE TypeOK
    OBVIOUS
  <1>1. [secret : Passwords, version : {0}] \subseteq Hashes
    BY DEF Hashes
  <1>2. hash \in Hashes \cup {NoHash}
    BY <1>1 DEF Init
  <1>3. mustChange \in BOOLEAN /\ verified \in BOOLEAN
    BY DEF Init
  <1>4. linked \subseteq Subjects
    BY DEF Init
  <1>5. QED
    BY <1>2, <1>3, <1>4 DEF Init, TypeOK, LinkStates, Steps

LEMMA CallTypeOK ==
  ASSUME TypeOK, NEW c \in Calls, Call(c)
  PROVE  TypeOK'
  <1>. USE DEF accountVars
  <1>1. CASE Register(c)
    <2>1. CASE CreateWithPassword(c) /\ MoveTo(c, "open")
      <3>1. "open" \in Steps /\ 0 \in Nat
        BY DEF Steps
      <3>2. QED
        BY <1>1, <2>1, <3>1, SetPasswordType, MoveToType
        DEF Register, CreateWithPassword, AccountExists, TypeOK
    <2>2. CASE MoveTo(c, "refused") /\ UNCHANGED <<hash, known>>
      <3>1. "refused" \in Steps
        BY DEF Steps
      <3>2. QED
        BY <1>1, <2>2, <3>1, MoveToType DEF Register, TypeOK
    <2>3. QED
      BY <1>1, <2>1, <2>2 DEF Register
  <1>2. CASE VerifyPassword(c)
    BY <1>2 DEF VerifyPassword, PasswordIs, HasPasswordIdentity, MoveTo, TypeOK, Steps
  <1>3. CASE StartPasswordSession(c)
    BY <1>3 DEF StartPasswordSession, MoveTo, TypeOK, Steps
  <1>4. CASE StartSession(c)
    BY <1>4 DEF StartSession, MoveTo, TypeOK, Steps
  <1>5. CASE ConsumeToken(c)
    <2>1. ask[c].link \in Links
      BY RequestFields
    <2>2. QED
      BY <1>5, <2>1 DEF ConsumeToken, Usable, MoveTo, TypeOK, Steps, LinkStates
  <1>6. CASE CheckFlag(c)
    BY <1>6 DEF CheckFlag, MoveTo, TypeOK, Steps
  <1>7. CASE CompareOld(c)
    BY <1>7 DEF CompareOld, MoveTo, TypeOK, Steps
  <1>8. CASE UpdatePassword(c)
    <2>1. hash.version + 1 \in Nat
      BY <1>8 DEF UpdatePassword, TypeOK, Hashes
    <2>2. "revokeAll" \in Steps
      BY DEF Steps
    <2>3. session' \in [Calls -> {"none", "live", "ended"}]
      BY <1>8 DEF UpdatePassword, Revoked, TypeOK
    <2>4. QED
      BY <1>8, <2>1, <2>2, <2>3, SetPasswordType, MoveToType DEF UpdatePassword, TypeOK
  <1>9. CASE RevokeAllSessions(c)
    BY <1>9 DEF RevokeAllSessions, Revoked, MoveTo, TypeOK, Steps
  <1>10. CASE MarkVerified(c)
    BY <1>10 DEF MarkVerified, MoveTo, TypeOK, Steps
  <1>11. CASE Admit(c)
    BY <1>11 DEF Admit, MoveTo, TypeOK, Steps
  <1>12. CASE ChangeInitial(c)
    <2>1. CASE mustChange /\ PasswordIs(ask[c].given) /\ UNCHANGED verified /\ mustChange' = FALSE
               /\ SetPassword(c, hash.version + 1) /\ MoveTo(c, "open") /\ session' = Revoked
               /\ link' = [t \in Links |-> IF link[t] = "unissued" THEN "unissued" ELSE "deleted"]
               /\ UNCHANGED <<newest, linked>>
      <3>1. hash.version + 1 \in Nat
        BY <2>1 DEF PasswordIs, HasPasswordIdentity, TypeOK, Hashes
      <3>2. "open" \in Steps
        BY DEF Steps
      <3>3. session' \in [Calls -> {"none", "live", "ended"}] /\ link' \in [Links -> LinkStates]
        BY <2>1 DEF Revoked, TypeOK, LinkStates
      <3>4. QED
        BY <2>1, <3>1, <3>2, <3>3, SetPasswordType, MoveToType DEF TypeOK
    <2>2. CASE MoveTo(c, "refused")
      BY <1>12, <2>2 DEF ChangeInitial, MoveTo, TypeOK, Steps
    <2>3. QED
      BY <1>12, <2>1, <2>2 DEF ChangeInitial
  <1>13. CASE LookUpIdentity(c) \/ MatchEmail(c)
    BY <1>13 DEF LookUpIdentity, MatchEmail, MoveTo, TypeOK, Steps
  <1>14. CASE LinkIdentity(c)
    BY <1>14, RequestFields DEF LinkIdentity, MoveTo, TypeOK, Steps
  <1>15. CASE CreateUserWithIdentity(c)
    BY <1>15, RequestFields DEF CreateUserWithIdentity, MoveTo, TypeOK, Steps
  <1>16. QED
    BY <1>1, <1>2, <1>3, <1>4, <1>5, <1>6, <1>7, <1>8, <1>9, <1>10, <1>11, <1>12, <1>13, <1>14,
       <1>15 DEF Call, LoginCall, SignInWithIdentity, ResetCall, ChangeInitialCall

LEMMA NextTypeOK == TypeOK /\ [Next]_vars => TypeOK'
  <1>. SUFFICES ASSUME TypeOK, [Next]_vars PROVE TypeOK'
    OBVIOUS
  <1>1. ASSUME NEW c \in Calls, Call(c) PROVE TypeOK'
    BY <1>1, CallTypeOK
  <1>2. ASSUME NEW c \in Calls, CallFails(c) PROVE TypeOK'
    BY <1>2 DEF CallFails, MoveTo, TypeOK, Steps, accountVars
  <1>3. ASSUME NEW c \in Calls, EndSession(c) PROVE TypeOK'
    BY <1>3 DEF EndSession, TypeOK, accountVars, callVars
  <1>4. ASSUME NEW t \in Links, RequestReset(t) PROVE TypeOK'
    BY <1>4
    DEF RequestReset, HasPasswordIdentity, IssueToken, TypeOK, LinkStates, accountVars, callVars
  <1>5. ASSUME NEW t \in Links, ExpireLink(t) PROVE TypeOK'
    BY <1>5 DEF ExpireLink, TypeOK, LinkStates, accountVars, callVars
  <1>6. CASE UNCHANGED vars
    BY <1>6 DEF vars, TypeOK, accountVars, callVars
  <1>7. QED
    BY <1>1, <1>2, <1>3, <1>4, <1>5, <1>6 DEF Next

\* Every variable keeps its type.
THEOREM TypeCorrect == Spec => []TypeOK
  BY InitTypeOK, NextTypeOK, PTL DEF Spec

-----------------------------------------------------------------------------
(* Sessions opened by Login.  A login stands on the hash it verified, which  *)
(* startPasswordSession compares again; a later hash ends every session.     *)

LoginInv ==
    /\ \A c \in Calls : session[c] = "live" => pc[c] = "done"
    /\ \A c \in Calls : pc[c] = "openChecked" => known[c] # NoHash
    /\ \A c \in Calls : ask[c].op = "login" =>
          pc[c] \in {"idle", "openChecked", "done", "refused", "failed"}
    /\ \A c \in Calls : session[c] = "live" /\ ask[c].op = "login" =>
          known[c] = hash /\ hash # NoHash

LEMMA InitLoginInv == Init => LoginInv
  BY DEF Init, LoginInv

\* A step of a call that is not answered yet, to anything but an open session.
LEMMA CallMovesLoginInv ==
  ASSUME TypeOK, LoginInv, NEW c \in Calls, NEW step,
         pc' = [pc EXCEPT ![c] = step], UNCHANGED <<hash, session, known, ask>>,
         pc[c] # "done", step # "openChecked",
         ask[c].op = "login" => step \in {"refused", "failed"}
  PROVE  LoginInv'
  <1>1. pc'[c] = step /\ \A d \in Calls \ {c} : pc'[d] = pc[d]
    BY DEF TypeOK
  <1>2. session[c] # "live"
    BY DEF LoginInv
  <1>3. \A d \in Calls : session[d] = "live" => pc'[d] = "done"
    BY <1>1, <1>2 DEF LoginInv
  <1>4. \A d \in Calls : pc'[d] = "openChecked" => known[d] # NoHash
    BY <1>1 DEF LoginInv
  <1>5. \A d \in Calls : ask[d].op = "login" => pc'[d] \in {"idle", "openChecked", "done", "refused", "failed"}
    BY <1>1 DEF LoginInv
  <1>6. QED
    BY <1>3, <1>4, <1>5 DEF LoginInv

LEMMA CallLoginInv ==
  ASSUME TypeOK, LoginInv, NEW c \in Calls, Call(c)
  PROVE  LoginInv'
  <1>. USE DEF LoginInv, TypeOK, accountVars
  <1>1. CASE Register(c)
    BY <1>1 DEF Register, CreateWithPassword, AccountExists, SetPassword, MoveTo
  <1>2. CASE VerifyPassword(c)
    BY <1>2 DEF VerifyPassword, PasswordIs, HasPasswordIdentity, MoveTo
  <1>3. CASE StartPasswordSession(c)
    BY <1>3 DEF StartPasswordSession, MoveTo
  <1>4. CASE StartSession(c)
    BY <1>4 DEF StartSession, MoveTo
  <1>5. CASE ConsumeToken(c)
    BY <1>5 DEF ConsumeToken, MoveTo
  <1>6. CASE CheckFlag(c) \/ CompareOld(c) \/ MarkVerified(c) \/ Admit(c)
    <2>1. /\ UNCHANGED <<hash, session, known, ask>>
          /\ pc[c] \in {"checkFlag", "compareOld", "markVerified", "idle"}
          /\ ask[c].op # "login"
      BY <1>6 DEF CheckFlag, CompareOld, MarkVerified, Admit, MoveTo
    <2>2. \E step \in {"compareOld", "update", "refused", "open", "change"} : pc' = [pc EXCEPT ![c] = step]
      BY <1>6 DEF CheckFlag, CompareOld, MarkVerified, Admit, MoveTo
    <2>3. QED
      BY <2>1, <2>2, CallMovesLoginInv
  <1>7. CASE UpdatePassword(c)
    <2>1. \A d \in Calls : session'[d] # "live"
      BY <1>7 DEF UpdatePassword, Revoked
    <2>2. QED
      BY <1>7, <2>1 DEF UpdatePassword, SetPassword, MoveTo
  <1>8. CASE RevokeAllSessions(c)
    BY <1>8 DEF RevokeAllSessions, Revoked, MoveTo
  <1>9. CASE ChangeInitial(c)
    <2>1. CASE session' = Revoked /\ SetPassword(c, hash.version + 1) /\ MoveTo(c, "open")
      <3>1. \A d \in Calls : session'[d] # "live"
        BY <2>1 DEF Revoked
      <3>2. QED
        BY <1>9, <2>1, <3>1 DEF ChangeInitial, SetPassword, MoveTo
    <2>2. CASE MoveTo(c, "refused") /\ UNCHANGED <<hash, mustChange, session, link, known>>
      BY <1>9, <2>2 DEF ChangeInitial, MoveTo
    <2>3. QED
      BY <1>9, <2>1, <2>2 DEF ChangeInitial
  <1>10. CASE LookUpIdentity(c) \/ MatchEmail(c)
    BY <1>10 DEF LookUpIdentity, MatchEmail, MoveTo
  <1>11. CASE LinkIdentity(c) \/ CreateUserWithIdentity(c)
    BY <1>11 DEF LinkIdentity, CreateUserWithIdentity, MoveTo
  <1>12. QED
    BY <1>1, <1>2, <1>3, <1>4, <1>5, <1>6, <1>7, <1>8, <1>9, <1>10, <1>11
    DEF Call, LoginCall, SignInWithIdentity, ResetCall, ChangeInitialCall

LEMMA NextLoginInv == TypeOK /\ LoginInv /\ [Next]_vars => LoginInv'
  <1>. SUFFICES ASSUME TypeOK, LoginInv, [Next]_vars PROVE LoginInv'
    OBVIOUS
  <1>1. ASSUME NEW c \in Calls, Call(c) PROVE LoginInv'
    BY <1>1, CallLoginInv
  <1>2. ASSUME NEW c \in Calls, CallFails(c) \/ EndSession(c) PROVE LoginInv'
    BY <1>2 DEF CallFails, EndSession, MoveTo, LoginInv, TypeOK, accountVars, callVars
  <1>3. ASSUME NEW t \in Links, RequestReset(t) \/ ExpireLink(t) PROVE LoginInv'
    BY <1>3 DEF RequestReset, ExpireLink, LoginInv, accountVars, callVars
  <1>4. CASE UNCHANGED vars
    BY <1>4 DEF vars, LoginInv, accountVars, callVars
  <1>5. QED
    BY <1>1, <1>2, <1>3, <1>4 DEF Next

\* Whoever is signed in through Login proved the account's present password.
THEOREM LoginSessionsCurrent == Spec => []LoginSessionIsCurrent
  <1>1. LoginInv => LoginSessionIsCurrent
    BY DEF LoginInv, LoginSessionIsCurrent
  <1>2. QED
    BY <1>1, InitLoginInv, NextLoginInv, TypeCorrect, PTL DEF Spec

-----------------------------------------------------------------------------
(* The initial password.  While the duty to replace it lasts the hash stands *)
(* still, so a comparison made under the duty is still true at the update.   *)

DutyInv ==
    /\ mustChange => hash # NoHash
    /\ \A c \in Calls : mustChange /\ pc[c] = "update" => ask[c].chosen # hash.secret
    /\ \A c \in Calls : pc[c] = "change" => ask[c].given # ask[c].chosen

LEMMA InitDutyInv == Init => DutyInv
  <1>1. Init => (mustChange => hash # NoHash)
    <2>1. [secret : Passwords, version : {0}] \subseteq Hashes
      BY DEF Hashes
    <2>2. NoHash \notin Hashes
      BY SessionsAssumption DEF Hashes
    <2>3. QED
      BY <2>1, <2>2 DEF Init
  <1>2. QED
    BY <1>1 DEF Init, DutyInv

LEMMA CallDutyInv ==
  ASSUME TypeOK, DutyInv, NEW c \in Calls, Call(c)
  PROVE  DutyInv'
  <1>. USE DEF DutyInv, TypeOK, accountVars
  <1>1. CASE Register(c)
    BY <1>1 DEF Register, CreateWithPassword, AccountExists, SetPassword, MoveTo
  <1>2. CASE VerifyPassword(c) \/ StartPasswordSession(c) \/ StartSession(c) \/ ConsumeToken(c)
    BY <1>2 DEF VerifyPassword, StartPasswordSession, StartSession, ConsumeToken, MoveTo
  <1>3. ASSUME NEW step \in Steps, MoveTo(c, step), UNCHANGED <<hash, mustChange>>,
               step = "update" /\ mustChange => ask[c].chosen # hash.secret,
               step = "change" => ask[c].given # ask[c].chosen
        PROVE  DutyInv'
    BY <1>3, MoveToType DEF MoveTo
  <1>4. CASE RevokeAllSessions(c)
    BY <1>4, <1>3 DEF RevokeAllSessions, Steps
  <1>7. CASE MarkVerified(c)
    BY <1>7, <1>3 DEF MarkVerified, Steps
  <1>8. CASE CheckFlag(c)
    <2>1. PICK step \in {"compareOld", "update"} : MoveTo(c, step) /\ (step = "update" => ~mustChange)
      BY <1>8 DEF CheckFlag
    <2>2. QED
      BY <1>8, <2>1, <1>3 DEF CheckFlag, Steps
  <1>9. CASE Admit(c)
    <2>1. PICK step \in {"refused", "change"} :
             MoveTo(c, step) /\ (step = "change" => ask[c].given # ask[c].chosen)
      BY <1>9 DEF Admit
    <2>2. QED
      BY <1>9, <2>1, <1>3 DEF Admit, Steps
  <1>10. CASE CompareOld(c)
    <2>1. hash # NoHash
      BY <1>10 DEF CompareOld
    <2>2. PICK step \in {"refused", "update"} :
             MoveTo(c, step) /\ (step = "update" => ~PasswordIs(ask[c].chosen))
      BY <1>10 DEF CompareOld
    <2>3. step = "update" => ask[c].chosen # hash.secret
      BY <2>1, <2>2 DEF PasswordIs, HasPasswordIdentity
    <2>4. QED
      BY <1>10, <2>2, <2>3, <1>3 DEF CompareOld, Steps
  <1>5. CASE UpdatePassword(c)
    BY <1>5 DEF UpdatePassword, MoveTo
  <1>6. CASE ChangeInitial(c)
    BY <1>6 DEF ChangeInitial, MoveTo
  <1>11. CASE LookUpIdentity(c)
    <2>1. PICK step \in {"open", "matchEmail", "createUser"} : MoveTo(c, step)
      BY <1>11 DEF LookUpIdentity
    <2>2. QED
      BY <1>11, <2>1, <1>3 DEF LookUpIdentity, Steps
  <1>12. CASE MatchEmail(c)
    <2>1. PICK step \in {"linkIdentity", "createUser"} : MoveTo(c, step)
      BY <1>12 DEF MatchEmail
    <2>2. QED
      BY <1>12, <2>1, <1>3 DEF MatchEmail, Steps
  <1>13. CASE LinkIdentity(c) \/ CreateUserWithIdentity(c)
    <2>1. PICK step \in {"refused", "open"} : MoveTo(c, step)
      BY <1>13 DEF LinkIdentity, CreateUserWithIdentity
    <2>2. QED
      BY <1>13, <2>1, <1>3 DEF LinkIdentity, CreateUserWithIdentity, Steps
  <1>14. QED
    BY <1>1, <1>2, <1>4, <1>5, <1>6, <1>7, <1>8, <1>9, <1>10, <1>11, <1>12, <1>13
    DEF Call, LoginCall, SignInWithIdentity, ResetCall, ChangeInitialCall

LEMMA NextDutyInv == TypeOK /\ DutyInv /\ [Next]_vars => DutyInv'
  <1>. SUFFICES ASSUME TypeOK, DutyInv, [Next]_vars PROVE DutyInv'
    OBVIOUS
  <1>1. ASSUME NEW c \in Calls, Call(c) PROVE DutyInv'
    BY <1>1, CallDutyInv
  <1>2. ASSUME NEW c \in Calls, CallFails(c) \/ EndSession(c) PROVE DutyInv'
    BY <1>2 DEF CallFails, EndSession, MoveTo, DutyInv, TypeOK, accountVars, callVars
  <1>3. ASSUME NEW t \in Links, RequestReset(t) \/ ExpireLink(t) PROVE DutyInv'
    BY <1>3 DEF RequestReset, ExpireLink, DutyInv, accountVars, callVars
  <1>4. CASE UNCHANGED vars
    BY <1>4 DEF vars, DutyInv, accountVars, callVars
  <1>5. QED
    BY <1>1, <1>2, <1>3, <1>4 DEF Next

LEMMA DutyCorrect == Spec => []DutyInv
  BY InitDutyInv, NextDutyInv, TypeCorrect, PTL DEF Spec

\* The initial password never outlives the duty to replace it.
THEOREM InitialPasswordGone == Spec => InitialPasswordReplaced
  <1>1. ASSUME TypeOK, DutyInv, [Next]_vars
        PROVE  [mustChange /\ ~mustChange' => hash'.secret # hash.secret]_vars
    <2>. SUFFICES ASSUME mustChange, ~mustChange' PROVE hash'.secret # hash.secret
      OBVIOUS
    <2>1. PICK c \in Calls : Call(c)
      BY <1>1 DEF Next, CallFails, EndSession, RequestReset, ExpireLink, vars, accountVars
    <2>2. UpdatePassword(c) \/ (ChangeInitial(c) /\ SetPassword(c, hash.version + 1)
                                 /\ PasswordIs(ask[c].given) /\ pc[c] = "change")
      BY <2>1 DEF Call, LoginCall, SignInWithIdentity, ResetCall, ChangeInitialCall,
         Register, VerifyPassword, StartPasswordSession, StartSession, ConsumeToken,
         CheckFlag, CompareOld, RevokeAllSessions, MarkVerified, Admit, ChangeInitial,
         LookUpIdentity, MatchEmail, LinkIdentity, CreateUserWithIdentity, accountVars
    <2>3. hash'.secret = ask[c].chosen
      BY <2>2 DEF UpdatePassword, SetPassword
    <2>4. ask[c].chosen # hash.secret
      BY <1>1, <2>2 DEF UpdatePassword, PasswordIs, HasPasswordIdentity, DutyInv
    <2>5. QED
      BY <2>3, <2>4
  <1>2. QED
    BY <1>1, TypeCorrect, DutyCorrect, PTL DEF Spec, InitialPasswordReplaced

-----------------------------------------------------------------------------
(* Reset links.                                                             *)

LinkInv ==
    /\ \A c \in Calls : Redeemed(c) => link[ask[c].link] \in {"consumed", "deleted"}
    /\ \A c, d \in Calls : Redeemed(c) /\ Redeemed(d) /\ ask[c].link = ask[d].link => c = d
    /\ \A t \in Links : link[t] = "live" => t = newest

LEMMA InitLinkInv == Init => LinkInv
  BY DEF Init, LinkInv, Redeemed

\* A step that redeems no link and revives none keeps the invariant.
LEMMA LinkStutter ==
  ASSUME TypeOK, LinkInv, UNCHANGED <<ask, newest>>,
         \A c \in Calls : Redeemed(c)' => Redeemed(c),
         \A t \in Links : link'[t] = "live" => link[t] = "live",
         \A t \in Links : link[t] \in {"consumed", "deleted"} => link'[t] \in {"consumed", "deleted"}
  PROVE  LinkInv'
  <1>1. \A c \in Calls : ask[c].link \in Links
    BY RequestFields
  <1>2. QED
    BY <1>1 DEF LinkInv, Redeemed

LEMMA CallLinkInv ==
  ASSUME TypeOK, LinkInv, NEW c \in Calls, Call(c)
  PROVE  LinkInv'
  <1>. USE DEF Redeemed, MoveTo, TypeOK
  <1>1. CASE ConsumeToken(c)
    <2>1. ask[c].link \in Links
      BY RequestFields
    <2>2. CASE Usable(ask[c].link) /\ link' = [link EXCEPT ![ask[c].link] = "consumed"]
               /\ MoveTo(c, "checkFlag")
      <3>1. \A d \in Calls : Redeemed(d) => ask[d].link # ask[c].link
        BY <2>2 DEF Usable, LinkInv
      <3>2. \A d \in Calls : Redeemed(d)' => d = c \/ Redeemed(d)
        BY <2>2
      <3>3. UNCHANGED <<ask, newest>>
        BY <1>1 DEF ConsumeToken
      <3>4. \A d \in Calls : Redeemed(d)' => link'[ask[d].link] \in {"consumed", "deleted"}
        BY <2>1, <2>2, <3>1, <3>2, RequestFields DEF LinkInv
      <3>5. \A d, e \in Calls : Redeemed(d)' /\ Redeemed(e)' /\ ask[d].link = ask[e].link => d = e
        BY <3>1, <3>2, <3>3 DEF LinkInv
      <3>6. QED
        BY <2>1, <2>2, <3>3, <3>4, <3>5 DEF LinkInv
    <2>3. CASE MoveTo(c, "refused") /\ UNCHANGED link
      BY <1>1, <2>3, LinkStutter DEF ConsumeToken
    <2>4. QED
      BY <1>1, <2>2, <2>3 DEF ConsumeToken
  <1>2. CASE Register(c)
    BY <1>2, LinkStutter DEF Register
  <1>3. CASE VerifyPassword(c) \/ StartPasswordSession(c) \/ StartSession(c) \/ Admit(c)
    BY <1>3, LinkStutter DEF VerifyPassword, StartPasswordSession, StartSession, Admit
  <1>4. CASE CheckFlag(c) \/ CompareOld(c) \/ UpdatePassword(c) \/ RevokeAllSessions(c)
             \/ MarkVerified(c)
    BY <1>4, LinkStutter DEF CheckFlag, CompareOld, UpdatePassword, RevokeAllSessions, MarkVerified
  <1>5. CASE ChangeInitial(c)
    BY <1>5, LinkStutter DEF ChangeInitial
  <1>6. CASE LookUpIdentity(c) \/ MatchEmail(c) \/ LinkIdentity(c) \/ CreateUserWithIdentity(c)
    <2>1. ask[c].op = "sso" \/ pc[c] # "idle"
      BY <1>6 DEF LookUpIdentity, MatchEmail, LinkIdentity, CreateUserWithIdentity
    <2>2. \A d \in Calls : Redeemed(d)' => Redeemed(d)
      BY <1>6, <2>1 DEF LookUpIdentity, MatchEmail, LinkIdentity, CreateUserWithIdentity
    <2>3. UNCHANGED <<ask, newest, link>>
      BY <1>6 DEF LookUpIdentity, MatchEmail, LinkIdentity, CreateUserWithIdentity
    <2>4. QED
      BY <2>2, <2>3, LinkStutter
  <1>7. QED
    BY <1>1, <1>2, <1>3, <1>4, <1>5, <1>6
    DEF Call, LoginCall, SignInWithIdentity, ResetCall, ChangeInitialCall

LEMMA NextLinkInv == TypeOK /\ LinkInv /\ [Next]_vars => LinkInv'
  <1>. SUFFICES ASSUME TypeOK, LinkInv, [Next]_vars PROVE LinkInv'
    OBVIOUS
  <1>1. ASSUME NEW c \in Calls, Call(c) PROVE LinkInv'
    BY <1>1, CallLinkInv
  <1>2. ASSUME NEW c \in Calls, CallFails(c) \/ EndSession(c) PROVE LinkInv'
    BY <1>2, LinkStutter DEF CallFails, EndSession, MoveTo, Redeemed, TypeOK, callVars
  <1>3. ASSUME NEW t \in Links, ExpireLink(t) PROVE LinkInv'
    BY <1>3, LinkStutter DEF ExpireLink, Redeemed, TypeOK, callVars
  <1>4. ASSUME NEW t \in Links, RequestReset(t) PROVE LinkInv'
    <2>1. \A u \in Links : link[u] \in {"consumed", "deleted"} => link'[u] \in {"consumed", "deleted"}
      BY <1>4 DEF RequestReset, IssueToken
    <2>2. \A u \in Links : link'[u] = "live" => u = newest'
      BY <1>4 DEF RequestReset, IssueToken, TypeOK
    <2>3. UNCHANGED <<ask, pc>>
      BY <1>4 DEF RequestReset, callVars
    <2>4. QED
      BY <2>1, <2>2, <2>3, RequestFields DEF LinkInv, Redeemed
  <1>5. CASE UNCHANGED vars
    BY <1>5, LinkStutter DEF vars, callVars, Redeemed
  <1>6. QED
    BY <1>1, <1>2, <1>3, <1>4, <1>5 DEF Next

LEMMA LinkCorrect == Spec => []LinkInv
  BY InitLinkInv, NextLinkInv, TypeCorrect, PTL DEF Spec

\* A call that gets past its link holds the link issued last, and holds it alone.
THEOREM LinkSingleUse == Spec => LinkHonouredOnce
  <1>1. ASSUME TypeOK, LinkInv, LinkInv', [Next]_vars
        PROVE  [\A c \in Calls : ~Redeemed(c) /\ Redeemed(c)' =>
                  /\ ask[c].link = newest
                  /\ \A d \in Calls \ {c} : Redeemed(d) => ask[d].link # ask[c].link]_vars
    <2>. SUFFICES ASSUME NEW c \in Calls, ~Redeemed(c), Redeemed(c)'
                  PROVE  /\ ask[c].link = newest
                         /\ \A d \in Calls \ {c} : Redeemed(d) => ask[d].link # ask[c].link
      OBVIOUS
    <2>1. ASSUME NEW d \in Calls, Call(d), ~ConsumeToken(d) PROVE FALSE
      <3>1. UNCHANGED ask /\ \A e \in Calls : e # d => pc'[e] = pc[e]
        BY <1>1, <2>1 DEF Call, LoginCall, SignInWithIdentity, ResetCall, ChangeInitialCall,
         Register, VerifyPassword, StartPasswordSession, StartSession,
           CheckFlag, CompareOld, UpdatePassword, RevokeAllSessions, MarkVerified, Admit,
           ChangeInitial, LookUpIdentity, MatchEmail, LinkIdentity, CreateUserWithIdentity,
           MoveTo, TypeOK
      <3>2. d = c /\ pc[c] \in {"idle", "refused"} /\ ask[c].op = "reset"
        BY <3>1 DEF Redeemed
      <3>3. QED
        BY <2>1, <3>2 DEF Call, LoginCall, SignInWithIdentity, ResetCall, ChangeInitialCall,
         Register, VerifyPassword, StartPasswordSession, StartSession,
           CheckFlag, CompareOld, UpdatePassword, RevokeAllSessions, MarkVerified, Admit,
           ChangeInitial, LookUpIdentity, MatchEmail, LinkIdentity, CreateUserWithIdentity
    <2>2. ASSUME NEW d \in Calls, CallFails(d) \/ EndSession(d) PROVE FALSE
      BY <1>1, <2>2 DEF CallFails, EndSession, MoveTo, Redeemed, TypeOK, callVars
    <2>3. ASSUME NEW t \in Links, RequestReset(t) \/ ExpireLink(t) PROVE FALSE
      BY <2>3 DEF RequestReset, ExpireLink, Redeemed, callVars
    <2>4. vars' # vars
      BY DEF Redeemed, vars, callVars
    <2>5. PICK d \in Calls : ConsumeToken(d)
      BY <1>1, <2>1, <2>2, <2>3, <2>4 DEF Next
    <2>6. d = c /\ UNCHANGED ask
      BY <1>1, <2>5 DEF ConsumeToken, MoveTo, Redeemed, TypeOK
    <2>7. link[ask[c].link] = "live"
      BY <1>1, <2>5, <2>6 DEF ConsumeToken, Usable, MoveTo, Redeemed, TypeOK
    <2>8. QED
      BY <1>1, <2>7, RequestFields DEF LinkInv
  <1>2. QED
    BY <1>1, TypeCorrect, LinkCorrect, PTL DEF Spec, LinkHonouredOnce

-----------------------------------------------------------------------------
(* The ways into the account.  Whoever matches an address or links an identity *)
(* comes with an assertion that vouches for the address.                     *)

ProvenInv ==
    \A c \in Calls : pc[c] \in {"matchEmail", "linkIdentity"} => ask[c].op = "sso" /\ ask[c].proven

LEMMA NextProvenInv == TypeOK /\ ProvenInv /\ [Next]_vars => ProvenInv'
  <1>. SUFFICES ASSUME TypeOK, ProvenInv, [Next]_vars PROVE ProvenInv'
    OBVIOUS
  <1>. USE DEF ProvenInv, TypeOK, MoveTo
  <1>1. ASSUME NEW c \in Calls, Call(c) PROVE ProvenInv'
    <2>1. CASE LookUpIdentity(c) \/ MatchEmail(c) \/ LinkIdentity(c) \/ CreateUserWithIdentity(c)
      BY <2>1 DEF LookUpIdentity, MatchEmail, LinkIdentity, CreateUserWithIdentity
    <2>2. CASE Register(c) \/ VerifyPassword(c) \/ StartPasswordSession(c) \/ StartSession(c)
               \/ ConsumeToken(c) \/ CheckFlag(c)
      BY <2>2 DEF Register, VerifyPassword, StartPasswordSession, StartSession, ConsumeToken,
         CheckFlag
    <2>3. CASE CompareOld(c) \/ UpdatePassword(c) \/ RevokeAllSessions(c) \/ MarkVerified(c)
               \/ Admit(c) \/ ChangeInitial(c)
      BY <2>3 DEF CompareOld, UpdatePassword, RevokeAllSessions, MarkVerified, Admit, ChangeInitial
    <2>4. QED
      BY <1>1, <2>1, <2>2, <2>3
      DEF Call, LoginCall, SignInWithIdentity, ResetCall, ChangeInitialCall
  <1>2. ASSUME NEW c \in Calls, CallFails(c) \/ EndSession(c) PROVE ProvenInv'
    BY <1>2 DEF CallFails, EndSession, callVars
  <1>3. ASSUME NEW t \in Links, RequestReset(t) \/ ExpireLink(t) PROVE ProvenInv'
    BY <1>3 DEF RequestReset, ExpireLink, callVars
  <1>4. CASE UNCHANGED vars
    BY <1>4 DEF vars, callVars
  <1>5. QED
    BY <1>1, <1>2, <1>3, <1>4 DEF Next

LEMMA ProvenCorrect == Spec => []ProvenInv
  <1>1. Init => ProvenInv
    BY DEF Init, ProvenInv
  <1>2. QED
    BY <1>1, NextProvenInv, TypeCorrect, PTL DEF Spec

\* An account that exists gets no password it had not, and no identity but a proven one.
THEOREM WaysInProven == Spec => WaysInAreProven
  <1>1. ASSUME TypeOK, ProvenInv, [Next]_vars
        PROVE  [AccountExists =>
                  /\ hash = NoHash => hash' = NoHash
                  /\ \A s \in linked' \ linked :
                        \E c \in Calls : /\ ask[c].op = "sso" /\ ask[c].subject = s /\ ask[c].proven
                                       /\ pc'[c] # pc[c]]_vars
    <2>. SUFFICES ASSUME AccountExists, vars' # vars
                  PROVE  /\ hash = NoHash => hash' = NoHash
                         /\ \A s \in linked' \ linked :
                               \E c \in Calls : /\ ask[c].op = "sso" /\ ask[c].subject = s
                                              /\ ask[c].proven /\ pc'[c] # pc[c]
      OBVIOUS
    <2>1. ASSUME NEW c \in Calls, Call(c), ~LinkIdentity(c)
          PROVE  (hash = NoHash => hash' = NoHash) /\ linked' = linked
      BY <1>1, <2>1 DEF Call, LoginCall, SignInWithIdentity, ResetCall, ChangeInitialCall,
         Register, CreateWithPassword, VerifyPassword, StartPasswordSession,
         StartSession, ConsumeToken, CheckFlag, CompareOld, UpdatePassword, RevokeAllSessions,
         MarkVerified, Admit, ChangeInitial, PasswordIs, HasPasswordIdentity, LookUpIdentity, MatchEmail,
         CreateUserWithIdentity, accountVars, TypeOK
    <2>2. ASSUME NEW c \in Calls, LinkIdentity(c)
          PROVE  /\ hash' = hash
                 /\ \A s \in linked' \ linked :
                       /\ ask[c].op = "sso" /\ ask[c].subject = s
                       /\ ask[c].proven /\ pc'[c] # pc[c]
      BY <1>1, <2>2 DEF LinkIdentity, MoveTo, ProvenInv, TypeOK
    <2>3. ASSUME NEW c \in Calls, CallFails(c) \/ EndSession(c)
          PROVE  hash' = hash /\ linked' = linked
      BY <2>3 DEF CallFails, EndSession, accountVars
    <2>4. ASSUME NEW t \in Links, RequestReset(t) \/ ExpireLink(t)
          PROVE  hash' = hash /\ linked' = linked
      BY <2>4 DEF RequestReset, ExpireLink, accountVars
    <2>5. CASE \E c \in Calls : LinkIdentity(c)
      BY <2>2, <2>5
    <2>6. CASE ~\E c \in Calls : LinkIdentity(c)
      <3>1. (hash = NoHash => hash' = NoHash) /\ linked' = linked
        BY <1>1, <2>1, <2>3, <2>4, <2>6 DEF Next
      <3>2. QED
        BY <3>1
    <2>7. QED
      BY <2>5, <2>6
  <1>2. QED
    BY <1>1, TypeCorrect, ProvenCorrect, PTL DEF Spec, WaysInAreProven
=============================================================================
