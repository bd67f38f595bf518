-------------------------- MODULE VerificationCode --------------------------
(***************************************************************************)
(* The one-time codes that verify an address: IssueToken replaces the live *)
(* code, ConsumeOTP checks a guess against it and counts the guess, in a   *)
(* transaction that holds the row's lock.  Guesses run in parallel, wait   *)
(* for each other's lock and see the clock move while they wait.           *)
(*                                                                         *)
(* Source: internal/account/store.go, service.go.  A row of user_tokens    *)
(* with purpose email_verification is a code that was asked for; one       *)
(* account.  The API and the database are taken to share a clock; its unit *)
(* is whatever makes Ttl and Lockout whole.                                *)
(***************************************************************************)
EXTENDS Naturals, Sequences, FiniteSets

CONSTANTS
    Calls,          \* VerifyEmail requests
    Rows,           \* codes ever asked for
    Codes,          \* what a code may be
    MaxAttempts,    \* maxOTPAttempts
    Lockout,        \* otpLockout
    Ttl,            \* verificationTTL
    MaxTime,        \* the clock stops there (a bound)
    NoCall, NoRow

ASSUME CodeAssumption ==
    /\ MaxAttempts \in Nat \ {0} /\ Lockout \in Nat \ {0}
    /\ Ttl \in Nat /\ MaxTime \in Nat
    /\ NoCall \notin Calls /\ NoRow \notin Rows

VARIABLES
    now,
    state,          \* of each row
    code, attempts, lockedUntil, expiresAt,     \* its columns; lockedUntil 0 is NULL
    holder,         \* the call whose transaction has locked the row
    verified,       \* users.email_verified_at is set
    pc,             \* where each call stands
    guess,          \* the code it presents
    began,          \* when its transaction began: what now() is in its statements
    target,         \* the row its SELECT found
    read,           \* what the SELECT returned once it had the lock
    guesses         \* when each row's code was compared with a guess, a history variable

rowVars == <<state, code, attempts, lockedUntil, expiresAt>>
callVars == <<pc, guess, began, target, read>>
vars == <<now, rowVars, holder, verified, callVars, guesses>>

Times == 0..MaxTime
States == {"unasked", "asked", "live", "consumed", "deleted"}
Steps == {"idle", "select", "wait", "answer", "mark", "verified", "refused", "failed"}
Reads == [attempts : Nat, lockedUntil : Nat, expired : BOOLEAN]

TypeOK ==
    /\ now \in Times
    /\ state \in [Rows -> States]
    /\ code \in [Rows -> Codes]
    /\ attempts \in [Rows -> 0..MaxAttempts]
    /\ lockedUntil \in [Rows -> 0..(MaxTime + Lockout)]
    /\ expiresAt \in [Rows -> 0..(MaxTime + Ttl)]
    /\ holder \in [Rows -> Calls \cup {NoCall}]
    /\ verified \in BOOLEAN
    /\ pc \in [Calls -> Steps]
    /\ guess \in [Calls -> Codes]
    /\ began \in [Calls -> Times]
    /\ target \in [Calls -> Rows \cup {NoRow}]
    /\ read \in [Calls -> Reads]
    /\ guesses \in [Rows -> Seq(Times)]
    /\ \A c \in Calls : pc[c] \in {"wait", "answer", "mark"} => target[c] \in Rows

Init ==
    /\ now = 0
    /\ state = [r \in Rows |-> "unasked"]
    /\ code \in [Rows -> Codes]
    /\ attempts = [r \in Rows |-> 0]
    /\ lockedUntil = [r \in Rows |-> 0]
    /\ expiresAt = [r \in Rows |-> 0]
    /\ holder = [r \in Rows |-> NoCall]
    /\ verified = FALSE
    /\ pc = [c \in Calls |-> "idle"]
    /\ guess \in [Calls -> Codes]
    /\ began = [c \in Calls |-> 0]
    /\ target = [c \in Calls |-> NoRow]
    /\ read = [c \in Calls |-> [attempts |-> 0, lockedUntil |-> 0, expired |-> FALSE]]
    /\ guesses = [r \in Rows |-> <<>>]

Tick ==
    /\ now < MaxTime
    /\ now' = now + 1
    /\ UNCHANGED <<rowVars, holder, verified, callVars, guesses>>

-----------------------------------------------------------------------------
(* Register and ResendVerification.                                         *)

Live == {r \in Rows : state[r] = "live"}

\* Only an unverified account is sent a code; it may be verified meanwhile.
AskForCode(r) ==
    /\ state[r] = "unasked"
    /\ ~verified
    /\ state' = [state EXCEPT ![r] = "asked"]
    /\ UNCHANGED <<now, code, attempts, lockedUntil, expiresAt, holder, verified, callVars, guesses>>

\* IssueToken deletes the live code, once nobody has it locked, and inserts the new.
IssueToken(r) ==
    /\ state[r] = "asked"
    /\ \A q \in Live : holder[q] = NoCall
    /\ state' = [q \in Rows |-> IF q = r THEN "live"
                                ELSE IF q \in Live THEN "deleted" ELSE state[q]]
    /\ expiresAt' = [expiresAt EXCEPT ![r] = now + Ttl]
    /\ UNCHANGED <<now, code, attempts, lockedUntil, holder, verified, callVars, guesses>>

\* A database error, or another IssueToken that inserts first: no code is sent.
IssueFails(r) ==
    /\ state[r] = "asked"
    /\ state' = [state EXCEPT ![r] = "deleted"]
    /\ UNCHANGED <<now, code, attempts, lockedUntil, expiresAt, holder, verified, callVars, guesses>>

-----------------------------------------------------------------------------
(* VerifyEmail and ConsumeOTP.                                              *)

MoveTo(c, step) ==
    /\ pc' = [pc EXCEPT ![c] = step]
    /\ UNCHANGED guess

Release(c) ==
    holder' = [r \in Rows |-> IF holder[r] = c THEN NoCall ELSE holder[r]]

Begin(c) ==
    /\ pc[c] = "idle"
    /\ began' = [began EXCEPT ![c] = now]
    /\ MoveTo(c, "select")
    /\ UNCHANGED <<now, rowVars, holder, verified, target, read, guesses>>

\* The row the SELECT sees when it starts.
Select(c) ==
    /\ pc[c] = "select"
    /\ \/ /\ Live = {}
          /\ MoveTo(c, "refused")
          /\ UNCHANGED target
       \/ \E r \in Live :
             /\ target' = [target EXCEPT ![c] = r]
             /\ MoveTo(c, "wait")
    /\ UNCHANGED <<now, rowVars, holder, verified, began, read, guesses>>

\* Mutant: SELECT without FOR UPDATE.
MutLockRow(c) ==
    /\ pc[c] = "wait"
    /\ state[target[c]] = "live"
    /\ read' = [read EXCEPT ![c] = [attempts |-> attempts[target[c]],
                                    lockedUntil |-> lockedUntil[target[c]],
                                    expired |-> expiresAt[target[c]] <= began[c]]]
    /\ MoveTo(c, "answer")
    /\ UNCHANGED <<now, rowVars, holder, verified, began, target, guesses>>

\* FOR UPDATE waits for the lock, then looks at the row again: one that was
\* consumed or deleted meanwhile is not returned.
LockRow(c) ==
    /\ pc[c] = "wait"
    /\ holder[target[c]] = NoCall
    /\ \/ /\ state[target[c]] = "live"
          /\ holder' = [holder EXCEPT ![target[c]] = c]
          /\ read' = [read EXCEPT ![c] = [attempts |-> attempts[target[c]],
                                          lockedUntil |-> lockedUntil[target[c]],
                                          expired |-> expiresAt[target[c]] <= began[c]]]
          /\ MoveTo(c, "answer")
       \/ /\ state[target[c]] # "live"
          /\ MoveTo(c, "refused")
          /\ UNCHANGED <<holder, read>>
    /\ UNCHANGED <<now, rowVars, verified, began, target, guesses>>

StillLocked(c) == read[c].lockedUntil > now

\* Locked or expired: the guess is not looked at.
Refuse(c) ==
    /\ pc[c] = "answer"
    /\ StillLocked(c) \/ read[c].expired
    /\ Release(c)
    /\ MoveTo(c, "refused")
    /\ UNCHANGED <<now, rowVars, verified, began, target, read, guesses>>

Compares(c) ==
    /\ pc[c] = "answer"
    /\ ~StillLocked(c) /\ ~read[c].expired
    /\ guesses' = [guesses EXCEPT ![target[c]] = Append(@, now)]
    /\ Release(c)
    /\ UNCHANGED <<now, code, expiresAt, verified, began, target, read>>

Accept(c) ==
    /\ Compares(c)
    /\ guess[c] = code[target[c]]
    /\ state' = [state EXCEPT ![target[c]] = "consumed"]
    /\ MoveTo(c, "mark")
    /\ UNCHANGED <<attempts, lockedUntil>>

\* A wrong guess counts; the budget is fresh once a lock has passed.
Reject(c) ==
    /\ Compares(c)
    /\ guess[c] # code[target[c]]
    /\ LET counted == (IF read[c].lockedUntil # 0 THEN 0 ELSE read[c].attempts) + 1 IN
          /\ attempts' = [attempts EXCEPT ![target[c]] = counted]
          /\ lockedUntil' = [lockedUntil EXCEPT ![target[c]] =
                                IF counted >= MaxAttempts THEN now + Lockout ELSE 0]
    /\ MoveTo(c, "refused")
    /\ UNCHANGED state

\* MarkEmailVerified, after ConsumeOTP's transaction.
MarkVerified(c) ==
    /\ pc[c] = "mark"
    /\ verified' = TRUE
    /\ MoveTo(c, "verified")
    /\ UNCHANGED <<now, rowVars, holder, began, target, read, guesses>>

\* A call ends where it stands; its transaction is rolled back.
CallFails(c) ==
    /\ pc[c] \in {"select", "wait", "answer", "mark"}
    /\ Release(c)
    /\ MoveTo(c, "failed")
    /\ UNCHANGED <<now, rowVars, verified, began, target, read, guesses>>

Verify(c) ==
    \/ Begin(c) \/ Select(c) \/ LockRow(c) \/ Refuse(c) \/ Accept(c) \/ Reject(c)
    \/ MarkVerified(c)

Next ==
    \/ Tick
    \/ \E r \in Rows : AskForCode(r) \/ IssueToken(r) \/ IssueFails(r)
    \/ \E c \in Calls : Verify(c) \/ CallFails(c)

Spec == Init /\ [][Next]_vars

-----------------------------------------------------------------------------
(* Properties.                                                              *)

\* The cap is real for guesses that run in parallel (store.go:294-296): in any span
\* of time shorter than the lockout, one code is compared with at most MaxAttempts
\* guesses.
GuessesCapped ==
    \A r \in Rows : \A i, j \in DOMAIN guesses[r] :
        j = i + MaxAttempts => guesses[r][j] >= guesses[r][i] + Lockout

\* A code verifies one request: of two that present it at once, one is refused.
CodeWorksOnce ==
    \A c, d \in Calls :
        pc[c] \in {"mark", "verified"} /\ pc[d] \in {"mark", "verified"} /\ target[c] = target[d]
        => c = d

\* While a code is locked even the right guess is refused (store.go:327-328), also
\* when the guess was on its way before the lock was set.
LockedIsRefused ==
    [][\A r \in Rows :
        state[r] = "live" /\ state'[r] = "consumed" => lockedUntil[r] <= now]_vars
=============================================================================
