----------------------- MODULE VerificationCodeProofs -----------------------
(***************************************************************************)
(* Proofs about VerificationCode, for every number of calls and codes and  *)
(* every budget, lockout and lifetime of a code.                           *)
(***************************************************************************)
EXTENDS VerificationCode, TLAPS

\* A call that is about to answer holds its row's lock, and what it has read is
\* still what the row says.
HoldsItsRow ==
    \A c \in Calls : pc[c] = "answer" =>
        /\ holder[target[c]] = c
        /\ state[target[c]] = "live"
        /\ read[c].attempts = attempts[target[c]]
        /\ read[c].lockedUntil = lockedUntil[target[c]]

Fresh ==
    \A r \in Rows : state[r] \in {"unasked", "asked"} =>
        guesses[r] = <<>> /\ attempts[r] = 0 /\ lockedUntil[r] = 0

Past == \A r \in Rows : \A i \in DOMAIN guesses[r] : guesses[r][i] <= now

\* The last attempts[r] guesses at a live code are those of the current budget; the
\* ones before are a lockout older than anything still to come.
Counted ==
    \A r \in Rows : state[r] = "live" =>
        /\ attempts[r] <= Len(guesses[r])
        /\ lockedUntil[r] = 0 => attempts[r] < MaxAttempts
        /\ lockedUntil[r] # 0 =>
              \A i \in DOMAIN guesses[r] : guesses[r][i] + Lockout <= lockedUntil[r]
        /\ \A i \in DOMAIN guesses[r] :
              i <= Len(guesses[r]) - attempts[r] => guesses[r][i] + Lockout <= now

UsedUp == \A c \in Calls : pc[c] \in {"mark", "verified"} => state[target[c]] = "consumed" /\ target[c] \in Rows

CodeInv == TypeOK /\ HoldsItsRow /\ Fresh /\ Past /\ Counted /\ UsedUp /\ GuessesCapped /\ CodeWorksOnce

-----------------------------------------------------------------------------
(* The steps that leave the guesses alone.                                  *)

LEMMA InitCodeInv == Init => CodeInv
  <1>. SUFFICES ASSUME Init PROVE CodeInv
    OBVIOUS
  <1>1. TypeOK
    <2>1. 0 \in Times /\ 0 \in 0..MaxAttempts /\ 0 \in 0..(MaxTime + Lockout) /\ 0 \in 0..(MaxTime + Ttl)
      BY CodeAssumption DEF Times
    <2>2. [attempts |-> 0, lockedUntil |-> 0, expired |-> FALSE] \in Reads
      BY DEF Reads
    <2>3. read \in [Calls -> Reads]
      BY <2>2 DEF Init
    <2>4. guesses \in [Rows -> Seq(Times)]
      BY DEF Init
    <2>5. QED
      BY <2>1, <2>3, <2>4 DEF Init, TypeOK, States, Steps
  <1>2. \A r \in Rows : guesses[r] = <<>> /\ DOMAIN guesses[r] = {}
    BY DEF Init
  <1>3. HoldsItsRow /\ Fresh /\ UsedUp /\ CodeWorksOnce
    BY DEF Init, HoldsItsRow, Fresh, UsedUp, CodeWorksOnce
  <1>4. Past /\ Counted /\ GuessesCapped
    BY <1>2 DEF Init, Past, Counted, GuessesCapped
  <1>5. QED
    BY <1>1, <1>3, <1>4 DEF CodeInv

\* Facts about a row's history that every arithmetic step needs.
LEMMA HistoryTypes ==
  ASSUME TypeOK, NEW r \in Rows
  PROVE  /\ guesses[r] \in Seq(Nat) /\ Len(guesses[r]) \in Nat
         /\ DOMAIN guesses[r] = 1..Len(guesses[r])
         /\ \A i \in DOMAIN guesses[r] : guesses[r][i] \in Nat
         /\ attempts[r] \in Nat /\ lockedUntil[r] \in Nat /\ now \in Nat
  <1>1. MaxTime \in Nat /\ MaxAttempts \in Nat /\ Lockout \in Nat
    BY CodeAssumption
  <1>2. guesses[r] \in Seq(Times) /\ Times \subseteq Nat
    BY <1>1 DEF TypeOK, Times
  <1>3. QED
    BY <1>1, <1>2 DEF TypeOK, Times

LEMMA TickCodeInv == CodeInv /\ Tick => CodeInv'
  <1>. SUFFICES ASSUME CodeInv, Tick PROVE CodeInv'
    OBVIOUS
  <1>. USE DEF rowVars, callVars
  <1>1. now \in Nat /\ now' = now + 1 /\ now' \in Times
    BY CodeAssumption DEF CodeInv, Tick, TypeOK, Times
  <1>2. TypeOK'
    BY <1>1 DEF CodeInv, Tick, TypeOK
  <1>3. HoldsItsRow' /\ Fresh' /\ UsedUp' /\ CodeWorksOnce' /\ GuessesCapped'
    BY DEF CodeInv, Tick, HoldsItsRow, Fresh, UsedUp, CodeWorksOnce, GuessesCapped
  <1>4. Past'
    <2>. SUFFICES ASSUME NEW r \in Rows, NEW i \in DOMAIN guesses[r] PROVE guesses[r][i] <= now + 1
      BY <1>1 DEF Tick, Past
    <2>. QED
      BY <1>1, HistoryTypes DEF CodeInv, Past
  <1>5. Counted'
    <2>. SUFFICES ASSUME NEW r \in Rows, state[r] = "live", NEW i \in DOMAIN guesses[r],
                         i <= Len(guesses[r]) - attempts[r]
                  PROVE  guesses[r][i] + Lockout <= now + 1
      BY <1>1 DEF CodeInv, Tick, Counted
    <2>1. guesses[r][i] + Lockout <= now
      BY DEF CodeInv, Counted
    <2>. QED
      BY <1>1, <2>1, HistoryTypes, CodeAssumption DEF CodeInv
  <1>6. QED
    BY <1>2, <1>3, <1>4, <1>5 DEF CodeInv

LEMMA IssueCodeInv ==
  ASSUME CodeInv, NEW r \in Rows, AskForCode(r) \/ IssueToken(r) \/ IssueFails(r)
  PROVE  CodeInv'
  <1>. USE DEF rowVars, callVars, CodeInv
  <1>1. UNCHANGED <<now, code, attempts, lockedUntil, holder, verified, callVars, guesses>>
    BY DEF AskForCode, IssueToken, IssueFails
  <1>2. /\ \A q \in Rows : state[q] = "consumed" => state'[q] = "consumed"
        /\ \A q \in Rows : state'[q] \in {"unasked", "asked"} => state[q] \in {"unasked", "asked"}
        /\ \A q \in Rows : state'[q] = "live" => state[q] \in {"asked", "live"}
        /\ \A q \in Rows : state[q] = "live" /\ holder[q] # NoCall => state'[q] = "live"
        /\ state' \in [Rows -> States]
    BY DEF AskForCode, IssueToken, IssueFails, Live, TypeOK, States
  <1>3. TypeOK'
    <2>1. expiresAt' \in [Rows -> 0..(MaxTime + Ttl)]
      <3>1. now + Ttl \in 0..(MaxTime + Ttl)
        BY CodeAssumption DEF TypeOK, Times
      <3>2. expiresAt' = expiresAt \/ expiresAt' = [expiresAt EXCEPT ![r] = now + Ttl]
        BY DEF AskForCode, IssueToken, IssueFails
      <3>3. QED
        BY <3>1, <3>2 DEF TypeOK
    <2>2. QED
      BY <1>1, <1>2, <2>1 DEF TypeOK
  <1>4. HoldsItsRow'
    <2>. SUFFICES ASSUME NEW c \in Calls, pc[c] = "answer"
                  PROVE  /\ holder[target[c]] = c
                         /\ state'[target[c]] = "live"
                         /\ read[c].attempts = attempts[target[c]]
                         /\ read[c].lockedUntil = lockedUntil[target[c]]
      BY <1>1 DEF HoldsItsRow
    <2>1. target[c] \in Rows /\ holder[target[c]] # NoCall
      BY CodeAssumption DEF HoldsItsRow, TypeOK
    <2>. QED
      BY <1>2, <2>1 DEF HoldsItsRow
  <1>5. Fresh' /\ UsedUp' /\ Past' /\ GuessesCapped' /\ CodeWorksOnce'
    BY <1>1, <1>2 DEF Fresh, UsedUp, Past, GuessesCapped, CodeWorksOnce
  <1>6. Counted'
    <2>. SUFFICES ASSUME NEW q \in Rows, state'[q] = "live"
                  PROVE  /\ attempts[q] <= Len(guesses[q])
                         /\ lockedUntil[q] = 0 => attempts[q] < MaxAttempts
                         /\ lockedUntil[q] # 0 =>
                               \A i \in DOMAIN guesses[q] : guesses[q][i] + Lockout <= lockedUntil[q]
                         /\ \A i \in DOMAIN guesses[q] :
                               i <= Len(guesses[q]) - attempts[q] => guesses[q][i] + Lockout <= now
      BY <1>1 DEF Counted
    <2>1. CASE state[q] = "live"
      BY <2>1 DEF Counted
    <2>2. CASE state[q] = "asked"
      <3>1. guesses[q] = <<>> /\ attempts[q] = 0 /\ lockedUntil[q] = 0
        BY <2>2 DEF Fresh
      <3>2. QED
        BY <3>1, CodeAssumption
    <2>3. QED
      BY <1>2, <2>1, <2>2
  <1>7. QED
    BY <1>3, <1>4, <1>5, <1>6

\* Begin, Select, LockRow, Refuse, MarkVerified and failures: the rows stay as they are.
LEMMA WaitCodeInv ==
  ASSUME CodeInv, NEW c \in Calls,
         Begin(c) \/ Select(c) \/ LockRow(c) \/ Refuse(c) \/ MarkVerified(c) \/ CallFails(c)
  PROVE  CodeInv'
  <1>. USE DEF rowVars, callVars, CodeInv
  <1>1. UNCHANGED <<now, rowVars, guess, guesses>>
    BY DEF Begin, Select, LockRow, Refuse, MarkVerified, CallFails, MoveTo
  <1>2. TypeOK'
    <2>0. /\ pc \in [Calls -> Steps] /\ target \in [Calls -> Rows \cup {NoRow}]
          /\ holder \in [Rows -> Calls \cup {NoCall}] /\ read \in [Calls -> Reads]
          /\ \A d \in Calls : pc[d] \in {"wait", "answer", "mark"} => target[d] \in Rows
      BY DEF TypeOK
    <2>1. CASE Begin(c)
      BY <1>1, <2>1 DEF Begin, MoveTo, TypeOK, Steps
    <2>2. CASE Select(c)
      <3>1. UNCHANGED <<verified, guess, began, read, holder>>
        BY <2>2 DEF Select, MoveTo
      <3>2. \E s \in {"refused", "wait"}, t \in Rows \cup {NoRow} :
              /\ pc' = [pc EXCEPT ![c] = s] /\ (s = "wait" => t \in Rows)
              /\ target' = [target EXCEPT ![c] = t]
        <4>1. CASE MoveTo(c, "refused") /\ UNCHANGED target
          <5>1. target' = [target EXCEPT ![c] = target[c]] /\ target[c] \in Rows \cup {NoRow}
            BY <2>0, <4>1
          <5>2. QED
            BY <4>1, <5>1 DEF MoveTo
        <4>2. CASE \E r \in Live : target' = [target EXCEPT ![c] = r] /\ MoveTo(c, "wait")
          BY <4>2 DEF Live, MoveTo
        <4>3. QED
          BY <2>2, <4>1, <4>2 DEF Select
      <3>3. pc' \in [Calls -> Steps] /\ target' \in [Calls -> Rows \cup {NoRow}]
        BY <2>0, <3>2 DEF Steps
      <3>4. \A d \in Calls : pc'[d] \in {"wait", "answer", "mark"} => target'[d] \in Rows
        BY <2>0, <3>2
      <3>5. QED
        BY <1>1, <3>1, <3>3, <3>4 DEF TypeOK
    <2>3. CASE LockRow(c)
      <3>1. target[c] \in Rows
        BY <2>0, <2>3 DEF LockRow
      <3>2. [attempts |-> attempts[target[c]], lockedUntil |-> lockedUntil[target[c]],
             expired |-> expiresAt[target[c]] <= began[c]] \in Reads
        BY <3>1, HistoryTypes DEF Reads
      <3>3. read' \in [Calls -> Reads]
        <4>1. read' = read \/ read' = [read EXCEPT ![c] =
                  [attempts |-> attempts[target[c]], lockedUntil |-> lockedUntil[target[c]],
                   expired |-> expiresAt[target[c]] <= began[c]]]
          BY <2>3 DEF LockRow
        <4>2. QED
          BY <2>0, <3>2, <4>1
      <3>4. holder' \in [Rows -> Calls \cup {NoCall}]
        BY <2>0, <2>3, <3>1 DEF LockRow
      <3>5. /\ pc' \in [Calls -> Steps]
            /\ UNCHANGED <<verified, began, target>>
            /\ \A d \in Calls : pc'[d] \in {"wait", "answer", "mark"} => target[d] \in Rows
        BY <2>0, <2>3, <3>1 DEF LockRow, MoveTo, Steps
      <3>6. QED
        BY <1>1, <3>3, <3>4, <3>5 DEF TypeOK
    <2>4. CASE Refuse(c)
      BY <1>1, <2>4 DEF Refuse, Release, MoveTo, TypeOK, Steps
    <2>5. CASE MarkVerified(c)
      BY <1>1, <2>5 DEF MarkVerified, MoveTo, TypeOK, Steps
    <2>6. CASE CallFails(c)
      BY <1>1, <2>6 DEF CallFails, Release, MoveTo, TypeOK, Steps
    <2>7. QED
      BY <2>1, <2>2, <2>3, <2>4, <2>5, <2>6
  <1>3. HoldsItsRow'
    <2>. SUFFICES ASSUME NEW d \in Calls, pc'[d] = "answer"
                  PROVE  /\ holder'[target'[d]] = d
                         /\ state[target'[d]] = "live"
                         /\ read'[d].attempts = attempts[target'[d]]
                         /\ read'[d].lockedUntil = lockedUntil[target'[d]]
      BY <1>1 DEF HoldsItsRow
    <2>1. CASE d = c
      <3>1. LockRow(c) /\ state[target[c]] = "live"
        BY <2>1 DEF Begin, Select, LockRow, Refuse, MarkVerified, CallFails, MoveTo, TypeOK
      <3>2. target[c] \in Rows /\ target' = target
        BY <3>1 DEF LockRow, TypeOK
      <3>3. QED
        BY <2>1, <3>1, <3>2 DEF LockRow, TypeOK
    <2>2. CASE d # c
      <3>1. pc[d] = "answer" /\ target'[d] = target[d] /\ read'[d] = read[d]
        BY <2>2 DEF Begin, Select, LockRow, Refuse, MarkVerified, CallFails, MoveTo, TypeOK
      <3>2. holder[target[d]] = d /\ target[d] \in Rows /\ d # NoCall
        BY <3>1, CodeAssumption DEF HoldsItsRow, TypeOK
      <3>3. holder'[target[d]] = d
        BY <2>2, <3>2 DEF Begin, Select, LockRow, Refuse, MarkVerified, CallFails, Release, TypeOK
      <3>4. QED
        BY <3>1, <3>2, <3>3 DEF HoldsItsRow
    <2>3. QED
      BY <2>1, <2>2
  <1>4. /\ \A d \in Calls : pc'[d] \in {"mark", "verified"} => pc[d] \in {"mark", "verified"} /\ target'[d] = target[d]
    BY DEF Begin, Select, LockRow, Refuse, MarkVerified, CallFails, MoveTo, TypeOK
  <1>5. Fresh' /\ UsedUp' /\ Past' /\ Counted' /\ GuessesCapped' /\ CodeWorksOnce'
    <2>1. UsedUp' /\ CodeWorksOnce'
      BY <1>1, <1>4 DEF UsedUp, CodeWorksOnce
    <2>2. Fresh' /\ Past' /\ Counted' /\ GuessesCapped'
      BY <1>1 DEF Fresh, Past, Counted, GuessesCapped
    <2>3. QED
      BY <2>1, <2>2
  <1>6. QED
    BY <1>2, <1>3, <1>5

-----------------------------------------------------------------------------
(* The steps that compare a guess.                                          *)

\* A comparison happens on a live, unlocked row, and is the newest entry of its history.
LEMMA ComparesFacts ==
  ASSUME CodeInv, NEW c \in Calls, Compares(c)
  PROVE  /\ target[c] \in Rows
         /\ state[target[c]] = "live" /\ holder[target[c]] = c
         /\ read[c].attempts = attempts[target[c]] /\ read[c].lockedUntil = lockedUntil[target[c]]
         /\ lockedUntil[target[c]] <= now
         /\ guesses' \in [Rows -> Seq(Times)]
         /\ \A q \in Rows : q # target[c] => guesses'[q] = guesses[q]
         /\ Len(guesses'[target[c]]) = Len(guesses[target[c]]) + 1
         /\ DOMAIN guesses'[target[c]] = 1..(Len(guesses[target[c]]) + 1)
         /\ guesses'[target[c]][Len(guesses[target[c]]) + 1] = now
         /\ \A i \in DOMAIN guesses[target[c]] : guesses'[target[c]][i] = guesses[target[c]][i]
  <1>. DEFINE r == target[c]
  <1>. USE DEF CodeInv
  <1>1. pc[c] = "answer" /\ ~StillLocked(c) /\ guesses' = [guesses EXCEPT ![r] = Append(guesses[r], now)]
    BY DEF Compares
  <1>2. r \in Rows /\ now \in Times
    BY <1>1 DEF TypeOK
  <1>3. state[r] = "live" /\ holder[r] = c /\ read[c].attempts = attempts[r]
        /\ read[c].lockedUntil = lockedUntil[r]
    BY <1>1 DEF HoldsItsRow
  <1>4. lockedUntil[r] <= now
    BY <1>1, <1>2, <1>3, HistoryTypes DEF StillLocked
  <1>5. guesses[r] \in Seq(Times)
    BY <1>2 DEF TypeOK
  <1>6. guesses' \in [Rows -> Seq(Times)] /\ guesses'[r] = Append(guesses[r], now)
        /\ \A q \in Rows : q # r => guesses'[q] = guesses[q]
    BY <1>1, <1>2, <1>5 DEF TypeOK
  <1>7. QED
    BY <1>2, <1>3, <1>4, <1>5, <1>6

\* What every comparison, right or wrong, preserves.
LEMMA ComparesKeepsCap ==
  ASSUME CodeInv, NEW c \in Calls, Compares(c)
  PROVE  GuessesCapped' /\ Past'
  <1>. DEFINE r == target[c]
              n == Len(guesses[r])
  <1>1. /\ r \in Rows /\ state[r] = "live" /\ lockedUntil[r] <= now
        /\ \A q \in Rows : q # r => guesses'[q] = guesses[q]
        /\ DOMAIN guesses'[r] = 1..(n + 1)
        /\ guesses'[r][n + 1] = now
        /\ \A i \in DOMAIN guesses[r] : guesses'[r][i] = guesses[r][i]
    BY ComparesFacts
  <1>2. /\ n \in Nat /\ DOMAIN guesses[r] = 1..n /\ now \in Nat /\ attempts[r] \in Nat
        /\ lockedUntil[r] \in Nat /\ \A i \in 1..n : guesses[r][i] \in Nat
    BY <1>1, HistoryTypes DEF CodeInv
  <1>3. now' = now
    BY DEF Compares
  <1>4. Past'
    <2>. SUFFICES ASSUME NEW q \in Rows, NEW i \in DOMAIN guesses'[q] PROVE guesses'[q][i] <= now
      BY <1>3 DEF Past
    <2>1. CASE q # r
      BY <1>1, <2>1 DEF CodeInv, Past
    <2>2. CASE q = r /\ i \in 1..n
      BY <1>1, <1>2, <2>2 DEF CodeInv, Past
    <2>3. CASE q = r /\ i = n + 1
      BY <1>1, <1>2, <2>3
    <2>4. QED
      BY <1>1, <1>2, <2>1, <2>2, <2>3
  <1>5. GuessesCapped'
    <2>. SUFFICES ASSUME NEW q \in Rows, NEW i \in DOMAIN guesses'[q], NEW j \in DOMAIN guesses'[q],
                         j = i + MaxAttempts
                  PROVE  guesses'[q][j] >= guesses'[q][i] + Lockout
      BY DEF GuessesCapped
    <2>1. CASE q # r
      BY <1>1, <2>1 DEF CodeInv, GuessesCapped
    <2>2. CASE q = r /\ j \in 1..n
      <3>1. i \in 1..n /\ j \in 1..n
        BY <1>1, <1>2, <2>2, CodeAssumption
      <3>2. guesses[r][j] >= guesses[r][i] + Lockout
        BY <1>1, <1>2, <3>1 DEF CodeInv, GuessesCapped
      <3>3. QED
        BY <1>1, <1>2, <2>2, <3>1, <3>2
    <2>3. CASE q = r /\ j = n + 1
      <3>1. i \in 1..n
        <4>1. i \in 1..(n + 1)
          BY <1>1, <2>3
        <4>2. QED
          BY <1>2, <2>3, <4>1, CodeAssumption
      <3>2. guesses[r][i] + Lockout <= now
        <4>1. CASE lockedUntil[r] # 0
          <5>1. guesses[r][i] + Lockout <= lockedUntil[r]
            BY <1>1, <1>2, <3>1, <4>1 DEF CodeInv, Counted
          <5>2. QED
            BY <1>1, <1>2, <3>1, <5>1, CodeAssumption
        <4>2. CASE lockedUntil[r] = 0
          <5>1. attempts[r] < MaxAttempts
            BY <1>1, <4>2 DEF CodeInv, Counted
          <5>2. i <= n - attempts[r]
            BY <1>2, <2>3, <3>1, <5>1, CodeAssumption
          <5>3. QED
            BY <1>1, <1>2, <3>1, <5>2 DEF CodeInv, Counted
        <4>3. QED
          BY <4>1, <4>2
      <3>3. QED
        BY <1>1, <1>2, <2>3, <3>1, <3>2, CodeAssumption
    <2>4. QED
      BY <1>1, <1>2, <2>1, <2>2, <2>3
  <1>6. QED
    BY <1>4, <1>5

\* The other calls that are about to answer have rows of their own.
LEMMA ComparesKeepsOthers ==
  ASSUME CodeInv, NEW c \in Calls, Compares(c), NEW d \in Calls, d # c, pc[d] = "answer"
  PROVE  /\ target[d] \in Rows /\ target[d] # target[c]
         /\ holder'[target[d]] = d
         /\ state[target[d]] = "live"
  <1>. USE DEF CodeInv
  <1>1. target[d] \in Rows /\ holder[target[d]] = d /\ state[target[d]] = "live"
    BY DEF TypeOK, HoldsItsRow
  <1>2. holder[target[c]] = c
    BY DEF Compares, HoldsItsRow
  <1>3. QED
    BY <1>1, <1>2 DEF Compares, Release

LEMMA AcceptCodeInv ==
  ASSUME CodeInv, NEW c \in Calls, Accept(c)
  PROVE  CodeInv'
  <1>. USE DEF CodeInv
  <1>. DEFINE r == target[c]
  <1>1. Compares(c)
    BY DEF Accept
  <1>2. /\ r \in Rows /\ state[r] = "live"
        /\ guesses' \in [Rows -> Seq(Times)]
        /\ \A q \in Rows : q # r => guesses'[q] = guesses[q]
    BY <1>1, ComparesFacts
  <1>3. /\ state' = [state EXCEPT ![r] = "consumed"]
        /\ pc' = [pc EXCEPT ![c] = "mark"]
        /\ UNCHANGED <<now, code, attempts, lockedUntil, expiresAt, verified, guess, began, target, read>>
    BY DEF Accept, Compares, MoveTo
  <1>4. TypeOK'
    <2>1. state' \in [Rows -> States] /\ pc' \in [Calls -> Steps]
      BY <1>3 DEF TypeOK, States, Steps
    <2>2. holder' \in [Rows -> Calls \cup {NoCall}]
      BY <1>1 DEF Compares, Release, TypeOK
    <2>3. \A d \in Calls : pc'[d] \in {"wait", "answer", "mark"} => target[d] \in Rows
      BY <1>2, <1>3 DEF TypeOK
    <2>4. QED
      BY <1>2, <1>3, <2>1, <2>2, <2>3 DEF TypeOK
  <1>5. HoldsItsRow'
    <2>. SUFFICES ASSUME NEW d \in Calls, pc'[d] = "answer"
                  PROVE  /\ holder'[target[d]] = d
                         /\ state'[target[d]] = "live"
                         /\ read[d].attempts = attempts[target[d]]
                         /\ read[d].lockedUntil = lockedUntil[target[d]]
      BY <1>3 DEF HoldsItsRow
    <2>1. d # c /\ pc[d] = "answer"
      BY <1>3 DEF TypeOK
    <2>2. target[d] \in Rows /\ target[d] # r /\ holder'[target[d]] = d /\ state[target[d]] = "live"
      BY <1>1, <2>1, ComparesKeepsOthers
    <2>3. QED
      BY <1>3, <2>1, <2>2 DEF HoldsItsRow, TypeOK
  <1>6. Fresh' /\ Counted'
    <2>1. \A q \in Rows : q # r => state'[q] = state[q]
      BY <1>3 DEF TypeOK
    <2>2. state'[r] = "consumed"
      BY <1>2, <1>3 DEF TypeOK
    <2>3. QED
      BY <1>2, <1>3, <2>1, <2>2 DEF Fresh, Counted
  <1>7. UsedUp' /\ CodeWorksOnce'
    <2>1. \A d \in Calls : pc'[d] \in {"mark", "verified"} => d = c \/ pc[d] \in {"mark", "verified"}
      BY <1>3 DEF TypeOK
    <2>2. \A d \in Calls : pc[d] \in {"mark", "verified"} =>
             target[d] \in Rows /\ target[d] # r /\ state[target[d]] = "consumed"
      BY <1>2 DEF UsedUp
    <2>3. state'[r] = "consumed" /\ \A q \in Rows : q # r => state'[q] = state[q]
      BY <1>2, <1>3 DEF TypeOK
    <2>4. QED
      BY <1>2, <1>3, <2>1, <2>2, <2>3 DEF UsedUp, CodeWorksOnce
  <1>8. QED
    BY <1>1, <1>4, <1>5, <1>6, <1>7, ComparesKeepsCap

LEMMA RejectCodeInv ==
  ASSUME CodeInv, NEW c \in Calls, Reject(c)
  PROVE  CodeInv'
  <1>. USE DEF CodeInv
  <1>. DEFINE r == target[c]
              n == Len(guesses[r])
              counted == (IF lockedUntil[r] # 0 THEN 0 ELSE attempts[r]) + 1
              until == IF counted >= MaxAttempts THEN now + Lockout ELSE 0
  <1>1. Compares(c)
    BY DEF Reject
  <1>2. /\ r \in Rows /\ state[r] = "live"
        /\ read[c].attempts = attempts[r] /\ read[c].lockedUntil = lockedUntil[r]
        /\ lockedUntil[r] <= now
        /\ guesses' \in [Rows -> Seq(Times)]
        /\ \A q \in Rows : q # r => guesses'[q] = guesses[q]
        /\ Len(guesses'[r]) = n + 1
        /\ DOMAIN guesses'[r] = 1..(n + 1)
        /\ guesses'[r][n + 1] = now
        /\ \A i \in DOMAIN guesses[r] : guesses'[r][i] = guesses[r][i]
    BY <1>1, ComparesFacts
  <1>3. /\ n \in Nat /\ DOMAIN guesses[r] = 1..n /\ now \in Nat /\ attempts[r] \in Nat
        /\ lockedUntil[r] \in Nat /\ \A i \in 1..n : guesses[r][i] \in Nat
    BY <1>2, HistoryTypes
  <1>4. /\ attempts' = [attempts EXCEPT ![r] = counted]
        /\ lockedUntil' = [lockedUntil EXCEPT ![r] = until]
        /\ pc' = [pc EXCEPT ![c] = "refused"]
        /\ UNCHANGED <<now, state, code, expiresAt, verified, guess, began, target, read>>
    BY <1>2 DEF Reject, Compares, MoveTo
  <1>. counted \in Nat /\ until \in Nat
    BY <1>3, CodeAssumption
  <1>5. counted \in 1..MaxAttempts /\ (until = 0 => counted < MaxAttempts) /\ counted <= n + 1
    <2>1. lockedUntil[r] = 0 => attempts[r] < MaxAttempts
      BY <1>2 DEF Counted
    <2>2. attempts[r] <= n
      BY <1>2 DEF Counted
    <2>3. QED
      BY <1>3, <2>1, <2>2, CodeAssumption
  <1>6. TypeOK'
    <2>1. attempts' \in [Rows -> 0..MaxAttempts]
      <3>. HIDE DEF counted
      <3>1. counted \in 0..MaxAttempts
        BY <1>5, CodeAssumption
      <3>2. QED
        BY <1>4, <3>1 DEF TypeOK
    <2>2. until \in 0..(MaxTime + Lockout)
      BY CodeAssumption DEF TypeOK, Times
    <2>3. lockedUntil' \in [Rows -> 0..(MaxTime + Lockout)]
      BY <1>4, <2>2 DEF TypeOK
    <2>4. holder' \in [Rows -> Calls \cup {NoCall}]
      BY <1>1 DEF Compares, Release, TypeOK
    <2>5. pc' \in [Calls -> Steps]
          /\ \A d \in Calls : pc'[d] \in {"wait", "answer", "mark"} => target[d] \in Rows
      BY <1>2, <1>4 DEF TypeOK, Steps
    <2>6. QED
      BY <1>2, <1>4, <2>1, <2>3, <2>4, <2>5 DEF TypeOK
  <1>7. HoldsItsRow'
    <2>. SUFFICES ASSUME NEW d \in Calls, pc'[d] = "answer"
                  PROVE  /\ holder'[target[d]] = d
                         /\ state[target[d]] = "live"
                         /\ read[d].attempts = attempts'[target[d]]
                         /\ read[d].lockedUntil = lockedUntil'[target[d]]
      BY <1>4 DEF HoldsItsRow
    <2>1. d # c /\ pc[d] = "answer"
      BY <1>4 DEF TypeOK
    <2>2. target[d] \in Rows /\ target[d] # r /\ holder'[target[d]] = d /\ state[target[d]] = "live"
      BY <1>1, <2>1, ComparesKeepsOthers
    <2>3. attempts'[target[d]] = attempts[target[d]] /\ lockedUntil'[target[d]] = lockedUntil[target[d]]
      BY <1>4, <2>2 DEF TypeOK
    <2>4. QED
      BY <2>1, <2>2, <2>3 DEF HoldsItsRow
  <1>8. \A q \in Rows : q # r => attempts'[q] = attempts[q] /\ lockedUntil'[q] = lockedUntil[q]
    BY <1>4 DEF TypeOK
  <1>9. attempts'[r] = counted /\ lockedUntil'[r] = until
    BY <1>2, <1>4 DEF TypeOK
  <1>10. Fresh'
    BY <1>2, <1>4, <1>8 DEF Fresh
  <1>11. Counted'
    <2>1. \A q \in Rows : q # r /\ state[q] = "live" =>
            /\ attempts'[q] <= Len(guesses'[q])
            /\ lockedUntil'[q] = 0 => attempts'[q] < MaxAttempts
            /\ lockedUntil'[q] # 0 =>
                  \A i \in DOMAIN guesses'[q] : guesses'[q][i] + Lockout <= lockedUntil'[q]
            /\ \A i \in DOMAIN guesses'[q] :
                  i <= Len(guesses'[q]) - attempts'[q] => guesses'[q][i] + Lockout <= now
      BY <1>2, <1>8 DEF Counted
    <2>2. counted <= n + 1 /\ (until = 0 => counted < MaxAttempts)
      BY <1>5
    <2>3. ASSUME until # 0, NEW i \in 1..(n + 1) PROVE guesses'[r][i] + Lockout <= until
      <3>1. until = now + Lockout
        BY <2>3
      <3>2. guesses'[r][i] <= now /\ guesses'[r][i] \in Nat
        <4>1. CASE i = n + 1
          BY <1>2, <1>3, <4>1
        <4>2. CASE i \in 1..n
          BY <1>2, <1>3, <4>2 DEF Past
        <4>3. QED
          BY <1>3, <2>3, <4>1, <4>2
      <3>3. QED
        BY <1>3, <3>1, <3>2, CodeAssumption
    <2>4. ASSUME NEW i \in 1..(n + 1), i <= (n + 1) - counted PROVE guesses'[r][i] + Lockout <= now
      <3>1. i \in 1..n
        BY <1>3, <1>5, <2>4, CodeAssumption
      <3>2. guesses'[r][i] = guesses[r][i] /\ guesses[r][i] \in Nat
        BY <1>2, <1>3, <3>1
      <3>3. CASE lockedUntil[r] # 0
        <4>1. guesses[r][i] + Lockout <= lockedUntil[r]
          BY <1>2, <1>3, <3>1, <3>3 DEF Counted
        <4>2. QED
          BY <1>2, <1>3, <3>2, <4>1, CodeAssumption
      <3>4. CASE lockedUntil[r] = 0
        <4>1. i <= n - attempts[r]
          BY <1>3, <2>4, <3>1, <3>4
        <4>2. QED
          BY <1>2, <1>3, <3>1, <3>2, <4>1 DEF Counted
      <3>5. QED
        BY <3>3, <3>4
    <2>5. /\ attempts'[r] <= Len(guesses'[r])
          /\ lockedUntil'[r] = 0 => attempts'[r] < MaxAttempts
          /\ lockedUntil'[r] # 0 =>
                \A i \in DOMAIN guesses'[r] : guesses'[r][i] + Lockout <= lockedUntil'[r]
          /\ \A i \in DOMAIN guesses'[r] :
                i <= Len(guesses'[r]) - attempts'[r] => guesses'[r][i] + Lockout <= now
      BY <1>2, <1>9, <2>2, <2>3, <2>4
    <2>6. now' = now /\ \A q \in Rows : state'[q] = "live" => q = r \/ state[q] = "live"
      BY <1>4
    <2>7. QED
      BY <2>1, <2>5, <2>6 DEF Counted
  <1>12. UsedUp' /\ CodeWorksOnce'
    <2>1. \A d \in Calls : pc'[d] \in {"mark", "verified"} => pc[d] \in {"mark", "verified"}
      BY <1>4 DEF TypeOK
    <2>2. QED
      BY <1>4, <2>1 DEF UsedUp, CodeWorksOnce
  <1>13. QED
    BY <1>1, <1>6, <1>7, <1>10, <1>11, <1>12, ComparesKeepsCap

-----------------------------------------------------------------------------
(* The theorems.                                                            *)

LEMMA NextCodeInv == CodeInv /\ [Next]_vars => CodeInv'
  <1>. SUFFICES ASSUME CodeInv, [Next]_vars PROVE CodeInv'
    OBVIOUS
  <1>1. CASE Tick
    BY <1>1, TickCodeInv
  <1>2. CASE \E r \in Rows : AskForCode(r) \/ IssueToken(r) \/ IssueFails(r)
    BY <1>2, IssueCodeInv
  <1>3. CASE \E c \in Calls : Verify(c) \/ CallFails(c)
    BY <1>3, WaitCodeInv, AcceptCodeInv, RejectCodeInv DEF Verify
  <1>4. CASE UNCHANGED vars
    BY <1>4 DEF vars, rowVars, callVars, CodeInv, TypeOK, HoldsItsRow, Fresh, Past, Counted,
       UsedUp, GuessesCapped, CodeWorksOnce
  <1>5. QED
    BY <1>1, <1>2, <1>3, <1>4 DEF Next

LEMMA CodeInvHolds == Spec => []CodeInv
  BY InitCodeInv, NextCodeInv, PTL DEF Spec

\* Every variable keeps its type; a counter never passes the cap (ConsumeOTP).
THEOREM TypeCorrect == Spec => []TypeOK
  <1>1. CodeInv => TypeOK
    BY DEF CodeInv
  <1>2. QED
    BY <1>1, CodeInvHolds, PTL

\* In less than a lockout one code is compared with at most MaxAttempts guesses,
\* however many requests present them in parallel (ConsumeOTP's FOR UPDATE).
THEOREM CapIsReal == Spec => []GuessesCapped
  <1>1. CodeInv => GuessesCapped
    BY DEF CodeInv
  <1>2. QED
    BY <1>1, CodeInvHolds, PTL

\* One code verifies one request (ConsumeOTP's consumed_at under the row lock).
THEOREM CodeSingleUse == Spec => []CodeWorksOnce
  <1>1. CodeInv => CodeWorksOnce
    BY DEF CodeInv
  <1>2. QED
    BY <1>1, CodeInvHolds, PTL

\* A locked code is not accepted, whoever was on the way when it was locked.
THEOREM LockHolds == Spec => LockedIsRefused
  <1>. DEFINE Step == \A r \in Rows :
                state[r] = "live" /\ state'[r] = "consumed" => lockedUntil[r] <= now
  <1>1. CodeInv /\ [Next]_vars => [Step]_vars
    <2>. SUFFICES ASSUME CodeInv, Next, NEW r \in Rows, state[r] = "live", state'[r] = "consumed"
                  PROVE  lockedUntil[r] <= now
      OBVIOUS
    <2>1. CASE Tick
      BY <2>1 DEF Tick, rowVars
    <2>2. CASE \E q \in Rows : AskForCode(q) \/ IssueToken(q) \/ IssueFails(q)
      BY <2>2 DEF AskForCode, IssueToken, IssueFails, Live, CodeInv, TypeOK
    <2>3. ASSUME NEW c \in Calls, Accept(c) PROVE lockedUntil[r] <= now
      <3>1. Compares(c) /\ state' = [state EXCEPT ![target[c]] = "consumed"]
        BY <2>3 DEF Accept
      <3>2. r = target[c]
        BY <3>1 DEF CodeInv, TypeOK
      <3>3. QED
        BY <3>1, <3>2, ComparesFacts
    <2>4. ASSUME NEW c \in Calls,
                 Begin(c) \/ Select(c) \/ LockRow(c) \/ Refuse(c) \/ Reject(c)
                   \/ MarkVerified(c) \/ CallFails(c)
          PROVE  lockedUntil[r] <= now
      BY <2>4 DEF Begin, Select, LockRow, Refuse, Reject, MarkVerified, CallFails, rowVars
    <2>5. QED
      BY <2>1, <2>2, <2>3, <2>4 DEF Next, Verify
  <1>2. QED
    BY <1>1, CodeInvHolds, PTL DEF Spec, LockedIsRefused
=============================================================================
