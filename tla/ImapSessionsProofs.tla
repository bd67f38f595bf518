------------------------- MODULE ImapSessionsProofs -------------------------
(***************************************************************************)
(* Proofs about deliveries into mailboxes that IMAP sessions and the web   *)
(* client change meanwhile, for every number of mailboxes, messages,       *)
(* transactions and sessions: what was acknowledged was stored, a message  *)
(* delivered again is stored once, UIDs ascend in every folder, stored     *)
(* mail stays until it is removed, and a client and its session number the *)
(* messages alike.                                                         *)
(*                                                                         *)
(* And, from "Functions that go through a list" on, about what is made of  *)
(* a message, for every message, draft and limit: its files are listed or  *)
(* said to be missing, its bodies are the first that can be read, and what *)
(* is sent here is what is read here.                                      *)
(***************************************************************************)
EXTENDS ImapSessions, Conversation, FiniteSetTheorems, SequenceTheorems, WellFoundedInduction, TLAPS

-----------------------------------------------------------------------------
(* The invariant.                                                           *)

CallRecord == [at : CallSteps, to : SUBSET Boxes, left : Seq(Boxes)]

\* A row, whatever its number.
RowIn(U) == [box : Boxes, dir : Names, uid : U, mail : Mails, smtp : BOOLEAN, deleted : BOOLEAN]
IsRow(r) == r \in RowIn({r.uid})

Typed ==
    /\ call \in [Calls -> CallRecord]
    /\ landed \in [Boxes \X Mails -> Nat]
    /\ \A r \in rows : IsRow(r)
    /\ \A t \in open : \A r \in t.new : IsRow(r)

\* The same message in the same mailbox, by the same way.
SameLetter(r, q) == q.box = r.box /\ q.mail = r.mail /\ q.smtp = r.smtp

Marked(b, m) == \E mark \in Marks : <<b, m, mark>> \in marks

Stored(r) == r.smtp => landed[<<r.box, r.mail>>] > 0

\* What SMTP is said to have delivered was delivered.
RowsLanded == \A r \in rows : Stored(r)

\* What a transaction of a web client or session writes has been there before.
OthersLanded == \A t \in open : t.by \notin Calls => \A r \in t.new : Stored(r)

\* What replaces a row is the same letter.
CarriedOver == \A t \in open : \A r \in t.old : \E q \in t.new : SameLetter(r, q)

\* The advisory lock.
OneLock == \A t, u \in open : t.locks /\ u.locks /\ t.box = u.box => t = u

\* A delivery that is about to commit holds the lock of its mailbox, and its message has
\* not been stored there, or a client has moved or removed it.
Delivering(c, t) ==
    /\ call[c].at = "commit"
    /\ t.locks
    /\ t.box = Head(call[c].left)
    /\ \A r \in t.new : r.box = t.box /\ r.mail = MailOf[c] /\ r.smtp
    /\ t.new # {}
    /\ MailOf[c] \in Unnamed \/ landed[<<t.box, MailOf[c]>>] = 0 \/ Marked(t.box, MailOf[c])

DeliveriesHold == \A c \in Calls : \A t \in open : t.by = c => Delivering(c, t)

\* The elements of a sequence.
Members(s) == {s[i] : i \in DOMAIN s}

\* Whoever is a recipient is still to come, or has the message.
ToCome(c) ==
    /\ call[c].at = "rcpt" => call[c].to \subseteq Members(call[c].left)
    /\ call[c].at \in {"folder", "insert", "commit"} =>
          /\ call[c].left # <<>>
          /\ \A b \in call[c].to : b \in Members(call[c].left) \/ landed[<<b, MailOf[c]>>] > 0

RestIsToCome == \A c \in Calls : ToCome(c)

\* AcknowledgedIsStored of one transaction.
Acknowledged(c) == call[c].at = "acked" => \A b \in call[c].to : landed[<<b, MailOf[c]>>] > 0

\* What was stored is recognised, unless a client has moved or removed it.
StoredIsKnown ==
    \A b \in Boxes, m \in Mails : landed[<<b, m>>] > 0 =>
        Marked(b, m) \/ \E r \in rows : r.box = b /\ r.mail = m /\ r.smtp

StoreInv ==
    /\ Typed
    /\ RowsLanded
    /\ OthersLanded
    /\ CarriedOver
    /\ OneLock
    /\ DeliveriesHold
    /\ RestIsToCome
    /\ StoredIsKnown
    /\ AcknowledgedIsStored
    /\ RetryStoredOnce

\* A session, whatever its client knows.
IsSession(x) == DOMAIN x = {"at", "dir", "snap", "told", "lost", "ids", "seen", "away", "found"}

\* What EXPUNGE is about to delete was seen flagged, or was not in the folder.
Remembers(x) ==
    /\ IsSession(x) /\ x.dir \in Names
    /\ x.at = "purge" => x.ids \subseteq x.seen \cup x.away

SessionsInv == DOMAIN sess = Sessions /\ \A s \in Sessions : Remembers(sess[s])

MailInv == StoreInv /\ SessionsInv

-----------------------------------------------------------------------------
(* Numbers and folders.                                                     *)

\* The same message in the same mailbox under the same number.
SameNumber(r, q) == q.box = r.box /\ q.uid = r.uid /\ q.mail = r.mail

Numbered ==
    /\ uid \in Nat
    /\ \A r \in rows : r.uid \in 1..uid
    /\ \A t \in open : \A q \in t.new : q.uid \in 1..uid

OneUid == \A r, q \in rows : r.box = q.box /\ r.uid = q.uid => r = q

Folders ==
    /\ validity \in Nat
    /\ dirs \in [Boxes -> [Names -> 0..validity]]
    /\ \A b, c \in Boxes, d, e \in Names : dirs[b][d] # 0 /\ dirs[b][d] = dirs[c][e] => b = c /\ d = e
    /\ \A r \in rows : dirs[r.box][r.dir] # 0

\* No two transactions replace one row or create one folder.
Apart ==
    \A t, u \in open : t # u =>
        /\ t.old \cap u.old = {}
        /\ t.box = u.box => t.makes \cap u.makes = {}

\* A folder that is not there yet has been announced to nobody.
Announced ==
    /\ announced \in [1..MaxFolders -> Nat]
    /\ \A v \in 1..MaxFolders : announced[v] <= uid + 1 /\ (v > validity => announced[v] = 0)

\* New numbers are above all that clients have seen of the mailbox.
Above(t) ==
    \A q \in t.new :
        /\ \A r \in rows : r.box = t.box => r.uid < q.uid
        /\ \A d \in Names : dirs[t.box][d] \in 1..MaxFolders => announced[dirs[t.box][d]] <= q.uid

\* INBOX renamed: the numbers stay, in a new folder.
Follows(t) == \A q \in t.new : q.dir \in t.makes /\ \E r \in t.old : SameNumber(r, q)

\* What a transaction writes has a place when it commits.
Placed(t) ==
    /\ t.box \in Boxes
    /\ t.old \subseteq rows
    /\ t.makes = {} \/ \E d \in Names : t.makes = {d} /\ dirs[t.box][d] = 0
    /\ \A q \in t.new : q.box = t.box /\ (dirs[t.box][q.dir] # 0 \/ q.dir \in t.makes)
    /\ \A q, p \in t.new : q.uid = p.uid => q = p
    /\ IF t.locks THEN Above(t) ELSE Follows(t)

NumbersInv ==
    /\ Numbered
    /\ OneUid
    /\ Folders
    /\ Apart
    /\ Announced
    /\ \A t \in open : Placed(t)

\* A MOVE has a copy of every message that it has seen under a number.
MovesKeep ==
    \A s \in Sessions : sess[s].at = "move" => \A t \in open : t.by = s =>
        /\ t.locks /\ t.box = BoxOf[s]
        /\ \A r \in rows : r.box = t.box /\ r.uid \in sess[s].seen =>
              \E q \in t.new : q.box = r.box /\ q.mail = r.mail

KeptInv == MovesKeep /\ KeptUntilRemoved

-----------------------------------------------------------------------------
(* Rows, recipients and the first state.                                    *)

LEMMA RowFields ==
  ASSUME NEW r, IsRow(r)
  PROVE  r.box \in Boxes /\ r.dir \in Names /\ r.mail \in Mails /\ r.smtp \in BOOLEAN /\ r.deleted \in BOOLEAN
  BY DEF IsRow, RowIn

LEMMA NewRow ==
  ASSUME NEW b \in Boxes, NEW d \in Names, NEW u, NEW m \in Mails, NEW smtp \in BOOLEAN, NEW flag \in BOOLEAN
  PROVE  IsRow([box |-> b, dir |-> d, uid |-> u, mail |-> m, smtp |-> smtp, deleted |-> flag])
  BY DEF IsRow, RowIn

\* A row keeps its letter when it gets another folder, number or flag.
LEMMA RowRenamed ==
  ASSUME NEW r, IsRow(r), NEW d \in Names
  PROVE  IsRow([r EXCEPT !.dir = d]) /\ SameLetter(r, [r EXCEPT !.dir = d])
  BY DEF IsRow, RowIn, SameLetter

LEMMA RowFlagged ==
  ASSUME NEW r, IsRow(r), NEW flag \in BOOLEAN
  PROVE  IsRow([r EXCEPT !.deleted = flag]) /\ SameLetter(r, [r EXCEPT !.deleted = flag])
  BY DEF IsRow, RowIn, SameLetter

LEMMA RowMoved ==
  ASSUME NEW r, IsRow(r), NEW d \in Names, NEW u
  PROVE  IsRow([r EXCEPT !.dir = d, !.uid = u]) /\ SameLetter(r, [r EXCEPT !.dir = d, !.uid = u])
  <1> DEFINE q == [r EXCEPT !.dir = d, !.uid = u]
  <1>1. q \in RowIn({u}) /\ q.uid = u /\ SameLetter(r, q)
    BY DEF IsRow, RowIn, SameLetter
  <1> HIDE DEF q
  <1>2. IsRow(q)
    BY <1>1 DEF IsRow
  <1>3. QED
    BY <1>1, <1>2 DEF q

LEMMA RowCopied ==
  ASSUME NEW r, IsRow(r), NEW d \in Names, NEW u
  PROVE  IsRow([r EXCEPT !.dir = d, !.smtp = FALSE, !.uid = u]) /\ ~[r EXCEPT !.dir = d, !.smtp = FALSE, !.uid = u].smtp
  <1> DEFINE q == [r EXCEPT !.dir = d, !.smtp = FALSE, !.uid = u]
  <1>1. q \in RowIn({u}) /\ q.uid = u /\ ~q.smtp
    BY DEF IsRow, RowIn
  <1> HIDE DEF q
  <1>2. IsRow(q)
    BY <1>1 DEF IsRow
  <1>3. QED
    BY <1>1, <1>2 DEF q

LEMMA MembersOfTail ==
  ASSUME NEW s \in Seq(Boxes), s # <<>>
  PROVE  /\ Head(s) \in Boxes /\ Tail(s) \in Seq(Boxes)
         /\ Members(s) \subseteq {Head(s)} \cup Members(Tail(s))
  <1>1. Head(s) = s[1] /\ Len(s) \in Nat \ {0} /\ DOMAIN s = 1..Len(s) /\ s[1] \in Boxes
    OBVIOUS
  <1>2. Tail(s) \in Seq(Boxes) /\ DOMAIN Tail(s) = 1..(Len(s) - 1)
    OBVIOUS
  <1>3. ASSUME NEW i \in DOMAIN s, i # 1 PROVE s[i] \in Members(Tail(s))
    <2>1. i - 1 \in DOMAIN Tail(s) /\ Tail(s)[i - 1] = s[i]
      BY <1>1, <1>2, <1>3
    <2>2. QED
      BY <2>1 DEF Members
  <1>4. QED
    BY <1>1, <1>2, <1>3 DEF Members

LEMMA MembersOfAppend ==
  ASSUME NEW s \in Seq(Boxes), NEW b \in Boxes
  PROVE  Append(s, b) \in Seq(Boxes) /\ Members(s) \cup {b} \subseteq Members(Append(s, b))
  <1>1. /\ DOMAIN Append(s, b) = 1..(Len(s) + 1) /\ DOMAIN s = 1..Len(s) /\ Len(s) \in Nat
        /\ \A i \in DOMAIN s : Append(s, b)[i] = s[i]
        /\ Append(s, b)[Len(s) + 1] = b
    OBVIOUS
  <1>2. QED
    BY <1>1 DEF Members

\* A list of the set, without repetitions, has all of it.
LEMMA ListOfSet ==
  ASSUME NEW S, IsFiniteSet(S)
  PROVE  /\ SetToSeq(S) \in [1..Cardinality(S) -> S]
         /\ \A x \in S : \E i \in 1..Cardinality(S) : SetToSeq(S)[i] = x
  <1>1. Cardinality(S) \in Nat /\ Bijection(1..Cardinality(S), S) # {}
    BY FS_CardinalityType DEF ExistsBijection
  <1>2. \E f \in [1..Cardinality(S) -> S] : IsInjective(f)
    BY <1>1 DEF Bijection, Injection
  <1>3. SetToSeq(S) \in [1..Cardinality(S) -> S] /\ IsInjective(SetToSeq(S))
    BY <1>2 DEF SetToSeq
  <1>4. SetToSeq(S) \in Injection(1..Cardinality(S), S)
    BY <1>3 DEF Injection
  <1>5. Cardinality(1..Cardinality(S)) = Cardinality(S)
    BY <1>1, FS_Interval
  <1>6. SetToSeq(S) \in Surjection(1..Cardinality(S), S)
    BY <1>4, <1>5, FS_Injection
  <1>7. QED
    BY <1>3, <1>6 DEF Surjection

LEMMA InitMailInv == Init => MailInv
  <1> SUFFICES ASSUME Init PROVE MailInv
    OBVIOUS
  <1> DEFINE held == SetToSeq(scene.held)
  <1>1. /\ scene \in Scenes /\ open = {} /\ marks = {}
        /\ rows = {[box |-> held[i][1], dir |-> DeliveryFolder(held[i][2]), uid |-> i,
                    mail |-> held[i][2], smtp |-> TRUE, deleted |-> FALSE] : i \in DOMAIN held}
        /\ call = [c \in Calls |-> [at |-> "rcpt", to |-> {}, left |-> <<>>]]
        /\ landed = [p \in Boxes \X Mails |-> IF p \in scene.held THEN 1 ELSE 0]
        /\ sess = [s \in Sessions |-> Out]
    BY DEF Init, StoreInit
  <1>2. scene.held \subseteq Boxes \X Mails /\ IsFiniteSet(scene.held)
    BY <1>1, StoreAssumption
  <1>3. /\ \A i \in DOMAIN held : held[i] \in scene.held
        /\ \A p \in scene.held : \E i \in DOMAIN held : held[i] = p
    BY <1>2, ListOfSet
  <1> HIDE DEF held
  <1>4. \A r \in rows : IsRow(r) /\ r.smtp /\ <<r.box, r.mail>> \in scene.held
    <2> SUFFICES ASSUME NEW i \in DOMAIN held,
                        NEW r, r = [box |-> held[i][1], dir |-> DeliveryFolder(held[i][2]), uid |-> i,
                                    mail |-> held[i][2], smtp |-> TRUE, deleted |-> FALSE]
                 PROVE  IsRow(r) /\ r.smtp /\ <<r.box, r.mail>> \in scene.held
      BY <1>1
    <2>1. held[i] \in scene.held /\ held[i] = <<held[i][1], held[i][2]>>
          /\ held[i][1] \in Boxes /\ held[i][2] \in Mails
      BY <1>2, <1>3
    <2>2. DeliveryFolder(held[i][2]) \in Names
      BY StoreAssumption DEF DeliveryFolder
    <2>3. QED
      BY <2>1, <2>2, NewRow
  <1>5. \A b \in Boxes, m \in Mails : landed[<<b, m>>] > 0 =>
            \E r \in rows : r.box = b /\ r.mail = m /\ r.smtp
    <2> SUFFICES ASSUME NEW b \in Boxes, NEW m \in Mails, landed[<<b, m>>] > 0
                 PROVE  \E r \in rows : r.box = b /\ r.mail = m /\ r.smtp
      OBVIOUS
    <2>1. <<b, m>> \in scene.held
      BY <1>1
    <2>2. PICK i \in DOMAIN held : held[i] = <<b, m>>
      BY <2>1, <1>3
    <2> DEFINE r == [box |-> held[i][1], dir |-> DeliveryFolder(held[i][2]), uid |-> i,
                     mail |-> held[i][2], smtp |-> TRUE, deleted |-> FALSE]
    <2>3. r \in rows
      BY <1>1
    <2>4. r.box = b /\ r.mail = m /\ r.smtp
      BY <2>2
    <2>5. QED
      BY <2>3, <2>4
  <1>6. Typed
    <2>1. call \in [Calls -> CallRecord]
      BY <1>1 DEF CallRecord, CallSteps
    <2>2. landed \in [Boxes \X Mails -> Nat]
      BY <1>1
    <2>3. QED
      BY <1>1, <1>4, <2>1, <2>2 DEF Typed
  <1>7. RowsLanded
    BY <1>1, <1>2, <1>4 DEF RowsLanded, Stored
  <1>8. StoredIsKnown
    BY <1>5 DEF StoredIsKnown
  <1>9. RestIsToCome /\ AcknowledgedIsStored
    BY <1>1 DEF RestIsToCome, ToCome, AcknowledgedIsStored
  <1>10. RetryStoredOnce
    BY <1>1 DEF RetryStoredOnce
  <1>11. OthersLanded /\ CarriedOver /\ OneLock /\ DeliveriesHold
    BY <1>1 DEF OthersLanded, CarriedOver, OneLock, DeliveriesHold
  <1>12. SessionsInv
    BY <1>1, StoreAssumption DEF SessionsInv, Remembers, IsSession, Out
  <1>13. QED
    BY <1>6, <1>7, <1>8, <1>9, <1>10, <1>11, <1>12 DEF MailInv, StoreInv
-----------------------------------------------------------------------------
(* Steps of the web client and of sessions: no delivery goes on or ends.    *)

\* What such a step may begin.
MayBegin(t) ==
    /\ t.by \notin Calls
    /\ \A r \in t.new : IsRow(r) /\ Stored(r)
    /\ \A r \in t.old : \E q \in t.new : SameLetter(r, q)
    /\ t.locks => LockFree(t.box)

LEMMA QuietStep ==
  ASSUME StoreInv,
         call' = call, landed' = landed, scene' = scene, marks \subseteq marks',
         \A q \in rows' : IsRow(q) /\ Stored(q),
         \A r \in rows : r.smtp => Marked(r.box, r.mail)' \/ \E q \in rows' : SameLetter(r, q),
         \A t \in open' : t \in open \/ MayBegin(t),
         \A t, u \in open' : t \in open \/ u \in open \/ t = u
  PROVE  StoreInv'
  <1> USE DEF StoreInv
  <1>1. \A b, m : Marked(b, m) => Marked(b, m)'
    BY DEF Marked
  <1>2. Typed'
    BY DEF Typed, MayBegin
  <1>3. RowsLanded'
    BY DEF RowsLanded, Stored
  <1>4. OthersLanded'
    BY DEF OthersLanded, Stored, MayBegin
  <1>5. CarriedOver'
    BY DEF CarriedOver, MayBegin
  <1>6. OneLock'
    <2> SUFFICES ASSUME NEW t \in open', NEW u \in open', t.locks, u.locks, t.box = u.box
                 PROVE  t = u
      BY DEF OneLock
    <2>1. CASE t \in open /\ u \in open
      BY <2>1 DEF OneLock
    <2>2. CASE t \in open /\ u \notin open
      BY <2>2 DEF MayBegin, LockFree
    <2>3. CASE t \notin open
      BY <2>3 DEF MayBegin, LockFree
    <2>4. QED
      BY <2>1, <2>2, <2>3
  <1>7. DeliveriesHold'
    <2> SUFFICES ASSUME NEW c \in Calls, NEW t \in open', t.by = c
                 PROVE  Delivering(c, t)'
      BY DEF DeliveriesHold
    <2>1. t \in open
      BY DEF MayBegin
    <2>2. Delivering(c, t)
      BY <2>1 DEF DeliveriesHold
    <2>3. QED
      BY <2>2, <1>1 DEF Delivering, Unnamed
  <1>8. RestIsToCome' /\ AcknowledgedIsStored'
    BY DEF RestIsToCome, ToCome, AcknowledgedIsStored
  <1>9. StoredIsKnown'
    <2> SUFFICES ASSUME NEW b \in Boxes, NEW m \in Mails, landed[<<b, m>>] > 0
                 PROVE  Marked(b, m)' \/ \E r \in rows' : r.box = b /\ r.mail = m /\ r.smtp
      BY DEF StoredIsKnown
    <2>1. CASE Marked(b, m)
      BY <2>1, <1>1
    <2>2. CASE \E r \in rows : r.box = b /\ r.mail = m /\ r.smtp
      <3>1. PICK r \in rows : r.box = b /\ r.mail = m /\ r.smtp
        BY <2>2
      <3>2. CASE Marked(r.box, r.mail)'
        BY <3>1, <3>2
      <3>3. CASE \E q \in rows' : SameLetter(r, q)
        BY <3>1, <3>3 DEF SameLetter
      <3>4. QED
        BY <3>1, <3>2, <3>3
    <2>3. QED
      BY <2>1, <2>2 DEF StoredIsKnown
  <1>10. RetryStoredOnce'
    BY DEF RetryStoredOnce, Unnamed
  <1>11. QED
    BY <1>2, <1>3, <1>4, <1>5, <1>6, <1>7, <1>8, <1>9, <1>10

\* A commit by one of them, after which a row has what replaces it or a mark.
LEMMA QuietCommit ==
  ASSUME StoreInv,
         call' = call, landed' = landed, scene' = scene, marks \subseteq marks',
         NEW t \in open, t.by \notin Calls,
         NEW gone, CommitWithout(t, gone),
         \A r \in rows \cap gone : Marked(r.box, r.mail)'
  PROVE  StoreInv'
  <1> USE DEF StoreInv
  <1>1. rows' = (rows \ (t.old \cup gone)) \cup t.new /\ open' = open \ {t}
    BY DEF CommitWithout
  <1>2. \A q \in rows' : IsRow(q) /\ Stored(q)
    BY <1>1 DEF Typed, RowsLanded, OthersLanded
  <1>3. \A r \in rows : r.smtp => Marked(r.box, r.mail)' \/ \E q \in rows' : SameLetter(r, q)
    <2> SUFFICES ASSUME NEW r \in rows, r \notin gone
                 PROVE  \E q \in rows' : SameLetter(r, q)
      OBVIOUS
    <2>1. CASE r \in t.old
      BY <2>1, <1>1 DEF CarriedOver
    <2>2. CASE r \notin t.old
      BY <2>2, <1>1 DEF SameLetter
    <2>3. QED
      BY <2>1, <2>2
  <1>4. (\A u \in open' : u \in open \/ MayBegin(u)) /\ (\A u, v \in open' : u \in open \/ v \in open \/ u = v)
    BY <1>1
  <1> HIDE DEF StoreInv
  <1>5. QED
    BY <1>2, <1>3, <1>4, QuietStep

\* A step that begins nothing and removes no row without a mark.
LEMMA QuietRows ==
  ASSUME StoreInv,
         call' = call, landed' = landed, scene' = scene, marks \subseteq marks',
         \A q \in rows' : IsRow(q) /\ \E r \in rows : SameLetter(r, q),
         \A r \in rows : Marked(r.box, r.mail)' \/ \E q \in rows' : SameLetter(r, q),
         open' \subseteq open
  PROVE  StoreInv'
  <1>1. \A q \in rows' : IsRow(q) /\ Stored(q)
    BY DEF StoreInv, RowsLanded, SameLetter, Stored
  <1>2. QED
    BY <1>1, QuietStep

\* A step that only begins a transaction.
LEMMA QuietBegin ==
  ASSUME StoreInv,
         call' = call, landed' = landed, scene' = scene, marks' = marks, rows' = rows,
         NEW t0, open' = open \cup {t0}, MayBegin(t0)
  PROVE  StoreInv'
  <1>1. \A r \in rows : SameLetter(r, r)
    BY DEF SameLetter
  <1>2. \A q \in rows' : IsRow(q) /\ Stored(q)
    BY DEF StoreInv, Typed, RowsLanded
  <1>3. QED
    BY <1>1, <1>2, QuietStep

LEMMA StoreUnchanged ==
  ASSUME StoreInv, call' = call, landed' = landed, scene' = scene, marks' = marks,
         rows' = rows, open' \subseteq open
  PROVE  StoreInv'
  <1>1. \A r \in rows : SameLetter(r, r)
    BY DEF SameLetter
  <1>2. \A r \in rows : IsRow(r)
    BY DEF StoreInv, Typed
  <1>3. QED
    BY <1>1, <1>2, QuietRows

LEMMA WebStep ==
  ASSUME StoreInv, NEW w \in Webs, Web(w), scene' = scene
  PROVE  StoreInv'
  <1>1. w \notin Calls
    BY StoreAssumption
  <1>2. ASSUME NEW r \in rows, NEW d \in {"INBOX", "Junk"}, MoveMessage(w, r, d) PROVE StoreInv'
    <2> DEFINE q == [r EXCEPT !.dir = d, !.uid = uid + 1]
               makes == IF Exists(r.box, d) THEN {} ELSE {d}
    <2>1. d \in Names
      BY StoreAssumption
    <2>2. IsRow(r) /\ Stored(r)
      BY DEF StoreInv, Typed, RowsLanded
    <2>3. IsRow(q) /\ SameLetter(r, q)
      BY <2>1, <2>2, RowMoved
    <2>4. /\ Begin(w, r.box, {r}, {q}, makes, TRUE) /\ LockFree(r.box)
          /\ UNCHANGED <<rows, call, landed, marks>>
      BY <1>2 DEF MoveMessage
    <2> HIDE DEF q, makes
    <2>5. Stored(q)
      BY <2>2, <2>3 DEF SameLetter, Stored
    <2> DEFINE t0 == [by |-> w, box |-> r.box, old |-> {r}, new |-> {q}, makes |-> makes, locks |-> TRUE]
    <2>6. t0.by = w /\ t0.box = r.box /\ t0.old = {r} /\ t0.new = {q}
      OBVIOUS
    <2>7. open' = open \cup {t0}
      BY <2>4 DEF Begin
    <2> HIDE DEF t0
    <2>8. MayBegin(t0)
      BY <1>1, <2>3, <2>4, <2>5, <2>6 DEF MayBegin
    <2>9. QED
      BY <2>4, <2>7, <2>8, QuietBegin
  <1>3. CASE MoveCommit(w)
    <2>1. PICK t \in TxOf(w) : CommitWithout(t, {})
      BY <1>3 DEF MoveCommit, Commit
    <2>2. t \in open /\ t.by \notin Calls
      BY <1>1 DEF TxOf
    <2>3. UNCHANGED <<call, landed, marks>>
      BY <1>3 DEF MoveCommit
    <2>4. QED
      BY <2>1, <2>2, <2>3, QuietCommit
  <1>4. CASE MoveFails(w)
    BY <1>4, StoreUnchanged DEF MoveFails, Rollback
  <1>5. QED
    BY <1>2, <1>3, <1>4 DEF Web

-----------------------------------------------------------------------------
(* Sessions.                                                                *)

LEMMA StoreFlag ==
  ASSUME StoreInv, scene' = scene, NEW s \in Sessions, NEW r \in rows, NEW on \in BOOLEAN, Store(s, r, on)
  PROVE  StoreInv'
  <1> DEFINE q == [r EXCEPT !.deleted = on]
  <1>1. \A p \in rows : IsRow(p) /\ SameLetter(p, p)
    BY DEF StoreInv, Typed, SameLetter
  <1>2. IsRow(q) /\ SameLetter(r, q)
    BY <1>1, RowFlagged
  <1>3. rows' = (rows \ {r}) \cup {q} /\ UNCHANGED <<open, call, landed, marks>>
    BY DEF Store
  <1> HIDE DEF q
  <1>4. \A p \in rows' : IsRow(p) /\ \E o \in rows : SameLetter(o, p)
    BY <1>1, <1>2, <1>3
  <1>5. \A p \in rows : \E o \in rows' : SameLetter(p, o)
    BY <1>1, <1>2, <1>3
  <1>6. QED
    BY <1>3, <1>4, <1>5, QuietRows

LEMMA StoreAppend ==
  ASSUME StoreInv, scene' = scene, NEW s \in Sessions, NEW d \in Names, NEW m \in Mails, NEW flag \in BOOLEAN,
         Append1(s, d, m, flag)
  PROVE  StoreInv'
  <1> DEFINE q == [box |-> BoxOf[s], dir |-> d, uid |-> uid + 1, mail |-> m, smtp |-> FALSE, deleted |-> flag]
  <1>1. s \notin Calls /\ BoxOf[s] \in Boxes
    BY SessionAssumption
  <1>2. IsRow(q) /\ ~q.smtp
    BY <1>1, NewRow
  <1>3. /\ Begin(s, BoxOf[s], {}, {q}, {}, TRUE) /\ LockFree(BoxOf[s])
        /\ UNCHANGED <<rows, call, landed, marks>>
    BY DEF Append1
  <1> HIDE DEF q
  <1>4. Stored(q)
    BY <1>2 DEF Stored
  <1> DEFINE t0 == [by |-> s, box |-> BoxOf[s], old |-> {}, new |-> {q}, makes |-> {}, locks |-> TRUE]
  <1>5. t0.by = s /\ t0.box = BoxOf[s] /\ t0.old = {} /\ t0.new = {q}
    OBVIOUS
  <1>6. open' = open \cup {t0}
    BY <1>3 DEF Begin
  <1> HIDE DEF t0
  <1>7. MayBegin(t0)
    BY <1>1, <1>2, <1>3, <1>4, <1>5 DEF MayBegin
  <1>8. QED
    BY <1>3, <1>6, <1>7, QuietBegin

LEMMA StorePurge ==
  ASSUME MailInv, scene' = scene, NEW s \in Sessions, Purge(s)
  PROVE  StoreInv'
  <1> DEFINE dead == {r \in Current(s) : r.uid \in sess[s].ids}
  <1>1. \A p \in rows : IsRow(p) /\ SameLetter(p, p)
    BY DEF MailInv, StoreInv, Typed, SameLetter
  <1>2. sess[s].ids \subseteq sess[s].seen \cup sess[s].away
    BY DEF MailInv, SessionsInv, Remembers, Purge
  <1>3. /\ rows' = rows \ dead /\ UNCHANGED <<open, call, landed>>
        /\ marks' = marks \cup {<<BoxOf[s], r.mail, "removed">> : r \in {r \in dead : r.uid \in sess[s].seen}}
                          \cup {<<BoxOf[s], r.mail, "torn">> : r \in {r \in dead : r.uid \in sess[s].away}}
    BY DEF Purge
  <1>4. \A r \in dead : r.box = BoxOf[s] /\ (r.uid \in sess[s].seen \/ r.uid \in sess[s].away)
    BY <1>2 DEF Current, InDir
  <1> HIDE DEF dead
  <1>5. \A r \in dead : Marked(r.box, r.mail)'
    BY <1>3, <1>4 DEF Marked, Marks
  <1>6. \A p \in rows' : IsRow(p) /\ \E o \in rows : SameLetter(o, p)
    BY <1>1, <1>3
  <1>7. \A r \in rows : Marked(r.box, r.mail)' \/ \E q \in rows' : SameLetter(r, q)
    BY <1>1, <1>3, <1>5
  <1>8. StoreInv
    BY DEF MailInv
  <1>9. QED
    BY <1>3, <1>6, <1>7, <1>8, QuietRows

LEMMA StoreMoveInsert ==
  ASSUME StoreInv, scene' = scene, NEW s \in Sessions, NEW d \in Names, NEW U, MoveInsert(s, U, d)
  PROVE  StoreInv'
  <1> DEFINE from == {r \in Current(s) : r.uid \in U}
             Nr(r) == uid + Cardinality({q \in from : q.uid <= r.uid})
             copies == {[r EXCEPT !.dir = d, !.smtp = FALSE, !.uid = Nr(r)] : r \in from}
  <1>1. s \notin Calls
    BY SessionAssumption
  <1>2. \A r \in from : IsRow(r)
    BY DEF Current, InDir, StoreInv, Typed
  <1>3. /\ Begin(s, BoxOf[s], {}, Copies(from, d), {}, TRUE) /\ LockFree(BoxOf[s])
        /\ UNCHANGED <<rows, call, landed, marks>>
    BY DEF MoveInsert
  <1>4. Copies(from, d) = copies
    BY DEF Copies
  <1> HIDE DEF from, Nr
  <1>5. \A r \in from : /\ IsRow([r EXCEPT !.dir = d, !.smtp = FALSE, !.uid = Nr(r)])
                        /\ ~[r EXCEPT !.dir = d, !.smtp = FALSE, !.uid = Nr(r)].smtp
    BY <1>2, RowCopied
  <1>6. \A q \in copies : IsRow(q) /\ ~q.smtp
    BY <1>5
  <1> HIDE DEF copies
  <1>7. \A q \in Copies(from, d) : IsRow(q) /\ Stored(q)
    BY <1>4, <1>6 DEF Stored
  <1> DEFINE new == Copies(from, d)
             t0 == [by |-> s, box |-> BoxOf[s], old |-> {}, new |-> new, makes |-> {}, locks |-> TRUE]
  <1>8. t0.by = s /\ t0.box = BoxOf[s] /\ t0.old = {} /\ t0.new = new
    OBVIOUS
  <1>9. open' = open \cup {t0}
    BY <1>3 DEF Begin
  <1> HIDE DEF t0
  <1>10. MayBegin(t0)
    BY <1>1, <1>3, <1>7, <1>8 DEF MayBegin
  <1>11. QED
    BY <1>3, <1>9, <1>10, QuietBegin

LEMMA StoreMoveDelete ==
  ASSUME StoreInv, scene' = scene, NEW s \in Sessions, MoveDelete(s)
  PROVE  StoreInv'
  <1> DEFINE dead == {r \in Current(s) : r.uid \in sess[s].ids}
             torn == {r \in rows : r.box = BoxOf[s] /\ r.uid \in (sess[s].seen \cup Uids(dead))
                                       \ (sess[s].seen \cap Uids(dead))}
  <1>1. PICK t \in TxOf(s) :
           /\ CommitWithout(t, dead)
           /\ marks' = marks \cup {<<BoxOf[s], r.mail, "moved">> : r \in {r \in dead : r.uid \in sess[s].seen}}
                             \cup {<<BoxOf[s], r.mail, "torn">> : r \in torn}
    BY DEF MoveDelete
  <1>2. t \in open /\ t.by \notin Calls
    BY SessionAssumption DEF TxOf
  <1>3. UNCHANGED <<call, landed>>
    BY DEF MoveDelete
  <1>4. \A r \in dead : r.box = BoxOf[s] /\ (r.uid \in sess[s].seen \/ r \in torn)
    BY DEF Current, InDir, Uids
  <1> HIDE DEF dead, torn
  <1>5. \A r \in dead : Marked(r.box, r.mail)'
    BY <1>1, <1>4 DEF Marked, Marks
  <1>6. QED
    BY <1>1, <1>2, <1>3, <1>5, QuietCommit

LEMMA StoreSessionCommit ==
  ASSUME StoreInv, scene' = scene, NEW s \in Sessions, SessionCommit(s)
  PROVE  StoreInv'
  <1>1. PICK t \in TxOf(s) : CommitWithout(t, {})
    BY DEF SessionCommit, Commit
  <1>2. t \in open /\ t.by \notin Calls
    BY SessionAssumption DEF TxOf
  <1>3. UNCHANGED <<call, landed, marks>>
    BY DEF SessionCommit
  <1>4. QED
    BY <1>1, <1>2, <1>3, QuietCommit

LEMMA StoreDeleteMailbox ==
  ASSUME StoreInv, scene' = scene, NEW s \in Sessions, NEW d \in Names, DeleteMailbox(s, d)
  PROVE  StoreInv'
  <1>1. \A p \in rows : IsRow(p) /\ SameLetter(p, p)
    BY DEF StoreInv, Typed, SameLetter
  <1>2. /\ rows' = rows \ InDir(BoxOf[s], d) /\ UNCHANGED <<open, call, landed>>
        /\ marks' = marks \cup {<<BoxOf[s], r.mail, "removed">> : r \in InDir(BoxOf[s], d)}
    BY DEF DeleteMailbox
  <1>3. \A r \in InDir(BoxOf[s], d) : Marked(r.box, r.mail)'
    BY <1>2 DEF Marked, Marks, InDir
  <1>4. \A p \in rows' : IsRow(p) /\ \E o \in rows : SameLetter(o, p)
    BY <1>1, <1>2
  <1>5. \A r \in rows : Marked(r.box, r.mail)' \/ \E q \in rows' : SameLetter(r, q)
    BY <1>1, <1>2, <1>3
  <1>6. QED
    BY <1>2, <1>4, <1>5, QuietRows

LEMMA StoreRenameMailbox ==
  ASSUME StoreInv, scene' = scene, NEW s \in Sessions, NEW d \in Names, NEW e \in Names, RenameMailbox(s, d, e)
  PROVE  StoreInv'
  <1> DEFINE from == InDir(BoxOf[s], d)
             follow == {[r EXCEPT !.dir = e] : r \in from}
  <1>1. \A p \in rows : IsRow(p) /\ SameLetter(p, p)
    BY DEF StoreInv, Typed, SameLetter
  <1>2. rows' = (rows \ from) \cup follow /\ UNCHANGED <<open, call, landed, marks>>
    BY DEF RenameMailbox
  <1>3. from \subseteq rows
    BY DEF InDir
  <1>4. /\ \A r \in from : \E q \in follow : SameLetter(r, q)
        /\ \A q \in follow : IsRow(q) /\ \E r \in from : SameLetter(r, q)
    <2>1. \A r \in from : IsRow([r EXCEPT !.dir = e]) /\ SameLetter(r, [r EXCEPT !.dir = e])
      BY <1>1, <1>3, RowRenamed
    <2>2. QED
      BY <2>1
  <1> HIDE DEF from, follow
  <1>5. \A q \in rows' : IsRow(q) /\ \E r \in rows : SameLetter(r, q)
    BY <1>1, <1>2, <1>3, <1>4
  <1>6. \A r \in rows : \E q \in rows' : SameLetter(r, q)
    BY <1>1, <1>2, <1>3, <1>4
  <1>7. QED
    BY <1>2, <1>5, <1>6, QuietRows

LEMMA StoreRenameInbox ==
  ASSUME StoreInv, scene' = scene, NEW s \in Sessions, NEW e \in Names, RenameInbox(s, e)
  PROVE  StoreInv'
  <1> DEFINE all == InDir(BoxOf[s], "INBOX")
             follow == {[r EXCEPT !.dir = e] : r \in all}
  <1>1. s \notin Calls
    BY SessionAssumption
  <1>2. \A r \in all : IsRow(r) /\ Stored(r)
    BY DEF InDir, StoreInv, Typed, RowsLanded
  <1>3. Begin(s, BoxOf[s], all, follow, {e}, FALSE) /\ UNCHANGED <<rows, call, landed, marks>>
    BY DEF RenameInbox
  <1>4. /\ \A r \in all : \E q \in follow : SameLetter(r, q)
        /\ \A q \in follow : IsRow(q) /\ \E r \in all : SameLetter(r, q)
    BY <1>2, RowRenamed
  <1> HIDE DEF all, follow
  <1>5. \A q \in follow : IsRow(q) /\ Stored(q)
    BY <1>2, <1>4 DEF SameLetter, Stored
  <1> DEFINE t0 == [by |-> s, box |-> BoxOf[s], old |-> all, new |-> follow, makes |-> {e}, locks |-> FALSE]
  <1>6. t0.by = s /\ t0.old = all /\ t0.new = follow /\ t0.locks = FALSE
    OBVIOUS
  <1>7. open' = open \cup {t0}
    BY <1>3 DEF Begin
  <1> HIDE DEF t0
  <1>8. MayBegin(t0)
    BY <1>1, <1>4, <1>5, <1>6 DEF MayBegin
  <1>9. QED
    BY <1>3, <1>7, <1>8, QuietBegin

LEMMA SessionStep ==
  ASSUME MailInv, NEW s \in Sessions, Session(s), scene' = scene
  PROVE  StoreInv'
  <1>0. StoreInv
    BY DEF MailInv
  <1>1. CASE \E d \in Names : Status(s, d) \/ Select(s, d)
    BY <1>0, <1>1, StoreUnchanged DEF Status, Select, storeVars
  <1>2. CASE Poll(s) \/ Search(s) \/ ReadDeleted(s)
    BY <1>0, <1>2, StoreUnchanged DEF Poll, Search, ReadDeleted, storeVars
  <1>3. CASE SessionCommit(s)
    BY <1>0, <1>3, StoreSessionCommit
  <1>4. CASE CommandFails(s)
    BY <1>0, <1>4, StoreUnchanged DEF CommandFails, Rollback
  <1>5. CASE \E r \in rows, on \in BOOLEAN : Store(s, r, on)
    BY <1>0, <1>5, StoreFlag
  <1>6. CASE Purge(s)
    BY <1>6, StorePurge
  <1>7. ASSUME NEW d \in Names, NEW m \in Drafts, Append1(s, d, m, FALSE) PROVE StoreInv'
    BY <1>0, <1>7, StoreAppend, SessionAssumption
  <1>8. ASSUME NEW d \in Names, NEW r \in rows, Copy(s, r, d) PROVE StoreInv'
    <2>1. r.mail \in Mails /\ r.deleted \in BOOLEAN
      BY <1>0, RowFields DEF StoreInv, Typed
    <2>2. QED
      BY <1>0, <1>8, <2>1, StoreAppend DEF Copy
  <1>9. ASSUME NEW d \in Names, NEW U, MoveInsert(s, U, d) PROVE StoreInv'
    BY <1>0, <1>9, StoreMoveInsert
  <1>10. CASE MoveDelete(s)
    BY <1>0, <1>10, StoreMoveDelete
  <1>11. ASSUME NEW d \in Names, CreateMailbox(s, d) PROVE StoreInv'
    BY <1>0, <1>11, StoreUnchanged DEF CreateMailbox
  <1>12. ASSUME NEW d \in Names, DeleteMailbox(s, d) PROVE StoreInv'
    BY <1>0, <1>12, StoreDeleteMailbox
  <1>13. ASSUME NEW d \in Names, RenameInbox(s, d) PROVE StoreInv'
    BY <1>0, <1>13, StoreRenameInbox
  <1>14. ASSUME NEW d \in Names, NEW e \in Names, RenameMailbox(s, d, e) PROVE StoreInv'
    BY <1>0, <1>14, StoreRenameMailbox
  <1>15. QED
    BY <1>1, <1>2, <1>3, <1>4, <1>5, <1>6, <1>7, <1>8, <1>9, <1>10, <1>11, <1>12, <1>13, <1>14 DEF Session
-----------------------------------------------------------------------------
(* Deliveries.                                                              *)

LEMMA CallStep ==
  ASSUME StoreInv, NEW c \in Calls,
         rows' = rows, landed' = landed, marks' = marks, scene' = scene, open' \subseteq open,
         call' \in [Calls -> CallRecord], \A x \in Calls \ {c} : call'[x] = call[x],
         \A t \in open' : t.by # c,
         ToCome(c)', Acknowledged(c)'
  PROVE  StoreInv'
  <1> USE DEF StoreInv
  <1>1. Typed' /\ RowsLanded' /\ OthersLanded' /\ CarriedOver' /\ OneLock'
    BY DEF Typed, RowsLanded, OthersLanded, CarriedOver, OneLock, Stored
  <1>2. DeliveriesHold'
    BY DEF DeliveriesHold, Delivering, Marked, Unnamed
  <1>3. RestIsToCome'
    BY DEF RestIsToCome, ToCome
  <1>4. AcknowledgedIsStored'
    BY DEF AcknowledgedIsStored, Acknowledged
  <1>5. StoredIsKnown' /\ RetryStoredOnce'
    BY DEF StoredIsKnown, RetryStoredOnce, Marked, Unnamed
  <1>6. QED
    BY <1>1, <1>2, <1>3, <1>4, <1>5

LEMMA CallTyped ==
  ASSUME StoreInv, NEW c \in Calls
  PROVE  /\ call[c] \in CallRecord /\ call[c].left \in Seq(Boxes) /\ call[c].to \subseteq Boxes
         /\ MailOf[c] \in Mails
         /\ call[c].at # "commit" => \A t \in open : t.by # c
  BY StoreAssumption DEF StoreInv, Typed, CallRecord, DeliveriesHold, Delivering

LEMMA CallMoves ==
  ASSUME StoreInv, NEW c \in Calls, NEW at \in CallSteps, CallAt(c, at)
  PROVE  /\ call' \in [Calls -> CallRecord]
         /\ \A x \in Calls \ {c} : call'[x] = call[x]
         /\ call'[c].at = at /\ call'[c].to = call[c].to /\ call'[c].left = call[c].left
  BY DEF StoreInv, Typed, CallRecord, CallAt

\* The next recipient is taken up when this one has the mail.
LEMMA CallAdvances ==
  ASSUME StoreInv, NEW c \in Calls, call[c].at \in {"insert", "commit"}, Advance(c),
         \A b \in Boxes : landed[<<b, MailOf[c]>>] > 0 => landed'[<<b, MailOf[c]>>] > 0,
         landed'[<<Head(call[c].left), MailOf[c]>>] > 0
  PROVE  /\ call' \in [Calls -> CallRecord]
         /\ \A x \in Calls \ {c} : call'[x] = call[x]
         /\ ToCome(c)' /\ Acknowledged(c)'
  <1> DEFINE rest == Tail(call[c].left)
             at == IF rest = <<>> THEN "acked" ELSE "folder"
  <1>1. call[c].left # <<>>
        /\ \A b \in call[c].to : b \in Members(call[c].left) \/ landed[<<b, MailOf[c]>>] > 0
    BY DEF StoreInv, RestIsToCome, ToCome
  <1>2. rest \in Seq(Boxes) /\ Members(call[c].left) \subseteq {Head(call[c].left)} \cup Members(rest)
    BY <1>1, CallTyped, MembersOfTail
  <1>3. call' = [call EXCEPT ![c].left = rest, ![c].at = at]
    BY DEF Advance
  <1>4. at \in {"acked", "folder"} /\ (at = "acked" <=> rest = <<>>)
    OBVIOUS
  <1> HIDE DEF rest, at
  <1>5. /\ call' \in [Calls -> CallRecord]
        /\ \A x \in Calls \ {c} : call'[x] = call[x]
        /\ call'[c].at = at /\ call'[c].to = call[c].to /\ call'[c].left = rest
    BY <1>2, <1>3, <1>4 DEF StoreInv, Typed, CallRecord, CallSteps
  <1>6. \A b \in call[c].to : b \in Members(rest) \/ landed'[<<b, MailOf[c]>>] > 0
    BY <1>1, <1>2, CallTyped
  <1>7. Members(<<>>) = {}
    BY DEF Members
  <1>8. ToCome(c)'
    BY <1>4, <1>5, <1>6 DEF ToCome
  <1>9. Acknowledged(c)'
    BY <1>4, <1>5, <1>6, <1>7 DEF Acknowledged
  <1>10. QED
    BY <1>5, <1>8, <1>9

LEMMA StoreRcpt ==
  ASSUME StoreInv, scene' = scene, NEW c \in Calls, NEW b \in Boxes, Rcpt(c, b)
  PROVE  StoreInv'
  <1>1. call[c].at = "rcpt" /\ UNCHANGED <<rows, open, landed, marks>>
        /\ call' = [call EXCEPT ![c].to = @ \cup {b}, ![c].left = Append(@, b)]
    BY DEF Rcpt
  <1> DEFINE to == call[c].to \cup {b}
             left == Append(call[c].left, b)
  <1>2. /\ to \in SUBSET Boxes /\ left \in Seq(Boxes)
        /\ to = call[c].to \cup {b} /\ Members(call[c].left) \cup {b} \subseteq Members(left)
    BY CallTyped, MembersOfAppend
  <1>3. call' = [call EXCEPT ![c].to = to, ![c].left = left]
    BY <1>1 DEF StoreInv, Typed, CallRecord
  <1> HIDE DEF to, left
  <1>4. /\ call' \in [Calls -> CallRecord]
        /\ \A x \in Calls \ {c} : call'[x] = call[x]
        /\ call'[c].at = "rcpt" /\ call'[c].to = to /\ call'[c].left = left
    BY <1>1, <1>2, <1>3 DEF StoreInv, Typed, CallRecord
  <1>5. call[c].to \subseteq Members(call[c].left)
    BY <1>1 DEF StoreInv, RestIsToCome, ToCome
  <1>6. ToCome(c)' /\ Acknowledged(c)'
    BY <1>2, <1>4, <1>5 DEF ToCome, Acknowledged
  <1>7. \A t \in open : t.by # c
    BY <1>1, CallTyped
  <1>8. QED
    BY <1>1, <1>4, <1>6, <1>7, CallStep

LEMMA StoreData ==
  ASSUME StoreInv, scene' = scene, NEW c \in Calls, Data(c)
  PROVE  StoreInv'
  <1>1. call[c].at = "rcpt" /\ call[c].left # <<>> /\ CallAt(c, "folder") /\ UNCHANGED <<rows, open, landed, marks>>
    BY DEF Data
  <1>2. /\ call' \in [Calls -> CallRecord]
        /\ \A x \in Calls \ {c} : call'[x] = call[x]
        /\ call'[c].at = "folder" /\ call'[c].to = call[c].to /\ call'[c].left = call[c].left
    BY <1>1, CallMoves DEF CallSteps
  <1>3. call[c].to \subseteq Members(call[c].left)
    BY <1>1 DEF StoreInv, RestIsToCome, ToCome
  <1>4. ToCome(c)' /\ Acknowledged(c)'
    BY <1>1, <1>2, <1>3 DEF ToCome, Acknowledged
  <1>5. \A t \in open : t.by # c
    BY <1>1, CallTyped
  <1>6. QED
    BY <1>1, <1>2, <1>4, <1>5, CallStep

LEMMA StoreFolder ==
  ASSUME StoreInv, scene' = scene, NEW c \in Calls, DeliverFolder(c)
  PROVE  StoreInv'
  <1>1. call[c].at = "folder" /\ CallAt(c, "insert") /\ UNCHANGED <<rows, open, landed, marks>>
    BY DEF DeliverFolder
  <1>2. /\ call' \in [Calls -> CallRecord]
        /\ \A x \in Calls \ {c} : call'[x] = call[x]
        /\ call'[c].at = "insert" /\ call'[c].to = call[c].to /\ call'[c].left = call[c].left
    BY <1>1, CallMoves DEF CallSteps
  <1>3. call[c].left # <<>>
        /\ \A b \in call[c].to : b \in Members(call[c].left) \/ landed[<<b, MailOf[c]>>] > 0
    BY <1>1 DEF StoreInv, RestIsToCome, ToCome
  <1>4. ToCome(c)' /\ Acknowledged(c)'
    BY <1>1, <1>2, <1>3 DEF ToCome, Acknowledged
  <1>5. \A t \in open : t.by # c
    BY <1>1, CallTyped
  <1>6. QED
    BY <1>1, <1>2, <1>4, <1>5, CallStep

LEMMA StoreRefused ==
  ASSUME StoreInv, scene' = scene, NEW c \in Calls, CallAt(c, "refused"),
         open' = open \ TxOf(c), UNCHANGED <<rows, landed, marks>>
  PROVE  StoreInv'
  <1>1. /\ call' \in [Calls -> CallRecord]
        /\ \A x \in Calls \ {c} : call'[x] = call[x]
        /\ call'[c].at = "refused"
    BY CallMoves DEF CallSteps
  <1>2. ToCome(c)' /\ Acknowledged(c)'
    BY <1>1 DEF ToCome, Acknowledged
  <1>3. open' \subseteq open /\ \A t \in open' : t.by # c
    BY DEF TxOf
  <1>4. QED
    BY <1>1, <1>2, <1>3, CallStep

LEMMA StoreInsert ==
  ASSUME StoreInv, scene' = scene, NEW c \in Calls, DeliverInsert(c)
  PROVE  StoreInv'
  <1> DEFINE b == Head(call[c].left)
             m == MailOf[c]
             d == DeliveryFolder(m)
             row == [box |-> b, dir |-> d, uid |-> uid + 1, mail |-> m, smtp |-> TRUE, deleted |-> FALSE]
  <1>1. call[c].at = "insert" /\ LockFree(b) /\ UNCHANGED <<rows, landed, marks>>
    BY DEF DeliverInsert
  <1>2. call[c].left # <<>>
        /\ \A x \in call[c].to : x \in Members(call[c].left) \/ landed[<<x, m>>] > 0
    BY <1>1 DEF StoreInv, RestIsToCome, ToCome
  <1>3. b \in Boxes /\ m \in Mails /\ d \in Names
    BY <1>2, CallTyped, MembersOfTail, StoreAssumption DEF DeliveryFolder
  <1>4. \A t \in open : t.by # c
    BY <1>1, CallTyped
  <1>5. CASE Held(b, m) /\ Advance(c) /\ UNCHANGED open
    <2>1. PICK r \in rows : r.box = b /\ r.mail = m /\ r.smtp
      BY <1>5 DEF Held
    <2>2. landed[<<b, m>>] > 0
      BY <2>1 DEF StoreInv, RowsLanded, Stored
    <2>3. /\ call' \in [Calls -> CallRecord]
          /\ \A x \in Calls \ {c} : call'[x] = call[x]
          /\ ToCome(c)' /\ Acknowledged(c)'
      BY <1>1, <1>5, <2>2, CallAdvances
    <2>4. QED
      BY <1>1, <1>4, <1>5, <2>3, CallStep
  <1>6. CASE CallAt(c, "refused") /\ UNCHANGED open
    <2>1. open' = open \ TxOf(c)
      BY <1>4, <1>6 DEF TxOf
    <2>2. QED
      BY <1>1, <1>6, <2>1, StoreRefused
  <1>7. CASE ~Held(b, m) /\ Begin(c, b, {}, {row}, {}, TRUE) /\ CallAt(c, "commit")
    <2>1. PICK t0 : t0 = [by |-> c, box |-> b, old |-> {}, new |-> {row}, makes |-> {}, locks |-> TRUE]
                    /\ open' = open \cup {t0}
      BY <1>7 DEF Begin
    <2>2. t0.by = c /\ t0.box = b /\ t0.old = {} /\ t0.new = {row} /\ t0.locks
      BY <2>1
    <2>3. IsRow(row) /\ row.box = b /\ row.mail = m /\ row.smtp
      BY <1>3, NewRow
    <2>4. /\ call' \in [Calls -> CallRecord]
          /\ \A x \in Calls \ {c} : call'[x] = call[x]
          /\ call'[c].at = "commit" /\ call'[c].to = call[c].to /\ call'[c].left = call[c].left
      BY <1>7, CallMoves DEF CallSteps
    <2>5. Head(call'[c].left) = b
      BY <2>4
    <2>6. m \in Unnamed \/ landed[<<b, m>>] = 0 \/ Marked(b, m)
      BY <1>3, <1>7 DEF Held, StoreInv, StoredIsKnown, Typed
    <2> HIDE DEF b, row
    <2>7. Delivering(c, t0)'
      BY <1>1, <2>2, <2>3, <2>4, <2>5, <2>6 DEF Delivering, Unnamed, Marked
    <2>8. ToCome(c)' /\ Acknowledged(c)'
      BY <1>1, <1>2, <2>4 DEF ToCome, Acknowledged
    <2> USE DEF StoreInv
    <2>9. Typed' /\ RowsLanded'
      BY <1>1, <2>1, <2>2, <2>3, <2>4 DEF Typed, RowsLanded, Stored
    <2>10. OthersLanded' /\ CarriedOver'
      BY <1>1, <2>1, <2>2 DEF OthersLanded, Stored, CarriedOver
    <2>11. OneLock'
      <3>1. \A t \in open : t.locks => t.box # t0.box
        BY <1>1, <2>2 DEF LockFree
      <3> SUFFICES ASSUME NEW t \in open', NEW u \in open', t.locks, u.locks, t.box = u.box
                   PROVE  t = u
        BY DEF OneLock
      <3>2. CASE t \in open /\ u \in open
        BY <3>2 DEF OneLock
      <3>3. CASE t = t0 \/ u = t0
        BY <2>1, <3>1, <3>3
      <3>4. QED
        BY <2>1, <3>2, <3>3
    <2>12. DeliveriesHold'
      <3> SUFFICES ASSUME NEW x \in Calls, NEW t \in open', t.by = x
                   PROVE  Delivering(x, t)'
        BY DEF DeliveriesHold
      <3>1. CASE t = t0
        BY <2>2, <2>7, <3>1
      <3>2. CASE t # t0
        <4>1. t \in open /\ x # c
          BY <1>4, <2>1, <3>2
        <4>2. Delivering(x, t)
          BY <4>1 DEF DeliveriesHold
        <4>3. QED
          BY <1>1, <2>4, <4>1, <4>2 DEF Delivering, Unnamed, Marked
      <3>3. QED
        BY <3>1, <3>2
    <2>13. RestIsToCome'
      BY <1>1, <2>4, <2>8 DEF RestIsToCome, ToCome
    <2>14. AcknowledgedIsStored'
      BY <1>1, <2>4, <2>8 DEF AcknowledgedIsStored, Acknowledged
    <2>15. StoredIsKnown' /\ RetryStoredOnce'
      BY <1>1 DEF StoredIsKnown, RetryStoredOnce, Marked, Unnamed
    <2>16. QED
      BY <2>9, <2>10, <2>11, <2>12, <2>13, <2>14, <2>15
  <1>8. QED
    BY <1>5, <1>6, <1>7 DEF DeliverInsert

LEMMA StoreCommit ==
  ASSUME StoreInv, scene' = scene, NEW c \in Calls, DeliverCommit(c)
  PROVE  StoreInv'
  <1> DEFINE b == Head(call[c].left)
             m == MailOf[c]
  <1>1. PICK t \in TxOf(c) : CommitWithout(t, {})
    BY DEF DeliverCommit, Commit
  <1>2. /\ call[c].at = "commit" /\ landed' = [landed EXCEPT ![<<b, m>>] = landed[<<b, m>>] + 1]
        /\ Advance(c) \/ CallAt(c, "refused")
        /\ UNCHANGED marks
    BY DEF DeliverCommit
  <1>3. /\ t \in open /\ t.by = c /\ rows' = (rows \ t.old) \cup t.new /\ open' = open \ {t}
    BY <1>1 DEF TxOf, CommitWithout
  <1>4. /\ t.locks /\ t.box = b /\ t.new # {}
        /\ \A r \in t.new : IsRow(r) /\ r.box = b /\ r.mail = m /\ r.smtp
        /\ m \in Unnamed \/ landed[<<b, m>>] = 0 \/ Marked(b, m)
    <2>1. Delivering(c, t) /\ \A r \in t.new : IsRow(r)
      BY <1>3 DEF StoreInv, DeliveriesHold, Typed
    <2>2. QED
      BY <2>1 DEF Delivering
  <1>5. b \in Boxes /\ m \in Mails
    <2>1. call[c].left # <<>>
      BY <1>2 DEF StoreInv, RestIsToCome, ToCome
    <2>2. QED
      BY <2>1, CallTyped, MembersOfTail
  <1> HIDE DEF b, m
  <1>6. \A p \in Boxes \X Mails : landed[p] \in Nat
    BY DEF StoreInv, Typed
  <1>7. /\ landed' \in [Boxes \X Mails -> Nat]
        /\ landed'[<<b, m>>] = landed[<<b, m>>] + 1
        /\ \A p \in Boxes \X Mails : p # <<b, m>> => landed'[p] = landed[p]
    BY <1>2, <1>5, <1>6 DEF StoreInv, Typed
  <1>8. \A p \in Boxes \X Mails : landed[p] > 0 => landed'[p] > 0
    BY <1>5, <1>6, <1>7
  <1>9. landed'[<<b, m>>] > 0
    BY <1>5, <1>6, <1>7
  <1>10. /\ call' \in [Calls -> CallRecord]
         /\ \A x \in Calls \ {c} : call'[x] = call[x]
         /\ ToCome(c)' /\ Acknowledged(c)'
    <2>1. CASE Advance(c)
      BY <1>2, <1>5, <1>8, <1>9, <2>1, CallAdvances DEF b, m
    <2>2. CASE CallAt(c, "refused")
      BY <2>2, CallMoves DEF CallSteps, ToCome, Acknowledged
    <2>3. QED
      BY <1>2, <2>1, <2>2
  <1> USE DEF StoreInv
  <1>11. Typed'
    BY <1>3, <1>4, <1>7, <1>10 DEF Typed
  <1>12. \A r \in rows : Stored(r)'
    BY <1>8, RowFields DEF RowsLanded, Stored, Typed
  <1>13. RowsLanded'
    BY <1>3, <1>4, <1>9, <1>12 DEF RowsLanded, Stored
  <1>14. OthersLanded'
    BY <1>3, <1>8, RowFields DEF OthersLanded, Stored, Typed
  <1>15. CarriedOver' /\ OneLock'
    BY <1>3 DEF CarriedOver, OneLock
  <1>16. DeliveriesHold'
    <2> SUFFICES ASSUME NEW x \in Calls, NEW u \in open', u.by = x
                 PROVE  Delivering(x, u)'
      BY DEF DeliveriesHold
    <2>1. u \in open /\ u # t /\ Delivering(x, u)
      BY <1>3 DEF DeliveriesHold
    <2>2. u.locks /\ u.box # b
      BY <1>3, <1>4, <2>1 DEF OneLock, Delivering
    <2>3. x # c
      BY <2>1, <2>2 DEF Delivering, b
    <2>4. MailOf[x] \in Mails /\ u.box \in Boxes
      BY <2>1, StoreAssumption, RowFields DEF Delivering, Typed
    <2>5. landed'[<<u.box, MailOf[x]>>] = landed[<<u.box, MailOf[x]>>]
      BY <1>7, <2>2, <2>4
    <2>6. QED
      BY <1>2, <1>10, <2>1, <2>3, <2>5 DEF Delivering, Unnamed, Marked
  <1>17. RestIsToCome'
    <2> SUFFICES ASSUME NEW x \in Calls, x # c PROVE ToCome(x)'
      BY <1>10 DEF RestIsToCome
    <2>1. MailOf[x] \in Mails /\ call[x].to \subseteq Boxes /\ call'[x] = call[x]
      BY <1>10, CallTyped
    <2>2. QED
      BY <1>8, <2>1 DEF RestIsToCome, ToCome
  <1>18. AcknowledgedIsStored'
    <2> SUFFICES ASSUME NEW x \in Calls, x # c PROVE Acknowledged(x)'
      BY <1>10 DEF AcknowledgedIsStored, Acknowledged
    <2>1. MailOf[x] \in Mails /\ call[x].to \subseteq Boxes /\ call'[x] = call[x]
      BY <1>10, CallTyped
    <2>2. QED
      BY <1>8, <2>1 DEF AcknowledgedIsStored, Acknowledged
  <1>19. StoredIsKnown'
    <2> SUFFICES ASSUME NEW a \in Boxes, NEW n \in Mails, landed'[<<a, n>>] > 0
                 PROVE  Marked(a, n)' \/ \E r \in rows' : r.box = a /\ r.mail = n /\ r.smtp
      BY DEF StoredIsKnown
    <2>1. CASE a = b /\ n = m
      BY <1>3, <1>4, <2>1
    <2>2. CASE ~(a = b /\ n = m)
      <3>1. landed[<<a, n>>] > 0
        BY <1>7, <2>2
      <3>2. CASE Marked(a, n)
        BY <1>2, <3>2 DEF Marked
      <3>3. CASE \E r \in rows : r.box = a /\ r.mail = n /\ r.smtp
        BY <1>3, <3>3 DEF CarriedOver, SameLetter
      <3>4. QED
        BY <3>1, <3>2, <3>3 DEF StoredIsKnown
    <2>3. QED
      BY <2>1, <2>2
  <1>20. RetryStoredOnce'
    <2> SUFFICES ASSUME NEW a \in Boxes, NEW n \in Mails \ Unnamed, landed'[<<a, n>>] > 1
                 PROVE  \E mark \in Marks : <<a, n, mark>> \in marks'
      BY DEF RetryStoredOnce, Unnamed
    <2>1. CASE a = b /\ n = m
      BY <1>2, <1>4, <1>7, <2>1 DEF Marked
    <2>2. CASE ~(a = b /\ n = m)
      <3>1. landed[<<a, n>>] > 1
        BY <1>7, <2>2
      <3>2. QED
        BY <1>2, <3>1 DEF RetryStoredOnce
    <2>3. QED
      BY <2>1, <2>2
  <1>21. QED
    BY <1>11, <1>13, <1>14, <1>15, <1>16, <1>17, <1>18, <1>19, <1>20

LEMMA DeliveryStep ==
  ASSUME StoreInv, NEW c \in Calls, LMTP(c), scene' = scene
  PROVE  StoreInv'
  <1>1. CASE DeliverFails(c)
    BY <1>1, StoreRefused DEF DeliverFails, Rollback
  <1>2. QED
    BY <1>1, StoreRcpt, StoreData, StoreFolder, StoreInsert, StoreCommit DEF LMTP

-----------------------------------------------------------------------------
(* What sessions remember, and the theorems.                                *)

LEMMA OneSession ==
  ASSUME SessionsInv, NEW s \in Sessions, NEW x, Remembers(x), sess' = [sess EXCEPT ![s] = x]
  PROVE  SessionsInv'
  BY DEF SessionsInv

LEMMA SessionLeaves ==
  ASSUME SessionsInv, NEW s \in Sessions, NEW at, at # "purge", SessionAt(s, at)
  PROVE  SessionsInv'
  <1> DEFINE x == [sess[s] EXCEPT !.at = at, !.ids = {}, !.seen = {}, !.away = {}, !.found = {}]
  <1>1. Remembers(x)
    BY DEF SessionsInv, Remembers, IsSession
  <1>2. sess' = [sess EXCEPT ![s] = x]
    BY DEF SessionAt
  <1>3. QED
    BY <1>1, <1>2, OneSession

LEMMA SessionRemembers ==
  ASSUME SessionsInv, NEW s \in Sessions, Session(s)
  PROVE  SessionsInv'
  <1>0. DOMAIN sess = Sessions /\ Remembers(sess[s])
    BY DEF SessionsInv
  <1>1. CASE sess' = sess
    BY <1>1 DEF SessionsInv
  <1>2. ASSUME NEW d \in Names, Select(s, d) PROVE SessionsInv'
    <2> DEFINE snap == {Item(r) : r \in InDir(BoxOf[s], d)}
               told == InOrder(Uids(InDir(BoxOf[s], d)))
               x == [Out EXCEPT !.at = "ready", !.dir = d, !.snap = snap, !.told = told]
    <2>1. sess' = [sess EXCEPT ![s] = x]
      BY <1>2 DEF Select
    <2> HIDE DEF snap, told
    <2>2. Remembers(x)
      BY DEF Remembers, IsSession, Out
    <2>3. QED
      BY <2>1, <2>2, OneSession
  <1>3. CASE Poll(s)
    <2> DEFINE snap == {Item(r) : r \in Current(s)}
               told == Polled(s)
               x == [sess[s] EXCEPT !.at = "ready", !.told = told, !.snap = snap]
    <2>1. sess' = [sess EXCEPT ![s] = x]
      BY <1>3 DEF Poll
    <2> HIDE DEF snap, told
    <2>2. Remembers(x)
      BY <1>0 DEF Remembers, IsSession
    <2>3. QED
      BY <2>1, <2>2, OneSession
  <1>4. CASE Search(s)
    <2> DEFINE found == Flagged(Records(s))
               x == [sess[s] EXCEPT !.at = "found", !.found = found]
    <2>1. sess' = [sess EXCEPT ![s] = x]
      BY <1>4 DEF Search
    <2> HIDE DEF found
    <2>2. Remembers(x)
      BY <1>0 DEF Remembers, IsSession
    <2>3. QED
      BY <2>1, <2>2, OneSession
  <1>5. CASE ReadDeleted(s)
    <2> DEFINE ids == Flagged(Records(s))
               seen == Flagged(Current(s))
               away == ids \ Uids(Current(s))
               x == [sess[s] EXCEPT !.at = "purge", !.ids = ids, !.seen = seen, !.away = away]
    <2>1. sess' = [sess EXCEPT ![s] = x]
      BY <1>5 DEF ReadDeleted
    <2>2. ids \subseteq seen \cup away
      <3> SUFFICES ASSUME NEW u \in ids, u \in Uids(Current(s)) PROVE u \in seen
        OBVIOUS
      <3>1. PICK i \in Records(s) : i.uid = u /\ i.deleted
        BY DEF Flagged
      <3>2. PICK r \in Current(s) : i = Item(r)
        BY <3>1 DEF Records, Uids
      <3>3. r.uid = u /\ r.deleted
        BY <3>1, <3>2 DEF Item
      <3>4. QED
        BY <3>3 DEF Flagged
    <2> HIDE DEF ids, seen, away
    <2>3. Remembers(x)
      BY <1>0, <2>2 DEF Remembers, IsSession
    <2>4. QED
      BY <2>1, <2>3, OneSession
  <1>6. CASE Purge(s)
    <2>1. CASE SessionAt(s, "ready")
      BY <2>1, SessionLeaves
    <2>2. CASE ~SessionAt(s, "ready")
      <3> DEFINE found == sess[s].found
                 dead == {r \in Current(s) : r.uid \in sess[s].ids}
                 missed == {r \in rows \ dead : r.box = BoxOf[s] /\ r.uid \in sess[s].ids}
                 lost == sess[s].lost \/ found # sess[s].ids \/ missed # {}
                 snap == {i \in Records(s) : i.uid \notin sess[s].ids}
                 before == InOrder(Uids(sess[s].snap))
                 told == IF lost THEN <<>> ELSE Expunged(sess[s].told, Reverse(NumbersOf(before, found)))
                 x == [sess[s] EXCEPT !.at = "ready", !.ids = {}, !.seen = {}, !.away = {}, !.found = {},
                                      !.snap = snap, !.lost = lost, !.told = told]
      <3>1. sess' = [sess EXCEPT ![s] = x]
        BY <1>0, <1>6, <2>2 DEF Purge, Remembers, IsSession
      <3> HIDE DEF found, dead, missed, lost, snap, before, told
      <3>2. Remembers(x)
        BY <1>0 DEF Remembers, IsSession
      <3>3. QED
        BY <3>1, <3>2, OneSession
    <2>3. QED
      BY <2>1, <2>2
  <1>7. ASSUME NEW d, NEW U, MoveInsert(s, U, d) PROVE SessionsInv'
    <2> DEFINE seen == Uids({r \in Current(s) : r.uid \in U})
               x == [sess[s] EXCEPT !.at = "move", !.ids = U, !.seen = seen]
    <2>1. sess' = [sess EXCEPT ![s] = x]
      BY <1>7 DEF MoveInsert
    <2> HIDE DEF seen
    <2>2. Remembers(x)
      BY <1>0 DEF Remembers, IsSession
    <2>3. QED
      BY <2>1, <2>2, OneSession
  <1>8. CASE MoveDelete(s) \/ CommandFails(s)
    BY <1>8, SessionLeaves DEF MoveDelete, CommandFails
  <1>9. ASSUME NEW d, NEW m, NEW flag, Append1(s, d, m, flag) PROVE SessionsInv'
    BY <1>1, <1>9 DEF Append1
  <1>10. QED
    BY <1>1, <1>2, <1>3, <1>4, <1>5, <1>6, <1>7, <1>8, <1>9
       DEF Session, Status, SessionCommit, Store, Copy, CreateMailbox, DeleteMailbox, RenameInbox, RenameMailbox

LEMMA StepMailInv == MailInv /\ [Next]_vars => MailInv'
  <1> SUFFICES ASSUME MailInv, [Next]_vars PROVE MailInv'
    OBVIOUS
  <1>1. CASE UNCHANGED vars
    <2>1. StoreInv'
      BY <1>1, StoreUnchanged DEF MailInv, vars, storeVars
    <2>2. SessionsInv'
      BY <1>1 DEF MailInv, SessionsInv, vars
    <2>3. QED
      BY <2>1, <2>2 DEF MailInv
  <1>2. CASE StoreNext /\ UNCHANGED <<sess, announced>>
    <2>1. StoreInv'
      BY <1>2, DeliveryStep, WebStep DEF StoreNext, MailInv
    <2>2. SessionsInv'
      BY <1>2 DEF MailInv, SessionsInv
    <2>3. QED
      BY <2>1, <2>2 DEF MailInv
  <1>3. CASE (\E s \in Sessions \cap scene.actors : Session(s)) /\ UNCHANGED scene
    <2>1. PICK s \in Sessions : Session(s)
      BY <1>3
    <2>2. StoreInv'
      BY <1>3, <2>1, SessionStep
    <2>3. SessionsInv'
      BY <2>1, SessionRemembers DEF MailInv
    <2>4. QED
      BY <2>2, <2>3 DEF MailInv
  <1>4. QED
    BY <1>1, <1>2, <1>3 DEF Next

THEOREM StoreCorrect == Spec => []MailInv
  BY InitMailInv, StepMailInv, PTL DEF Spec

\* Mail the peer was told we have was stored for each recipient, for every number of
\* mailboxes, transactions, retries, web clients and sessions.
THEOREM AcknowledgedCorrect == Spec => []AcknowledgedIsStored
  <1>1. MailInv => AcknowledgedIsStored
    BY DEF MailInv, StoreInv
  <1>2. QED
    BY <1>1, StoreCorrect, PTL

\* A retried delivery is stored once, unless an IMAP client has moved or removed the copy.
THEOREM RetryCorrect == Spec => []RetryStoredOnce
  <1>1. MailInv => RetryStoredOnce
    BY DEF MailInv, StoreInv
  <1>2. QED
    BY <1>1, StoreCorrect, PTL
-----------------------------------------------------------------------------
(* Numbers: what a step of any kind leaves as it was.                       *)

\* A set of numbers has a smallest one, and a greatest one if it has a bound.
LEMMA SmallestOf ==
  ASSUME NEW T \in SUBSET Nat, T # {}
  PROVE \E x \in T : \A y \in T : x <= y
  <1> DEFINE I == {0..u : u \in T}
  <1>1. I \subseteq FiniteSubsetsOf(Nat) /\ I # {}
    <2>1. \A u \in Nat : 0..u \subseteq Nat /\ IsFiniteSet(0..u)
      BY FS_Interval
    <2>2. \A u \in T : 0..u \in FiniteSubsetsOf(Nat)
      BY <2>1 DEF FiniteSubsetsOf
    <2>3. QED
      BY <2>2
  <1>2. PICK i \in I : \A j \in I : ~(<<j, i>> \in StrictSubsetOrdering(Nat))
    BY <1>1, FS_StrictSubsetOrderingWellFounded, WFMin
  <1>3. PICK x \in T : i = 0..x
    OBVIOUS
  <1>4. ASSUME NEW y \in T, y < x PROVE FALSE
    <2>1. (0..y) \subseteq (0..x) /\ x \in 0..x /\ x \notin 0..y
      BY <1>4
    <2>2. <<0..y, 0..x>> \in StrictSubsetOrdering(Nat)
      BY <2>1 DEF StrictSubsetOrdering
    <2>3. QED
      BY <1>2, <1>3, <2>2
  <1>5. QED
    BY <1>4

LEMMA MaxBelow ==
  ASSUME NEW S \in SUBSET Nat, S # {}, NEW n \in Nat, \A x \in S : x <= n
  PROVE Max(S) \in S /\ \A x \in S : x <= Max(S)
  <1> DEFINE T == {u \in Nat : \A x \in S : x <= u}
  <1>1. PICK m \in T : \A y \in T : m <= y
    BY SmallestOf
  <1>2. m \in S
    <2> SUFFICES ASSUME m \notin S PROVE FALSE
      OBVIOUS
    <2>0. m \in Nat /\ \A x \in S : x < m
      BY <1>1
    <2>1. PICK least \in S : TRUE
      OBVIOUS
    <2>2. m - 1 \in T
      <3>1. least \in Nat /\ least < m
        BY <2>0
      <3>2. m - 1 \in Nat /\ \A x \in S : x <= m - 1
        BY <2>0, <3>1
      <3>3. QED
        BY <3>2
    <2>3. QED
      BY <1>1, <2>2, <2>0
  <1>3. QED
    BY <1>1, <1>2 DEF Max

\* UidsAscend of one step.
Ascends ==
    \A v \in 1..MaxFolders :
        (\E b \in Boxes, d \in Names : dirs[b][d] = v) =>
            \A n \in InFolder(v)' \ InFolder(v) :
                /\ n >= announced[v]
                /\ \A u \in InFolder(v) : n > u

\* Every message was in its folder under its number, or the folder is new.
LEMMA NoNewcomers ==
  ASSUME Folders,
         \A q \in rows' : \/ dirs'[q.box][q.dir] > validity
                          \/ \E r \in rows : r.uid = q.uid /\ dirs[r.box][r.dir] = dirs'[q.box][q.dir]
  PROVE  Ascends
  <1> SUFFICES ASSUME NEW v \in 1..MaxFolders, NEW b \in Boxes, NEW d \in Names, dirs[b][d] = v,
                      NEW n \in InFolder(v)'
               PROVE  n \in InFolder(v)
    BY DEF Ascends
  <1>1. PICK q \in rows' : q.uid = n /\ dirs'[q.box][q.dir] = v
    BY DEF InFolder
  <1>2. v <= validity
    BY DEF Folders
  <1>3. PICK r \in rows : r.uid = n /\ dirs[r.box][r.dir] = v
    BY <1>1, <1>2 DEF Folders
  <1>4. QED
    BY <1>3 DEF InFolder

LEMMA PlacedStays ==
  ASSUME NEW t \in open, Placed(t), \A q \in t.new : IsRow(q), t.old \subseteq rows',
         \A q \in t.new : dirs[t.box][q.dir] # 0 => dirs'[t.box][q.dir] # 0,
         \A d \in t.makes : dirs'[t.box][d] = 0,
         t.locks => \A r \in rows' : r.box = t.box => \E p \in rows : p.box = r.box /\ p.uid = r.uid,
         t.locks => \A d \in Names : dirs'[t.box][d] \in 1..MaxFolders =>
                        \A q \in t.new : announced'[dirs'[t.box][d]] <= q.uid
  PROVE  Placed(t)'
  <1>1. t.locks => Above(t)'
    BY DEF Placed, Above
  <1>2. ~t.locks => Follows(t)'
    BY DEF Placed, Follows
  <1>3. \A d \in t.makes : d \in Names
    BY DEF Placed
  <1>4. QED
    BY <1>1, <1>2, <1>3 DEF Placed

\* Rows, folders and announcements stay.
LEMMA NumbersSame ==
  ASSUME StoreInv, NumbersInv, rows' = rows, dirs' = dirs, validity' = validity, announced' = announced,
         open' \subseteq open, uid' \in Nat, uid' >= uid
  PROVE  NumbersInv' /\ Ascends
  <1> USE DEF NumbersInv
  <1>1. Numbered' /\ OneUid' /\ Folders' /\ Apart'
    BY DEF Numbered, OneUid, Folders, Apart
  <1>2. Announced'
    BY DEF Announced, Numbered
  <1>3. \A t \in open : Placed(t)'
    BY DEF Placed, Above, Follows
  <1>4. Ascends
    BY NoNewcomers
  <1>5. QED
    BY <1>1, <1>2, <1>3, <1>4

LEMMA NumbersBegin ==
  ASSUME StoreInv, NumbersInv, rows' = rows, dirs' = dirs, validity' = validity, announced' = announced,
         uid' \in Nat, uid' >= uid,
         NEW t0, open' = open \cup {t0}, Placed(t0), \A q \in t0.new : q.uid \in 1..uid',
         Unlocked(t0.old), \A d \in t0.makes : NameFree(t0.box, d)
  PROVE  NumbersInv' /\ Ascends
  <1> USE DEF NumbersInv
  <1>1. Numbered' /\ OneUid' /\ Folders'
    BY DEF Numbered, OneUid, Folders
  <1>2. Apart'
    BY DEF Apart, Unlocked, NameFree
  <1>3. Announced'
    BY DEF Announced, Numbered
  <1>4. \A t \in open' : Placed(t)'
    BY DEF Placed, Above, Follows
  <1>5. Ascends
    BY NoNewcomers
  <1>6. QED
    BY <1>1, <1>2, <1>3, <1>4, <1>5

\* A number of the sequence is given to one more folder.
LEMMA FolderMade ==
  ASSUME Folders, NEW b \in Boxes, NEW d \in Names, dirs[b][d] = 0, MakeDir(b, d)
  PROVE  /\ validity' = validity + 1 /\ validity' \in Nat
         /\ dirs' \in [Boxes -> [Names -> 0..validity']]
         /\ \A a, c \in Boxes, f, e \in Names : dirs'[a][f] # 0 /\ dirs'[a][f] = dirs'[c][e] => a = c /\ f = e
         /\ dirs'[b][d] = validity + 1
         /\ \A c \in Boxes, e \in Names : ~(c = b /\ e = d) => dirs'[c][e] = dirs[c][e]
  <1>1. validity' = validity + 1 /\ dirs' = [dirs EXCEPT ![b][d] = validity + 1] /\ validity \in Nat
    BY DEF MakeDir, Folders
  <1>2. dirs \in [Boxes -> [Names -> 0..validity]]
    BY DEF Folders
  <1>3. /\ dirs'[b][d] = validity + 1
        /\ \A c \in Boxes, e \in Names : ~(c = b /\ e = d) => dirs'[c][e] = dirs[c][e]
    BY <1>1, <1>2
  <1>4. dirs' \in [Boxes -> [Names -> 0..(validity + 1)]]
    <2>1. \A c \in Boxes, e \in Names : dirs[c][e] \in 0..(validity + 1)
      BY <1>1, <1>2
    <2>2. dirs \in [Boxes -> [Names -> 0..(validity + 1)]]
      BY <1>2, <2>1
    <2>3. QED
      BY <1>1, <2>2
  <1>5. \A c \in Boxes, e \in Names : dirs[c][e] \in Nat /\ dirs[c][e] <= validity
    BY <1>1, <1>2
  <1>6. ASSUME NEW a \in Boxes, NEW c \in Boxes, NEW f \in Names, NEW e \in Names,
               dirs'[a][f] # 0, dirs'[a][f] = dirs'[c][e]
        PROVE  a = c /\ f = e
    <2>1. CASE (a = b /\ f = d) \/ (c = b /\ e = d)
      BY <1>1, <1>3, <1>5, <1>6, <2>1
    <2>2. CASE ~(a = b /\ f = d) /\ ~(c = b /\ e = d)
      BY <1>3, <1>6, <2>2 DEF Folders
    <2>3. QED
      BY <2>1, <2>2
  <1>7. QED
    BY <1>1, <1>3, <1>4, <1>6

LEMMA NumbersMakeDir ==
  ASSUME StoreInv, NumbersInv, rows' = rows, open' = open, uid' = uid, announced' = announced,
         NEW b \in Boxes, NEW d \in Names, dirs[b][d] = 0, NameFree(b, d), MakeDir(b, d)
  PROVE  NumbersInv' /\ Ascends
  <1> USE DEF NumbersInv
  <1>1. /\ validity' = validity + 1 /\ validity \in Nat
        /\ dirs' \in [Boxes -> [Names -> 0..validity']]
        /\ \A a, c \in Boxes, f, e \in Names : dirs'[a][f] # 0 /\ dirs'[a][f] = dirs'[c][e] => a = c /\ f = e
        /\ dirs'[b][d] = validity + 1
        /\ \A c \in Boxes, e \in Names : ~(c = b /\ e = d) => dirs'[c][e] = dirs[c][e]
    BY FolderMade DEF Folders
  <1>2. \A r \in rows : IsRow(r) /\ r.box \in Boxes /\ r.dir \in Names
    BY RowFields DEF StoreInv, Typed
  <1>3. \A r \in rows : dirs'[r.box][r.dir] = dirs[r.box][r.dir]
    BY <1>1, <1>2 DEF Folders
  <1>4. Numbered' /\ OneUid' /\ Apart'
    BY DEF Numbered, OneUid, Apart
  <1>5. Folders'
    BY <1>1, <1>3 DEF Folders
  <1>6. Announced'
    BY <1>1 DEF Announced
  <1>7. ASSUME NEW t \in open PROVE Placed(t)'
    <2>1. Placed(t) /\ t.box \in Boxes /\ t.old \subseteq rows
      BY DEF Placed
    <2>2. \A q \in t.new : IsRow(q) /\ q.dir \in Names /\ q.uid \in Nat
      BY RowFields DEF StoreInv, Typed, Numbered
    <2>3. \A q \in t.new : dirs[t.box][q.dir] # 0 => dirs'[t.box][q.dir] # 0
      BY <1>1, <2>1, <2>2
    <2>4. \A e \in t.makes : dirs'[t.box][e] = 0
      BY <1>1, <2>1 DEF Placed, NameFree
    <2>5. t.locks => \A e \in Names : dirs'[t.box][e] \in 1..MaxFolders =>
                        \A q \in t.new : announced'[dirs'[t.box][e]] <= q.uid
      <3> SUFFICES ASSUME t.locks, NEW e \in Names, dirs'[t.box][e] \in 1..MaxFolders, NEW q \in t.new
                   PROVE  announced[dirs'[t.box][e]] <= q.uid
        OBVIOUS
      <3>1. CASE t.box = b /\ e = d
        BY <1>1, <2>2, <3>1 DEF Announced
      <3>2. CASE ~(t.box = b /\ e = d)
        BY <1>1, <2>1, <3>2 DEF Placed, Above
      <3>3. QED
        BY <3>1, <3>2
    <2>6. QED
      BY <2>1, <2>2, <2>3, <2>4, <2>5, PlacedStays
  <1>8. Ascends
    BY <1>3, NoNewcomers
  <1>9. QED
    BY <1>4, <1>5, <1>6, <1>7, <1>8

LEMMA NumbersCommit ==
  ASSUME StoreInv, NumbersInv, uid' = uid, announced' = announced,
         NEW t \in open, NEW gone, CommitWithout(t, gone), Unlocked(gone)
  PROVE  NumbersInv' /\ Ascends
  <1> USE DEF NumbersInv
  <1>1. rows' = (rows \ (t.old \cup gone)) \cup t.new /\ open' = open \ {t}
    BY DEF CommitWithout
  <1>2. /\ Placed(t) /\ t.box \in Boxes /\ t.old \subseteq rows
        /\ \A q \in t.new : IsRow(q) /\ q.box = t.box /\ q.dir \in Names /\ q.uid \in Nat
    BY RowFields DEF Placed, StoreInv, Typed, Numbered
  <1>3. \A r \in rows : r.box \in Boxes /\ r.dir \in Names /\ r.uid \in Nat
    BY RowFields DEF StoreInv, Typed, Numbered
  <1>4. validity \in Nat /\ \A c \in Boxes, e \in Names : dirs[c][e] \in Nat /\ dirs[c][e] <= validity
    BY DEF Folders
  <1>5. /\ validity' \in Nat /\ validity' >= validity
        /\ dirs' \in [Boxes -> [Names -> 0..validity']]
        /\ \A a, c \in Boxes, f, e \in Names : dirs'[a][f] # 0 /\ dirs'[a][f] = dirs'[c][e] => a = c /\ f = e
        /\ \A c \in Boxes, e \in Names :
              \/ dirs'[c][e] = dirs[c][e]
              \/ /\ c = t.box /\ e \in t.makes
                 /\ dirs[c][e] = 0 /\ dirs'[c][e] = validity + 1
        /\ \A e \in t.makes : dirs'[t.box][e] = validity + 1
    <2>1. CASE t.makes = {}
      <3>1. dirs' = dirs /\ validity' = validity
        BY <2>1 DEF CommitWithout
      <3>2. QED
        BY <2>1, <3>1, <1>4 DEF Folders
    <2>2. CASE t.makes # {}
      <3>1. PICK d \in Names : t.makes = {d} /\ dirs[t.box][d] = 0
        BY <1>2, <2>2 DEF Placed
      <3>2. MakeDir(t.box, d)
        BY <3>1 DEF CommitWithout
      <3>3. QED
        BY <1>2, <1>4, <3>1, <3>2, FolderMade
    <2>3. QED
      BY <2>1, <2>2
  <1>6. Numbered'
    BY <1>1 DEF Numbered
  <1>7. OneUid'
    <2>1. ASSUME NEW r \in rows, r \notin t.old, NEW q \in t.new, r.box = q.box, r.uid = q.uid PROVE FALSE
      <3>1. CASE t.locks
        BY <1>2, <1>3, <2>1, <3>1 DEF Placed, Above
      <3>2. CASE ~t.locks
        <4>1. PICK p \in t.old : SameNumber(p, q)
          BY <1>2, <2>1, <3>2 DEF Placed, Follows
        <4>2. QED
          BY <1>2, <2>1, <4>1 DEF OneUid, SameNumber
      <3>3. QED
        BY <3>1, <3>2
    <2>2. \A q, p \in t.new : q.uid = p.uid => q = p
      BY <1>2 DEF Placed
    <2>3. QED
      BY <1>1, <2>1, <2>2 DEF OneUid
  <1>8. Folders'
    <2>1. \A r \in rows : dirs'[r.box][r.dir] # 0
      BY <1>3, <1>4, <1>5 DEF Folders
    <2>2. \A q \in t.new : dirs'[q.box][q.dir] # 0
      BY <1>2, <1>4, <1>5 DEF Placed
    <2>3. QED
      BY <1>1, <1>5, <2>1, <2>2 DEF Folders
  <1>9. Apart'
    BY <1>1 DEF Apart
  <1>10. Announced'
    BY <1>4, <1>5 DEF Announced
  <1>11. ASSUME NEW u \in open, u # t PROVE Placed(u)'
    <2>1. Placed(u) /\ u.box \in Boxes /\ u.old \subseteq rows
      BY DEF Placed
    <2>2. \A q \in u.new : IsRow(q) /\ q.dir \in Names /\ q.uid \in Nat
      BY RowFields DEF StoreInv, Typed, Numbered
    <2>3. u.old \subseteq rows'
      BY <1>1, <1>11, <2>1 DEF Apart, Unlocked
    <2>4. \A q \in u.new : dirs[u.box][q.dir] # 0 => dirs'[u.box][q.dir] # 0
      BY <1>4, <1>5, <2>1, <2>2
    <2>5. \A e \in u.makes : e \in Names /\ dirs[u.box][e] = 0
      BY <2>1 DEF Placed
    <2>6. \A e \in u.makes : dirs'[u.box][e] = 0
      BY <1>5, <1>11, <2>1, <2>5 DEF Apart
    <2>7. u.locks => \A r \in rows' : r.box = u.box => \E p \in rows : p.box = r.box /\ p.uid = r.uid
      <3> SUFFICES ASSUME u.locks, NEW r \in t.new, r.box = u.box
                   PROVE  \E p \in rows : p.box = r.box /\ p.uid = r.uid
        BY <1>1
      <3>1. ~t.locks
        BY <1>2, <1>11 DEF StoreInv, OneLock
      <3>2. PICK p \in t.old : SameNumber(p, r)
        BY <1>2, <3>1 DEF Placed, Follows
      <3>3. QED
        BY <1>2, <3>2 DEF SameNumber
    <2>8. u.locks => \A e \in Names : dirs'[u.box][e] \in 1..MaxFolders =>
                        \A q \in u.new : announced'[dirs'[u.box][e]] <= q.uid
      <3> SUFFICES ASSUME u.locks, NEW e \in Names, dirs'[u.box][e] \in 1..MaxFolders, NEW q \in u.new
                   PROVE  announced[dirs'[u.box][e]] <= q.uid
        OBVIOUS
      <3>1. CASE dirs'[u.box][e] = validity + 1
        BY <1>4, <2>2, <3>1 DEF Announced
      <3>2. CASE dirs'[u.box][e] = dirs[u.box][e]
        BY <2>1, <3>2 DEF Placed, Above
      <3>3. QED
        BY <1>5, <2>1, <3>1, <3>2
    <2>9. QED
      BY <2>1, <2>2, <2>3, <2>4, <2>6, <2>7, <2>8, PlacedStays
  <1>12. Ascends
    <2> SUFFICES ASSUME NEW v \in 1..MaxFolders, NEW b \in Boxes, NEW d \in Names, dirs[b][d] = v,
                        NEW n \in InFolder(v)', n \notin InFolder(v)
                 PROVE  n >= announced[v] /\ \A u \in InFolder(v) : n > u
      BY DEF Ascends
    <2>1. PICK q \in rows' : q.uid = n /\ dirs'[q.box][q.dir] = v
      BY DEF InFolder
    <2>2. v \in Nat /\ v # 0 /\ v <= validity
      BY <1>4
    <2>3. q.box \in Boxes /\ q.dir \in Names
      BY <1>1, <1>2, <1>3, <2>1
    <2>4. dirs[q.box][q.dir] = v
      BY <1>4, <1>5, <2>1, <2>2, <2>3
    <2>5. q \in t.new
      BY <1>1, <2>1, <2>4 DEF InFolder
    <2>6. q.dir \notin t.makes
      BY <1>2, <1>4, <1>5, <2>1, <2>2, <2>5
    <2>7. Above(t)
      BY <1>2, <2>5, <2>6 DEF Placed, Follows
    <2>8. announced[v] <= n
      BY <1>2, <2>1, <2>3, <2>4, <2>5, <2>7 DEF Above
    <2>9. ASSUME NEW u \in InFolder(v) PROVE n > u
      <3>1. PICK r \in rows : r.uid = u /\ dirs[r.box][r.dir] = v
        BY DEF InFolder
      <3>2. r.box = q.box
        BY <1>3, <2>2, <2>3, <2>4, <3>1 DEF Folders
      <3>3. r.uid < q.uid
        BY <1>2, <2>5, <2>7, <3>2 DEF Above
      <3>4. QED
        BY <1>2, <1>3, <2>1, <2>5, <3>1, <3>3
    <2>10. announced[v] \in Nat /\ n \in Nat
      BY <1>2, <2>1, <2>5 DEF Announced
    <2>11. QED
      BY <2>8, <2>9, <2>10
  <1>13. QED
    BY <1>1, <1>6, <1>7, <1>8, <1>9, <1>10, <1>11, <1>12

\* Rows stay in their folders under their numbers, or go.
LEMMA NumbersRows ==
  ASSUME StoreInv, NumbersInv, dirs' = dirs, validity' = validity, uid' = uid, announced' = announced, open' = open,
         \A q \in rows' : \E r \in rows : q.box = r.box /\ q.uid = r.uid /\ q.dir = r.dir,
         OneUid', \A t \in open : t.old \subseteq rows'
  PROVE  NumbersInv' /\ Ascends
  <1> USE DEF NumbersInv
  <1>1. Numbered' /\ Folders' /\ Apart' /\ Announced'
    <2>1. Numbered'
      BY DEF Numbered
    <2>2. Folders'
      BY DEF Folders
    <2>3. Apart' /\ Announced'
      BY DEF Apart, Announced
    <2>4. QED
      BY <2>1, <2>2, <2>3
  <1>2. ASSUME NEW t \in open PROVE Placed(t)'
    <2>1. Placed(t) /\ (\A q \in t.new : IsRow(q)) /\ \A d \in t.makes : dirs[t.box][d] = 0
      BY DEF Placed, StoreInv, Typed
    <2>2. t.locks => \A d \in Names : dirs'[t.box][d] \in 1..MaxFolders =>
                        \A q \in t.new : announced'[dirs'[t.box][d]] <= q.uid
      BY <2>1 DEF Placed, Above
    <2>3. \A r \in rows' : r.box = t.box => \E p \in rows : p.box = r.box /\ p.uid = r.uid
      OBVIOUS
    <2>4. QED
      BY <2>1, <2>2, <2>3, PlacedStays
  <1>3. Ascends
    BY NoNewcomers
  <1>4. QED
    BY <1>1, <1>2, <1>3

\* A folder goes with its messages.
LEMMA NumbersDelete ==
  ASSUME StoreInv, NumbersInv, validity' = validity, uid' = uid, announced' = announced, open' = open,
         NEW b \in Boxes, NEW d \in Names, NotInUse(b, d), Unlocked(InDir(b, d)),
         dirs' = [dirs EXCEPT ![b][d] = 0], rows' = rows \ InDir(b, d)
  PROVE  NumbersInv' /\ Ascends
  <1> USE DEF NumbersInv
  <1>1. \A r \in rows : r.box \in Boxes /\ r.dir \in Names
    BY RowFields DEF StoreInv, Typed
  <1>2. validity \in Nat /\ dirs \in [Boxes -> [Names -> 0..validity]]
    BY DEF Folders
  <1>3. /\ dirs' \in [Boxes -> [Names -> 0..validity]]
        /\ dirs'[b][d] = 0
        /\ \A c \in Boxes, e \in Names : ~(c = b /\ e = d) => dirs'[c][e] = dirs[c][e]
    BY <1>2
  <1>4. \A r \in rows' : r \in rows /\ dirs'[r.box][r.dir] = dirs[r.box][r.dir]
    BY <1>1, <1>3 DEF InDir
  <1>5. Numbered' /\ OneUid' /\ Apart' /\ Announced'
    BY <1>4 DEF Numbered, OneUid, Apart, Announced
  <1>6. \A a, c \in Boxes, f, e \in Names : dirs'[a][f] # 0 /\ dirs'[a][f] = dirs'[c][e] => a = c /\ f = e
    BY <1>3 DEF Folders
  <1>7. Folders'
    BY <1>2, <1>3, <1>4, <1>6 DEF Folders
  <1>8. ASSUME NEW t \in open PROVE Placed(t)'
    <2>1. Placed(t) /\ t.box \in Boxes /\ \A e \in t.makes : e \in Names /\ dirs[t.box][e] = 0
      BY DEF Placed
    <2>2. \A q \in t.new : IsRow(q) /\ q.dir \in Names /\ q.box = t.box
      BY RowFields DEF StoreInv, Typed, Placed
    <2>3. t.old \subseteq rows'
      BY DEF Placed, Unlocked
    <2>4. \A q \in t.new : dirs[t.box][q.dir] # 0 => dirs'[t.box][q.dir] # 0
      BY <1>3, <2>1, <2>2 DEF NotInUse
    <2>5. \A e \in t.makes : dirs'[t.box][e] = 0
      BY <1>3, <2>1
    <2>6. t.locks => \A e \in Names : dirs'[t.box][e] \in 1..MaxFolders =>
                        \A q \in t.new : announced'[dirs'[t.box][e]] <= q.uid
      <3> SUFFICES ASSUME t.locks, NEW e \in Names, dirs'[t.box][e] \in 1..MaxFolders, NEW q \in t.new
                   PROVE  announced[dirs'[t.box][e]] <= q.uid
        OBVIOUS
      <3>1. dirs'[t.box][e] = dirs[t.box][e]
        BY <1>3, <2>1
      <3>2. QED
        BY <2>1, <3>1 DEF Placed, Above
    <2>7. \A r \in rows' : r.box = t.box => \E p \in rows : p.box = r.box /\ p.uid = r.uid
      BY <1>4
    <2>8. QED
      BY <2>1, <2>2, <2>3, <2>4, <2>5, <2>6, <2>7, PlacedStays
  <1>9. Ascends
    BY <1>4, NoNewcomers
  <1>10. QED
    BY <1>5, <1>7, <1>8, <1>9

\* A folder keeps its number and its messages under another name.
LEMMA NumbersRename ==
  ASSUME StoreInv, NumbersInv, validity' = validity, uid' = uid, announced' = announced, open' = open,
         NEW b \in Boxes, NEW d \in Names, NEW e \in Names, dirs[b][d] # 0, dirs[b][e] = 0, NameFree(b, e),
         NotInUse(b, d), Unlocked(InDir(b, d)),
         dirs' = [dirs EXCEPT ![b][d] = 0, ![b][e] = dirs[b][d]],
         NEW after, rows' = {after[r] : r \in rows},
         \A r \in rows :
             /\ SameNumber(r, after[r])
             /\ after[r].dir = (IF r \in InDir(b, d) THEN e ELSE r.dir)
             /\ r \notin InDir(b, d) => after[r] = r
  PROVE  NumbersInv' /\ Ascends
  <1> USE DEF NumbersInv
  <1>1. \A r \in rows : IsRow(r) /\ r.box \in Boxes /\ r.dir \in Names
    BY RowFields DEF StoreInv, Typed
  <1>2. validity \in Nat /\ dirs \in [Boxes -> [Names -> 0..validity]] /\ d # e
    BY DEF Folders
  <1>3. /\ dirs' \in [Boxes -> [Names -> 0..validity]]
        /\ dirs'[b][d] = 0 /\ dirs'[b][e] = dirs[b][d]
        /\ \A c \in Boxes, f \in Names : ~(c = b /\ f \in {d, e}) => dirs'[c][f] = dirs[c][f]
    BY <1>2
  <1>4. \A r \in rows : dirs'[after[r].box][after[r].dir] = dirs[r.box][r.dir]
    <2> SUFFICES ASSUME NEW r \in rows PROVE dirs'[after[r].box][after[r].dir] = dirs[r.box][r.dir]
      OBVIOUS
    <2>1. CASE r \in InDir(b, d)
      BY <1>3, <2>1 DEF InDir, SameNumber
    <2>2. CASE r \notin InDir(b, d)
      <3>1. ~(r.box = b /\ r.dir \in {d, e})
        BY <2>2 DEF InDir, Folders
      <3>2. QED
        BY <1>1, <1>3, <2>2, <3>1
    <2>3. QED
      BY <2>1, <2>2
  <1>5. Numbered' /\ Apart' /\ Announced'
    BY DEF Numbered, Apart, Announced, SameNumber
  <1>6. OneUid'
    <2> SUFFICES ASSUME NEW r \in rows, NEW o \in rows, after[r].box = after[o].box, after[r].uid = after[o].uid
                 PROVE  after[r] = after[o]
      BY DEF OneUid
    <2>1. r = o
      BY DEF OneUid, SameNumber
    <2>2. QED
      BY <2>1
  <1>7. \A a, c \in Boxes, f, g \in Names : dirs'[a][f] # 0 /\ dirs'[a][f] = dirs'[c][g] => a = c /\ f = g
    BY <1>2, <1>3 DEF Folders
  <1>8. \A q \in rows' : dirs'[q.box][q.dir] # 0
    BY <1>4 DEF Folders
  <1>9. Folders'
    BY <1>2, <1>3, <1>7, <1>8 DEF Folders
  <1>10. ASSUME NEW t \in open PROVE Placed(t)'
    <2>1. Placed(t) /\ t.box \in Boxes /\ \A f \in t.makes : f \in Names /\ dirs[t.box][f] = 0
      BY DEF Placed
    <2>2. \A q \in t.new : IsRow(q) /\ q.dir \in Names /\ q.box = t.box
      BY RowFields DEF StoreInv, Typed, Placed
    <2>3. t.old \subseteq rows'
      <3> SUFFICES ASSUME NEW r \in t.old PROVE r \in rows'
        OBVIOUS
      <3>1. r \in rows /\ r \notin InDir(b, d)
        BY <2>1 DEF Placed, Unlocked
      <3>2. after[r] = r /\ after[r] \in rows'
        BY <3>1
      <3>3. QED
        BY <3>2
    <2>4. \A q \in t.new : dirs[t.box][q.dir] # 0 => dirs'[t.box][q.dir] # 0
      BY <1>3, <2>1, <2>2 DEF NotInUse
    <2>5. \A f \in t.makes : dirs'[t.box][f] = 0
      BY <1>3, <2>1 DEF NameFree
    <2>6. t.locks => \A f \in Names : dirs'[t.box][f] \in 1..MaxFolders =>
                        \A q \in t.new : announced'[dirs'[t.box][f]] <= q.uid
      <3> SUFFICES ASSUME t.locks, NEW f \in Names, dirs'[t.box][f] \in 1..MaxFolders, NEW q \in t.new
                   PROVE  announced[dirs'[t.box][f]] <= q.uid
        OBVIOUS
      <3>1. PICK g \in Names : dirs'[t.box][f] = dirs[t.box][g]
        BY <1>3, <2>1
      <3>2. QED
        BY <2>1, <3>1 DEF Placed, Above
    <2>7. \A r \in rows' : r.box = t.box => \E p \in rows : p.box = r.box /\ p.uid = r.uid
      BY DEF SameNumber
    <2>8. QED
      BY <2>1, <2>2, <2>3, <2>4, <2>5, <2>6, <2>7, PlacedStays
  <1>11. Ascends
    <2>1. ASSUME NEW q \in rows' PROVE \E r \in rows : r.uid = q.uid /\ dirs[r.box][r.dir] = dirs'[q.box][q.dir]
      <3>1. PICK r \in rows : q = after[r]
        OBVIOUS
      <3>2. r.uid = q.uid /\ dirs[r.box][r.dir] = dirs'[q.box][q.dir]
        BY <1>4, <3>1 DEF SameNumber
      <3>3. QED
        BY <3>2
    <2>2. QED
      BY <2>1, NoNewcomers
  <1>12. QED
    BY <1>5, <1>6, <1>9, <1>10, <1>11

\* One entry raised to a number, where it is below.
LEMMA Raised ==
  ASSUME NEW S, NEW f \in [S -> Nat], NEW n \in Nat, NEW w, NEW g,
         g = [f EXCEPT ![w] = IF n > @ THEN n ELSE @]
  PROVE  g \in [S -> Nat] /\ \A v \in S : g[v] = f[v] \/ (v = w /\ g[v] = n)
  <1>1. CASE w \in S
    <2>1. \A v \in S : g[v] = IF v = w THEN (IF n > f[w] THEN n ELSE f[w]) ELSE f[v]
      BY <1>1
    <2>2. QED
      BY <2>1
  <1>2. CASE w \notin S
    <2>1. g = f
      BY <1>2
    <2>2. QED
      BY <2>1
  <1>3. QED
    BY <1>1, <1>2

\* Clients are told of a number that all new mail of the mailbox will pass.
LEMMA NumbersAnnounce ==
  ASSUME StoreInv, NumbersInv, UNCHANGED storeVars,
         NEW b \in Boxes, NEW d \in Names, NEW n \in Nat, Announce(b, d, n), n <= uid + 1,
         \A t \in open : t.locks /\ t.box = b => \A q \in t.new : n <= q.uid
  PROVE  NumbersInv' /\ Ascends
  <1> USE DEF NumbersInv
  <1>1. rows' = rows /\ dirs' = dirs /\ open' = open /\ uid' = uid /\ validity' = validity
    BY DEF storeVars
  <1>2. Numbered' /\ OneUid' /\ Folders' /\ Apart'
    BY <1>1 DEF Numbered, OneUid, Folders, Apart
  <1>3. announced \in [1..MaxFolders -> Nat] /\ uid \in Nat /\ validity \in Nat
        /\ \A c \in Boxes, e \in Names : dirs[c][e] \in 0..validity
    BY DEF Announced, Numbered, Folders
  <1>4. /\ announced' \in [1..MaxFolders -> Nat]
        /\ \A v \in 1..MaxFolders :
              announced'[v] = announced[v] \/ (v = dirs[b][d] /\ announced'[v] = n)
    <2>1. CASE announced' = announced
      BY <1>3, <2>1
    <2>2. CASE announced' = [announced EXCEPT ![dirs[b][d]] = IF n > @ THEN n ELSE @]
      BY <1>3, <2>2, Raised
    <2>3. QED
      BY <2>1, <2>2 DEF Announce
  <1>5. Announced'
    BY <1>1, <1>3, <1>4 DEF Announced
  <1>6. ASSUME NEW t \in open PROVE Placed(t)'
    <2>1. Placed(t) /\ t.box \in Boxes /\ (\A f \in t.makes : f \in Names /\ dirs[t.box][f] = 0) /\ t.old \subseteq rows
      BY DEF Placed
    <2>2. \A q \in t.new : IsRow(q)
      BY DEF StoreInv, Typed
    <2>3. t.locks => \A f \in Names : dirs'[t.box][f] \in 1..MaxFolders =>
                        \A q \in t.new : announced'[dirs'[t.box][f]] <= q.uid
      <3> SUFFICES ASSUME t.locks, NEW f \in Names, dirs[t.box][f] \in 1..MaxFolders, NEW q \in t.new
                   PROVE  announced'[dirs[t.box][f]] <= q.uid
        BY <1>1
      <3>1. CASE announced'[dirs[t.box][f]] = announced[dirs[t.box][f]]
        BY <2>1, <3>1 DEF Placed, Above
      <3>2. CASE dirs[t.box][f] = dirs[b][d] /\ announced'[dirs[t.box][f]] = n
        <4>1. t.box = b
          BY <2>1, <3>2 DEF Folders
        <4>2. QED
          BY <3>2, <4>1
      <3>3. QED
        BY <1>4, <3>1, <3>2
    <2>4. QED
      BY <1>1, <2>1, <2>2, <2>3, PlacedStays
  <1>7. Ascends
    BY <1>1, NoNewcomers
  <1>8. QED
    BY <1>1, <1>2, <1>5, <1>6, <1>7
\* A transaction with fresh numbers has a place.
LEMMA FreshPlaced ==
  ASSUME NumbersInv, NEW t0, t0.locks, t0.box \in Boxes, t0.old \subseteq rows,
         t0.makes = {} \/ (\E d \in Names : t0.makes = {d} /\ dirs[t0.box][d] = 0),
         \A q \in t0.new : /\ q.box = t0.box /\ (dirs[t0.box][q.dir] # 0 \/ q.dir \in t0.makes)
                           /\ q.uid \in Nat /\ q.uid > uid,
         \A q, p \in t0.new : q.uid = p.uid => q = p
  PROVE  Placed(t0)
  <1>1. uid \in Nat /\ (\A r \in rows : r.uid \in 1..uid)
        /\ (\A v \in 1..MaxFolders : announced[v] \in Nat /\ announced[v] <= uid + 1)
    BY DEF NumbersInv, Numbered, Announced
  <1>2. Above(t0)
    BY <1>1 DEF Above
  <1>3. QED
    BY <1>2 DEF Placed

LEMMA NumbersWeb ==
  ASSUME StoreInv, NumbersInv, NEW w \in Webs, Web(w), announced' = announced
  PROVE  NumbersInv' /\ Ascends
  <1>0. uid \in Nat /\ uid + 1 \in Nat
    BY DEF NumbersInv, Numbered
  <1>1. ASSUME NEW r \in rows, NEW d \in {"INBOX", "Junk"}, MoveMessage(w, r, d)
        PROVE  NumbersInv' /\ Ascends
    <2> DEFINE q == [r EXCEPT !.dir = d, !.uid = uid + 1]
               makes == IF Exists(r.box, d) THEN {} ELSE {d}
    <2>1. d \in Names /\ r.box \in Boxes /\ IsRow(r)
      BY RowFields, StoreAssumption DEF StoreInv, Typed
    <2>2. q.box = r.box /\ q.dir = d /\ q.uid = uid + 1
      BY <2>1 DEF IsRow, RowIn
    <2>3. /\ Begin(w, r.box, {r}, {q}, makes, TRUE) /\ Unlocked({r}) /\ NameFree(r.box, d)
          /\ uid' = uid + 1 /\ UNCHANGED <<rows, dirs, validity>>
      BY <1>1 DEF MoveMessage
    <2>4. makes = {} \/ (\E e \in Names : makes = {e} /\ dirs[r.box][e] = 0)
      BY <2>1 DEF Exists
    <2>5. (dirs[r.box][d] # 0 \/ d \in makes) /\ makes \subseteq {d}
      BY DEF Exists
    <2> HIDE DEF q, makes
    <2> DEFINE t0 == [by |-> w, box |-> r.box, old |-> {r}, new |-> {q}, makes |-> makes, locks |-> TRUE]
    <2>6. t0.box = r.box /\ t0.old = {r} /\ t0.new = {q} /\ t0.makes = makes /\ t0.locks
      OBVIOUS
    <2>7. open' = open \cup {t0}
      BY <2>3 DEF Begin
    <2> HIDE DEF t0
    <2>8. Placed(t0)
      <3>1. t0.locks /\ t0.box \in Boxes /\ t0.old \subseteq rows
        BY <2>1, <2>6
      <3>2. t0.makes = {} \/ (\E e \in Names : t0.makes = {e} /\ dirs[t0.box][e] = 0)
        BY <2>4, <2>6
      <3>3. q.box = t0.box /\ (dirs[t0.box][q.dir] # 0 \/ q.dir \in t0.makes) /\ q.uid \in Nat /\ q.uid > uid
        BY <1>0, <2>2, <2>5, <2>6
      <3>4. QED
        BY <2>6, <3>1, <3>2, <3>3, FreshPlaced
    <2>9. /\ \A p \in t0.new : p.uid \in 1..uid'
          /\ Unlocked(t0.old) /\ \A e \in t0.makes : NameFree(t0.box, e)
      <3>1. q.uid \in 1..uid'
        BY <1>0, <2>2, <2>3
      <3>2. QED
        BY <2>3, <2>5, <2>6, <3>1
    <2>10. QED
      BY <1>0, <2>3, <2>7, <2>8, <2>9, NumbersBegin
  <1>2. CASE MoveCommit(w)
    <2>1. PICK t \in open : CommitWithout(t, {})
      BY <1>2 DEF MoveCommit, Commit, TxOf
    <2>2. uid' = uid /\ Unlocked({})
      BY <1>2 DEF MoveCommit, Unlocked
    <2>3. QED
      BY <2>1, <2>2, NumbersCommit
  <1>3. CASE MoveFails(w)
    BY <1>0, <1>3, NumbersSame DEF MoveFails, Rollback
  <1>4. QED
    BY <1>1, <1>2, <1>3 DEF Web

LEMMA NumbersDelivery ==
  ASSUME StoreInv, NumbersInv, NEW c \in Calls, LMTP(c), announced' = announced
  PROVE  NumbersInv' /\ Ascends
  <1>0. uid \in Nat /\ uid + 1 \in Nat /\ uid + 1 >= uid
    BY DEF NumbersInv, Numbered
  <1>1. call[c].at \in {"folder", "insert"} =>
            Head(call[c].left) \in Boxes /\ DeliveryFolder(MailOf[c]) \in Names /\ MailOf[c] \in Mails
    <2>1. call[c].at \in {"folder", "insert"} => call[c].left # <<>>
      BY DEF StoreInv, RestIsToCome, ToCome
    <2>2. QED
      BY <2>1, CallTyped, MembersOfTail, StoreAssumption DEF DeliveryFolder
  <1>2. CASE (\E b \in Boxes : Rcpt(c, b)) \/ Data(c) \/ DeliverFails(c)
    <2>1. open' \subseteq open /\ UNCHANGED <<rows, dirs, uid, validity>>
      BY <1>2 DEF Rcpt, Data, DeliverFails, Rollback
    <2>2. QED
      BY <1>0, <2>1, NumbersSame
  <1>3. CASE DeliverFolder(c)
    <2> DEFINE b == Head(call[c].left)
               d == DeliveryFolder(MailOf[c])
    <2>1. EnsureDir(b, d) /\ UNCHANGED <<rows, open, uid>> /\ b \in Boxes /\ d \in Names
      BY <1>1, <1>3 DEF DeliverFolder
    <2>2. CASE Exists(b, d)
      BY <1>0, <2>1, <2>2, NumbersSame DEF EnsureDir
    <2>3. CASE ~Exists(b, d)
      BY <2>1, <2>3, NumbersMakeDir DEF EnsureDir, Exists
    <2>4. QED
      BY <2>2, <2>3
  <1>4. CASE DeliverInsert(c)
    <2> DEFINE b == Head(call[c].left)
               d == DeliveryFolder(MailOf[c])
               q == [box |-> b, dir |-> d, uid |-> uid + 1, mail |-> MailOf[c], smtp |-> TRUE, deleted |-> FALSE]
    <2>1. b \in Boxes /\ uid' = uid + 1 /\ UNCHANGED <<rows, dirs, validity>>
      BY <1>1, <1>4 DEF DeliverInsert
    <2>2. CASE open' = open
      BY <1>0, <2>1, <2>2, NumbersSame
    <2>3. CASE Exists(b, d) /\ Begin(c, b, {}, {q}, {}, TRUE)
      <3> DEFINE t0 == [by |-> c, box |-> b, old |-> {}, new |-> {q}, makes |-> {}, locks |-> TRUE]
      <3>1. t0.box = b /\ t0.old = {} /\ t0.new = {q} /\ t0.makes = {} /\ t0.locks
        OBVIOUS
      <3>2. q.box = b /\ q.uid = uid + 1 /\ dirs[b][q.dir] # 0
        BY <2>3 DEF Exists
      <3>3. open' = open \cup {t0}
        BY <2>3 DEF Begin
      <3> HIDE DEF b, d, q, t0
      <3>4. Placed(t0)
        BY <1>0, <2>1, <3>1, <3>2, FreshPlaced
      <3>5. (\A p \in t0.new : p.uid \in 1..uid') /\ Unlocked(t0.old)
        BY <1>0, <2>1, <3>1, <3>2 DEF Unlocked
      <3>6. QED
        BY <1>0, <2>1, <3>1, <3>3, <3>4, <3>5, NumbersBegin
    <2>4. QED
      BY <1>4, <2>2, <2>3 DEF DeliverInsert
  <1>5. CASE DeliverCommit(c)
    <2>1. PICK t \in open : CommitWithout(t, {})
      BY <1>5 DEF DeliverCommit, Commit, TxOf
    <2>2. uid' = uid /\ Unlocked({})
      BY <1>5 DEF DeliverCommit, Unlocked
    <2>3. QED
      BY <2>1, <2>2, NumbersCommit
  <1>6. QED
    BY <1>2, <1>3, <1>4, <1>5 DEF LMTP
\* Messages of a finite set of numbers are told apart by their rank.
LEMMA Ranks ==
  ASSUME NEW R, NEW n \in Nat, \A r \in R : r.uid \in 1..n, \A r, q \in R : r.uid = q.uid => r = q
  PROVE  /\ Cardinality(R) \in Nat
         /\ \A r \in R : Cardinality({q \in R : q.uid <= r.uid}) \in 1..Cardinality(R)
         /\ \A r, p \in R : Cardinality({q \in R : q.uid <= r.uid}) = Cardinality({q \in R : q.uid <= p.uid})
                                => r = p
  <1> DEFINE Below(r) == {q \in R : q.uid <= r.uid}
             f == [r \in R |-> r.uid]
  <1>1. f \in Injection(R, 1..n)
    BY DEF Injection, IsInjective
  <1>2. IsFiniteSet(R)
    BY <1>1, FS_Interval, FS_Injection
  <1>3. Cardinality(R) \in Nat
    BY <1>2, FS_CardinalityType
  <1>4. ASSUME NEW r \in R
        PROVE  /\ IsFiniteSet(Below(r)) /\ Cardinality(Below(r)) \in Nat
               /\ Cardinality(Below(r)) \in 1..Cardinality(R)
    <2>1. Below(r) \subseteq R /\ r \in Below(r)
      OBVIOUS
    <2>2. IsFiniteSet(Below(r)) /\ Cardinality(Below(r)) <= Cardinality(R)
      BY <1>2, <2>1, FS_Subset
    <2>3. Cardinality(Below(r)) \in Nat /\ Cardinality(Below(r)) # 0
      BY <2>1, <2>2, FS_CardinalityType, FS_EmptySet
    <2>4. QED
      BY <1>3, <2>2, <2>3
  <1>5. ASSUME NEW r \in R, NEW p \in R, r.uid <= p.uid, Cardinality(Below(r)) = Cardinality(Below(p))
        PROVE  r = p
    <2>1. Below(r) \subseteq Below(p)
      BY <1>5
    <2>2. Below(p) = Below(r)
      BY <1>4, <1>5, <2>1, FS_Subset
    <2>3. p.uid <= r.uid
      BY <2>2
    <2>4. QED
      BY <1>5, <2>3
  <1>6. \A r, p \in R : r.uid <= p.uid \/ p.uid <= r.uid
    OBVIOUS
  <1>7. QED
    BY <1>3, <1>4, <1>5, <1>6

\* A MOVE copies every message of its source under a number of its own.
LEMMA CopiesOf ==
  ASSUME StoreInv, NumbersInv, NEW s \in Sessions, NEW d \in Names,
         NEW from, from \subseteq Current(s)
  PROVE  /\ Cardinality(from) \in Nat
         /\ \A q \in Copies(from, d) : /\ q.box = BoxOf[s] /\ q.dir = d
                                       /\ q.uid \in (uid + 1)..(uid + Cardinality(from))
         /\ \A q, p \in Copies(from, d) : q.uid = p.uid => q = p
         /\ \A r \in from : \E q \in Copies(from, d) : q.box = r.box /\ q.mail = r.mail
  <1> DEFINE Rank(r) == Cardinality({q \in from : q.uid <= r.uid})
             Copied(r) == [r EXCEPT !.dir = d, !.smtp = FALSE, !.uid = uid + Rank(r)]
  <1>1. uid \in Nat /\ \A r \in from : r \in rows /\ IsRow(r) /\ r.box = BoxOf[s] /\ r.uid \in 1..uid
    BY DEF Current, InDir, StoreInv, Typed, NumbersInv, Numbered
  <1>2. \A r, q \in from : r.uid = q.uid => r = q
    BY <1>1 DEF NumbersInv, OneUid
  <1>3. /\ Cardinality(from) \in Nat
        /\ \A r \in from : Rank(r) \in 1..Cardinality(from)
        /\ \A r, p \in from : Rank(r) = Rank(p) => r = p
    <2>1. \A r \in from : r.uid \in 1..uid
      BY <1>1
    <2>2. QED
      BY <1>1, <1>2, <2>1, Ranks
  <1> HIDE DEF Rank
  <1>4. \A r \in from : /\ Copied(r).box = BoxOf[s] /\ Copied(r).mail = r.mail
                        /\ Copied(r).dir = d /\ Copied(r).uid = uid + Rank(r)
    BY <1>1 DEF IsRow, RowIn
  <1>5. Copies(from, d) = {Copied(r) : r \in from}
    BY DEF Copies, Rank
  <1> HIDE DEF Copied
  <1>6. ASSUME NEW r \in from PROVE Copied(r).uid \in (uid + 1)..(uid + Cardinality(from))
    BY <1>1, <1>3, <1>4
  <1>7. ASSUME NEW r \in from, NEW p \in from, Copied(r).uid = Copied(p).uid PROVE Copied(r) = Copied(p)
    <2>1. uid + Rank(r) = uid + Rank(p)
      BY <1>4, <1>7
    <2>2. Rank(r) = Rank(p)
      BY <1>1, <1>3, <2>1
    <2>3. QED
      BY <1>3, <2>2
  <1>8. QED
    BY <1>1, <1>3, <1>4, <1>5, <1>6, <1>7
LEMMA NumbersFlag ==
  ASSUME StoreInv, NumbersInv, NEW s \in Sessions, NEW r \in rows, NEW on \in BOOLEAN, Store(s, r, on)
  PROVE  NumbersInv' /\ Ascends
  <1> DEFINE q == [r EXCEPT !.deleted = on]
  <1>1. q.box = r.box /\ q.uid = r.uid /\ q.dir = r.dir
    BY DEF StoreInv, Typed, IsRow, RowIn
  <1>2. rows' = (rows \ {r}) \cup {q} /\ Unlocked({r}) /\ UNCHANGED <<dirs, open, uid, validity, announced>>
    BY DEF Store
  <1> HIDE DEF q
  <1>3. \A p \in rows' : \E o \in rows : p.box = o.box /\ p.uid = o.uid /\ p.dir = o.dir
    BY <1>1, <1>2
  <1>4. OneUid'
    BY <1>1, <1>2 DEF NumbersInv, OneUid
  <1>5. \A t \in open : t.old \subseteq rows'
    BY <1>2 DEF NumbersInv, Placed, Unlocked
  <1>6. QED
    BY <1>2, <1>3, <1>4, <1>5, NumbersRows

LEMMA NumbersPurge ==
  ASSUME StoreInv, NumbersInv, NEW s \in Sessions, Purge(s)
  PROVE  NumbersInv' /\ Ascends
  <1> DEFINE dead == {r \in Current(s) : r.uid \in sess[s].ids}
  <1>1. rows' = rows \ dead /\ Unlocked(dead) /\ UNCHANGED <<dirs, open, uid, validity, announced>>
    BY DEF Purge
  <1> HIDE DEF dead
  <1>2. OneUid'
    BY <1>1 DEF NumbersInv, OneUid
  <1>3. \A t \in open : t.old \subseteq rows'
    BY <1>1 DEF NumbersInv, Placed, Unlocked
  <1>4. QED
    BY <1>1, <1>2, <1>3, NumbersRows

LEMMA NumbersAppend ==
  ASSUME StoreInv, NumbersInv, NEW s \in Sessions, NEW d \in Names, NEW m, NEW flag, Append1(s, d, m, flag)
  PROVE  NumbersInv' /\ Ascends
  <1> DEFINE q == [box |-> BoxOf[s], dir |-> d, uid |-> uid + 1, mail |-> m, smtp |-> FALSE, deleted |-> flag]
             t0 == [by |-> s, box |-> BoxOf[s], old |-> {}, new |-> {q}, makes |-> {}, locks |-> TRUE]
  <1>1. uid \in Nat /\ uid + 1 \in Nat /\ BoxOf[s] \in Boxes
    BY SessionAssumption DEF NumbersInv, Numbered
  <1>2. /\ open' = open \cup {t0} /\ dirs[BoxOf[s]][d] # 0
        /\ uid' = uid + 1 /\ UNCHANGED <<rows, dirs, validity, announced>>
    BY DEF Append1, Begin, Exists
  <1>3. t0.box = BoxOf[s] /\ t0.old = {} /\ t0.new = {q} /\ t0.makes = {} /\ t0.locks
    OBVIOUS
  <1>4. q.box = BoxOf[s] /\ q.uid = uid + 1 /\ q.dir = d
    OBVIOUS
  <1> HIDE DEF q, t0
  <1>5. Placed(t0)
    BY <1>1, <1>2, <1>3, <1>4, FreshPlaced
  <1>6. (\A p \in t0.new : p.uid \in 1..uid') /\ Unlocked(t0.old)
    BY <1>1, <1>2, <1>3, <1>4 DEF Unlocked
  <1>7. uid' \in Nat /\ uid' >= uid /\ \A e \in t0.makes : NameFree(t0.box, e)
    BY <1>1, <1>2, <1>3
  <1>8. QED
    BY <1>2, <1>5, <1>6, <1>7, NumbersBegin

LEMMA NumbersMoveInsert ==
  ASSUME StoreInv, NumbersInv, NEW s \in Sessions, NEW d \in Names, NEW U, MoveInsert(s, U, d)
  PROVE  NumbersInv' /\ Ascends
  <1> DEFINE from == {r \in Current(s) : r.uid \in U}
             new == Copies(from, d)
             t0 == [by |-> s, box |-> BoxOf[s], old |-> {}, new |-> new, makes |-> {}, locks |-> TRUE]
  <1>1. uid \in Nat /\ BoxOf[s] \in Boxes
    BY SessionAssumption DEF NumbersInv, Numbered
  <1>2. /\ open' = open \cup {t0} /\ dirs[BoxOf[s]][d] # 0
        /\ uid' = uid + Cardinality(from) /\ UNCHANGED <<rows, dirs, validity, announced>>
    BY DEF MoveInsert, Begin, Exists
  <1>0. from \subseteq Current(s)
    OBVIOUS
  <1> HIDE DEF from
  <1>3. /\ Cardinality(from) \in Nat
        /\ \A q \in new : /\ q.box = BoxOf[s] /\ q.dir = d
                          /\ q.uid \in (uid + 1)..(uid + Cardinality(from))
        /\ \A q, p \in new : q.uid = p.uid => q = p
    BY <1>0, CopiesOf
  <1> HIDE DEF new
  <1>4. t0.box = BoxOf[s] /\ t0.old = {} /\ t0.new = new /\ t0.makes = {} /\ t0.locks
    OBVIOUS
  <1> HIDE DEF t0
  <1>5. \A q \in t0.new : /\ q.box = t0.box /\ dirs[t0.box][q.dir] # 0
                          /\ q.uid \in Nat /\ q.uid > uid /\ q.uid \in 1..uid'
    BY <1>1, <1>2, <1>3, <1>4
  <1>6. Placed(t0)
    BY <1>1, <1>3, <1>4, <1>5, FreshPlaced
  <1>7. uid' \in Nat /\ uid' >= uid /\ Unlocked(t0.old)
    BY <1>1, <1>2, <1>3, <1>4 DEF Unlocked
  <1>8. QED
    BY <1>2, <1>4, <1>5, <1>6, <1>7, NumbersBegin

LEMMA NumbersRenameMailbox ==
  ASSUME StoreInv, NumbersInv, NEW s \in Sessions, NEW d \in Names, NEW e \in Names, RenameMailbox(s, d, e)
  PROVE  NumbersInv' /\ Ascends
  <1> DEFINE from == InDir(BoxOf[s], d)
             after == [r \in rows |-> IF r \in from THEN [r EXCEPT !.dir = e] ELSE r]
  <1>1. BoxOf[s] \in Boxes /\ from \subseteq rows
    BY SessionAssumption DEF InDir
  <1>2. /\ dirs[BoxOf[s]][d] # 0 /\ dirs[BoxOf[s]][e] = 0 /\ NameFree(BoxOf[s], e)
        /\ NotInUse(BoxOf[s], d) /\ Unlocked(from)
        /\ dirs' = [dirs EXCEPT ![BoxOf[s]][d] = 0, ![BoxOf[s]][e] = dirs[BoxOf[s]][d]]
        /\ rows' = (rows \ from) \cup {[r EXCEPT !.dir = e] : r \in from}
        /\ UNCHANGED <<open, uid, validity, announced>>
    BY DEF RenameMailbox, Exists
  <1>3. \A r \in rows : IsRow(r)
    BY DEF StoreInv, Typed
  <1>4. ASSUME NEW r \in rows
        PROVE  /\ SameNumber(r, after[r])
               /\ after[r].dir = (IF r \in from THEN e ELSE r.dir)
               /\ r \notin from => after[r] = r
    BY <1>3 DEF SameNumber, IsRow, RowIn
  <1>5. \A r \in from : after[r] = [r EXCEPT !.dir = e]
    BY <1>1
  <1>6. \A r \in rows \ from : after[r] = r
    OBVIOUS
  <1>7. rows' = {after[r] : r \in rows}
    <2> HIDE DEF after
    <2>1. {[r EXCEPT !.dir = e] : r \in from} = {after[r] : r \in from}
      BY <1>5
    <2>2. rows \ from = {after[r] : r \in rows \ from}
      BY <1>6
    <2> HIDE DEF from
    <2>3. QED
      BY <1>1, <1>2, <2>1, <2>2
  <1> HIDE DEF after
  <1>8. QED
    BY <1>1, <1>2, <1>4, <1>7, NumbersRename

LEMMA NumbersRenameInbox ==
  ASSUME StoreInv, NumbersInv, NEW s \in Sessions, NEW e \in Names, RenameInbox(s, e)
  PROVE  NumbersInv' /\ Ascends
  <1> DEFINE all == InDir(BoxOf[s], "INBOX")
             follow == {[r EXCEPT !.dir = e] : r \in all}
             t0 == [by |-> s, box |-> BoxOf[s], old |-> all, new |-> follow, makes |-> {e}, locks |-> FALSE]
  <1>1. uid \in Nat /\ BoxOf[s] \in Boxes
    BY SessionAssumption DEF NumbersInv, Numbered
  <1>2. /\ open' = open \cup {t0} /\ dirs[BoxOf[s]][e] = 0 /\ NameFree(BoxOf[s], e) /\ Unlocked(all)
        /\ UNCHANGED <<rows, dirs, uid, validity, announced>>
    BY DEF RenameInbox, Begin, Exists
  <1>3. \A r \in all : IsRow(r) /\ r \in rows /\ r.box = BoxOf[s] /\ r.uid \in 1..uid
    BY DEF InDir, StoreInv, Typed, NumbersInv, Numbered
  <1>4. ASSUME NEW r \in all
        PROVE  SameNumber(r, [r EXCEPT !.dir = e]) /\ [r EXCEPT !.dir = e].dir = e
    BY <1>3 DEF SameNumber, IsRow, RowIn
  <1>5. \A q \in follow : q.dir = e /\ \E r \in all : SameNumber(r, q)
    BY <1>4
  <1>6. ASSUME NEW q \in follow, NEW p \in follow, q.uid = p.uid PROVE q = p
    <2>1. PICK r \in all : q = [r EXCEPT !.dir = e]
      OBVIOUS
    <2>2. PICK o \in all : p = [o EXCEPT !.dir = e]
      OBVIOUS
    <2>3. r.uid = o.uid
      BY <1>4, <1>6, <2>1, <2>2 DEF SameNumber
    <2>4. r = o
      BY <1>3, <2>3 DEF NumbersInv, OneUid
    <2>5. QED
      BY <2>1, <2>2, <2>4
  <1> HIDE DEF all, follow
  <1>7. t0.box = BoxOf[s] /\ t0.old = all /\ t0.new = follow /\ t0.makes = {e} /\ t0.locks = FALSE
    OBVIOUS
  <1> HIDE DEF t0
  <1>8. \A q \in t0.new : q.box = t0.box /\ q.dir \in t0.makes /\ q.uid \in 1..uid
    BY <1>3, <1>5, <1>7 DEF SameNumber
  <1>9. Placed(t0)
    <2>1. Follows(t0)
      BY <1>5, <1>7 DEF Follows
    <2>2. \E d \in Names : t0.makes = {d} /\ dirs[t0.box][d] = 0
      BY <1>2, <1>7
    <2>3. QED
      BY <1>1, <1>3, <1>6, <1>7, <1>8, <2>1, <2>2 DEF Placed
  <1>10. Unlocked(t0.old) /\ \A d \in t0.makes : NameFree(t0.box, d)
    BY <1>2, <1>7
  <1>11. QED
    BY <1>1, <1>2, <1>8, <1>9, <1>10, NumbersBegin
\* STATUS and SELECT wait for the lock: no number below UIDNEXT is still to appear.
LEMMA NumbersNext ==
  ASSUME StoreInv, NumbersInv, NEW s \in Sessions, NEW d \in Names, Status(s, d) \/ Select(s, d)
  PROVE  NumbersInv' /\ Ascends
  <1>1. uid + 1 \in Nat /\ uid + 1 <= uid + 1 /\ BoxOf[s] \in Boxes
    BY SessionAssumption DEF NumbersInv, Numbered
  <1>2. UNCHANGED storeVars /\ Announce(BoxOf[s], d, uid + 1) /\ LockFree(BoxOf[s])
    BY DEF Status, Select
  <1>3. \A t \in open : ~(t.locks /\ t.box = BoxOf[s])
    BY <1>2 DEF LockFree
  <1>4. QED
    BY <1>1, <1>2, <1>3, NumbersAnnounce

LEMMA NumbersPoll ==
  ASSUME MailInv, NumbersInv, NEW s \in Sessions, Poll(s)
  PROVE  NumbersInv' /\ Ascends
  <1> DEFINE S == {0} \cup Uids(Current(s))
             n == Max(S) + 1
  <1>1. StoreInv /\ BoxOf[s] \in Boxes /\ sess[s].dir \in Names /\ uid \in Nat
    BY SessionAssumption DEF MailInv, SessionsInv, Remembers, NumbersInv, Numbered
  <1>2. UNCHANGED storeVars /\ Announce(BoxOf[s], sess[s].dir, n)
    BY DEF Poll
  <1>3. \A r \in Current(s) : r \in rows /\ r.box = BoxOf[s] /\ r.uid \in 1..uid
    BY DEF Current, InDir, NumbersInv, Numbered
  <1>4. S \in SUBSET Nat /\ S # {} /\ \A x \in S : x <= uid
    BY <1>1, <1>3 DEF Uids
  <1>5. \A x \in S : x = 0 \/ \E r \in Current(s) : x = r.uid
    BY DEF Uids
  <1> HIDE DEF S
  <1>6. Max(S) \in S
    BY <1>1, <1>4, MaxBelow
  <1>7. n \in Nat /\ n <= uid + 1
    <2>1. Max(S) \in Nat /\ Max(S) <= uid
      BY <1>4, <1>6
    <2>2. QED
      BY <1>1, <2>1
  <1>8. ASSUME NEW t \in open, t.locks, t.box = BoxOf[s], NEW q \in t.new
        PROVE  n <= q.uid
    <2>1. q.uid \in 1..uid /\ \A r \in rows : r.box = t.box => r.uid < q.uid
      BY <1>8 DEF NumbersInv, Numbered, Placed, Above
    <2>2. CASE Max(S) = 0
      BY <2>1, <2>2
    <2>3. ASSUME NEW r \in Current(s), Max(S) = r.uid PROVE n <= q.uid
      BY <1>3, <1>8, <2>1, <2>3
    <2>4. QED
      BY <1>5, <1>6, <2>2, <2>3
  <1> HIDE DEF n
  <1>9. QED
    BY <1>1, <1>2, <1>7, <1>8, NumbersAnnounce

LEMMA NumbersSession ==
  ASSUME MailInv, NumbersInv, NEW s \in Sessions, Session(s)
  PROVE  NumbersInv' /\ Ascends
  <1>0. StoreInv /\ uid \in Nat /\ BoxOf[s] \in Boxes
    BY SessionAssumption DEF MailInv, NumbersInv, Numbered
  <1>1. CASE \E d \in Names : Status(s, d) \/ Select(s, d)
    BY <1>0, <1>1, NumbersNext
  <1>2. CASE Poll(s)
    BY <1>2, NumbersPoll
  <1>3. CASE SessionCommit(s)
    <2>1. PICK t \in open : CommitWithout(t, {})
      BY <1>3 DEF SessionCommit, Commit, TxOf
    <2>2. UNCHANGED <<uid, announced>> /\ Unlocked({})
      BY <1>3 DEF SessionCommit, Unlocked
    <2>3. QED
      BY <1>0, <2>1, <2>2, NumbersCommit
  <1>4. CASE CommandFails(s) \/ Search(s) \/ ReadDeleted(s)
    <2>1. open' \subseteq open /\ UNCHANGED <<rows, dirs, uid, validity, announced>>
      BY <1>4 DEF CommandFails, Rollback, Search, ReadDeleted, storeVars
    <2>2. QED
      BY <1>0, <2>1, NumbersSame
  <1>5. CASE \E r \in rows, on \in BOOLEAN : Store(s, r, on)
    BY <1>0, <1>5, NumbersFlag
  <1>6. CASE Purge(s)
    BY <1>0, <1>6, NumbersPurge
  <1>7. ASSUME NEW d \in Names, NEW m, NEW flag, Append1(s, d, m, flag) PROVE NumbersInv' /\ Ascends
    BY <1>0, <1>7, NumbersAppend
  <1>8. ASSUME NEW d \in Names, NEW U, MoveInsert(s, U, d) PROVE NumbersInv' /\ Ascends
    BY <1>0, <1>8, NumbersMoveInsert
  <1>9. CASE MoveDelete(s)
    <2> DEFINE dead == {r \in Current(s) : r.uid \in sess[s].ids}
    <2>1. Unlocked(dead) /\ UNCHANGED <<uid, announced>> /\ \E t \in open : CommitWithout(t, dead)
      BY <1>9 DEF MoveDelete, TxOf
    <2> HIDE DEF dead
    <2>2. QED
      BY <1>0, <2>1, NumbersCommit
  <1>10. ASSUME NEW d \in Names, CreateMailbox(s, d) PROVE NumbersInv' /\ Ascends
    BY <1>0, <1>10, NumbersMakeDir DEF CreateMailbox, Exists
  <1>11. ASSUME NEW d \in Names, DeleteMailbox(s, d) PROVE NumbersInv' /\ Ascends
    <2>1. /\ NotInUse(BoxOf[s], d) /\ Unlocked(InDir(BoxOf[s], d))
          /\ dirs' = [dirs EXCEPT ![BoxOf[s]][d] = 0] /\ rows' = rows \ InDir(BoxOf[s], d)
          /\ UNCHANGED <<open, uid, validity, announced>>
      BY <1>11 DEF DeleteMailbox
    <2>2. QED
      BY <1>0, <2>1, NumbersDelete
  <1>12. ASSUME NEW d \in Names, RenameInbox(s, d) PROVE NumbersInv' /\ Ascends
    BY <1>0, <1>12, NumbersRenameInbox
  <1>13. ASSUME NEW d \in Names, NEW e \in Names, RenameMailbox(s, d, e) PROVE NumbersInv' /\ Ascends
    BY <1>0, <1>13, NumbersRenameMailbox
  <1>14. QED
    BY <1>1, <1>2, <1>3, <1>4, <1>5, <1>6, <1>7, <1>8, <1>9, <1>10, <1>11, <1>12, <1>13 DEF Session, Copy

LEMMA StepNumbers ==
  ASSUME MailInv, NumbersInv, [Next]_vars
  PROVE  NumbersInv' /\ (Ascends \/ UNCHANGED vars)
  <1>0. StoreInv /\ uid \in Nat
    BY DEF MailInv, NumbersInv, Numbered
  <1>1. CASE UNCHANGED vars
    BY <1>0, <1>1, NumbersSame DEF vars, storeVars
  <1>2. CASE StoreNext /\ UNCHANGED <<sess, announced>>
    BY <1>0, <1>2, NumbersDelivery, NumbersWeb DEF StoreNext
  <1>3. CASE (\E s \in Sessions \cap scene.actors : Session(s)) /\ UNCHANGED scene
    BY <1>3, NumbersSession
  <1>4. QED
    BY <1>1, <1>2, <1>3 DEF Next

LEMMA InitNumbers == Init => NumbersInv
  <1> SUFFICES ASSUME Init PROVE NumbersInv
    OBVIOUS
  <1> DEFINE held == SetToSeq(scene.held)
             order == SetToSeq(Boxes)
             k == Cardinality(Boxes)
             At(b) == CHOOSE i \in DOMAIN order : order[i] = b
             Row0(i) == [box |-> held[i][1], dir |-> DeliveryFolder(held[i][2]), uid |-> i,
                         mail |-> held[i][2], smtp |-> TRUE, deleted |-> FALSE]
  <1>1. /\ scene \in Scenes /\ open = {}
        /\ rows = {Row0(i) : i \in DOMAIN held} /\ uid = Len(held)
        /\ dirs = [b \in Boxes |-> [d \in Names |-> CASE d = "INBOX" -> 2 * At(b) - 1
                                                        [] d = "Junk" -> 2 * At(b)
                                                        [] OTHER -> 0]]
        /\ validity = 2 * k /\ announced = [v \in 1..MaxFolders |-> 0]
    BY DEF Init, StoreInit
  <1>2. scene.held \subseteq Boxes \X Mails /\ IsFiniteSet(scene.held) /\ IsFiniteSet(Boxes)
    BY <1>1, StoreAssumption
  <1>3. /\ Cardinality(scene.held) \in Nat
        /\ held \in [1..Cardinality(scene.held) -> scene.held]
    BY <1>2, ListOfSet, FS_CardinalityType
  <1>4. uid \in Nat /\ DOMAIN held = 1..uid
    BY <1>1, <1>3
  <1>5. k \in Nat /\ \A b \in Boxes : At(b) \in 1..k /\ order[At(b)] = b
    <2>1. k \in Nat /\ order \in [1..k -> Boxes] /\ \A b \in Boxes : \E i \in 1..k : order[i] = b
      BY <1>2, ListOfSet, FS_CardinalityType
    <2> HIDE DEF order, k
    <2>2. QED
      BY <2>1
  <1> HIDE DEF held, order, k, At
  <1>6. ASSUME NEW i \in DOMAIN held
        PROVE  /\ Row0(i).uid = i /\ Row0(i).uid \in 1..uid
               /\ Row0(i).box \in Boxes /\ Row0(i).dir \in {"INBOX", "Junk"}
    BY <1>2, <1>3, <1>4 DEF DeliveryFolder
  <1> HIDE DEF Row0
  <1>7. Numbered /\ OneUid
    BY <1>1, <1>4, <1>6 DEF Numbered, OneUid
  <1>8. /\ \A b \in Boxes : dirs[b]["INBOX"] = 2 * At(b) - 1 /\ dirs[b]["Junk"] = 2 * At(b)
        /\ \A b \in Boxes, d \in Names : d \in {"INBOX", "Junk"} \/ dirs[b][d] = 0
    BY <1>1, StoreAssumption
  <1>9. validity \in Nat /\ dirs \in [Boxes -> [Names -> 0..validity]]
    BY <1>1, <1>5
  <1>10. ASSUME NEW b \in Boxes, NEW c \in Boxes, NEW d \in Names, NEW e \in Names,
                dirs[b][d] # 0, dirs[b][d] = dirs[c][e]
         PROVE  b = c /\ d = e
    <2>1. d \in {"INBOX", "Junk"} /\ e \in {"INBOX", "Junk"}
      BY <1>8, <1>10
    <2>2. At(b) \in Nat /\ At(c) \in Nat
      BY <1>5
    <2>3. At(b) = At(c) /\ d = e
      BY <1>8, <1>10, <2>1, <2>2
    <2>4. QED
      BY <1>5, <2>3
  <1>11. \A r \in rows : dirs[r.box][r.dir] # 0
    <2>1. \A b \in Boxes : dirs[b]["INBOX"] # 0 /\ dirs[b]["Junk"] # 0
      BY <1>5, <1>8
    <2>2. \A r \in rows : r.box \in Boxes /\ r.dir \in {"INBOX", "Junk"}
      BY <1>1, <1>6
    <2>3. QED
      BY <2>1, <2>2
  <1>12. Folders
    BY <1>9, <1>10, <1>11 DEF Folders
  <1>13. Apart /\ Announced /\ \A t \in open : Placed(t)
    BY <1>1, <1>4 DEF Apart, Announced
  <1>14. QED
    BY <1>7, <1>12, <1>13 DEF NumbersInv

\* New mail gets a UID above all others of its folder and above all that a client was
\* told of it, for every number of folders, deliveries, moves, copies and sessions: no
\* client that asks for what is new since then misses a message.
THEOREM UidsAscendCorrect == Spec => UidsAscend
  <1>1. Init => MailInv /\ NumbersInv
    BY InitMailInv, InitNumbers
  <1>2. MailInv /\ NumbersInv /\ [Next]_vars => (MailInv /\ NumbersInv)'
    BY StepMailInv, StepNumbers
  <1>3. MailInv /\ NumbersInv /\ [Next]_vars => [Ascends]_vars
    BY StepNumbers
  <1>4. QED
    BY <1>1, <1>2, <1>3, PTL DEF Spec, UidsAscend, Ascends

-----------------------------------------------------------------------------
(* Stored mail stays.                                                       *)

\* What is in the mailbox goes on to be there, or is marked.
LEMMA KeptRows ==
  ASSUME KeptUntilRemoved, landed' = landed, marks \subseteq marks',
         \A r \in rows : \/ \E q \in rows' : q.box = r.box /\ q.mail = r.mail
                        \/ <<r.box, r.mail, "removed">> \in marks'
                        \/ <<r.box, r.mail, "torn">> \in marks'
  PROVE  KeptUntilRemoved'
  <1> SUFFICES ASSUME NEW b \in Boxes, NEW m \in Mails, landed[<<b, m>>] > 0
               PROVE  \/ \E q \in rows' : q.box = b /\ q.mail = m
                      \/ <<b, m, "removed">> \in marks'
                      \/ <<b, m, "torn">> \in marks'
    BY DEF KeptUntilRemoved
  <1>1. \/ \E r \in rows : r.box = b /\ r.mail = m
        \/ <<b, m, "removed">> \in marks \/ <<b, m, "torn">> \in marks
    BY DEF KeptUntilRemoved
  <1>2. QED
    BY <1>1

\* Messages stay where they are.
LEMMA KeptSame ==
  ASSUME KeptUntilRemoved, landed' = landed, marks' = marks, rows' = rows
  PROVE  KeptUntilRemoved'
  BY KeptRows

\* What a transaction replaces, it carries over.
LEMMA KeptCommit ==
  ASSUME StoreInv, KeptUntilRemoved, landed' = landed, marks' = marks,
         NEW t \in open, CommitWithout(t, {})
  PROVE  KeptUntilRemoved'
  <1>1. rows' = (rows \ t.old) \cup t.new
    BY DEF CommitWithout
  <1>2. \A r \in t.old : \E q \in t.new : q.box = r.box /\ q.mail = r.mail
    BY DEF StoreInv, CarriedOver, SameLetter
  <1>3. QED
    BY <1>1, <1>2, KeptRows

\* No session begins a MOVE, and those under way go on or end.
NoNewMove ==
    \A s \in Sessions : sess'[s].at = "move" => sess[s].at = "move" /\ sess'[s].seen = sess[s].seen

\* A mailbox whose lock a session holds gets no number that it had not.
NoNewNumber ==
    \A t \in open' : t.by \in Sessions /\ t.locks =>
        \A q \in rows' : q.box = t.box => \E r \in rows : SameNumber(r, q)

LEMMA MovesGoOn ==
  ASSUME MovesKeep, NoNewMove, NoNewNumber,
         \A t \in open' : t.by \in Sessions /\ sess'[t.by].at = "move" => t \in open
  PROVE  MovesKeep'
  <1> SUFFICES ASSUME NEW s \in Sessions, sess'[s].at = "move", NEW t \in open', t.by = s
               PROVE  /\ t.locks /\ t.box = BoxOf[s]
                      /\ \A q \in rows' : q.box = t.box /\ q.uid \in sess'[s].seen =>
                            \E p \in t.new : p.box = q.box /\ p.mail = q.mail
    BY DEF MovesKeep
  <1>1. t \in open /\ sess[s].at = "move" /\ sess'[s].seen = sess[s].seen
    BY DEF NoNewMove
  <1>2. /\ t.locks /\ t.box = BoxOf[s]
        /\ \A r \in rows : r.box = t.box /\ r.uid \in sess[s].seen =>
              \E p \in t.new : p.box = r.box /\ p.mail = r.mail
    BY <1>1 DEF MovesKeep
  <1>3. ASSUME NEW q \in rows', q.box = t.box, q.uid \in sess'[s].seen
        PROVE  \E p \in t.new : p.box = q.box /\ p.mail = q.mail
    <2>1. PICK r \in rows : SameNumber(r, q)
      BY <1>2, <1>3 DEF NoNewNumber
    <2>2. QED
      BY <1>1, <1>2, <1>3, <2>1 DEF SameNumber
  <1>4. QED
    BY <1>2, <1>3

LEMMA NumbersStay ==
  ASSUME rows' \subseteq rows
  PROVE  NoNewNumber
  BY DEF NoNewNumber, SameNumber

\* Whoever commits while another holds the lock of the mailbox has renamed its INBOX.
LEMMA CommitNumbers ==
  ASSUME StoreInv, NumbersInv, NEW t \in open, NEW gone, CommitWithout(t, gone)
  PROVE  NoNewNumber
  <1>1. rows' = (rows \ (t.old \cup gone)) \cup t.new /\ open' = open \ {t}
    BY DEF CommitWithout
  <1>2. Placed(t)
    BY DEF NumbersInv
  <1> SUFFICES ASSUME NEW u \in open', u.locks, NEW q \in rows', q.box = u.box
               PROVE  \E r \in rows : SameNumber(r, q)
    BY DEF NoNewNumber
  <1>3. CASE q \in rows
    BY <1>3 DEF SameNumber
  <1>4. CASE q \in t.new
    <2>1. q.box = t.box /\ u # t /\ u \in open
      BY <1>1, <1>2, <1>4 DEF Placed
    <2>2. ~t.locks
      BY <2>1 DEF StoreInv, OneLock
    <2>3. QED
      BY <1>2, <1>4, <2>2 DEF Placed, Follows
  <1>5. QED
    BY <1>1, <1>3, <1>4

LEMMA KeptWeb ==
  ASSUME StoreInv, NumbersInv, KeptInv, NEW w \in Webs, Web(w), sess' = sess
  PROVE  KeptInv'
  <1>0. w \notin Sessions /\ NoNewMove
    BY SessionAssumption DEF NoNewMove
  <1>1. ASSUME NEW r, NEW d, MoveMessage(w, r, d) PROVE KeptInv'
    <2>1. \A t \in open' : t \in open \/ t.by = w
      BY <1>1 DEF MoveMessage, Begin
    <2>2. KeptUntilRemoved' /\ rows' = rows
      BY <1>1, KeptSame DEF MoveMessage, KeptInv
    <2>3. QED
      BY <1>0, <2>1, <2>2, NumbersStay, MovesGoOn DEF KeptInv
  <1>2. CASE MoveCommit(w)
    <2>1. PICK t \in open : CommitWithout(t, {})
      BY <1>2 DEF MoveCommit, Commit, TxOf
    <2>2. KeptUntilRemoved'
      BY <1>2, <2>1, KeptCommit DEF MoveCommit, KeptInv
    <2>3. NoNewNumber /\ open' \subseteq open
      BY <2>1, CommitNumbers DEF CommitWithout
    <2>4. QED
      BY <1>0, <2>2, <2>3, MovesGoOn DEF KeptInv
  <1>3. CASE MoveFails(w)
    <2>1. open' \subseteq open /\ UNCHANGED <<rows, landed, marks>>
      BY <1>3 DEF MoveFails, Rollback
    <2>2. QED
      BY <1>0, <2>1, KeptSame, NumbersStay, MovesGoOn DEF KeptInv
  <1>4. QED
    BY <1>1, <1>2, <1>3 DEF Web

LEMMA KeptDelivery ==
  ASSUME StoreInv, NumbersInv, KeptInv, NEW c \in Calls, LMTP(c), sess' = sess
  PROVE  KeptInv'
  <1>0. c \notin Sessions /\ NoNewMove
    BY SessionAssumption DEF NoNewMove
  <1>1. CASE (\E b \in Boxes : Rcpt(c, b)) \/ Data(c) \/ DeliverFolder(c) \/ DeliverFails(c)
    <2>1. open' \subseteq open /\ UNCHANGED <<rows, landed, marks>>
      BY <1>1 DEF Rcpt, Data, DeliverFolder, DeliverFails, Rollback
    <2>2. QED
      BY <1>0, <2>1, KeptSame, NumbersStay, MovesGoOn DEF KeptInv
  <1>2. CASE DeliverInsert(c)
    <2>1. UNCHANGED <<rows, landed, marks>> /\ \A t \in open' : t \in open \/ t.by = c
      BY <1>2 DEF DeliverInsert, Begin
    <2>2. QED
      BY <1>0, <2>1, KeptSame, NumbersStay, MovesGoOn DEF KeptInv
  <1>3. CASE DeliverCommit(c)
    <2> DEFINE b == Head(call[c].left)
    <2>1. PICK t \in open : t.by = c /\ CommitWithout(t, {})
      BY <1>3 DEF DeliverCommit, Commit, TxOf
    <2>2. /\ landed' = [landed EXCEPT ![<<b, MailOf[c]>>] = @ + 1] /\ marks' = marks
          /\ rows' = (rows \ t.old) \cup t.new
      BY <1>3, <2>1 DEF DeliverCommit, CommitWithout
    <2>3. PICK q \in t.new : q.box = b /\ q.mail = MailOf[c]
      <3>1. Delivering(c, t)
        BY <2>1 DEF StoreInv, DeliveriesHold
      <3>2. t.new # {} /\ \A q \in t.new : q.box = b /\ q.mail = MailOf[c]
        BY <3>1 DEF Delivering
      <3>3. QED
        BY <3>2
    <2>4. \A r \in t.old : \E p \in t.new : p.box = r.box /\ p.mail = r.mail
      BY DEF StoreInv, CarriedOver, SameLetter
    <2>5. ASSUME NEW a \in Boxes, NEW m \in Mails, landed'[<<a, m>>] > 0
          PROVE  \/ \E r \in rows' : r.box = a /\ r.mail = m
                 \/ <<a, m, "removed">> \in marks \/ <<a, m, "torn">> \in marks
      <3>1. CASE a = b /\ m = MailOf[c]
        BY <2>2, <2>3, <3>1
      <3>2. CASE ~(a = b /\ m = MailOf[c])
        <4>1. landed[<<a, m>>] > 0
          BY <2>2, <2>5, <3>2 DEF StoreInv, Typed
        <4>2. \/ \E r \in rows : r.box = a /\ r.mail = m
              \/ <<a, m, "removed">> \in marks \/ <<a, m, "torn">> \in marks
          BY <4>1 DEF KeptInv, KeptUntilRemoved
        <4>3. QED
          BY <2>2, <2>4, <4>2
      <3>3. QED
        BY <3>1, <3>2
    <2>6. KeptUntilRemoved'
      BY <2>2, <2>5 DEF KeptUntilRemoved
    <2>7. NoNewNumber /\ open' \subseteq open
      BY <2>1, CommitNumbers DEF CommitWithout
    <2>8. QED
      BY <1>0, <2>6, <2>7, MovesGoOn DEF KeptInv
  <1>4. QED
    BY <1>1, <1>2, <1>3 DEF LMTP
LEMMA OneLeaves ==
  ASSUME SessionsInv, NEW s \in Sessions, NEW x, x.at # "move", sess' = [sess EXCEPT ![s] = x]
  PROVE  NoNewMove
  BY DEF SessionsInv, NoNewMove

LEMMA LeavesMove ==
  ASSUME SessionsInv, NEW s \in Sessions, NEW at, at # "move", SessionAt(s, at)
  PROVE  NoNewMove
  <1> DEFINE x == [sess[s] EXCEPT !.at = at, !.ids = {}, !.seen = {}, !.away = {}, !.found = {}]
  <1>1. x.at # "move"
    BY DEF SessionsInv, Remembers, IsSession
  <1>2. sess' = [sess EXCEPT ![s] = x]
    BY DEF SessionAt
  <1>3. QED
    BY <1>1, <1>2, OneLeaves

LEMMA OnlyMoveBegins ==
  ASSUME SessionsInv, NEW s \in Sessions, Session(s)
  PROVE  NoNewMove \/ \E d \in Names, U \in SUBSET Uids(sess[s].snap) : MoveInsert(s, U, d)
  <1>0. DOMAIN sess = Sessions /\ IsSession(sess[s])
    BY DEF SessionsInv, Remembers
  <1>1. sess' = sess => NoNewMove
    BY DEF NoNewMove
  <1>2. ASSUME NEW d \in Names, Select(s, d) PROVE NoNewMove
    <2> DEFINE snap == {Item(r) : r \in InDir(BoxOf[s], d)}
               told == InOrder(Uids(InDir(BoxOf[s], d)))
               x == [Out EXCEPT !.at = "ready", !.dir = d, !.snap = snap, !.told = told]
    <2>1. sess' = [sess EXCEPT ![s] = x]
      BY <1>2 DEF Select
    <2> HIDE DEF snap, told
    <2>2. x.at # "move"
      BY DEF Out
    <2>3. QED
      BY <2>1, <2>2, OneLeaves
  <1>3. CASE Poll(s)
    <2> DEFINE snap == {Item(r) : r \in Current(s)}
               told == Polled(s)
               x == [sess[s] EXCEPT !.at = "ready", !.told = told, !.snap = snap]
    <2>1. sess' = [sess EXCEPT ![s] = x]
      BY <1>3 DEF Poll
    <2> HIDE DEF snap, told
    <2>2. x.at # "move"
      BY <1>0 DEF IsSession
    <2>3. QED
      BY <2>1, <2>2, OneLeaves
  <1>4. CASE Search(s)
    <2> DEFINE found == Flagged(Records(s))
               x == [sess[s] EXCEPT !.at = "found", !.found = found]
    <2>1. sess' = [sess EXCEPT ![s] = x]
      BY <1>4 DEF Search
    <2> HIDE DEF found
    <2>2. x.at # "move"
      BY <1>0 DEF IsSession
    <2>3. QED
      BY <2>1, <2>2, OneLeaves
  <1>5. CASE ReadDeleted(s)
    <2> DEFINE ids == Flagged(Records(s))
               seen == Flagged(Current(s))
               away == ids \ Uids(Current(s))
               x == [sess[s] EXCEPT !.at = "purge", !.ids = ids, !.seen = seen, !.away = away]
    <2>1. sess' = [sess EXCEPT ![s] = x]
      BY <1>5 DEF ReadDeleted
    <2> HIDE DEF ids, seen, away
    <2>2. x.at # "move"
      BY <1>0 DEF IsSession
    <2>3. QED
      BY <2>1, <2>2, OneLeaves
  <1>6. CASE Purge(s)
    <2>1. CASE SessionAt(s, "ready")
      BY <2>1, LeavesMove
    <2>2. CASE ~SessionAt(s, "ready")
      <3> DEFINE found == sess[s].found
                 dead == {r \in Current(s) : r.uid \in sess[s].ids}
                 missed == {r \in rows \ dead : r.box = BoxOf[s] /\ r.uid \in sess[s].ids}
                 lost == sess[s].lost \/ found # sess[s].ids \/ missed # {}
                 snap == {i \in Records(s) : i.uid \notin sess[s].ids}
                 before == InOrder(Uids(sess[s].snap))
                 told == IF lost THEN <<>> ELSE Expunged(sess[s].told, Reverse(NumbersOf(before, found)))
                 x == [sess[s] EXCEPT !.at = "ready", !.ids = {}, !.seen = {}, !.away = {}, !.found = {},
                                      !.snap = snap, !.lost = lost, !.told = told]
      <3>1. sess' = [sess EXCEPT ![s] = x]
        BY <1>0, <1>6, <2>2 DEF Purge, IsSession
      <3> HIDE DEF found, dead, missed, lost, snap, before, told
      <3>2. x.at # "move"
        BY <1>0 DEF IsSession
      <3>3. QED
        BY <3>1, <3>2, OneLeaves
    <2>3. QED
      BY <2>1, <2>2
  <1>7. CASE MoveDelete(s) \/ CommandFails(s)
    BY <1>7, LeavesMove DEF MoveDelete, CommandFails
  <1>8. ASSUME NEW d, NEW m, NEW flag, Append1(s, d, m, flag) PROVE NoNewMove
    BY <1>1, <1>8 DEF Append1
  <1>9. ASSUME NEW d, NEW e, NEW r, NEW on,
               \/ Status(s, d) \/ SessionCommit(s) \/ Store(s, r, on)
               \/ CreateMailbox(s, d) \/ DeleteMailbox(s, d) \/ RenameInbox(s, d) \/ RenameMailbox(s, d, e)
        PROVE  NoNewMove
    BY <1>1, <1>9
       DEF Status, SessionCommit, Store, CreateMailbox, DeleteMailbox, RenameInbox, RenameMailbox
  <1>10. ASSUME NEW d, NEW r, Copy(s, r, d) PROVE NoNewMove
    BY <1>8, <1>10 DEF Copy
  <1>11. QED
    BY <1>2, <1>3, <1>4, <1>5, <1>6, <1>7, <1>8, <1>9, <1>10 DEF Session

\* What a MOVE has seen, it has copied when it begins.
LEMMA MoveBegins ==
  ASSUME StoreInv, SessionsInv, NumbersInv, MovesKeep, NEW s \in Sessions, NEW d \in Names, NEW U, MoveInsert(s, U, d)
  PROVE  MovesKeep'
  <1> DEFINE from == {r \in Current(s) : r.uid \in U}
             new == Copies(from, d)
             seen == Uids(from)
             t0 == [by |-> s, box |-> BoxOf[s], old |-> {}, new |-> new, makes |-> {}, locks |-> TRUE]
  <1>1. /\ open' = open \cup {t0} /\ rows' = rows /\ Idle(s)
        /\ sess' = [sess EXCEPT ![s].at = "move", ![s].ids = U, ![s].seen = seen]
    BY DEF MoveInsert, Begin
  <1>2. from \subseteq Current(s) /\ \A r \in from : \E q \in new : q.box = r.box /\ q.mail = r.mail
    <2>1. from \subseteq Current(s)
      OBVIOUS
    <2> HIDE DEF from
    <2>2. QED
      BY <2>1, CopiesOf
  <1>3. ASSUME NEW r \in rows, r.box = BoxOf[s], r.uid \in seen PROVE r \in from
    <2>1. PICK q \in from : q.uid = r.uid
      BY <1>3 DEF Uids
    <2>2. q \in rows /\ q.box = BoxOf[s]
      BY <1>2 DEF Current, InDir
    <2>3. r = q
      BY <1>3, <2>1, <2>2 DEF NumbersInv, OneUid
    <2>4. QED
      BY <2>3
  <1>4. sess'[s].seen = seen /\ \A x \in Sessions : x # s => sess'[x] = sess[x]
    <2>1. DOMAIN sess = Sessions /\ IsSession(sess[s])
      BY DEF SessionsInv, Remembers
    <2> HIDE DEF from, new, seen
    <2>2. QED
      BY <1>1, <2>1 DEF IsSession
  <1> HIDE DEF from, new, seen
  <1>5. t0.by = s /\ t0.locks /\ t0.box = BoxOf[s] /\ t0.new = new
    OBVIOUS
  <1> HIDE DEF t0
  <1>6. rows' = rows /\ \A t \in open : t.by # s
    BY <1>1 DEF Idle, TxOf
  <1> SUFFICES ASSUME NEW x \in Sessions, sess'[x].at = "move", NEW t \in open', t.by = x
               PROVE  /\ t.locks /\ t.box = BoxOf[x]
                      /\ \A r \in rows : r.box = t.box /\ r.uid \in sess'[x].seen =>
                            \E q \in t.new : q.box = r.box /\ q.mail = r.mail
    BY <1>6 DEF MovesKeep
  <1>7. CASE x = s
    <2>1. t = t0
      BY <1>1, <1>6, <1>7
    <2>2. QED
      BY <1>2, <1>3, <1>4, <1>5, <1>7, <2>1
  <1>8. CASE x # s
    <2>1. t \in open /\ sess'[x] = sess[x]
      BY <1>1, <1>4, <1>5, <1>8
    <2>2. QED
      BY <2>1 DEF MovesKeep
  <1>9. QED
    BY <1>7, <1>8
LEMMA KeptPurge ==
  ASSUME MailInv, KeptUntilRemoved, NEW s \in Sessions, Purge(s)
  PROVE  KeptUntilRemoved'
  <1> DEFINE dead == {r \in Current(s) : r.uid \in sess[s].ids}
  <1>1. /\ rows' = rows \ dead /\ landed' = landed
        /\ marks' = marks \cup {<<BoxOf[s], r.mail, "removed">> : r \in {r \in dead : r.uid \in sess[s].seen}}
                          \cup {<<BoxOf[s], r.mail, "torn">> : r \in {r \in dead : r.uid \in sess[s].away}}
    BY DEF Purge
  <1>2. \A r \in dead : r.box = BoxOf[s] /\ (r.uid \in sess[s].seen \/ r.uid \in sess[s].away)
    BY DEF MailInv, SessionsInv, Remembers, Purge, Current, InDir
  <1> HIDE DEF dead
  <1>3. \A r \in dead : <<r.box, r.mail, "removed">> \in marks' \/ <<r.box, r.mail, "torn">> \in marks'
    BY <1>1, <1>2
  <1>4. QED
    BY <1>1, <1>3, KeptRows

\* MOVE removes what it has copied, and says so of all else.
LEMMA KeptMoveDelete ==
  ASSUME StoreInv, KeptInv, NEW s \in Sessions, MoveDelete(s)
  PROVE  KeptUntilRemoved'
  <1> DEFINE dead == {r \in Current(s) : r.uid \in sess[s].ids}
             torn == {r \in rows : r.box = BoxOf[s] /\ r.uid \in (sess[s].seen \cup Uids(dead))
                                       \ (sess[s].seen \cap Uids(dead))}
  <1>1. PICK t \in TxOf(s) :
           /\ CommitWithout(t, dead)
           /\ marks' = marks \cup {<<BoxOf[s], r.mail, "moved">> : r \in {r \in dead : r.uid \in sess[s].seen}}
                             \cup {<<BoxOf[s], r.mail, "torn">> : r \in torn}
    BY DEF MoveDelete
  <1>2. t \in open /\ t.by = s /\ sess[s].at = "move" /\ landed' = landed
    BY DEF MoveDelete, TxOf
  <1>3. rows' = (rows \ (t.old \cup dead)) \cup t.new
    BY <1>1 DEF CommitWithout
  <1>4. \A r \in dead : r \in rows /\ r.box = BoxOf[s] /\ (r.uid \in sess[s].seen \/ r \in torn)
    BY DEF Current, InDir, Uids
  <1> HIDE DEF dead, torn
  <1>5. \A r \in t.old : \E q \in t.new : q.box = r.box /\ q.mail = r.mail
    BY <1>2 DEF StoreInv, CarriedOver, SameLetter
  <1>6. \A r \in dead : r \in torn \/ \E q \in t.new : q.box = r.box /\ q.mail = r.mail
    BY <1>2, <1>4 DEF KeptInv, MovesKeep
  <1>7. \A r \in dead : r \in torn => <<r.box, r.mail, "torn">> \in marks'
    BY <1>1, <1>4
  <1>8. marks \subseteq marks'
    BY <1>1
  <1>9. QED
    BY <1>2, <1>3, <1>5, <1>6, <1>7, <1>8, KeptRows DEF KeptInv

LEMMA KeptRename ==
  ASSUME StoreInv, KeptUntilRemoved, NEW s \in Sessions, NEW d \in Names, NEW e \in Names, RenameMailbox(s, d, e)
  PROVE  KeptUntilRemoved' /\ NoNewNumber
  <1> DEFINE from == InDir(BoxOf[s], d)
             follow == {[r EXCEPT !.dir = e] : r \in from}
  <1>1. rows' = (rows \ from) \cup follow /\ UNCHANGED <<open, landed, marks>>
    BY DEF RenameMailbox
  <1>2. \A r \in from : r \in rows /\ IsRow(r)
    BY DEF InDir, StoreInv, Typed
  <1>3. ASSUME NEW r \in from PROVE SameNumber(r, [r EXCEPT !.dir = e])
    BY <1>2 DEF SameNumber, IsRow, RowIn
  <1>4. /\ \A r \in from : \E q \in follow : SameNumber(r, q)
        /\ \A q \in follow : \E r \in from : SameNumber(r, q)
    BY <1>3
  <1> HIDE DEF from, follow
  <1>5. KeptUntilRemoved'
    BY <1>1, <1>4, KeptRows DEF SameNumber
  <1>6. NoNewNumber
    BY <1>1, <1>2, <1>4 DEF NoNewNumber, SameNumber
  <1>7. QED
    BY <1>5, <1>6

LEMMA KeptFlag ==
  ASSUME StoreInv, KeptUntilRemoved, NEW s \in Sessions, NEW r \in rows, NEW on \in BOOLEAN, Store(s, r, on)
  PROVE  KeptUntilRemoved' /\ NoNewNumber
  <1> DEFINE q == [r EXCEPT !.deleted = on]
  <1>1. rows' = (rows \ {r}) \cup {q} /\ UNCHANGED <<open, landed, marks>>
    BY DEF Store
  <1>2. SameNumber(r, q)
    BY DEF SameNumber, StoreInv, Typed, IsRow, RowIn
  <1> HIDE DEF q
  <1>3. KeptUntilRemoved'
    BY <1>1, <1>2, KeptRows DEF SameNumber
  <1>4. NoNewNumber
    BY <1>1, <1>2 DEF NoNewNumber, SameNumber
  <1>5. QED
    BY <1>3, <1>4

LEMMA KeptSession ==
  ASSUME MailInv, NumbersInv, KeptInv, NEW s \in Sessions, Session(s)
  PROVE  KeptInv'
  <1>0. StoreInv /\ SessionsInv /\ KeptUntilRemoved /\ MovesKeep
    BY DEF MailInv, KeptInv
  <1>1. ASSUME NEW d \in Names, NEW U, MoveInsert(s, U, d) PROVE KeptInv'
    BY <1>0, <1>1, MoveBegins, KeptSame DEF MoveInsert, KeptInv
  <1> SUFFICES ASSUME ~\E d \in Names, U \in SUBSET Uids(sess[s].snap) : MoveInsert(s, U, d)
               PROVE  KeptInv'
    BY <1>1
  <1>2. NoNewMove
    BY <1>0, OnlyMoveBegins
  <1>3. CASE (\E d \in Names : Status(s, d) \/ Select(s, d)) \/ Poll(s) \/ CommandFails(s) \/ Search(s) \/ ReadDeleted(s)
    <2>1. open' \subseteq open /\ UNCHANGED <<rows, landed, marks>>
      BY <1>3 DEF Status, Select, Poll, CommandFails, Search, ReadDeleted, Rollback, storeVars
    <2>2. QED
      BY <1>0, <1>2, <2>1, KeptSame, NumbersStay, MovesGoOn DEF KeptInv
  <1>4. CASE SessionCommit(s)
    <2>1. PICK t \in open : CommitWithout(t, {})
      BY <1>4 DEF SessionCommit, Commit, TxOf
    <2>2. KeptUntilRemoved'
      BY <1>0, <1>4, <2>1, KeptCommit DEF SessionCommit
    <2>3. NoNewNumber /\ open' \subseteq open
      BY <1>0, <2>1, CommitNumbers DEF CommitWithout
    <2>4. QED
      BY <1>0, <1>2, <2>2, <2>3, MovesGoOn DEF KeptInv
  <1>5. ASSUME NEW r \in rows, NEW on \in BOOLEAN, Store(s, r, on) PROVE KeptInv'
    <2>1. KeptUntilRemoved' /\ NoNewNumber
      BY <1>0, <1>5, KeptFlag
    <2>2. QED
      BY <1>0, <1>2, <1>5, <2>1, MovesGoOn DEF KeptInv, Store
  <1>6. CASE Purge(s)
    <2>1. KeptUntilRemoved'
      BY <1>0, <1>6, KeptPurge
    <2>2. rows' \subseteq rows /\ open' = open
      BY <1>6 DEF Purge
    <2>3. QED
      BY <1>0, <1>2, <2>1, <2>2, NumbersStay, MovesGoOn DEF KeptInv
  <1>7. ASSUME NEW d, NEW m, NEW flag, Append1(s, d, m, flag) PROVE KeptInv'
    <2>1. /\ UNCHANGED <<rows, landed, marks, sess>> /\ sess[s].at # "move"
          /\ \A t \in open' : t \in open \/ t.by = s
      BY <1>7 DEF Append1, Begin
    <2>2. QED
      BY <1>0, <1>2, <2>1, KeptSame, NumbersStay, MovesGoOn DEF KeptInv
  <1>8. CASE MoveDelete(s)
    <2> DEFINE dead == {r \in Current(s) : r.uid \in sess[s].ids}
    <2>1. PICK t \in open : CommitWithout(t, dead)
      BY <1>8 DEF MoveDelete, TxOf
    <2> HIDE DEF dead
    <2>2. NoNewNumber /\ open' \subseteq open
      BY <1>0, <2>1, CommitNumbers DEF CommitWithout
    <2>3. KeptUntilRemoved'
      BY <1>0, <1>8, KeptMoveDelete
    <2>4. QED
      BY <1>0, <1>2, <2>2, <2>3, MovesGoOn DEF KeptInv
  <1>9. ASSUME NEW d \in Names, CreateMailbox(s, d) PROVE KeptInv'
    BY <1>0, <1>2, <1>9, KeptSame, NumbersStay, MovesGoOn DEF CreateMailbox, KeptInv
  <1>10. ASSUME NEW d \in Names, DeleteMailbox(s, d) PROVE KeptInv'
    <2>1. /\ rows' = rows \ InDir(BoxOf[s], d) /\ UNCHANGED <<open, landed>>
          /\ marks' = marks \cup {<<BoxOf[s], r.mail, "removed">> : r \in InDir(BoxOf[s], d)}
      BY <1>10 DEF DeleteMailbox
    <2>2. \A r \in InDir(BoxOf[s], d) : <<r.box, r.mail, "removed">> \in marks'
      BY <2>1 DEF InDir
    <2>3. KeptUntilRemoved'
      BY <1>0, <2>1, <2>2, KeptRows
    <2>4. QED
      BY <1>0, <1>2, <2>1, <2>3, NumbersStay, MovesGoOn DEF KeptInv
  <1>11. ASSUME NEW d \in Names, RenameInbox(s, d) PROVE KeptInv'
    <2>1. /\ UNCHANGED <<rows, landed, marks, sess>> /\ sess[s].at # "move"
          /\ \A t \in open' : t \in open \/ t.by = s
      BY <1>11 DEF RenameInbox, Begin
    <2>2. QED
      BY <1>0, <1>2, <2>1, KeptSame, NumbersStay, MovesGoOn DEF KeptInv
  <1>12. ASSUME NEW d \in Names, NEW e \in Names, RenameMailbox(s, d, e) PROVE KeptInv'
    <2>1. KeptUntilRemoved' /\ NoNewNumber
      BY <1>0, <1>12, KeptRename
    <2>2. QED
      BY <1>0, <1>2, <1>12, <2>1, MovesGoOn DEF KeptInv, RenameMailbox
  <1>13. QED
    BY <1>1, <1>3, <1>4, <1>5, <1>6, <1>7, <1>8, <1>9, <1>10, <1>11, <1>12 DEF Session, Copy

LEMMA StepKept ==
  ASSUME MailInv, NumbersInv, KeptInv, [Next]_vars
  PROVE  KeptInv'
  <1>0. StoreInv
    BY DEF MailInv
  <1>1. CASE UNCHANGED vars
    BY <1>1 DEF vars, storeVars, KeptInv, MovesKeep, KeptUntilRemoved
  <1>2. CASE StoreNext /\ UNCHANGED <<sess, announced>>
    BY <1>0, <1>2, KeptDelivery, KeptWeb DEF StoreNext
  <1>3. CASE (\E s \in Sessions \cap scene.actors : Session(s)) /\ UNCHANGED scene
    BY <1>3, KeptSession
  <1>4. QED
    BY <1>1, <1>2, <1>3 DEF Next

\* Stored mail stays in its mailbox through moves, renames and expunges, for every number
\* of mailboxes, sessions and folders, until a message seen flagged \Deleted is expunged or
\* its folder is deleted, a MOVE or EXPUNGE torn by a rename excepted.
THEOREM KeptCorrect == Spec => []KeptUntilRemoved
  <1>1. Init => MailInv /\ NumbersInv /\ KeptInv
    <2> SUFFICES ASSUME Init PROVE MailInv /\ NumbersInv /\ KeptInv
      OBVIOUS
    <2>1. MailInv /\ NumbersInv /\ open = {} /\ marks = {}
      BY InitMailInv, InitNumbers DEF Init, StoreInit
    <2>2. KeptInv
      BY <2>1 DEF KeptInv, MovesKeep, KeptUntilRemoved, MailInv, StoreInv, StoredIsKnown, Marked
    <2>3. QED
      BY <2>1, <2>2
  <1>2. MailInv /\ NumbersInv /\ KeptInv /\ [Next]_vars => (MailInv /\ NumbersInv /\ KeptInv)'
    BY StepMailInv, StepNumbers, StepKept
  <1>3. KeptInv => KeptUntilRemoved
    BY DEF KeptInv
  <1>4. QED
    BY <1>1, <1>2, <1>3, PTL DEF Spec

-----------------------------------------------------------------------------
(* Lists of numbers, and what EXPUNGE responses and polls do to them.       *)

\* The place of a number in the order of a set.
Rank(U, u) == Cardinality({v \in U : v <= u})

LEMMA RankProperties ==
  ASSUME NEW U \in SUBSET Nat, IsFiniteSet(U)
  PROVE  /\ Cardinality(U) \in Nat
         /\ \A u \in U : Rank(U, u) \in 1..Cardinality(U)
         /\ \A u, v \in U : u < v => Rank(U, u) < Rank(U, v)
         /\ \A u, v \in U : Rank(U, u) = Rank(U, v) => u = v
         /\ \A i \in 1..Cardinality(U) : \E u \in U : Rank(U, u) = i
  <1> DEFINE UpTo(u) == {v \in U : v <= u}
             n == Cardinality(U)
             f == [u \in U |-> Rank(U, u)]
  <1>1. n \in Nat
    BY FS_CardinalityType
  <1>0. \A u : Rank(U, u) = Cardinality(UpTo(u))
    BY DEF Rank
  <1>2. ASSUME NEW u \in U PROVE IsFiniteSet(UpTo(u)) /\ Rank(U, u) \in 1..n
    <2>1. UpTo(u) \subseteq U /\ u \in UpTo(u)
      OBVIOUS
    <2>2. IsFiniteSet(UpTo(u)) /\ Cardinality(UpTo(u)) <= n
      BY <2>1, FS_Subset
    <2>3. Cardinality(UpTo(u)) \in Nat /\ Cardinality(UpTo(u)) # 0
      BY <2>1, <2>2, FS_CardinalityType, FS_EmptySet
    <2> HIDE DEF UpTo, n
    <2>4. QED
      BY <1>0, <1>1, <2>2, <2>3
  <1>7. \A u \in U : Rank(U, u) \in 1..n /\ Rank(U, u) \in Nat
    <2> HIDE DEF UpTo, n
    <2>1. QED
      BY <1>1, <1>2
  <1>3. ASSUME NEW u \in U, NEW v \in U, u < v PROVE Rank(U, u) < Rank(U, v)
    <2>0. u \in Nat /\ v \in Nat /\ \A x \in U : x \in Nat
      OBVIOUS
    <2>1. \A x \in U : x <= u => x <= v
      BY <1>3, <2>0
    <2>5. v <= v /\ ~(v <= u)
      BY <1>3, <2>0
    <2>6. UpTo(u) \subseteq UpTo(v) /\ v \in UpTo(v) /\ v \notin UpTo(u)
      BY <2>1, <2>5
    <2>2. Cardinality(UpTo(u)) <= Cardinality(UpTo(v)) /\ Cardinality(UpTo(u)) # Cardinality(UpTo(v))
      BY <1>2, <2>6, FS_Subset
    <2>3. Rank(U, u) \in Nat /\ Rank(U, v) \in Nat
      BY <1>7
    <2> HIDE DEF UpTo
    <2>4. QED
      BY <1>0, <2>2, <2>3
  <1>4. ASSUME NEW u \in U, NEW v \in U, Rank(U, u) = Rank(U, v) PROVE u = v
    <2>1. Rank(U, u) \in Nat /\ Rank(U, v) \in Nat
      BY <1>7
    <2>2. u \in Nat /\ v \in Nat /\ ~(u < v) /\ ~(v < u)
      BY <1>3, <1>4, <2>1
    <2>3. QED
      BY <2>2
  <1>5. ASSUME NEW i \in 1..n PROVE \E u \in U : Rank(U, u) = i
    <2>1. f \in [U -> 1..n]
      BY <1>7
    <2>2. f \in Injection(U, 1..n)
      BY <1>4, <2>1 DEF Injection, IsInjective
    <2>3. IsFiniteSet(1..n) /\ Cardinality(1..n) = n
      BY <1>1, FS_Interval
    <2>4. f \in Surjection(U, 1..n)
      BY <2>2, <2>3, FS_Injection
    <2>5. QED
      BY <2>4 DEF Surjection
  <1>6. QED
    BY <1>1, <1>7, <1>3, <1>4, <1>5

\* The list holds every number at its rank.
LEMMA InOrderProperties ==
  ASSUME NEW U \in SUBSET Nat, IsFiniteSet(U)
  PROVE  /\ Cardinality(U) \in Nat
         /\ InOrder(U) \in Seq(U)
         /\ DOMAIN InOrder(U) = 1..Cardinality(U)
         /\ Len(InOrder(U)) = Cardinality(U)
         /\ \A i \in 1..Cardinality(U) : InOrder(U)[i] \in U /\ Rank(U, InOrder(U)[i]) = i
         /\ \A u \in U : InOrder(U)[Rank(U, u)] = u
  <1> DEFINE n == Cardinality(U)
             list == InOrder(U)
  <1>1. n \in Nat
    BY RankProperties
  <1>2. list = [i \in 1..n |-> CHOOSE u \in U : Rank(U, u) = i]
    BY DEF InOrder, Rank
  <1> HIDE DEF list, n
  <1>3. ASSUME NEW i \in 1..n PROVE list[i] \in U /\ Rank(U, list[i]) = i
    <2>1. \E u \in U : Rank(U, u) = i
      BY RankProperties DEF n
    <2>2. list[i] = CHOOSE u \in U : Rank(U, u) = i
      BY <1>2
    <2>3. QED
      BY <2>1, <2>2
  <1>4. ASSUME NEW u \in U PROVE list[Rank(U, u)] = u
    <2>1. Rank(U, u) \in 1..n /\ \A v \in U : Rank(U, v) = Rank(U, u) => v = u
      BY RankProperties DEF n
    <2>2. QED
      BY <1>3, <2>1
  <1>5. list \in [1..n -> U]
    BY <1>2, <1>3
  <1>6. list \in Seq(U)
    BY <1>1, <1>5, SeqDef
  <1>7. DOMAIN list = 1..n /\ Len(list) = n
    BY <1>1, <1>5, <1>6, LenProperties
  <1>8. QED
    BY <1>1, <1>3, <1>4, <1>6, <1>7 DEF list, n

\* There is no other such list.
LEMMA OneOrder ==
  ASSUME NEW U \in SUBSET Nat, IsFiniteSet(U), NEW list \in Seq(U), Len(list) = Cardinality(U),
         \A i \in 1..Len(list) : Rank(U, list[i]) = i
  PROVE  list = InOrder(U)
  <1>1. InOrder(U) \in Seq(U) /\ Len(InOrder(U)) = Cardinality(U)
    BY InOrderProperties
  <1>2. ASSUME NEW i \in 1..Len(list) PROVE list[i] = InOrder(U)[i]
    <2>1. list[i] \in U
      BY ElementOfSeq
    <2>2. QED
      BY <2>1, InOrderProperties
  <1>3. QED
    BY <1>1, <1>2, SeqEqual

\* What stands behind a number that is removed moves up by one.
LEMMA RemoveAtProperties ==
  ASSUME NEW S, NEW s \in Seq(S), NEW n \in 1..Len(s)
  PROVE  /\ RemoveAt(s, n) \in Seq(S)
         /\ Len(RemoveAt(s, n)) = Len(s) - 1
         /\ \A i \in 1..(Len(s) - 1) : RemoveAt(s, n)[i] = IF i < n THEN s[i] ELSE s[i + 1]
  <1> DEFINE front == SubSeq(s, 1, n - 1)
             back == SubSeq(s, n + 1, Len(s))
  <1>1. Len(s) \in Nat /\ n \in Nat /\ n >= 1 /\ n <= Len(s) /\ \A i \in 1..Len(s) : s[i] \in S
    BY LenProperties, ElementOfSeq
  <1>2. front \in Seq(S) /\ Len(front) = n - 1 /\ \A i \in 1..(n - 1) : front[i] = s[i]
    <2>1. /\ 1 \in Int /\ n - 1 \in Int /\ \A i \in 1..(n - 1) : s[i] \in S
      BY <1>1
    <2>2. /\ front \in Seq(S) /\ Len(front) = (IF 1 <= n - 1 THEN (n - 1) - 1 + 1 ELSE 0)
          /\ \A i \in 1..((n - 1) - 1 + 1) : front[i] = s[1 + i - 1]
      BY <2>1, SubSeqProperties
    <2>3. QED
      BY <1>1, <2>2
  <1>3. back \in Seq(S) /\ Len(back) = Len(s) - n /\ \A i \in 1..(Len(s) - n) : back[i] = s[n + i]
    <2>1. /\ n + 1 \in Int /\ Len(s) \in Int /\ \A i \in (n + 1)..Len(s) : s[i] \in S
      BY <1>1
    <2>2. /\ back \in Seq(S) /\ Len(back) = (IF n + 1 <= Len(s) THEN Len(s) - (n + 1) + 1 ELSE 0)
          /\ \A i \in 1..(Len(s) - (n + 1) + 1) : back[i] = s[(n + 1) + i - 1]
      BY <2>1, SubSeqProperties
    <2>3. QED
      BY <1>1, <2>2
  <1>4. RemoveAt(s, n) = front \o back
    BY DEF RemoveAt
  <1> HIDE DEF front, back
  <1>5. /\ RemoveAt(s, n) \in Seq(S) /\ Len(RemoveAt(s, n)) = Len(s) - 1
        /\ \A i \in 1..(Len(s) - 1) :
              RemoveAt(s, n)[i] = IF i <= Len(front) THEN front[i] ELSE back[i - Len(front)]
    <2>1. /\ front \o back \in Seq(S) /\ Len(front \o back) = Len(front) + Len(back)
          /\ \A i \in 1..(Len(front) + Len(back)) :
                (front \o back)[i] = IF i <= Len(front) THEN front[i] ELSE back[i - Len(front)]
      BY <1>2, <1>3, ConcatProperties
    <2>2. Len(front) + Len(back) = Len(s) - 1
      BY <1>1, <1>2, <1>3
    <2>3. QED
      BY <1>4, <2>1, <2>2
  <1>6. ASSUME NEW i \in 1..(Len(s) - 1), i < n PROVE RemoveAt(s, n)[i] = s[i]
    BY <1>1, <1>2, <1>5, <1>6
  <1>7. ASSUME NEW i \in 1..(Len(s) - 1), ~(i < n) PROVE RemoveAt(s, n)[i] = s[i + 1]
    <2>1. i - (n - 1) \in 1..(Len(s) - n) /\ n + (i - (n - 1)) = i + 1 /\ ~(i <= n - 1)
      BY <1>1, <1>7
    <2>2. Len(front) = n - 1
      BY <1>2
    <2>3. RemoveAt(s, n)[i] = back[i - (n - 1)]
      BY <1>5, <2>1, <2>2
    <2>4. back[i - (n - 1)] = s[n + (i - (n - 1))]
      BY <1>3, <2>1
    <2>5. QED
      BY <2>1, <2>3, <2>4
  <1>8. QED
    BY <1>5, <1>6, <1>7

LEMMA OneRemoved ==
  ASSUME NEW U \in SUBSET Nat, IsFiniteSet(U), NEW u \in U
  PROVE  RemoveAt(InOrder(U), Rank(U, u)) = InOrder(U \ {u})
  <1> DEFINE n == Rank(U, u)
             c == Cardinality(U)
             V == U \ {u}
             list == InOrder(U)
             rest == RemoveAt(list, n)
  <1>1. V \in SUBSET Nat /\ IsFiniteSet(V) /\ Cardinality(V) = c - 1
    BY FS_RemoveElement
  <1>2. /\ c \in Nat /\ n \in 1..c /\ n \in Nat
        /\ list \in Seq(U) /\ Len(list) = c
        /\ \A i \in 1..c : list[i] \in U /\ Rank(U, list[i]) = i
        /\ \A v, w \in U : v < w => Rank(U, v) < Rank(U, w)
    BY RankProperties, InOrderProperties
  <1>3. /\ rest \in Seq(U) /\ Len(rest) = c - 1
        /\ \A i \in 1..(c - 1) : rest[i] = IF i < n THEN list[i] ELSE list[i + 1]
    BY <1>2, RemoveAtProperties
  <1>4. ASSUME NEW w \in U, w # u PROVE Rank(V, w) = IF w < u THEN Rank(U, w) ELSE Rank(U, w) - 1
    <2> DEFINE W == {v \in U : v <= w}
               X == {v \in V : v <= w}
    <2>1. IsFiniteSet(W)
      BY FS_Subset
    <2>2. u \in Nat /\ w \in Nat
      OBVIOUS
    <2>3. CASE w < u
      <3>1. X = W
        BY <2>2, <2>3
      <3>2. QED
        BY <2>3, <3>1 DEF Rank
    <2>4. CASE ~(w < u)
      <3>1. X = W \ {u} /\ u \in W
        BY <1>4, <2>2, <2>4
      <3> HIDE DEF X, W
      <3>2. Cardinality(X) = Cardinality(W) - 1
        BY <2>1, <3>1, FS_RemoveElement
      <3>3. QED
        BY <2>4, <3>2 DEF Rank, X, W
    <2>5. QED
      BY <2>3, <2>4
  <1> HIDE DEF n, c, V, list, rest
  <1>8. n = Rank(U, u)
    BY DEF n
  <1>9. \A v, w \in U : v < w => Rank(U, v) < Rank(U, w)
    BY <1>2
  <1>5. ASSUME NEW i \in 1..(c - 1) PROVE rest[i] \in V /\ Rank(V, rest[i]) = i
    <2>0. u \in Nat /\ \A v \in U : v \in Nat
      OBVIOUS
    <2>1. CASE i < n
      <3>1. i \in 1..c /\ i # n
        BY <1>2, <2>1
      <3>2. rest[i] = list[i] /\ list[i] \in U /\ Rank(U, list[i]) = i
        BY <1>2, <1>3, <2>1, <3>1
      <3>3. list[i] # u
        BY <1>8, <2>1, <3>1, <3>2
      <3>6. ~(u < list[i])
        <4>1. u < list[i] => n < i
          BY <1>8, <1>9, <3>2
        <4>2. QED
          BY <1>2, <2>1, <3>1, <4>1
      <3>4. list[i] < u
        <4>1. list[i] \in Nat
          BY <2>0, <3>2
        <4>2. QED
          BY <2>0, <3>3, <3>6, <4>1
      <3>5. QED
        BY <1>4, <3>2, <3>3, <3>4 DEF V
    <2>2. CASE ~(i < n)
      <3>1. i + 1 \in 1..c /\ i + 1 > n /\ i \in Nat
        BY <1>2, <2>2
      <3>2. rest[i] = list[i + 1] /\ list[i + 1] \in U /\ Rank(U, list[i + 1]) = i + 1
        BY <1>2, <1>3, <2>2, <3>1
      <3>3. list[i + 1] # u
        BY <1>2, <1>8, <3>1, <3>2
      <3>6. ~(list[i + 1] < u)
        <4>1. list[i + 1] < u => i + 1 < n
          BY <1>8, <1>9, <3>2
        <4>2. QED
          BY <1>2, <3>1, <4>1
      <3>4. Rank(V, list[i + 1]) = (i + 1) - 1
        BY <1>4, <3>2, <3>3, <3>6
      <3>5. QED
        BY <3>1, <3>2, <3>3, <3>4 DEF V
    <2>3. QED
      BY <2>1, <2>2
  <1>6. rest \in Seq(V)
    <2>1. rest \in [1..(c - 1) -> V] /\ c - 1 \in Nat
      BY <1>1, <1>2, <1>3, <1>5, LenProperties
    <2>2. QED
      BY <2>1, SeqDef
  <1>7. QED
    BY <1>1, <1>3, <1>5, <1>6, OneOrder DEF rest, list, n, V


\* What follows the steps of the EXPUNGE responses is the numbering after them.
LEMMA ExpungedSteps ==
  ASSUME NEW numbering, NEW numbers, Len(numbers) \in Nat, NEW g,
         g = [k \in 0..Len(numbers) |->
                IF k = 0 THEN numbering
                ELSE IF numbers[k] \in DOMAIN g[k - 1] THEN RemoveAt(g[k - 1], numbers[k])
                ELSE g[k - 1]]
  PROVE  Expunged(numbering, numbers) = g[Len(numbers)]
  <1> DEFINE n == Len(numbers)
             Then(list, k) == IF numbers[k] \in DOMAIN list THEN RemoveAt(list, numbers[k]) ELSE list
             Steps(f) == [k \in 0..n |-> IF k = 0 THEN numbering
                                         ELSE IF numbers[k] \in DOMAIN f[k - 1] THEN RemoveAt(f[k - 1], numbers[k])
                                         ELSE f[k - 1]]
             after == CHOOSE f : f = Steps(f)
  <1>1. Expunged(numbering, numbers) = after[n]
    BY DEF Expunged
  <1>2. after = Steps(after) /\ g = Steps(g)
    OBVIOUS
  <1>3. \A k \in 0..n : /\ after[k] = IF k = 0 THEN numbering ELSE Then(after[k - 1], k)
                        /\ g[k] = IF k = 0 THEN numbering ELSE Then(g[k - 1], k)
    <2> HIDE DEF after
    <2>1. QED
      BY <1>2
  <1> HIDE DEF after, Steps, Then, n
  <1>4. n \in Nat
    BY DEF n
  <1>5. \A k \in 0..n : after[k] = g[k]
    <2> DEFINE T == {k \in 0..n : after[k] # g[k]}
    <2> SUFFICES ASSUME T # {} PROVE FALSE
      OBVIOUS
    <2>0. T \in SUBSET Nat
      BY <1>4
    <2>1. PICK k \in T : \A j \in T : k <= j
      BY <2>0, SmallestOf
    <2>2. k \in 0..n /\ after[k] # g[k]
      BY <2>1
    <2>3. k # 0
      BY <1>3, <2>2
    <2>4. k - 1 \in 0..n /\ ~(k <= k - 1)
      BY <1>4, <2>2, <2>3
    <2>5. after[k - 1] = g[k - 1]
      BY <2>1, <2>4
    <2>6. QED
      BY <1>3, <2>2, <2>3, <2>5
  <1>6. QED
    BY <1>1, <1>4, <1>5 DEF n

\* The first k messages that go.
Gone(w, k) == {w[j] : j \in 1..k}

\* The numbers are the ranks that members of a set, one after the other, have in what is
\* left of it.
RanksOfGone(U, numbers, w) ==
    /\ Len(numbers) \in Nat
    /\ \A k \in 1..Len(numbers) :
          /\ w[k] \in U
          /\ \A j \in 1..(k - 1) : w[j] # w[k]
          /\ numbers[k] = Rank(U \ Gone(w, k - 1), w[k])

\* EXPUNGE responses with such numbers leave the rest in order.
LEMMA ExpungedInOrder ==
  ASSUME NEW U \in SUBSET Nat, IsFiniteSet(U), NEW numbers, NEW w, RanksOfGone(U, numbers, w)
  PROVE  Expunged(InOrder(U), numbers) = InOrder(U \ Gone(w, Len(numbers)))
  <1> DEFINE n == Len(numbers)
             Left(k) == U \ Gone(w, k)
             g == [k \in 0..n |-> InOrder(Left(k))]
  <1> USE DEF RanksOfGone
  <1>1. InOrder(Left(0)) = InOrder(U)
    <2>1. Left(0) = U
      BY DEF Gone
    <2>2. QED
      BY <2>1
  <1>2. ASSUME NEW k \in 1..n
        PROVE  /\ numbers[k] \in DOMAIN InOrder(Left(k - 1))
               /\ InOrder(Left(k)) = RemoveAt(InOrder(Left(k - 1)), numbers[k])
    <2>1. /\ w[k] \in Left(k - 1) /\ Left(k) = Left(k - 1) \ {w[k]}
          /\ numbers[k] = Rank(Left(k - 1), w[k])
      <3>1. k \in Nat /\ 1..k = 1..(k - 1) \cup {k}
        OBVIOUS
      <3>2. {w[j] : j \in 1..k} = {w[j] : j \in 1..(k - 1)} \cup {w[k]}
        BY <3>1
      <3>3. Gone(w, k) = Gone(w, k - 1) \cup {w[k]} /\ w[k] \notin Gone(w, k - 1)
        BY <3>2 DEF Gone
      <3>4. QED
        BY <3>3
    <2>2. Left(k - 1) \in SUBSET Nat /\ IsFiniteSet(Left(k - 1))
      BY FS_Difference
    <2> HIDE DEF Left
    <2>3. Rank(Left(k - 1), w[k]) \in DOMAIN InOrder(Left(k - 1))
      BY <2>1, <2>2, RankProperties, InOrderProperties
    <2>4. RemoveAt(InOrder(Left(k - 1)), Rank(Left(k - 1), w[k])) = InOrder(Left(k - 1) \ {w[k]})
      BY <2>1, <2>2, OneRemoved
    <2>5. QED
      BY <2>1, <2>3, <2>4
  <1> HIDE DEF Left
  <1>3. \A k \in 0..n : g[k] = InOrder(Left(k))
    OBVIOUS
  <1>4. g = [k \in 0..n |-> g[k]]
    OBVIOUS
  <1> HIDE DEF g
  <1>5. ASSUME NEW k \in 0..n
        PROVE  g[k] = IF k = 0 THEN InOrder(U)
                      ELSE IF numbers[k] \in DOMAIN g[k - 1] THEN RemoveAt(g[k - 1], numbers[k])
                      ELSE g[k - 1]
    <2>1. CASE k = 0
      BY <1>1, <1>3, <2>1
    <2>2. CASE k # 0
      <3>1. k \in 1..n /\ k - 1 \in 0..n
        BY <2>2
      <3>2. QED
        BY <1>2, <1>3, <2>2, <3>1
    <2>3. QED
      BY <2>1, <2>2
  <1>6. g = [k \in 0..n |-> IF k = 0 THEN InOrder(U)
                            ELSE IF numbers[k] \in DOMAIN g[k - 1] THEN RemoveAt(g[k - 1], numbers[k])
                            ELSE g[k - 1]]
    BY <1>4, <1>5
  <1>7. Expunged(InOrder(U), numbers) = g[n]
    BY <1>6, ExpungedSteps
  <1>8. QED
    BY <1>3, <1>7 DEF Left

LEMMA InOrderAscends ==
  ASSUME NEW U \in SUBSET Nat, IsFiniteSet(U),
         NEW i \in DOMAIN InOrder(U), NEW j \in DOMAIN InOrder(U), i < j
  PROVE  InOrder(U)[i] < InOrder(U)[j]
  <1> DEFINE x == InOrder(U)[i]
             y == InOrder(U)[j]
  <1>1. /\ x \in U /\ y \in U /\ Rank(U, x) = i /\ Rank(U, y) = j /\ i \in Nat /\ j \in Nat
    BY InOrderProperties
  <1>2. x \in Nat /\ y \in Nat
    BY <1>1
  <1> HIDE DEF x, y
  <1>3. ~(y < x)
    <2>1. y < x => j < i
      BY <1>1, RankProperties
    <2>2. QED
      BY <1>1, <2>1
  <1>4. x # y
    BY <1>1
  <1>5. x < y
    BY <1>2, <1>3, <1>4
  <1>6. QED
    BY <1>5 DEF x, y

\* The numbers, in ascending order, of those members of U that are in G.
LEMMA NumbersOfProperties ==
  ASSUME NEW U \in SUBSET Nat, IsFiniteSet(U), NEW G, NEW list, list = InOrder(U),
         NEW numbers, numbers = NumbersOf(list, G)
  PROVE  /\ Len(numbers) \in Nat /\ DOMAIN numbers = 1..Len(numbers)
         /\ \A k \in DOMAIN numbers : /\ numbers[k] \in DOMAIN list /\ numbers[k] \in Nat
                                      /\ list[numbers[k]] \in U /\ list[numbers[k]] \in G
                                      /\ Rank(U, list[numbers[k]]) = numbers[k]
         /\ \A j, k \in DOMAIN numbers : j < k => list[numbers[j]] < list[numbers[k]]
         /\ \A u \in U \cap G : \E k \in DOMAIN numbers : list[numbers[k]] = u
  <1> DEFINE I == {i \in DOMAIN list : list[i] \in G}
  <1>1. /\ Cardinality(U) \in Nat /\ DOMAIN list = 1..Cardinality(U)
        /\ \A i \in DOMAIN list : list[i] \in U /\ Rank(U, list[i]) = i
        /\ \A u \in U : Rank(U, u) \in DOMAIN list /\ list[Rank(U, u)] = u
    BY InOrderProperties, RankProperties
  <1>2. I \in SUBSET Nat /\ IsFiniteSet(I)
    <2>1. IsFiniteSet(1..Cardinality(U))
      BY <1>1, FS_Interval
    <2>2. QED
      BY <1>1, <2>1, FS_Subset
  <1>3. numbers = InOrder(I)
    BY DEF NumbersOf
  <1>4. /\ Len(numbers) = Cardinality(I) /\ Cardinality(I) \in Nat /\ DOMAIN numbers = 1..Cardinality(I)
        /\ \A k \in DOMAIN numbers : numbers[k] \in I
        /\ \A i \in I : Rank(I, i) \in DOMAIN numbers /\ numbers[Rank(I, i)] = i
    <2> HIDE DEF I
    <2>1. QED
      BY <1>2, <1>3, InOrderProperties, RankProperties
  <1>5. \A k \in DOMAIN numbers : /\ numbers[k] \in DOMAIN list /\ numbers[k] \in Nat
                                  /\ list[numbers[k]] \in U /\ list[numbers[k]] \in G
                                  /\ Rank(U, list[numbers[k]]) = numbers[k]
    BY <1>1, <1>2, <1>4
  <1>6. ASSUME NEW j \in DOMAIN numbers, NEW k \in DOMAIN numbers, j < k
        PROVE  list[numbers[j]] < list[numbers[k]]
    <2> HIDE DEF I
    <2>1. numbers[j] < numbers[k]
      BY <1>2, <1>3, <1>6, InOrderAscends
    <2>2. QED
      BY <1>5, <2>1, InOrderAscends
  <1>7. ASSUME NEW u \in U \cap G PROVE \E k \in DOMAIN numbers : list[numbers[k]] = u
    <2>1. Rank(U, u) \in I /\ list[Rank(U, u)] = u
      BY <1>1
    <2> HIDE DEF I
    <2>2. QED
      BY <1>4, <2>1
  <1>8. QED
    BY <1>4, <1>5, <1>6, <1>7

\* From the last to the first, the numbers are those of the old list.
LEMMA ExpungedDown ==
  ASSUME NEW U \in SUBSET Nat, IsFiniteSet(U), NEW G
  PROVE  Expunged(InOrder(U), Reverse(NumbersOf(InOrder(U), G))) = InOrder(U \ G)
  <1> DEFINE list == InOrder(U)
             numbers == NumbersOf(list, G)
             back == Reverse(numbers)
             n == Len(numbers)
             w == [k \in 1..n |-> list[back[k]]]
  <1>1. /\ n \in Nat /\ DOMAIN numbers = 1..n
        /\ \A k \in 1..n : /\ list[numbers[k]] \in U /\ list[numbers[k]] \in G
                           /\ Rank(U, list[numbers[k]]) = numbers[k]
        /\ \A j, k \in 1..n : j < k => list[numbers[j]] < list[numbers[k]]
        /\ \A u \in U \cap G : \E k \in 1..n : list[numbers[k]] = u
    <2> HIDE DEF list, numbers, n
    <2>1. list = InOrder(U) /\ numbers = NumbersOf(list, G) /\ n = Len(numbers)
      BY DEF list, numbers, n
    <2>2. QED
      BY <2>1, NumbersOfProperties
  <1>2. back = [k \in 1..n |-> numbers[(n - k) + 1]]
    BY DEF Reverse
  <1> HIDE DEF list, numbers, back, n
  <1>3. Len(back) = n
    <2> DEFINE S == {numbers[k] : k \in 1..n}
    <2>1. back \in [1..n -> S]
      BY <1>1, <1>2
    <2> HIDE DEF S
    <2>2. back \in Seq(S)
      BY <1>1, <2>1, SeqDef
    <2>3. QED
      BY <1>1, <2>1, <2>2, LenProperties
  <1>4. ASSUME NEW k \in 1..n PROVE (n - k) + 1 \in 1..n /\ w[k] = list[numbers[(n - k) + 1]]
    BY <1>1, <1>2
  <1>5. ASSUME NEW k \in 1..n, NEW j \in 1..(k - 1) PROVE w[k] < w[j]
    <2>1. j \in 1..n /\ (n - k) + 1 < (n - j) + 1
      BY <1>1
    <2>2. QED
      BY <1>1, <1>4, <2>1
  <1>6. ASSUME NEW k \in 1..n PROVE w[k] \in U /\ w[k] \in G /\ Rank(U, w[k]) = back[k]
    BY <1>1, <1>2, <1>4
  <1>7. Gone(w, n) = U \cap G
    <2>1. ASSUME NEW u \in U \cap G PROVE \E k \in 1..n : w[k] = u
      <3>1. PICK k \in 1..n : list[numbers[k]] = u
        BY <1>1
      <3>2. (n - k) + 1 \in 1..n /\ (n - ((n - k) + 1)) + 1 = k
        BY <1>1
      <3>3. QED
        BY <1>4, <3>1, <3>2
    <2> HIDE DEF w
    <2>2. QED
      BY <1>6, <2>1 DEF Gone
  <1> HIDE DEF w
  <1>8. ASSUME NEW k \in 1..n PROVE back[k] = Rank(U \ Gone(w, k - 1), w[k])
    <2> DEFINE V == U \ Gone(w, k - 1)
    <2>1. \A j \in 1..(k - 1) : ~(w[j] <= w[k])
      <3> SUFFICES ASSUME NEW j \in 1..(k - 1) PROVE ~(w[j] <= w[k])
        OBVIOUS
      <3>1. j \in 1..n
        BY <1>1
      <3>2. w[j] \in Nat /\ w[k] \in Nat /\ w[k] < w[j]
        BY <1>5, <1>6, <3>1
      <3>3. QED
        BY <3>2
    <2>2. {v \in V : v <= w[k]} = {v \in U : v <= w[k]}
      BY <2>1 DEF Gone
    <2>3. QED
      BY <1>6, <2>2 DEF Rank
  <1>9. ASSUME NEW k \in 1..n, NEW j \in 1..(k - 1) PROVE w[j] # w[k]
    <2>1. w[k] \in Nat /\ w[k] < w[j]
      BY <1>5, <1>6
    <2>2. QED
      BY <2>1
  <1>10. Expunged(InOrder(U), back) = InOrder(U \ Gone(w, n))
    <2>1. RanksOfGone(U, back, w)
      BY <1>1, <1>3, <1>6, <1>8, <1>9 DEF RanksOfGone
    <2>2. Expunged(InOrder(U), back) = InOrder(U \ Gone(w, Len(back)))
      BY <2>1, ExpungedInOrder
    <2>3. QED
      BY <1>3, <2>2
  <1>11. U \ Gone(w, n) = U \ G
    BY <1>7
  <1>12. QED
    BY <1>10, <1>11 DEF back, numbers, list

\* From the first to the last, each counts those before it as gone.
LEMMA ExpungedUp ==
  ASSUME NEW U \in SUBSET Nat, IsFiniteSet(U), NEW G
  PROVE  Expunged(InOrder(U), ExpungeNumbers(InOrder(U), G)) = InOrder(U \ G)
  <1> DEFINE list == InOrder(U)
             numbers == NumbersOf(list, G)
             shifted == ExpungeNumbers(list, G)
             n == Len(numbers)
             w == [k \in 1..n |-> list[numbers[k]]]
  <1>1. /\ n \in Nat /\ DOMAIN numbers = 1..n
        /\ \A k \in 1..n : /\ list[numbers[k]] \in U /\ list[numbers[k]] \in G
                           /\ numbers[k] \in Nat
                           /\ Rank(U, list[numbers[k]]) = numbers[k]
        /\ \A j, k \in 1..n : j < k => list[numbers[j]] < list[numbers[k]]
        /\ \A u \in U \cap G : \E k \in 1..n : list[numbers[k]] = u
    <2> HIDE DEF list, numbers, n
    <2>1. list = InOrder(U) /\ numbers = NumbersOf(list, G) /\ n = Len(numbers)
      BY DEF list, numbers, n
    <2>2. QED
      BY <2>1, NumbersOfProperties
  <1>2. shifted = [k \in DOMAIN numbers |-> numbers[k] - (k - 1)]
    BY DEF ExpungeNumbers
  <1> HIDE DEF list, numbers, shifted, n
  <1>3. Len(shifted) = n
    <2>1. shifted \in [1..n -> Int]
      BY <1>1, <1>2
    <2>2. shifted \in Seq(Int)
      BY <1>1, <2>1, SeqDef
    <2>3. QED
      BY <1>1, <2>1, <2>2, LenProperties
  <1>4. ASSUME NEW k \in 1..n
        PROVE  w[k] \in U /\ w[k] \in G /\ Rank(U, w[k]) = numbers[k] /\ numbers[k] \in Nat
    BY <1>1
  <1>5. ASSUME NEW k \in 1..n, NEW j \in 1..n, j < k PROVE w[j] < w[k]
    BY <1>1, <1>5
  <1>6. Gone(w, n) = U \cap G
    <2>1. ASSUME NEW u \in U \cap G PROVE \E k \in 1..n : w[k] = u
      BY <1>1
    <2> HIDE DEF w
    <2>2. QED
      BY <1>4, <2>1 DEF Gone
  <1> HIDE DEF w
  <1>7. ASSUME NEW k \in 1..n, NEW j \in 1..n, w[j] = w[k] PROVE j = k
    <2>1. w[k] \in Nat /\ w[j] \in Nat
      BY <1>4
    <2>2. ~(j < k) /\ ~(k < j)
      BY <1>5, <1>7, <2>1
    <2>3. QED
      BY <1>1, <2>2
  <1>8. ASSUME NEW k \in 1..n PROVE shifted[k] = Rank(U \ Gone(w, k - 1), w[k])
    <2> DEFINE W == Gone(w, k - 1)
               X == {v \in U : v <= w[k]}
               Y == {v \in U \ W : v <= w[k]}
               f == [j \in 1..(k - 1) |-> w[j]]
    <2>1. \A j \in 1..(k - 1) : j \in 1..n /\ j < k
      BY <1>1
    <2>2. W \subseteq X
      <3> SUFFICES ASSUME NEW j \in 1..(k - 1) PROVE w[j] \in X
        BY DEF Gone
      <3>1. w[j] \in U /\ w[j] \in Nat /\ w[k] \in Nat /\ w[j] < w[k]
        BY <1>4, <1>5, <2>1
      <3>2. QED
        BY <3>1
    <2>3. IsFiniteSet(W) /\ Cardinality(W) = k - 1
      <3>1. f \in Surjection(1..(k - 1), W)
        BY DEF Gone, Surjection
      <3>2. f \in Injection(1..(k - 1), W)
        BY <1>7, <2>1, <3>1 DEF Surjection, Injection, IsInjective
      <3>3. IsFiniteSet(1..(k - 1)) /\ Cardinality(1..(k - 1)) = k - 1
        BY FS_Interval
      <3> HIDE DEF f, W
      <3>4. QED
        BY <3>1, <3>2, <3>3, FS_Surjection
    <2>4. Y = X \ W
      OBVIOUS
    <2>5. IsFiniteSet(X)
      BY FS_Subset
    <2>6. Rank(U, w[k]) = Cardinality(X) /\ Rank(U \ Gone(w, k - 1), w[k]) = Cardinality(Y)
      BY DEF Rank
    <2> HIDE DEF W, X, Y
    <2>7. X \cap W = W
      BY <2>2
    <2>8. Cardinality(X \ W) = Cardinality(X) - (k - 1)
      <3>1. Cardinality(X \ W) = Cardinality(X) - Cardinality(X \cap W)
        BY <2>5, FS_Difference
      <3>2. QED
        BY <2>3, <2>7, <3>1
    <2>9. shifted[k] = numbers[k] - (k - 1)
      BY <1>1, <1>2
    <2>10. QED
      BY <1>4, <2>4, <2>6, <2>8, <2>9
  <1>9. ASSUME NEW k \in 1..n, NEW j \in 1..(k - 1) PROVE w[j] # w[k]
    BY <1>1, <1>7
  <1>10. Expunged(InOrder(U), shifted) = InOrder(U \ Gone(w, n))
    <2>1. RanksOfGone(U, shifted, w)
      BY <1>1, <1>3, <1>4, <1>8, <1>9 DEF RanksOfGone
    <2>2. Expunged(InOrder(U), shifted) = InOrder(U \ Gone(w, Len(shifted)))
      BY <2>1, ExpungedInOrder
    <2>3. QED
      BY <1>3, <2>2
  <1>11. U \ Gone(w, n) = U \ G
    BY <1>6
  <1>12. QED
    BY <1>10, <1>11 DEF shifted, list

\* What arrives is numbered after what was there.
LEMMA ArrivalsLast ==
  ASSUME NEW B \in SUBSET Nat, IsFiniteSet(B), NEW A \in SUBSET B,
         \A a \in A, b \in B \ A : a < b
  PROVE  /\ Cardinality(A) \in Nat /\ Cardinality(B) \in Nat /\ Cardinality(A) <= Cardinality(B)
         /\ \A i \in 1..Cardinality(A) : InOrder(A)[i] = InOrder(B)[i]
         /\ \A i \in 1..Cardinality(B) : InOrder(B)[i] \in A => i \in 1..Cardinality(A)
  <1>1. A \in SUBSET Nat /\ IsFiniteSet(A) /\ Cardinality(A) <= Cardinality(B)
    BY FS_Subset
  <1>2. /\ Cardinality(A) \in Nat /\ Cardinality(B) \in Nat
        /\ \A i \in 1..Cardinality(A) : InOrder(A)[i] \in A /\ Rank(A, InOrder(A)[i]) = i
        /\ \A i \in 1..Cardinality(B) : InOrder(B)[i] \in B /\ Rank(B, InOrder(B)[i]) = i
        /\ \A u \in B : InOrder(B)[Rank(B, u)] = u
        /\ \A u \in A : Rank(A, u) \in 1..Cardinality(A)
    BY <1>1, InOrderProperties, RankProperties
  <1>3. ASSUME NEW u \in A PROVE Rank(A, u) = Rank(B, u)
    <2>1. \A b \in B \ A : ~(b <= u)
      <3> SUFFICES ASSUME NEW b \in B \ A PROVE ~(b <= u)
        OBVIOUS
      <3>1. u < b /\ u \in Nat /\ b \in Nat
        OBVIOUS
      <3>2. QED
        BY <3>1
    <2>2. {v \in A : v <= u} = {v \in B : v <= u}
      BY <2>1
    <2>3. QED
      BY <2>2 DEF Rank
  <1>4. ASSUME NEW i \in 1..Cardinality(A) PROVE InOrder(A)[i] = InOrder(B)[i]
    <2>1. InOrder(A)[i] \in A /\ Rank(B, InOrder(A)[i]) = i
      BY <1>2, <1>3
    <2>2. QED
      BY <1>2, <2>1
  <1>5. ASSUME NEW i \in 1..Cardinality(B), InOrder(B)[i] \in A PROVE i \in 1..Cardinality(A)
    <2>1. Rank(A, InOrder(B)[i]) = i
      BY <1>2, <1>3, <1>5
    <2>2. QED
      BY <1>2, <1>5, <2>1
  <1>6. QED
    BY <1>1, <1>2, <1>4, <1>5

\* A poll tells the client of the folder as it is, if all that is new is above the rest.
LEMMA PolledInOrder ==
  ASSUME NEW s, NEW A, A = Uids(sess[s].snap), A \in SUBSET Nat, IsFiniteSet(A),
         NEW B, B = Uids(Current(s)), B \in SUBSET Nat, IsFiniteSet(B),
         ~sess[s].lost, sess[s].told = InOrder(A),
         \A a \in A \cap B, b \in B \ A : a < b
  PROVE  Polled(s) = InOrder(B)
  <1> DEFINE now == Current(s)
             list == InOrder(B)
             kept == InOrder(A \cap B)
             fetched == {r.uid : r \in {r \in now : Item(r) \notin sess[s].snap}}
  <1>1. Expunged(sess[s].told, ExpungeNumbers(InOrder(A), A \ B)) = kept
    <2>1. A \ (A \ B) = A \cap B
      OBVIOUS
    <2>2. QED
      BY <2>1, ExpungedUp
  <1>2. Polled(s) = [i \in DOMAIN list \cup DOMAIN kept |->
                        IF i \in DOMAIN list /\ list[i] \in fetched THEN list[i]
                        ELSE IF i \in DOMAIN kept THEN kept[i] ELSE 0]
    BY <1>1 DEF Polled
  <1>3. A \cap B \in SUBSET B /\ A \cap B \in SUBSET Nat /\ IsFiniteSet(A \cap B)
        /\ \A a \in A \cap B, b \in B \ (A \cap B) : a < b
    BY FS_Intersection
  <1>4. /\ DOMAIN list = 1..Cardinality(B) /\ DOMAIN kept = 1..Cardinality(A \cap B)
        /\ list \in Seq(B) /\ Len(list) = Cardinality(B)
        /\ \A i \in DOMAIN list : list[i] \in B
    BY <1>3, InOrderProperties
  <1>5. /\ DOMAIN kept \subseteq DOMAIN list
        /\ \A i \in DOMAIN kept : kept[i] = list[i]
        /\ \A i \in DOMAIN list : list[i] \in A => i \in DOMAIN kept
    <2>1. /\ Cardinality(A \cap B) \in Nat /\ Cardinality(B) \in Nat
          /\ Cardinality(A \cap B) <= Cardinality(B)
          /\ \A i \in 1..Cardinality(A \cap B) : kept[i] = list[i]
          /\ \A i \in 1..Cardinality(B) : list[i] \in A \cap B => i \in 1..Cardinality(A \cap B)
      BY <1>3, ArrivalsLast
    <2> HIDE DEF list, kept
    <2>2. DOMAIN kept \subseteq DOMAIN list
      BY <1>4, <2>1
    <2>3. \A i \in DOMAIN list : list[i] \in A => list[i] \in A \cap B
      BY <1>4
    <2>4. QED
      BY <1>4, <2>1, <2>2, <2>3
  <1>6. ASSUME NEW u \in B, u \notin fetched PROVE u \in A
    <2>1. PICK r \in now : r.uid = u
      BY DEF Uids
    <2>2. Item(r) \in sess[s].snap
      BY <1>6, <2>1
    <2>3. QED
      BY <2>1, <2>2 DEF Uids, Item
  <1> HIDE DEF list, kept, fetched
  <1>7. Polled(s) = [i \in DOMAIN list |-> list[i]]
    <2>1. DOMAIN list \cup DOMAIN kept = DOMAIN list
      BY <1>5
    <2>2. \A i \in DOMAIN list : list[i] \in fetched \/ (i \in DOMAIN kept /\ kept[i] = list[i])
      <3>1. ASSUME NEW i \in DOMAIN list, list[i] \notin fetched
            PROVE  i \in DOMAIN kept /\ kept[i] = list[i]
        <4>1. list[i] \in A
          BY <1>4, <1>6, <3>1
        <4>2. QED
          BY <1>5, <4>1
      <3>2. QED
        BY <3>1
    <2>3. QED
      BY <1>2, <2>1, <2>2
  <1>8. list = [i \in DOMAIN list |-> list[i]]
    BY <1>4, LenProperties
  <1>9. QED
    BY <1>7, <1>8 DEF list

-----------------------------------------------------------------------------
(* What a session shows, while others change its mailbox.                   *)

\* The INBOX is renamed as a whole.
OneFolder == \A t \in open : ~t.locks => \A r, q \in t.old : r.dir = q.dir

\* Messages that lie together lay together before, or are new.
Steady ==
    \A x, y \in rows' : x.box = y.box /\ x.dir = y.dir =>
        \/ \E r, q \in rows : /\ r.box = x.box /\ q.box = x.box /\ r.dir = q.dir
                              /\ r.uid = x.uid /\ q.uid = y.uid
        \/ \E t \in open : t.locks /\ t.box = x.box /\ (x \in t.new \/ y \in t.new)

\* New numbers are above all others.
Fresh ==
    /\ uid' \in Nat /\ uid' >= uid
    /\ \A t \in open' : t \in open \/ ~t.locks \/ \A q \in t.new : q.uid > uid

Turns == OneFolder' /\ Steady /\ Fresh

\* Messages stay where they are, under their numbers, or go.
LEMMA SteadyRows ==
  ASSUME \A q \in rows' : \E r \in rows : q.box = r.box /\ q.uid = r.uid /\ q.dir = r.dir
  PROVE  Steady
  BY DEF Steady

LEMMA TurnsSame ==
  ASSUME NumbersInv, OneFolder, rows' = rows, open' \subseteq open, uid' = uid
  PROVE  Turns
  <1>1. Steady
    BY SteadyRows
  <1>2. Fresh /\ OneFolder'
    BY DEF NumbersInv, Numbered, Fresh, OneFolder
  <1>3. QED
    BY <1>1, <1>2 DEF Turns

LEMMA TurnsBegin ==
  ASSUME NumbersInv, OneFolder, rows' = rows, uid' \in Nat, uid' >= uid,
         NEW t0, open' = open \cup {t0},
         IF t0.locks THEN \A q \in t0.new : q.uid > uid
         ELSE \A r, q \in t0.old : r.dir = q.dir
  PROVE  Turns
  <1>1. Steady
    BY SteadyRows
  <1>2. Fresh /\ OneFolder'
    BY DEF Fresh, OneFolder
  <1>3. QED
    BY <1>1, <1>2 DEF Turns

\* A renamed INBOX has its new folder for itself.
LEMMA TurnsCommit ==
  ASSUME StoreInv, NumbersInv, OneFolder, uid' = uid,
         NEW t \in open, NEW gone, CommitWithout(t, gone)
  PROVE  Turns
  <1>1. rows' = (rows \ (t.old \cup gone)) \cup t.new /\ open' = open \ {t}
    BY DEF CommitWithout
  <1>2. Placed(t)
    BY DEF NumbersInv
  <1>3. Fresh /\ OneFolder'
    BY <1>1 DEF NumbersInv, Numbered, Fresh, OneFolder
  <1>4. Steady
    <2> SUFFICES ASSUME NEW x \in rows', NEW y \in rows', x.box = y.box, x.dir = y.dir
                 PROVE  \/ \E r, q \in rows : /\ r.box = x.box /\ q.box = x.box /\ r.dir = q.dir
                                              /\ r.uid = x.uid /\ q.uid = y.uid
                        \/ \E u \in open : u.locks /\ u.box = x.box /\ (x \in u.new \/ y \in u.new)
      BY DEF Steady
    <2>1. CASE x \in rows /\ y \in rows
      BY <2>1
    <2>2. CASE x \in t.new /\ y \in t.new /\ ~t.locks
      <3>1. PICK r \in t.old : SameNumber(r, x)
        BY <1>2, <2>2 DEF Placed, Follows
      <3>2. PICK q \in t.old : SameNumber(q, y)
        BY <1>2, <2>2 DEF Placed, Follows
      <3>3. r \in rows /\ q \in rows /\ r.dir = q.dir
        BY <1>2, <2>2 DEF Placed, OneFolder
      <3>4. QED
        BY <3>1, <3>2, <3>3 DEF SameNumber
    <2>3. CASE (x \in t.new \/ y \in t.new) /\ t.locks
      <3>1. t.box = x.box
        BY <1>2, <2>3 DEF Placed
      <3>2. QED
        BY <2>3, <3>1
    <2>4. ASSUME NEW q \in t.new, NEW r \in rows, ~t.locks, r.box = q.box, r.dir = q.dir PROVE FALSE
      <3>1. q.box = t.box /\ q.dir \in t.makes
        BY <1>2, <2>4 DEF Placed, Follows
      <3>2. dirs[t.box][q.dir] = 0
        BY <1>2, <3>1 DEF Placed
      <3>3. dirs[r.box][r.dir] # 0
        BY DEF NumbersInv, Folders
      <3>4. QED
        BY <2>4, <3>1, <3>2, <3>3
    <2>5. (x \in rows \/ x \in t.new) /\ (y \in rows \/ y \in t.new)
      BY <1>1
    <2>6. QED
      BY <2>1, <2>2, <2>3, <2>4, <2>5
  <1>5. QED
    BY <1>3, <1>4 DEF Turns

LEMMA TurnsRows ==
  ASSUME NumbersInv, OneFolder, open' = open, uid' = uid,
         \A q \in rows' : \E r \in rows : q.box = r.box /\ q.uid = r.uid /\ q.dir = r.dir
  PROVE  Turns
  <1>1. Steady
    BY SteadyRows
  <1>2. Fresh /\ OneFolder'
    BY DEF NumbersInv, Numbered, Fresh, OneFolder
  <1>3. QED
    BY <1>1, <1>2 DEF Turns

\* A renamed folder keeps its messages together, and nothing else was under its new name.
LEMMA TurnsRename ==
  ASSUME StoreInv, NumbersInv, OneFolder, NEW s \in Sessions, NEW d \in Names, NEW e \in Names,
         RenameMailbox(s, d, e)
  PROVE  Turns
  <1> DEFINE b == BoxOf[s]
             from == InDir(b, d)
             follow == {[r EXCEPT !.dir = e] : r \in from}
  <1>1. rows' = (rows \ from) \cup follow /\ open' = open /\ uid' = uid /\ dirs[b][e] = 0
    BY DEF RenameMailbox, Exists
  <1>2. \A r \in from : r \in rows /\ IsRow(r) /\ r.box = b /\ r.dir = d
    BY DEF InDir, StoreInv, Typed
  <1>3. ASSUME NEW q \in follow PROVE \E r \in from : SameNumber(r, q) /\ q.dir = e
    <2>1. PICK r \in from : q = [r EXCEPT !.dir = e]
      OBVIOUS
    <2>2. SameNumber(r, q) /\ q.dir = e
      BY <1>2, <2>1 DEF SameNumber, IsRow, RowIn
    <2>3. QED
      BY <2>2
  <1>4. \A r \in rows : ~(r.box = b /\ r.dir = e)
    BY <1>1 DEF NumbersInv, Folders
  <1> HIDE DEF b, from, follow
  <1>5. Steady
    <2> SUFFICES ASSUME NEW x \in rows', NEW y \in rows', x.box = y.box, x.dir = y.dir
                 PROVE  \E r, q \in rows : /\ r.box = x.box /\ q.box = x.box /\ r.dir = q.dir
                                           /\ r.uid = x.uid /\ q.uid = y.uid
      BY DEF Steady
    <2>1. CASE x \in rows /\ y \in rows
      BY <2>1
    <2>2. CASE x \in follow /\ y \in follow
      <3>1. PICK r \in from : SameNumber(r, x)
        BY <1>3, <2>2
      <3>2. PICK q \in from : SameNumber(q, y)
        BY <1>3, <2>2
      <3>3. QED
        BY <1>2, <3>1, <3>2 DEF SameNumber
    <2>3. ASSUME NEW q \in follow, NEW r \in rows, r.box = q.box, r.dir = q.dir PROVE FALSE
      BY <1>2, <1>3, <1>4, <2>3 DEF SameNumber
    <2>4. QED
      BY <1>1, <2>1, <2>2, <2>3
  <1>6. Fresh /\ OneFolder'
    BY <1>1 DEF NumbersInv, Numbered, Fresh, OneFolder
  <1>7. QED
    BY <1>5, <1>6 DEF Turns

LEMMA TurnsStore ==
  ASSUME StoreInv, NumbersInv, OneFolder,
         \/ \E c \in Calls : LMTP(c)
         \/ \E w \in Webs : Web(w)
  PROVE  Turns
  <1>0. uid \in Nat /\ uid + 1 \in Nat /\ uid + 1 >= uid /\ uid + 1 > uid
    BY DEF NumbersInv, Numbered
  <1>1. ASSUME NEW c \in Calls, LMTP(c) PROVE Turns
    <2>1. CASE (\E b \in Boxes : Rcpt(c, b)) \/ Data(c) \/ DeliverFolder(c) \/ DeliverFails(c)
      <3>1. open' \subseteq open /\ UNCHANGED <<rows, uid>>
        BY <2>1 DEF Rcpt, Data, DeliverFolder, DeliverFails, Rollback
      <3>2. QED
        BY <3>1, TurnsSame
    <2>2. CASE DeliverInsert(c)
      <3> DEFINE b == Head(call[c].left)
                 q == [box |-> b, dir |-> DeliveryFolder(MailOf[c]), uid |-> uid + 1, mail |-> MailOf[c],
                       smtp |-> TRUE, deleted |-> FALSE]
                 t0 == [by |-> c, box |-> b, old |-> {}, new |-> {q}, makes |-> {}, locks |-> TRUE]
      <3>1. rows' = rows /\ uid' = uid + 1 /\ (open' = open \/ open' = open \cup {t0})
        BY <2>2 DEF DeliverInsert, Begin
      <3>2. t0.locks /\ t0.new = {q} /\ q.uid = uid + 1
        OBVIOUS
      <3> HIDE DEF q, t0
      <3>3. CASE open' = open
        <4>1. Steady
          BY <3>1, SteadyRows
        <4>2. Fresh /\ OneFolder'
          BY <1>0, <3>1, <3>3 DEF Fresh, OneFolder
        <4>3. QED
          BY <4>1, <4>2 DEF Turns
      <3>4. CASE open' = open \cup {t0}
        <4>1. IF t0.locks THEN \A p \in t0.new : p.uid > uid ELSE \A r, p \in t0.old : r.dir = p.dir
          BY <1>0, <3>2
        <4>2. QED
          BY <1>0, <3>1, <3>4, <4>1, TurnsBegin
      <3>5. QED
        BY <3>1, <3>3, <3>4
    <2>3. CASE DeliverCommit(c)
      <3>1. PICK t \in open : CommitWithout(t, {})
        BY <2>3 DEF DeliverCommit, Commit, TxOf
      <3>2. uid' = uid
        BY <2>3 DEF DeliverCommit
      <3>3. QED
        BY <3>1, <3>2, TurnsCommit
    <2>4. QED
      BY <1>1, <2>1, <2>2, <2>3 DEF LMTP
  <1>2. ASSUME NEW w \in Webs, Web(w) PROVE Turns
    <2>1. ASSUME NEW r \in rows, NEW d \in {"INBOX", "Junk"}, MoveMessage(w, r, d) PROVE Turns
      <3> DEFINE q == [r EXCEPT !.dir = d, !.uid = uid + 1]
                 t0 == [by |-> w, box |-> r.box, old |-> {r}, new |-> {q},
                        makes |-> IF Exists(r.box, d) THEN {} ELSE {d}, locks |-> TRUE]
      <3>1. rows' = rows /\ uid' = uid + 1 /\ open' = open \cup {t0}
        BY <2>1 DEF MoveMessage, Begin
      <3>2. q.uid = uid + 1
        BY DEF StoreInv, Typed, IsRow, RowIn
      <3>3. t0.locks /\ t0.new = {q}
        OBVIOUS
      <3> HIDE DEF q, t0
      <3>4. IF t0.locks THEN \A p \in t0.new : p.uid > uid ELSE \A o, p \in t0.old : o.dir = p.dir
        BY <1>0, <3>2, <3>3
      <3>5. QED
        BY <1>0, <3>1, <3>4, TurnsBegin
    <2>2. CASE MoveCommit(w)
      <3>1. PICK t \in open : CommitWithout(t, {})
        BY <2>2 DEF MoveCommit, Commit, TxOf
      <3>2. uid' = uid
        BY <2>2 DEF MoveCommit
      <3>3. QED
        BY <3>1, <3>2, TurnsCommit
    <2>3. CASE MoveFails(w)
      BY <2>3, TurnsSame DEF MoveFails, Rollback
    <2>4. QED
      BY <1>2, <2>1, <2>2, <2>3 DEF Web
  <1>3. QED
    BY <1>1, <1>2

LEMMA TurnsWrite ==
  ASSUME StoreInv, NumbersInv, OneFolder, NEW s \in Sessions, NEW d \in Names,
         \/ \E m, flag : Append1(s, d, m, flag)
         \/ \E U : MoveInsert(s, U, d)
         \/ RenameInbox(s, d)
  PROVE  Turns
  <1>0. uid \in Nat /\ uid + 1 \in Nat /\ uid + 1 >= uid /\ uid + 1 > uid
    BY DEF NumbersInv, Numbered
  <1>1. ASSUME NEW m, NEW flag, Append1(s, d, m, flag) PROVE Turns
    <2> DEFINE q == [box |-> BoxOf[s], dir |-> d, uid |-> uid + 1, mail |-> m, smtp |-> FALSE, deleted |-> flag]
               t0 == [by |-> s, box |-> BoxOf[s], old |-> {}, new |-> {q}, makes |-> {}, locks |-> TRUE]
    <2>1. rows' = rows /\ uid' = uid + 1 /\ open' = open \cup {t0}
      BY <1>1 DEF Append1, Begin
    <2>2. t0.locks /\ t0.new = {q} /\ q.uid = uid + 1
      OBVIOUS
    <2> HIDE DEF q, t0
    <2>3. IF t0.locks THEN \A p \in t0.new : p.uid > uid ELSE \A o, p \in t0.old : o.dir = p.dir
      BY <1>0, <2>2
    <2>4. QED
      BY <1>0, <2>1, <2>3, TurnsBegin
  <1>2. ASSUME NEW U, MoveInsert(s, U, d) PROVE Turns
    <2> DEFINE from == {r \in Current(s) : r.uid \in U}
               new == Copies(from, d)
               t0 == [by |-> s, box |-> BoxOf[s], old |-> {}, new |-> new, makes |-> {}, locks |-> TRUE]
    <2>1. rows' = rows /\ uid' = uid + Cardinality(from) /\ open' = open \cup {t0}
      BY <1>2 DEF MoveInsert, Begin
    <2>2. from \subseteq Current(s)
      OBVIOUS
    <2> HIDE DEF from
    <2>3. /\ Cardinality(from) \in Nat
          /\ \A q \in new : q.uid \in (uid + 1)..(uid + Cardinality(from))
      BY <2>2, CopiesOf
    <2> HIDE DEF new
    <2>4. t0.locks /\ t0.new = new
      OBVIOUS
    <2> HIDE DEF t0
    <2>5. IF t0.locks THEN \A p \in t0.new : p.uid > uid ELSE \A o, p \in t0.old : o.dir = p.dir
      BY <1>0, <2>3, <2>4
    <2>6. uid' \in Nat /\ uid' >= uid
      BY <1>0, <2>1, <2>3
    <2>7. QED
      BY <2>1, <2>5, <2>6, TurnsBegin
  <1>3. CASE RenameInbox(s, d)
    <2> DEFINE all == InDir(BoxOf[s], "INBOX")
               t0 == [by |-> s, box |-> BoxOf[s], old |-> all, new |-> {[r EXCEPT !.dir = d] : r \in all},
                      makes |-> {d}, locks |-> FALSE]
    <2>1. rows' = rows /\ uid' = uid /\ open' = open \cup {t0}
      BY <1>3 DEF RenameInbox, Begin
    <2>2. ~t0.locks /\ t0.old = all
      OBVIOUS
    <2>3. \A o, p \in all : o.dir = p.dir
      BY DEF InDir
    <2> HIDE DEF all, t0
    <2>4. QED
      BY <1>0, <2>1, <2>2, <2>3, TurnsBegin
  <1>4. QED
    BY <1>1, <1>2, <1>3

LEMMA TurnsSession ==
  ASSUME StoreInv, NumbersInv, OneFolder, NEW s \in Sessions, Session(s)
  PROVE  Turns
  <1>1. CASE \/ \E d \in Names : Status(s, d) \/ Select(s, d) \/ CreateMailbox(s, d)
             \/ Poll(s) \/ CommandFails(s) \/ Search(s) \/ ReadDeleted(s)
    <2>1. open' \subseteq open /\ UNCHANGED <<rows, uid>>
      BY <1>1 DEF Status, Select, CreateMailbox, Poll, CommandFails, Rollback, Search, ReadDeleted, storeVars
    <2>2. QED
      BY <2>1, TurnsSame
  <1>2. CASE SessionCommit(s)
    <2>1. PICK t \in open : CommitWithout(t, {})
      BY <1>2 DEF SessionCommit, Commit, TxOf
    <2>2. uid' = uid
      BY <1>2 DEF SessionCommit
    <2>3. QED
      BY <2>1, <2>2, TurnsCommit
  <1>3. CASE MoveDelete(s)
    <2> DEFINE dead == {r \in Current(s) : r.uid \in sess[s].ids}
    <2>1. uid' = uid /\ \E t \in open : CommitWithout(t, dead)
      BY <1>3 DEF MoveDelete, TxOf
    <2> HIDE DEF dead
    <2>2. QED
      BY <2>1, TurnsCommit
  <1>4. ASSUME NEW r \in rows, NEW on \in BOOLEAN, Store(s, r, on) PROVE Turns
    <2> DEFINE q == [r EXCEPT !.deleted = on]
    <2>1. q.box = r.box /\ q.uid = r.uid /\ q.dir = r.dir
      BY DEF StoreInv, Typed, IsRow, RowIn
    <2>2. rows' = (rows \ {r}) \cup {q} /\ open' = open /\ uid' = uid
      BY <1>4 DEF Store
    <2> HIDE DEF q
    <2>3. \A p \in rows' : \E o \in rows : p.box = o.box /\ p.uid = o.uid /\ p.dir = o.dir
      BY <2>1, <2>2
    <2>4. QED
      BY <2>2, <2>3, TurnsRows
  <1>5. CASE Purge(s) \/ \E d \in Names : DeleteMailbox(s, d)
    <2>1. rows' \subseteq rows /\ open' = open /\ uid' = uid
      BY <1>5 DEF Purge, DeleteMailbox
    <2>2. QED
      BY <2>1, TurnsRows
  <1>6. ASSUME NEW d \in Names, NEW e \in Names, RenameMailbox(s, d, e) PROVE Turns
    BY <1>6, TurnsRename
  <1>7. ASSUME NEW d \in Names, NEW m, NEW flag, Append1(s, d, m, flag) PROVE Turns
    BY <1>7, TurnsWrite
  <1>8. ASSUME NEW d \in Names, NEW U, MoveInsert(s, U, d) PROVE Turns
    BY <1>8, TurnsWrite
  <1>9. ASSUME NEW d \in Names, RenameInbox(s, d) PROVE Turns
    BY <1>9, TurnsWrite
  <1>10. QED
    BY <1>1, <1>2, <1>3, <1>4, <1>5, <1>6, <1>7, <1>8, <1>9 DEF Session, Copy

\* What the session has in its snapshot.
Known(s) == Uids(sess[s].snap)

\* What lies with its messages and is not in the snapshot is above them, so that the next
\* poll puts it behind them.
ArrivalsAbove(s) ==
    \A r, q \in rows : r.box = BoxOf[s] /\ q.box = BoxOf[s] /\ r.dir = q.dir
        /\ q.uid \in Known(s) /\ r.uid \notin Known(s) => q.uid < r.uid

\* So is what others are about to add.
LaterAbove(s) ==
    \A t \in open : t.locks /\ t.box = BoxOf[s] => \A q \in t.new, u \in Known(s) : u < q.uid

Sees(s) ==
    /\ sess[s].at \in SessionSteps
    /\ sess[s].snap \subseteq Items
    /\ Known(s) \subseteq 1..uid
    /\ sess[s].at = "out" => sess[s].snap = {} /\ ~sess[s].lost
    /\ sess[s].told = IF sess[s].lost THEN <<>> ELSE InOrder(Known(s))
    /\ ~sess[s].lost => ArrivalsAbove(s)
    /\ LaterAbove(s)

ViewsInv == \A s \in Sessions : Sees(s)

LEMMA KnownFinite ==
  ASSUME NumbersInv, NEW s, Known(s) \subseteq 1..uid
  PROVE  Known(s) \in SUBSET Nat /\ IsFiniteSet(Known(s))
  <1>1. uid \in Nat
    BY DEF NumbersInv, Numbered
  <1>2. 1..uid \subseteq Nat /\ IsFiniteSet(1..uid)
    BY <1>1, FS_Interval
  <1>3. QED
    BY <1>2, FS_Subset

\* The view of a session stays right while others work.
LEMMA ViewStays ==
  ASSUME NumbersInv, NumbersInv', Turns, NEW s, Sees(s),
         sess'[s].at \in SessionSteps, sess'[s].at = "out" => sess[s].at = "out",
         sess'[s].snap = sess[s].snap, sess'[s].told = sess[s].told, sess'[s].lost = sess[s].lost
  PROVE  Sees(s)'
  <1>1. uid \in Nat /\ uid' \in Nat /\ uid' >= uid /\ Known(s)' = Known(s) /\ Known(s) \subseteq 1..uid
    BY DEF NumbersInv, Numbered, Turns, Fresh, Known, Sees
  <1>2. Known(s) \subseteq 1..uid'
    BY <1>1
  <1>3. ASSUME NEW t \in open, t.locks, t.box = BoxOf[s], NEW q \in t.new, NEW u \in Known(s)
        PROVE  u < q.uid
    BY <1>3 DEF Sees, LaterAbove
  <1>4. LaterAbove(s)'
    <2> SUFFICES ASSUME NEW t \in open', t.locks, t.box = BoxOf[s], NEW q \in t.new, NEW u \in Known(s)
                 PROVE  u < q.uid
      BY <1>1 DEF LaterAbove
    <2>1. CASE t \in open
      BY <1>3, <2>1
    <2>2. CASE t \notin open
      <3>1. q.uid > uid /\ u \in Nat /\ u <= uid
        BY <1>1, <2>2 DEF Turns, Fresh
      <3>2. q.uid \in Nat
        BY <1>1 DEF NumbersInv, Numbered
      <3>3. QED
        BY <1>1, <3>1, <3>2
    <2>3. QED
      BY <2>1, <2>2
  <1>5. ASSUME ~sess'[s].lost PROVE ArrivalsAbove(s)'
    <2> SUFFICES ASSUME NEW r \in rows', NEW q \in rows', r.box = BoxOf[s], q.box = BoxOf[s], r.dir = q.dir,
                        q.uid \in Known(s), r.uid \notin Known(s)
                 PROVE  q.uid < r.uid
      BY <1>1 DEF ArrivalsAbove
    <2>1. CASE \E o, p \in rows : /\ o.box = r.box /\ p.box = r.box /\ o.dir = p.dir
                                  /\ o.uid = r.uid /\ p.uid = q.uid
      BY <1>5, <2>1 DEF Sees, ArrivalsAbove
    <2>2. ASSUME NEW t \in open, t.locks, t.box = r.box, r \in t.new \/ q \in t.new PROVE q.uid < r.uid
      <3>1. CASE r \in t.new
        BY <1>3, <2>2, <3>1
      <3>2. CASE q \in t.new
        <4>1. q.uid < q.uid /\ q.uid \in Nat
          BY <1>1, <1>3, <2>2, <3>2
        <4>2. QED
          BY <4>1
      <3>3. QED
        BY <2>2, <3>1, <3>2
    <2>3. QED
      BY <2>1, <2>2 DEF Turns, Steady
  <1>6. QED
    BY <1>1, <1>2, <1>4, <1>5 DEF Sees

\* A snapshot has all that the folder has.
LEMMA SnapshotTaken ==
  ASSUME StoreInv, NumbersInv, NEW s \in Sessions, NEW d, rows' = rows, open' = open, uid' = uid,
         sess'[s].snap = {Item(r) : r \in InDir(BoxOf[s], d)}
  PROVE  /\ Known(s)' = Uids(InDir(BoxOf[s], d))
         /\ sess'[s].snap \subseteq Items /\ Known(s)' \subseteq 1..uid
         /\ ArrivalsAbove(s)' /\ LaterAbove(s)'
  <1> DEFINE R == InDir(BoxOf[s], d)
             snap == {Item(r) : r \in R}
  <1>1. \A r \in R : /\ r \in rows /\ r.box = BoxOf[s] /\ r.dir = d
                     /\ r.uid \in 1..uid /\ uid \in Nat /\ r.deleted \in BOOLEAN
    BY RowFields DEF InDir, StoreInv, Typed, NumbersInv, Numbered
  <1>2. \A r \in R : Item(r).uid = r.uid /\ Item(r) \in Items
    BY <1>1 DEF Item, Items
  <1>3. \A r \in rows : r.box = BoxOf[s] /\ r.dir = d => r \in R
    BY DEF InDir
  <1> HIDE DEF R
  <1>4. Uids(snap) = Uids(R)
    BY <1>2 DEF Uids
  <1>5. Uids(R) \subseteq 1..uid
    BY <1>1 DEF Uids
  <1>6. Known(s)' = Uids(R)
    BY <1>4 DEF Known, R
  <1>7. \A r \in rows : r.box = BoxOf[s] /\ r.uid \in Uids(R) => r \in R
    BY <1>1 DEF Uids, NumbersInv, OneUid
  <1>8. \A r \in R : r.uid \in Uids(R)
    BY DEF Uids
  <1>9. ArrivalsAbove(s)'
    BY <1>1, <1>3, <1>6, <1>7, <1>8 DEF ArrivalsAbove
  <1>10. LaterAbove(s)'
    <2> SUFFICES ASSUME NEW t \in open, t.locks, t.box = BoxOf[s], NEW q \in t.new, NEW u \in Uids(R)
                 PROVE  u < q.uid
      BY <1>6 DEF LaterAbove
    <2>1. PICK r \in R : u = r.uid
      BY DEF Uids
    <2>2. Above(t)
      BY DEF NumbersInv, Placed
    <2>3. QED
      BY <1>1, <2>1, <2>2 DEF Above
  <1>11. snap \subseteq Items
    BY <1>2
  <1>12. QED
    BY <1>5, <1>6, <1>9, <1>10, <1>11 DEF R

LEMMA OneView ==
  ASSUME SessionsInv, NumbersInv, NumbersInv', Turns, ViewsInv, NEW s \in Sessions,
         \A z \in Sessions : z # s => sess'[z] = sess[z], Sees(s)'
  PROVE  ViewsInv'
  <1>1. ASSUME NEW z \in Sessions, z # s PROVE Sees(z)'
    <2>1. Sees(z) /\ sess'[z] = sess[z]
      BY <1>1 DEF ViewsInv
    <2>2. sess'[z].at \in SessionSteps
      BY <2>1 DEF Sees
    <2>3. QED
      BY <2>1, <2>2, ViewStays
  <1>2. QED
    BY <1>1 DEF ViewsInv

\* A step of a command that leaves the snapshot.
LEMMA ViewKept ==
  ASSUME SessionsInv, NumbersInv, NumbersInv', Turns, ViewsInv, NEW s \in Sessions,
         NEW x, sess' = [sess EXCEPT ![s] = x],
         x.at \in SessionSteps, x.at = "out" => sess[s].at = "out",
         x.snap = sess[s].snap, x.told = sess[s].told, x.lost = sess[s].lost
  PROVE  ViewsInv'
  <1>1. sess'[s] = x /\ \A z \in Sessions : z # s => sess'[z] = sess[z]
    BY DEF SessionsInv
  <1>2. Sees(s)
    BY DEF ViewsInv
  <1>3. Sees(s)'
    BY <1>1, <1>2, ViewStays
  <1>4. QED
    BY <1>1, <1>3, OneView

LEMMA ViewsSame ==
  ASSUME SessionsInv, NumbersInv, NumbersInv', Turns, ViewsInv, sess' = sess
  PROVE  ViewsInv'
  <1> SUFFICES ASSUME NEW s \in Sessions PROVE Sees(s)'
    BY DEF ViewsInv
  <1>1. Sees(s) /\ sess[s].at \in SessionSteps
    BY DEF ViewsInv, Sees
  <1>2. QED
    BY <1>1, ViewStays

LEMMA ViewLeaves ==
  ASSUME SessionsInv, NumbersInv, NumbersInv', Turns, ViewsInv, NEW s \in Sessions,
         NEW at \in SessionSteps, at = "out" => sess[s].at = "out", SessionAt(s, at)
  PROVE  ViewsInv'
  <1> DEFINE x == [sess[s] EXCEPT !.at = at, !.ids = {}, !.seen = {}, !.away = {}, !.found = {}]
  <1>1. x.at = at /\ x.snap = sess[s].snap /\ x.told = sess[s].told /\ x.lost = sess[s].lost
    BY DEF SessionsInv, Remembers, IsSession
  <1>2. sess' = [sess EXCEPT ![s] = x]
    BY DEF SessionAt
  <1> HIDE DEF x
  <1>3. QED
    BY <1>1, <1>2, ViewKept

\* A selected folder is shown as it is.
LEMMA ViewSelect ==
  ASSUME MailInv, NumbersInv, NumbersInv', Turns, ViewsInv, NEW s \in Sessions, NEW d, Select(s, d)
  PROVE  ViewsInv'
  <1> DEFINE snap == {Item(r) : r \in InDir(BoxOf[s], d)}
             told == InOrder(Uids(InDir(BoxOf[s], d)))
             x == [Out EXCEPT !.at = "ready", !.dir = d, !.snap = snap, !.told = told]
  <1>1. sess' = [sess EXCEPT ![s] = x] /\ UNCHANGED storeVars
    BY DEF Select
  <1> HIDE DEF snap, told
  <1>2. x.at = "ready" /\ x.snap = snap /\ x.told = told /\ ~x.lost
    BY DEF Out
  <1> HIDE DEF x
  <1>3. sess'[s] = x /\ \A z \in Sessions : z # s => sess'[z] = sess[z]
    BY <1>1 DEF MailInv, SessionsInv
  <1>4. rows' = rows /\ open' = open /\ uid' = uid /\ sess'[s].snap = snap
    BY <1>1, <1>2, <1>3 DEF storeVars
  <1>5. /\ Known(s)' = Uids(InDir(BoxOf[s], d))
        /\ sess'[s].snap \subseteq Items /\ Known(s)' \subseteq 1..uid
        /\ ArrivalsAbove(s)' /\ LaterAbove(s)'
    BY <1>4, SnapshotTaken DEF snap, MailInv
  <1>6. sess'[s].told = InOrder(Known(s)')
    BY <1>2, <1>3, <1>5 DEF told
  <1>7. sess'[s].at = "ready" /\ ~sess'[s].lost /\ uid' = uid
    BY <1>2, <1>3, <1>4
  <1>8. Sees(s)'
    BY <1>5, <1>6, <1>7 DEF Sees, SessionSteps
  <1>9. QED
    BY <1>3, <1>8, OneView DEF MailInv

\* A poll tells of what is gone and what has come, in the order in which it is numbered.
LEMMA ViewPoll ==
  ASSUME MailInv, NumbersInv, NumbersInv', Turns, ViewsInv, NEW s \in Sessions, Poll(s)
  PROVE  ViewsInv'
  <1> DEFINE snap == {Item(r) : r \in Current(s)}
             told == Polled(s)
             x == [sess[s] EXCEPT !.at = "ready", !.told = told, !.snap = snap]
  <1>1. sess' = [sess EXCEPT ![s] = x] /\ UNCHANGED storeVars
    BY DEF Poll
  <1> HIDE DEF snap, told
  <1>2. x.at = "ready" /\ x.snap = snap /\ x.told = told /\ x.lost = sess[s].lost
    BY DEF MailInv, SessionsInv, Remembers, IsSession
  <1> HIDE DEF x
  <1>3. sess'[s] = x /\ \A z \in Sessions : z # s => sess'[z] = sess[z]
    BY <1>1 DEF MailInv, SessionsInv
  <1>4. rows' = rows /\ open' = open /\ uid' = uid /\ sess'[s].snap = snap
    BY <1>1, <1>2, <1>3 DEF storeVars
  <1>5. /\ Known(s)' = Uids(Current(s))
        /\ sess'[s].snap \subseteq Items /\ Known(s)' \subseteq 1..uid
        /\ ArrivalsAbove(s)' /\ LaterAbove(s)'
    BY <1>4, SnapshotTaken DEF snap, Current, MailInv
  <1>6. /\ Known(s) \subseteq 1..uid
        /\ sess[s].told = IF sess[s].lost THEN <<>> ELSE InOrder(Known(s))
        /\ ~sess[s].lost => ArrivalsAbove(s)
    BY DEF ViewsInv, Sees
  <1>7. told = IF sess[s].lost THEN <<>> ELSE InOrder(Uids(Current(s)))
    <2>1. CASE sess[s].lost
      BY <2>1 DEF told, Polled
    <2>2. CASE ~sess[s].lost
      <3> DEFINE A == Known(s)
                 B == Uids(Current(s))
      <3>1. A \in SUBSET Nat /\ IsFiniteSet(A)
        BY <1>6, KnownFinite
      <3>2. uid \in Nat /\ B \subseteq 1..uid
        BY <1>5 DEF NumbersInv, Numbered
      <3>3. B \in SUBSET Nat /\ IsFiniteSet(B)
        <4>1. 1..uid \subseteq Nat /\ IsFiniteSet(1..uid)
          BY <3>2, FS_Interval
        <4>2. QED
          BY <3>2, <4>1, FS_Subset
      <3>4. ASSUME NEW a \in A \cap B, NEW c \in B \ A PROVE a < c
        <4>1. PICK q \in Current(s) : q.uid = a
          BY DEF Uids
        <4>2. PICK r \in Current(s) : r.uid = c
          BY DEF Uids
        <4>3. QED
          BY <1>6, <2>2, <4>1, <4>2 DEF ArrivalsAbove, Current, InDir
      <3>5. A = Uids(sess[s].snap) /\ sess[s].told = InOrder(A)
        BY <1>6, <2>2 DEF Known
      <3> HIDE DEF A, B
      <3>6. Polled(s) = InOrder(B)
        BY <2>2, <3>1, <3>3, <3>4, <3>5, PolledInOrder DEF B
      <3>7. QED
        BY <2>2, <3>6 DEF told, B
    <2>3. QED
      BY <2>1, <2>2
  <1>8. /\ sess'[s].at = "ready" /\ sess'[s].lost = sess[s].lost
        /\ sess'[s].told = IF sess'[s].lost THEN <<>> ELSE InOrder(Known(s)')
    BY <1>2, <1>3, <1>5, <1>7
  <1>9. Sees(s)'
    BY <1>4, <1>5, <1>8 DEF Sees, SessionSteps
  <1>10. QED
    BY <1>3, <1>9, OneView DEF MailInv

\* What EXPUNGE reports is what leaves the snapshot, unless the numbering is lost.
LEMMA ViewPurge ==
  ASSUME MailInv, NumbersInv, NumbersInv', Turns, ViewsInv, NEW s \in Sessions, Purge(s)
  PROVE  ViewsInv'
  <1>1. CASE SessionAt(s, "ready")
    BY <1>1, ViewLeaves DEF SessionSteps, MailInv
  <1>2. CASE ~SessionAt(s, "ready")
    <2> DEFINE found == sess[s].found
               ids == sess[s].ids
               dead == {r \in Current(s) : r.uid \in ids}
               missed == {r \in rows \ dead : r.box = BoxOf[s] /\ r.uid \in ids}
               lost == sess[s].lost \/ found # ids \/ missed # {}
               snap == {i \in Records(s) : i.uid \notin ids}
               before == InOrder(Uids(sess[s].snap))
               told == IF lost THEN <<>> ELSE Expunged(sess[s].told, Reverse(NumbersOf(before, found)))
               x == [sess[s] EXCEPT !.at = "ready", !.ids = {}, !.seen = {}, !.away = {}, !.found = {},
                                    !.snap = snap, !.lost = lost, !.told = told]
    <2>0. IsSession(sess[s])
      BY DEF MailInv, SessionsInv, Remembers
    <2>1. sess' = [sess EXCEPT ![s] = x] /\ rows' = rows \ dead /\ open' = open /\ uid' = uid
      <3>1. rows' = rows \ dead /\ open' = open /\ uid' = uid
        BY DEF Purge
      <3>2. sess' = [sess EXCEPT ![s] = x]
        BY <1>2 DEF Purge
      <3> HIDE DEF dead, x
      <3>3. QED
        BY <3>1, <3>2
    <2>2. \A r \in rows \ dead : r.box = BoxOf[s] /\ r.uid \in ids => missed # {}
      OBVIOUS
    <2> HIDE DEF dead, missed, snap, told
    <2>3. x.at = "ready" /\ x.snap = snap /\ x.told = told /\ x.lost = lost
      BY <2>0 DEF IsSession
    <2> HIDE DEF x
    <2>4. sess'[s] = x /\ \A z \in Sessions : z # s => sess'[z] = sess[z]
      BY <2>1 DEF MailInv, SessionsInv
    <2>5. /\ Known(s) \subseteq 1..uid /\ sess[s].snap \subseteq Items
          /\ sess[s].told = IF sess[s].lost THEN <<>> ELSE InOrder(Known(s))
          /\ ~sess[s].lost => ArrivalsAbove(s)
          /\ LaterAbove(s)
      BY DEF ViewsInv, Sees
    <2>6. \A r \in Current(s) : Item(r) \in Items /\ Item(r).uid = r.uid
      <3>1. \A r \in Current(s) : r.uid \in Nat /\ r.deleted \in BOOLEAN
        BY RowFields DEF Current, InDir, MailInv, StoreInv, Typed, NumbersInv, Numbered
      <3>2. QED
        BY <3>1 DEF Item, Items
    <2>7. Records(s) \subseteq Items
      BY <2>5, <2>6 DEF Records
    <2>8. Uids(Records(s)) = Known(s)
      <3>1. ASSUME NEW i \in Records(s) PROVE i.uid \in Known(s)
        <4>1. CASE i \in sess[s].snap
          BY <4>1 DEF Known, Uids
        <4>2. CASE \E r \in Current(s) : r.uid \in Uids(sess[s].snap) /\ i = Item(r)
          BY <2>6, <4>2 DEF Known
        <4>3. QED
          BY <4>1, <4>2 DEF Records
      <3>2. ASSUME NEW i \in sess[s].snap PROVE \E j \in Records(s) : j.uid = i.uid
        <4>1. CASE i.uid \in Uids(Current(s))
          <5>1. PICK r \in Current(s) : r.uid = i.uid
            BY <4>1 DEF Uids
          <5>2. Item(r) \in Records(s)
            BY <5>1 DEF Records, Uids
          <5>3. QED
            BY <2>6, <5>1, <5>2
        <4>2. CASE i.uid \notin Uids(Current(s))
          BY <4>2 DEF Records
        <4>3. QED
          BY <4>1, <4>2
      <3>3. QED
        BY <3>1, <3>2 DEF Known, Uids
    <2>9. Uids(snap) = Known(s) \ ids
      BY <2>8 DEF snap, Uids
    <2>10. Known(s)' = Known(s) \ ids /\ sess'[s].snap \subseteq Items /\ sess'[s].lost = lost
      <3>1. Known(s)' = Uids(snap)
        BY <2>3, <2>4 DEF Known
      <3>2. QED
        BY <2>3, <2>4, <2>7, <2>9, <3>1 DEF snap
    <2>11. told = IF lost THEN <<>> ELSE InOrder(Known(s) \ ids)
      <3>1. CASE lost
        BY <3>1 DEF told
      <3>2. CASE ~lost
        <4>1. Known(s) \in SUBSET Nat /\ IsFiniteSet(Known(s))
          BY <2>5, KnownFinite
        <4>2. Expunged(InOrder(Known(s)), Reverse(NumbersOf(InOrder(Known(s)), ids))) = InOrder(Known(s) \ ids)
          BY <4>1, ExpungedDown
        <4>3. sess[s].told = InOrder(Known(s)) /\ before = InOrder(Known(s)) /\ found = ids
          BY <2>5, <3>2 DEF Known
        <4>4. QED
          BY <3>2, <4>2, <4>3 DEF told
      <3>3. QED
        BY <3>1, <3>2
    <2>12. ASSUME ~lost PROVE ArrivalsAbove(s)'
      <3> SUFFICES ASSUME NEW r \in rows', NEW q \in rows', r.box = BoxOf[s], q.box = BoxOf[s], r.dir = q.dir,
                          q.uid \in Known(s) \ ids, r.uid \notin Known(s) \ ids
                   PROVE  q.uid < r.uid
        BY <2>10 DEF ArrivalsAbove
      <3>1. r \in rows \ dead /\ q \in rows
        BY <2>1
      <3>2. r.uid \notin ids
        BY <2>2, <2>12, <3>1
      <3>3. QED
        BY <2>5, <2>12, <3>1, <3>2 DEF ArrivalsAbove
    <2>13. LaterAbove(s)'
      BY <2>1, <2>5, <2>10 DEF LaterAbove
    <2>14. /\ sess'[s].at = "ready" /\ uid' = uid
           /\ sess'[s].told = IF sess'[s].lost THEN <<>> ELSE InOrder(Known(s)')
      BY <2>1, <2>3, <2>4, <2>10, <2>11
    <2>15. Known(s)' \subseteq 1..uid'
      BY <2>5, <2>10, <2>14
    <2> HIDE DEF lost
    <2>16. Sees(s)'
      BY <2>10, <2>12, <2>13, <2>14, <2>15 DEF Sees, SessionSteps
    <2>17. QED
      BY <2>4, <2>16, OneView DEF MailInv
  <1>3. QED
    BY <1>1, <1>2

LEMMA SessionViews ==
  ASSUME MailInv, NumbersInv, NumbersInv', Turns, ViewsInv, NEW s \in Sessions, Session(s)
  PROVE  ViewsInv'
  <1>0. IsSession(sess[s]) /\ SessionsInv /\ sess[s].at \in SessionSteps
    BY DEF MailInv, SessionsInv, Remembers, ViewsInv, Sees
  <1>1. CASE sess' = sess
    BY <1>0, <1>1, ViewsSame
  <1>2. CASE Search(s)
    <2> DEFINE found == Flagged(Records(s))
               x == [sess[s] EXCEPT !.at = "found", !.found = found]
    <2>1. sess' = [sess EXCEPT ![s] = x]
      BY <1>2 DEF Search
    <2> HIDE DEF found
    <2>2. x.at = "found" /\ x.snap = sess[s].snap /\ x.told = sess[s].told /\ x.lost = sess[s].lost
      BY <1>0 DEF IsSession
    <2> HIDE DEF x
    <2>3. QED
      BY <1>0, <2>1, <2>2, ViewKept DEF SessionSteps
  <1>3. CASE ReadDeleted(s)
    <2> DEFINE ids == Flagged(Records(s))
               seen == Flagged(Current(s))
               away == ids \ Uids(Current(s))
               x == [sess[s] EXCEPT !.at = "purge", !.ids = ids, !.seen = seen, !.away = away]
    <2>1. sess' = [sess EXCEPT ![s] = x]
      BY <1>3 DEF ReadDeleted
    <2> HIDE DEF ids, seen, away
    <2>2. x.at = "purge" /\ x.snap = sess[s].snap /\ x.told = sess[s].told /\ x.lost = sess[s].lost
      BY <1>0 DEF IsSession
    <2> HIDE DEF x
    <2>3. QED
      BY <1>0, <2>1, <2>2, ViewKept DEF SessionSteps
  <1>4. ASSUME NEW d, NEW U, MoveInsert(s, U, d) PROVE ViewsInv'
    <2> DEFINE seen == Uids({r \in Current(s) : r.uid \in U})
               x == [sess[s] EXCEPT !.at = "move", !.ids = U, !.seen = seen]
    <2>1. sess' = [sess EXCEPT ![s] = x]
      BY <1>4 DEF MoveInsert
    <2> HIDE DEF seen
    <2>2. x.at = "move" /\ x.snap = sess[s].snap /\ x.told = sess[s].told /\ x.lost = sess[s].lost
      BY <1>0 DEF IsSession
    <2> HIDE DEF x
    <2>3. QED
      BY <1>0, <2>1, <2>2, ViewKept DEF SessionSteps
  <1>5. CASE MoveDelete(s)
    <2>1. SessionAt(s, "poll") \/ SessionAt(s, "ready")
      BY <1>5 DEF MoveDelete
    <2>2. QED
      BY <1>0, <2>1, ViewLeaves DEF SessionSteps
  <1>6. CASE CommandFails(s)
    <2> DEFINE at == IF sess[s].at = "out" THEN "out" ELSE "ready"
    <2>1. SessionAt(s, at) /\ at \in SessionSteps /\ (at = "out" => sess[s].at = "out")
      BY <1>6 DEF CommandFails, SessionSteps
    <2> HIDE DEF at
    <2>2. QED
      BY <1>0, <2>1, ViewLeaves
  <1>7. ASSUME NEW d, NEW m, NEW flag, Append1(s, d, m, flag) PROVE ViewsInv'
    BY <1>1, <1>7 DEF Append1
  <1>8. ASSUME NEW d, Select(s, d) PROVE ViewsInv'
    BY <1>8, ViewSelect
  <1>9. CASE Poll(s)
    BY <1>9, ViewPoll
  <1>10. CASE Purge(s)
    BY <1>10, ViewPurge
  <1>11. QED
    BY <1>1, <1>2, <1>3, <1>4, <1>5, <1>6, <1>7, <1>8, <1>9, <1>10
       DEF Session, Status, SessionCommit, Store, Copy, CreateMailbox, DeleteMailbox, RenameInbox, RenameMailbox

ViewInv == OneFolder /\ ViewsInv

LEMMA StepViews ==
  ASSUME MailInv, NumbersInv, NumbersInv', ViewInv, [Next]_vars
  PROVE  ViewInv'
  <1>0. StoreInv /\ SessionsInv /\ OneFolder /\ ViewsInv
    BY DEF MailInv, ViewInv
  <1>1. CASE UNCHANGED vars
    <2>1. Turns /\ sess' = sess
      BY <1>0, <1>1, TurnsSame DEF vars, storeVars
    <2>2. QED
      BY <1>0, <2>1, ViewsSame DEF ViewInv, Turns
  <1>2. CASE StoreNext /\ UNCHANGED <<sess, announced>>
    <2>1. Turns
      BY <1>0, <1>2, TurnsStore DEF StoreNext
    <2>2. QED
      BY <1>0, <1>2, <2>1, ViewsSame DEF ViewInv, Turns
  <1>3. CASE (\E s \in Sessions \cap scene.actors : Session(s)) /\ UNCHANGED scene
    <2>1. PICK s \in Sessions : Session(s)
      BY <1>3
    <2>2. Turns
      BY <1>0, <2>1, TurnsSession
    <2>3. QED
      BY <1>0, <2>1, <2>2, SessionViews DEF ViewInv, Turns
  <1>4. QED
    BY <1>1, <1>2, <1>3 DEF Next

LEMMA NobodyKnows ==
  InOrder({}) = <<>>
  <1>1. {} \in SUBSET Nat /\ IsFiniteSet({}) /\ Cardinality({}) = 0
    BY FS_EmptySet
  <1>2. InOrder({}) \in Seq({}) /\ Len(InOrder({})) = 0
    BY <1>1, InOrderProperties
  <1>3. QED
    BY <1>2, EmptySeq

LEMMA InitViews == Init => ViewInv
  <1> SUFFICES ASSUME Init PROVE ViewInv
    OBVIOUS
  <1>1. open = {} /\ sess = [s \in Sessions |-> Out]
    BY DEF Init, StoreInit
  <1>2. ASSUME NEW s \in Sessions PROVE Sees(s)
    <2>1. sess[s] = Out
      BY <1>1
    <2>2. sess[s].at = "out" /\ sess[s].snap = {} /\ sess[s].told = <<>> /\ sess[s].lost = FALSE
      BY <2>1 DEF Out
    <2>3. Known(s) = {}
      BY <2>2 DEF Known, Uids
    <2>4. ArrivalsAbove(s) /\ LaterAbove(s)
      BY <2>3 DEF ArrivalsAbove, LaterAbove
    <2>5. sess[s].told = InOrder(Known(s))
      BY <2>2, <2>3, NobodyKnows
    <2>6. QED
      BY <2>2, <2>3, <2>4, <2>5 DEF Sees, SessionSteps
  <1>3. OneFolder
    BY <1>1 DEF OneFolder
  <1>4. QED
    BY <1>2, <1>3 DEF ViewInv, ViewsInv

\* Message numbers mean the same message to client and session, for every number of
\* mailboxes, sessions and messages and every order of polls, arrivals, removals and renames,
\* unless an EXPUNGE has lost the numbering.
THEOREM NumberingCorrect == Spec => []NumberingAgrees
  <1>1. Init => MailInv /\ NumbersInv /\ ViewInv
    BY InitMailInv, InitNumbers, InitViews
  <1>2. MailInv /\ NumbersInv /\ ViewInv /\ [Next]_vars => (MailInv /\ NumbersInv /\ ViewInv)'
    <2>1. MailInv /\ NumbersInv /\ [Next]_vars => MailInv' /\ NumbersInv'
      BY StepMailInv, StepNumbers
    <2>2. QED
      BY <2>1, StepViews
  <1>3. ViewInv => NumberingAgrees
    BY DEF ViewInv, ViewsInv, Sees, Known, NumberingAgrees
  <1>4. QED
    BY <1>1, <1>2, <1>3, PTL DEF Spec

-----------------------------------------------------------------------------
(* Types and bounds.                                                        *)

Bounded ==
    /\ scene \in Scenes
    /\ uid <= scene.maxUid
    /\ validity <= MaxFolders
    /\ marks \subseteq Boxes \X Mails \X Marks

\* A UID is given once in the whole store, and what is to come with one that is there
\* replaces its message.
UidsOnce ==
    /\ \A r, q \in rows : r.uid = q.uid => r = q
    /\ \A t \in open : \A q \in t.new, r \in rows : r.uid = q.uid => r \in t.old
    /\ \A t, u \in open : t # u => \A q \in t.new, p \in u.new : q.uid # p.uid

TypeInv == Bounded /\ UidsOnce

LEMMA OnceFewer ==
  ASSUME UidsOnce, rows' \subseteq rows, open' \subseteq open
  PROVE  UidsOnce'
  BY DEF UidsOnce

\* New numbers are nobody's; those that follow an INBOX are its messages'.
LEMMA OnceBegin ==
  ASSUME NumbersInv, UidsOnce, rows' = rows,
         NEW t0, open' = open \cup {t0}, t0.old \subseteq rows, Unlocked(t0.old),
         IF t0.locks THEN \A q \in t0.new : q.uid \in Nat /\ q.uid > uid ELSE Follows(t0)
  PROVE  UidsOnce'
  <1>1. /\ uid \in Nat /\ (\A r \in rows : r.uid \in 1..uid)
        /\ \A t \in open : \A q \in t.new : q.uid \in 1..uid
    BY DEF NumbersInv, Numbered
  <1>2. ASSUME NEW q \in t0.new, NEW r \in rows, r.uid = q.uid PROVE r \in t0.old
    <2>1. CASE t0.locks
      BY <1>1, <1>2, <2>1
    <2>2. CASE ~t0.locks
      <3>1. PICK o \in t0.old : SameNumber(o, q)
        BY <2>2 DEF Follows
      <3>2. QED
        BY <1>2, <3>1 DEF SameNumber, UidsOnce
    <2>3. QED
      BY <2>1, <2>2
  <1>3. ASSUME NEW q \in t0.new, NEW u \in open, u # t0, NEW p \in u.new, q.uid = p.uid PROVE FALSE
    <2>1. CASE t0.locks
      BY <1>1, <1>3, <2>1
    <2>2. CASE ~t0.locks
      <3>1. PICK o \in t0.old : SameNumber(o, q)
        BY <2>2 DEF Follows
      <3>2. o \in u.old
        BY <1>3, <3>1 DEF SameNumber, UidsOnce
      <3>3. QED
        BY <3>1, <3>2 DEF Unlocked
    <2>3. QED
      BY <2>1, <2>2
  <1>4. \A r, q \in rows' : r.uid = q.uid => r = q
    BY DEF UidsOnce
  <1>5. \A t \in open' : \A q \in t.new, r \in rows' : r.uid = q.uid => r \in t.old
    BY <1>2 DEF UidsOnce
  <1>6. \A t, u \in open' : t # u => \A q \in t.new, p \in u.new : q.uid # p.uid
    BY <1>3 DEF UidsOnce
  <1>7. QED
    BY <1>4, <1>5, <1>6 DEF UidsOnce

LEMMA OnceCommit ==
  ASSUME NumbersInv, UidsOnce, NEW t \in open, NEW gone, CommitWithout(t, gone)
  PROVE  UidsOnce'
  <1>1. rows' = (rows \ (t.old \cup gone)) \cup t.new /\ open' = open \ {t}
    BY DEF CommitWithout
  <1>2. \A q, p \in t.new : q.uid = p.uid => q = p
    BY DEF NumbersInv, Placed
  <1>3. \A r, q \in rows' : r.uid = q.uid => r = q
    BY <1>1, <1>2 DEF UidsOnce
  <1>4. ASSUME NEW u \in open, u # t, NEW q \in u.new, NEW r \in rows', r.uid = q.uid PROVE r \in u.old
    <2>1. CASE r \in rows
      BY <1>4, <2>1 DEF UidsOnce
    <2>2. CASE r \in t.new
      BY <1>4, <2>2 DEF UidsOnce
    <2>3. QED
      BY <1>1, <2>1, <2>2
  <1>5. \A a, u \in open' : a # u => \A q \in a.new, p \in u.new : q.uid # p.uid
    BY <1>1 DEF UidsOnce
  <1>6. QED
    BY <1>1, <1>3, <1>4, <1>5 DEF UidsOnce

\* Rows that nobody has locked change, all but their numbers.
LEMMA OnceRows ==
  ASSUME UidsOnce, open' = open, NEW R \in SUBSET rows, NEW after,
         rows' = {after[r] : r \in R},
         \A r \in R : after[r].uid = r.uid /\ (after[r] = r \/ Unlocked({r}))
  PROVE  UidsOnce'
  <1>1. ASSUME NEW x \in rows' PROVE \E r \in R : x = after[r] /\ x.uid = r.uid /\ (x = r \/ Unlocked({r}))
    BY <1>1
  <1>2. ASSUME NEW x \in rows', NEW y \in rows', x.uid = y.uid PROVE x = y
    <2>1. PICK r \in R : x = after[r] /\ x.uid = r.uid
      BY <1>1
    <2>2. PICK q \in R : y = after[q] /\ y.uid = q.uid
      BY <1>1
    <2>3. r = q
      BY <1>2, <2>1, <2>2 DEF UidsOnce
    <2>4. QED
      BY <2>1, <2>2, <2>3
  <1>3. ASSUME NEW t \in open, NEW q \in t.new, NEW x \in rows', x.uid = q.uid PROVE x \in t.old
    <2>1. PICK r \in R : x.uid = r.uid /\ (x = r \/ Unlocked({r}))
      BY <1>1
    <2>2. r \in t.old
      BY <1>3, <2>1 DEF UidsOnce
    <2>3. QED
      BY <2>1, <2>2 DEF Unlocked
  <1>4. QED
    BY <1>2, <1>3 DEF UidsOnce

\* A transaction takes the next number.
LEMMA OnceNext ==
  ASSUME NumbersInv, UidsOnce, rows' = rows,
         NEW t0, open' = open \cup {t0}, t0.old \subseteq rows, Unlocked(t0.old),
         t0.locks, NEW q, t0.new = {q}, q.uid = uid + 1
  PROVE  UidsOnce'
  <1>1. q.uid \in Nat /\ q.uid > uid
    BY DEF NumbersInv, Numbered
  <1>2. IF t0.locks THEN \A p \in t0.new : p.uid \in Nat /\ p.uid > uid ELSE Follows(t0)
    BY <1>1
  <1>3. QED
    BY <1>2, OnceBegin

LEMMA OnceStore ==
  ASSUME StoreInv, NumbersInv, UidsOnce,
         \/ \E c \in Calls : LMTP(c)
         \/ \E w \in Webs : Web(w)
  PROVE  UidsOnce'
  <1>1. ASSUME NEW c \in Calls, LMTP(c) PROVE UidsOnce'
    <2>1. CASE (\E b \in Boxes : Rcpt(c, b)) \/ Data(c) \/ DeliverFolder(c) \/ DeliverFails(c)
      <3>1. open' \subseteq open /\ rows' = rows
        BY <2>1 DEF Rcpt, Data, DeliverFolder, DeliverFails, Rollback
      <3>2. QED
        BY <3>1, OnceFewer
    <2>2. CASE DeliverInsert(c)
      <3> DEFINE b == Head(call[c].left)
                 q == [box |-> b, dir |-> DeliveryFolder(MailOf[c]), uid |-> uid + 1, mail |-> MailOf[c],
                       smtp |-> TRUE, deleted |-> FALSE]
                 t0 == [by |-> c, box |-> b, old |-> {}, new |-> {q}, makes |-> {}, locks |-> TRUE]
      <3>1. rows' = rows /\ (open' = open \/ open' = open \cup {t0})
        BY <2>2 DEF DeliverInsert, Begin
      <3>2. t0.locks /\ t0.old = {} /\ t0.new = {q} /\ q.uid = uid + 1
        OBVIOUS
      <3> HIDE DEF q, t0
      <3>3. Unlocked(t0.old)
        BY <3>2 DEF Unlocked
      <3>4. CASE open' = open
        BY <3>1, <3>4, OnceFewer
      <3>5. CASE open' = open \cup {t0}
        BY <3>1, <3>2, <3>3, <3>5, OnceNext
      <3>6. QED
        BY <3>1, <3>4, <3>5
    <2>3. CASE DeliverCommit(c)
      <3>1. PICK t \in open : CommitWithout(t, {})
        BY <2>3 DEF DeliverCommit, Commit, TxOf
      <3>2. QED
        BY <3>1, OnceCommit
    <2>4. QED
      BY <1>1, <2>1, <2>2, <2>3 DEF LMTP
  <1>2. ASSUME NEW w \in Webs, Web(w) PROVE UidsOnce'
    <2>1. ASSUME NEW r \in rows, NEW d \in {"INBOX", "Junk"}, MoveMessage(w, r, d) PROVE UidsOnce'
      <3> DEFINE q == [r EXCEPT !.dir = d, !.uid = uid + 1]
                 t0 == [by |-> w, box |-> r.box, old |-> {r}, new |-> {q},
                        makes |-> IF Exists(r.box, d) THEN {} ELSE {d}, locks |-> TRUE]
      <3>1. rows' = rows /\ open' = open \cup {t0} /\ Unlocked({r})
        BY <2>1 DEF MoveMessage, Begin
      <3>2. q.uid = uid + 1
        BY DEF StoreInv, Typed, IsRow, RowIn
      <3>3. t0.locks /\ t0.old = {r} /\ t0.new = {q}
        OBVIOUS
      <3> HIDE DEF q, t0
      <3>4. t0.old \subseteq rows /\ Unlocked(t0.old)
        BY <3>1, <3>3
      <3>5. QED
        BY <3>1, <3>2, <3>3, <3>4, OnceNext
    <2>2. CASE MoveCommit(w)
      <3>1. PICK t \in open : CommitWithout(t, {})
        BY <2>2 DEF MoveCommit, Commit, TxOf
      <3>2. QED
        BY <3>1, OnceCommit
    <2>3. CASE MoveFails(w)
      BY <2>3, OnceFewer DEF MoveFails, Rollback
    <2>4. QED
      BY <1>2, <2>1, <2>2, <2>3 DEF Web
  <1>3. QED
    BY <1>1, <1>2

LEMMA OnceWrite ==
  ASSUME StoreInv, NumbersInv, UidsOnce, NEW s \in Sessions, NEW d \in Names,
         \/ \E m, flag : Append1(s, d, m, flag)
         \/ \E U : MoveInsert(s, U, d)
         \/ RenameInbox(s, d)
  PROVE  UidsOnce'
  <1>1. ASSUME NEW m, NEW flag, Append1(s, d, m, flag) PROVE UidsOnce'
    <2> DEFINE q == [box |-> BoxOf[s], dir |-> d, uid |-> uid + 1, mail |-> m, smtp |-> FALSE, deleted |-> flag]
               t0 == [by |-> s, box |-> BoxOf[s], old |-> {}, new |-> {q}, makes |-> {}, locks |-> TRUE]
    <2>1. rows' = rows /\ open' = open \cup {t0}
      BY <1>1 DEF Append1, Begin
    <2>2. t0.locks /\ t0.old = {} /\ t0.new = {q} /\ q.uid = uid + 1
      OBVIOUS
    <2> HIDE DEF q, t0
    <2>3. Unlocked(t0.old)
      BY <2>2 DEF Unlocked
    <2>4. QED
      BY <2>1, <2>2, <2>3, OnceNext
  <1>2. ASSUME NEW U, MoveInsert(s, U, d) PROVE UidsOnce'
    <2> DEFINE from == {r \in Current(s) : r.uid \in U}
               new == Copies(from, d)
               t0 == [by |-> s, box |-> BoxOf[s], old |-> {}, new |-> new, makes |-> {}, locks |-> TRUE]
    <2>1. rows' = rows /\ open' = open \cup {t0} /\ uid \in Nat
      BY <1>2 DEF MoveInsert, Begin, NumbersInv, Numbered
    <2>2. from \subseteq Current(s)
      OBVIOUS
    <2> HIDE DEF from
    <2>3. /\ Cardinality(from) \in Nat
          /\ \A q \in new : q.uid \in (uid + 1)..(uid + Cardinality(from))
      BY <2>2, CopiesOf
    <2> HIDE DEF new
    <2>4. t0.locks /\ t0.old = {} /\ t0.new = new
      OBVIOUS
    <2> HIDE DEF t0
    <2>5. IF t0.locks THEN \A p \in t0.new : p.uid \in Nat /\ p.uid > uid ELSE Follows(t0)
      BY <2>1, <2>3, <2>4
    <2>6. t0.old \subseteq rows /\ Unlocked(t0.old)
      BY <2>4 DEF Unlocked
    <2>7. QED
      BY <2>1, <2>5, <2>6, OnceBegin
  <1>3. CASE RenameInbox(s, d)
    <2> DEFINE all == InDir(BoxOf[s], "INBOX")
               follow == {[r EXCEPT !.dir = d] : r \in all}
               t0 == [by |-> s, box |-> BoxOf[s], old |-> all, new |-> follow, makes |-> {d}, locks |-> FALSE]
    <2>1. rows' = rows /\ open' = open \cup {t0} /\ Unlocked(all)
      BY <1>3 DEF RenameInbox, Begin
    <2>2. \A r \in all : r \in rows /\ IsRow(r)
      BY DEF InDir, StoreInv, Typed
    <2>3. \A r \in all : SameNumber(r, [r EXCEPT !.dir = d]) /\ [r EXCEPT !.dir = d].dir = d
      BY <2>2 DEF SameNumber, IsRow, RowIn
    <2>4. \A q \in follow : q.dir = d /\ \E r \in all : SameNumber(r, q)
      BY <2>3
    <2> HIDE DEF all, follow
    <2>5. ~t0.locks /\ t0.old = all /\ t0.new = follow /\ t0.makes = {d}
      OBVIOUS
    <2> HIDE DEF t0
    <2>6. Follows(t0) /\ t0.old \subseteq rows /\ Unlocked(t0.old)
      BY <2>1, <2>2, <2>4, <2>5 DEF Follows
    <2>7. QED
      BY <2>1, <2>5, <2>6, OnceBegin
  <1>4. QED
    BY <1>1, <1>2, <1>3

LEMMA OnceRename ==
  ASSUME StoreInv, NumbersInv, UidsOnce, NEW s \in Sessions, NEW d \in Names, NEW e \in Names,
         RenameMailbox(s, d, e)
  PROVE  UidsOnce'
  <1> DEFINE from == InDir(BoxOf[s], d)
             after == [r \in rows |-> IF r \in from THEN [r EXCEPT !.dir = e] ELSE r]
  <1>1. /\ from \subseteq rows /\ Unlocked(from) /\ open' = open
        /\ rows' = (rows \ from) \cup {[r EXCEPT !.dir = e] : r \in from}
    BY DEF RenameMailbox, InDir
  <1>2. \A r \in rows : IsRow(r)
    BY DEF StoreInv, Typed
  <1>3. ASSUME NEW r \in rows PROVE after[r].uid = r.uid /\ (r \notin from => after[r] = r)
    BY <1>2 DEF IsRow, RowIn
  <1>4. \A r \in from : after[r] = [r EXCEPT !.dir = e]
    BY <1>1
  <1> HIDE DEF after
  <1>5. rows' = {after[r] : r \in rows}
    <2>1. {[r EXCEPT !.dir = e] : r \in from} = {after[r] : r \in from}
      BY <1>4
    <2>2. rows \ from = {after[r] : r \in rows \ from}
      BY <1>3
    <2> HIDE DEF from
    <2>3. QED
      BY <1>1, <2>1, <2>2
  <1>6. \A r \in from : Unlocked({r})
    BY <1>1 DEF Unlocked
  <1> HIDE DEF from
  <1>7. \A r \in rows : after[r].uid = r.uid /\ (after[r] = r \/ Unlocked({r}))
    BY <1>3, <1>6
  <1>8. QED
    BY <1>1, <1>5, <1>7, OnceRows

LEMMA OnceFlag ==
  ASSUME StoreInv, UidsOnce, NEW s \in Sessions, NEW r \in rows, NEW on \in BOOLEAN, Store(s, r, on)
  PROVE  UidsOnce'
  <1> DEFINE q == [r EXCEPT !.deleted = on]
             after == [p \in rows |-> IF p = r THEN q ELSE p]
  <1>1. q.uid = r.uid
    BY DEF StoreInv, Typed, IsRow, RowIn
  <1>2. rows' = (rows \ {r}) \cup {q} /\ open' = open /\ Unlocked({r})
    BY DEF Store
  <1> HIDE DEF q
  <1>3. rows' = {after[p] : p \in rows}
    <2>1. after[r] = q /\ \A p \in rows \ {r} : after[p] = p
      OBVIOUS
    <2> HIDE DEF after
    <2>2. QED
      BY <1>2, <2>1
  <1>4. \A p \in rows : after[p].uid = p.uid /\ (after[p] = p \/ Unlocked({p}))
    BY <1>1, <1>2
  <1> HIDE DEF after
  <1>5. QED
    BY <1>2, <1>3, <1>4, OnceRows

LEMMA OnceSession ==
  ASSUME StoreInv, NumbersInv, UidsOnce, NEW s \in Sessions, Session(s)
  PROVE  UidsOnce'
  <1>1. CASE \/ \E d \in Names : Status(s, d) \/ Select(s, d) \/ CreateMailbox(s, d) \/ DeleteMailbox(s, d)
             \/ Poll(s) \/ CommandFails(s) \/ Search(s) \/ ReadDeleted(s) \/ Purge(s)
    <2>1. open' \subseteq open /\ rows' \subseteq rows
      BY <1>1 DEF Status, Select, CreateMailbox, DeleteMailbox, Poll, CommandFails, Rollback,
                  Search, ReadDeleted, Purge, storeVars
    <2>2. QED
      BY <2>1, OnceFewer
  <1>2. CASE SessionCommit(s)
    <2>1. PICK t \in open : CommitWithout(t, {})
      BY <1>2 DEF SessionCommit, Commit, TxOf
    <2>2. QED
      BY <2>1, OnceCommit
  <1>3. CASE MoveDelete(s)
    <2> DEFINE dead == {r \in Current(s) : r.uid \in sess[s].ids}
    <2>1. \E t \in open : CommitWithout(t, dead)
      BY <1>3 DEF MoveDelete, TxOf
    <2> HIDE DEF dead
    <2>2. QED
      BY <2>1, OnceCommit
  <1>4. ASSUME NEW r \in rows, NEW on \in BOOLEAN, Store(s, r, on) PROVE UidsOnce'
    BY <1>4, OnceFlag
  <1>5. ASSUME NEW d \in Names, NEW e \in Names, RenameMailbox(s, d, e) PROVE UidsOnce'
    BY <1>5, OnceRename
  <1>6. ASSUME NEW d \in Names, NEW m, NEW flag, Append1(s, d, m, flag) PROVE UidsOnce'
    BY <1>6, OnceWrite
  <1>7. ASSUME NEW d \in Names, NEW U, MoveInsert(s, U, d) PROVE UidsOnce'
    BY <1>7, OnceWrite
  <1>8. ASSUME NEW d \in Names, RenameInbox(s, d) PROVE UidsOnce'
    BY <1>8, OnceWrite
  <1>9. QED
    BY <1>1, <1>2, <1>3, <1>4, <1>5, <1>6, <1>7, <1>8 DEF Session, Copy

\* A folder is created while there are numbers for it.
LEMMA MakesBounded ==
  ASSUME NumbersInv, validity <= MaxFolders, NEW t, NEW gone, CommitWithout(t, gone)
  PROVE  validity' <= MaxFolders
  <1>1. validity \in Nat /\ MaxFolders \in Nat
    BY StoreAssumption DEF NumbersInv, Folders
  <1>2. validity' = validity \/ (validity < MaxFolders /\ validity' = validity + 1)
    BY DEF CommitWithout, MakeDir
  <1>3. QED
    BY <1>1, <1>2

LEMMA BoundedStore ==
  ASSUME NumbersInv, Bounded, scene' = scene,
         \/ \E c \in Calls : LMTP(c)
         \/ \E w \in Webs : Web(w)
  PROVE  Bounded'
  <1>0. /\ uid \in Nat /\ scene.maxUid \in Nat /\ uid <= scene.maxUid
        /\ validity \in Nat /\ MaxFolders \in Nat /\ validity <= MaxFolders
    BY StoreAssumption DEF NumbersInv, Numbered, Folders, Bounded
  <1>1. marks' = marks
    BY DEF LMTP, Rcpt, Data, DeliverFolder, DeliverInsert, DeliverCommit, DeliverFails,
           Web, MoveMessage, MoveCommit, MoveFails
  <1>2. uid' <= scene.maxUid
    <2>1. uid' = uid \/ (uid < scene.maxUid /\ uid' = uid + 1)
      BY DEF LMTP, Rcpt, Data, DeliverFolder, DeliverInsert, DeliverCommit, DeliverFails,
             Web, MoveMessage, MoveCommit, MoveFails
    <2>2. QED
      BY <1>0, <2>1
  <1>3. validity' <= MaxFolders
    <2>1. CASE validity' = validity
      BY <1>0, <2>1
    <2>2. ASSUME NEW c \in Calls, DeliverFolder(c) PROVE validity' <= MaxFolders
      <3>1. validity' = validity \/ (validity < MaxFolders /\ validity' = validity + 1)
        BY <2>2 DEF DeliverFolder, EnsureDir, MakeDir
      <3>2. QED
        BY <1>0, <3>1
    <2>3. ASSUME NEW t \in open, Commit(t) PROVE validity' <= MaxFolders
      BY <1>0, <2>3, MakesBounded DEF Commit
    <2>4. QED
      BY <2>1, <2>2, <2>3
         DEF LMTP, Rcpt, Data, DeliverInsert, DeliverCommit, DeliverFails,
             Web, MoveMessage, MoveCommit, MoveFails, TxOf
  <1>4. QED
    BY <1>1, <1>2, <1>3 DEF Bounded

\* What is marked is a message of the session's mailbox.
LEMMA MarksTyped ==
  ASSUME StoreInv, NEW b \in Boxes, NEW R \in SUBSET rows, NEW mark \in Marks
  PROVE  {<<b, r.mail, mark>> : r \in R} \subseteq Boxes \X Mails \X Marks
  <1>1. \A r \in R : r.mail \in Mails
    BY RowFields DEF StoreInv, Typed
  <1>2. QED
    BY <1>1

LEMMA MarksSession ==
  ASSUME StoreInv, NEW s \in Sessions, Session(s), marks \subseteq Boxes \X Mails \X Marks
  PROVE  marks' \subseteq Boxes \X Mails \X Marks
  <1> DEFINE b == BoxOf[s]
             All == Boxes \X Mails \X Marks
  <1>0. b \in Boxes /\ "removed" \in Marks /\ "torn" \in Marks /\ "moved" \in Marks
    BY SessionAssumption DEF Marks
  <1>1. CASE marks' = marks
    BY <1>1
  <1>2. CASE Purge(s)
    <2> DEFINE dead == {r \in Current(s) : r.uid \in sess[s].ids}
               R == {r \in dead : r.uid \in sess[s].seen}
               T == {r \in dead : r.uid \in sess[s].away}
    <2>1. marks' = marks \cup {<<b, r.mail, "removed">> : r \in R} \cup {<<b, r.mail, "torn">> : r \in T}
      BY <1>2 DEF Purge
    <2>2. R \in SUBSET rows /\ T \in SUBSET rows
      BY DEF Current, InDir
    <2> HIDE DEF b, R, T
    <2>3. {<<b, r.mail, "removed">> : r \in R} \subseteq All /\ {<<b, r.mail, "torn">> : r \in T} \subseteq All
      BY <1>0, <2>2, MarksTyped
    <2>4. QED
      BY <2>1, <2>3
  <1>3. CASE MoveDelete(s)
    <2> DEFINE dead == {r \in Current(s) : r.uid \in sess[s].ids}
               R == {r \in dead : r.uid \in sess[s].seen}
               T == {r \in rows : r.box = b /\ r.uid \in (sess[s].seen \cup Uids(dead))
                                       \ (sess[s].seen \cap Uids(dead))}
    <2>1. marks' = marks \cup {<<b, r.mail, "moved">> : r \in R} \cup {<<b, r.mail, "torn">> : r \in T}
      BY <1>3 DEF MoveDelete
    <2>2. R \in SUBSET rows /\ T \in SUBSET rows
      BY DEF Current, InDir
    <2> HIDE DEF b, R, T
    <2>3. {<<b, r.mail, "moved">> : r \in R} \subseteq All /\ {<<b, r.mail, "torn">> : r \in T} \subseteq All
      BY <1>0, <2>2, MarksTyped
    <2>4. QED
      BY <2>1, <2>3
  <1>4. ASSUME NEW d \in Names, DeleteMailbox(s, d) PROVE marks' \subseteq All
    <2>1. marks' = marks \cup {<<b, r.mail, "removed">> : r \in InDir(b, d)}
      BY <1>4 DEF DeleteMailbox
    <2>2. InDir(b, d) \in SUBSET rows
      BY DEF InDir
    <2>3. {<<b, r.mail, "removed">> : r \in InDir(b, d)} \subseteq All
      BY <1>0, <2>2, MarksTyped
    <2>4. QED
      BY <2>1, <2>3
  <1>5. QED
    BY <1>1, <1>2, <1>3, <1>4
       DEF Session, Status, Select, Poll, SessionCommit, CommandFails, Store, Search, ReadDeleted, Append1,
           Copy, MoveInsert, CreateMailbox, RenameInbox, RenameMailbox, storeVars

LEMMA BoundedSession ==
  ASSUME StoreInv, NumbersInv, Bounded, scene' = scene, NEW s \in Sessions, Session(s)
  PROVE  Bounded'
  <1>0. /\ uid \in Nat /\ scene.maxUid \in Nat /\ uid <= scene.maxUid
        /\ validity \in Nat /\ MaxFolders \in Nat /\ validity <= MaxFolders
    BY StoreAssumption DEF NumbersInv, Numbered, Folders, Bounded
  <1>1. uid' <= scene.maxUid
    <2>1. CASE uid' = uid
      BY <1>0, <2>1
    <2>2. ASSUME NEW d, NEW m, NEW flag, Append1(s, d, m, flag) PROVE uid' <= scene.maxUid
      BY <1>0, <2>2 DEF Append1
    <2>3. ASSUME NEW d, NEW U, MoveInsert(s, U, d) PROVE uid' <= scene.maxUid
      BY <2>3 DEF MoveInsert
    <2>4. QED
      BY <2>1, <2>2, <2>3
         DEF Session, Status, Select, Poll, SessionCommit, CommandFails, Store, Search, ReadDeleted, Purge,
             Copy, MoveDelete, CreateMailbox, DeleteMailbox, RenameInbox, RenameMailbox, storeVars
  <1>2. validity' <= MaxFolders
    <2>1. CASE validity' = validity
      BY <1>0, <2>1
    <2>2. ASSUME NEW d, CreateMailbox(s, d) PROVE validity' <= MaxFolders
      BY <1>0, <2>2 DEF CreateMailbox, MakeDir
    <2>3. ASSUME NEW t, NEW gone, CommitWithout(t, gone) PROVE validity' <= MaxFolders
      BY <1>0, <2>3, MakesBounded
    <2>4. QED
      BY <2>1, <2>2, <2>3
         DEF Session, Status, Select, Poll, SessionCommit, Commit, CommandFails, Store, Search, ReadDeleted, Purge,
             Append1, Copy, MoveInsert, MoveDelete, DeleteMailbox, RenameInbox, RenameMailbox, storeVars
  <1>3. marks' \subseteq Boxes \X Mails \X Marks
    BY MarksSession DEF Bounded
  <1>4. QED
    BY <1>1, <1>2, <1>3 DEF Bounded

LEMMA StepTypes ==
  ASSUME MailInv, NumbersInv, TypeInv, [Next]_vars
  PROVE  TypeInv'
  <1>0. StoreInv /\ Bounded /\ UidsOnce
    BY DEF MailInv, TypeInv
  <1>1. CASE UNCHANGED vars
    <2>1. Bounded'
      BY <1>0, <1>1 DEF Bounded, vars, storeVars
    <2>2. UidsOnce'
      BY <1>0, <1>1, OnceFewer DEF vars, storeVars
    <2>3. QED
      BY <2>1, <2>2 DEF TypeInv
  <1>2. CASE StoreNext /\ UNCHANGED <<sess, announced>>
    <2>1. Bounded' /\ UidsOnce'
      BY <1>0, <1>2, BoundedStore, OnceStore DEF StoreNext
    <2>2. QED
      BY <2>1 DEF TypeInv
  <1>3. CASE (\E s \in Sessions \cap scene.actors : Session(s)) /\ UNCHANGED scene
    <2>1. PICK s \in Sessions : Session(s)
      BY <1>3
    <2>2. Bounded' /\ UidsOnce'
      BY <1>0, <1>3, <2>1, BoundedSession, OnceSession
    <2>3. QED
      BY <2>2 DEF TypeInv
  <1>4. QED
    BY <1>1, <1>2, <1>3 DEF Next

LEMMA InitTypes == Init => TypeInv
  <1> SUFFICES ASSUME Init PROVE TypeInv
    OBVIOUS
  <1> DEFINE held == SetToSeq(scene.held)
             Row0(i) == [box |-> held[i][1], dir |-> DeliveryFolder(held[i][2]), uid |-> i,
                         mail |-> held[i][2], smtp |-> TRUE, deleted |-> FALSE]
  <1>1. /\ scene \in Scenes /\ open = {} /\ marks = {} /\ uid = Len(held)
        /\ rows = {Row0(i) : i \in DOMAIN held}
        /\ validity = 2 * Cardinality(Boxes)
    BY DEF Init, StoreInit
  <1>2. IsFiniteSet(scene.held) /\ Cardinality(scene.held) <= scene.maxUid /\ validity <= MaxFolders
    BY <1>1, StoreAssumption
  <1>3. Cardinality(scene.held) \in Nat /\ held \in [1..Cardinality(scene.held) -> scene.held]
    BY <1>2, ListOfSet, FS_CardinalityType
  <1>4. uid = Cardinality(scene.held)
    BY <1>1, <1>3
  <1>5. \A i \in DOMAIN held : Row0(i).uid = i
    OBVIOUS
  <1> HIDE DEF held, Row0
  <1>6. Bounded
    BY <1>1, <1>2, <1>4 DEF Bounded
  <1>7. UidsOnce
    <2>1. \A r \in rows : \E i \in DOMAIN held : r = Row0(i) /\ r.uid = i
      BY <1>1, <1>5
    <2>2. QED
      BY <1>1, <2>1 DEF UidsOnce
  <1>8. QED
    BY <1>6, <1>7 DEF TypeInv

LEMMA StoreTypes ==
  ASSUME StoreInv, NumbersInv, TypeInv
  PROVE  StoreTypeOK
  <1>1. rows \subseteq Row /\ \A t \in open : t.new \subseteq Row
    <2>1. \A r : IsRow(r) /\ r.uid \in Nat => r \in Row
      BY DEF IsRow, RowIn, Row
    <2>2. \A r \in rows : IsRow(r) /\ r.uid \in Nat
      BY DEF StoreInv, Typed, NumbersInv, Numbered
    <2>3. \A t \in open : \A r \in t.new : IsRow(r) /\ r.uid \in Nat
      BY DEF StoreInv, Typed, NumbersInv, Numbered
    <2>4. QED
      BY <2>1, <2>2, <2>3
  <1>2. /\ uid \in Nat /\ uid <= scene.maxUid /\ scene.maxUid \in Nat
        /\ validity \in Nat /\ validity <= MaxFolders /\ MaxFolders \in Nat
    BY StoreAssumption DEF NumbersInv, Numbered, Folders, TypeInv, Bounded
  <1>3. dirs \in [Boxes -> [Names -> 0..MaxFolders]]
    <2>1. dirs \in [Boxes -> [Names -> 0..validity]] /\ (0..validity) \subseteq 0..MaxFolders
      BY <1>2 DEF NumbersInv, Folders
    <2>2. QED
      BY <2>1
  <1>4. uid \in 0..scene.maxUid /\ validity \in 0..MaxFolders
    BY <1>2
  <1>5. \A t \in open : t.old \subseteq rows /\ t.makes \subseteq Names
    BY DEF NumbersInv, Placed
  <1>6. /\ \A c \in Calls : call[c].at \in CallSteps /\ call[c].left \in Seq(Boxes)
        /\ landed \in [Boxes \X Mails -> Nat]
    BY DEF StoreInv, Typed, CallRecord
  <1>7. /\ marks \subseteq Boxes \X Mails \X Marks
        /\ \A r, q \in rows : r.uid = q.uid => r = q
        /\ \A r \in rows : dirs[r.box][r.dir] # 0
    BY DEF TypeInv, Bounded, UidsOnce, NumbersInv, Folders
  <1>8. QED
    BY <1>1, <1>3, <1>4, <1>5, <1>6, <1>7 DEF StoreTypeOK

LEMMA SessionTypes ==
  ASSUME SessionsInv, NumbersInv, ViewsInv, NEW s \in Sessions
  PROVE  /\ sess[s].at \in SessionSteps /\ sess[s].dir \in Names /\ sess[s].snap \subseteq Items
         /\ sess[s].told \in Seq(Nat)
         /\ sess[s].at = "out" => sess[s].snap = {} /\ sess[s].told = <<>>
  <1>1. /\ sess[s].at \in SessionSteps /\ sess[s].snap \subseteq Items /\ Known(s) \subseteq 1..uid
        /\ sess[s].at = "out" => sess[s].snap = {} /\ ~sess[s].lost
        /\ sess[s].told = IF sess[s].lost THEN <<>> ELSE InOrder(Known(s))
    BY DEF ViewsInv, Sees
  <1>2. sess[s].dir \in Names
    BY DEF SessionsInv, Remembers
  <1>3. sess[s].told \in Seq(Nat)
    <2>1. Known(s) \in SUBSET Nat /\ IsFiniteSet(Known(s))
      BY <1>1, KnownFinite
    <2>2. InOrder(Known(s)) \in Seq(Nat)
      <3>1. InOrder(Known(s)) \in Seq(Known(s))
        BY <2>1, InOrderProperties
      <3>2. QED
        BY <2>1, <3>1, SeqDef
    <2>3. <<>> \in Seq(Nat)
      OBVIOUS
    <2>4. QED
      BY <1>1, <2>2, <2>3
  <1>4. ASSUME sess[s].at = "out" PROVE sess[s].told = <<>>
    <2>1. Known(s) = {} /\ sess[s].told = InOrder(Known(s))
      BY <1>1, <1>4 DEF Known, Uids
    <2>2. QED
      BY <2>1, NobodyKnows
  <1>5. QED
    BY <1>1, <1>2, <1>3, <1>4

\* Every value has its type, a UID is given once in the whole store, and every message lies
\* in a folder that there is, for every number of mailboxes, folders, deliveries and sessions.
THEOREM TypeCorrect == Spec => []TypeOK
  <1>1. Init => MailInv /\ NumbersInv /\ ViewInv /\ TypeInv
    BY InitMailInv, InitNumbers, InitViews, InitTypes
  <1>2. MailInv /\ NumbersInv /\ ViewInv /\ TypeInv /\ [Next]_vars
           => (MailInv /\ NumbersInv /\ ViewInv /\ TypeInv)'
    <2>1. MailInv /\ NumbersInv /\ [Next]_vars => MailInv' /\ NumbersInv'
      BY StepMailInv, StepNumbers
    <2>2. QED
      BY <2>1, StepViews, StepTypes
  <1>3. MailInv /\ NumbersInv /\ ViewInv /\ TypeInv => TypeOK
    <2> SUFFICES ASSUME MailInv, NumbersInv, ViewInv, TypeInv PROVE TypeOK
      OBVIOUS
    <2>1. StoreInv /\ SessionsInv /\ ViewsInv
      BY DEF MailInv, ViewInv
    <2>2. announced \in [1..MaxFolders -> Nat]
      BY DEF NumbersInv, Announced
    <2>3. QED
      BY <2>1, <2>2, StoreTypes, SessionTypes DEF TypeOK
  <1>4. QED
    BY <1>1, <1>2, <1>3, PTL DEF Spec

-----------------------------------------------------------------------------
(* Functions that go through a list.                                        *)

\* Induction, as far as n.
LEMMA Inductively ==
  ASSUME NEW n \in Nat, NEW S, 0 \in S, \A i \in 1..n : i - 1 \in S => i \in S
  PROVE  0..n \subseteq S
  <1> DEFINE T == (0..n) \ S
  <1> SUFFICES ASSUME T # {} PROVE FALSE
    OBVIOUS
  <1>1. T \in SUBSET Nat
    OBVIOUS
  <1>2. PICK k \in T : \A j \in T : k <= j
    BY <1>1, SmallestOf
  <1>3. k \in 1..n /\ k - 1 \in 0..n /\ ~(k <= k - 1)
    BY <1>2
  <1>4. k - 1 \in S
    BY <1>2, <1>3
  <1>5. QED
    BY <1>2, <1>3, <1>4

\* From a value to the next, at every place of a list.
Steps(step, n, X) == step \in [1..n -> [X -> X]]

\* Values that follow the steps.
Stepwise(f, base, step, n) == f[0] = base /\ \A i \in 1..n : f[i] = step[i][f[i - 1]]
Reaches(base, step, n, X) == \E f \in [0..n -> X] : Stepwise(f, base, step, n)

\* What is defined step by step over a list is defined.
LEMMA StepByStep ==
  ASSUME NEW n \in Nat, NEW X, NEW base \in X, NEW step, Steps(step, n, X)
  PROVE  Reaches(base, step, n, X)
  <1> USE DEF Steps, Stepwise
  <1> DEFINE Upto(k) == \E f \in [0..k -> X] : f[0] = base /\ \A i \in 1..k : f[i] = step[i][f[i - 1]]
             S == {k \in 0..n : Upto(k)}
  <1>2. Upto(0)
    <2> DEFINE f == [i \in 0..0 |-> base]
    <2>1. f \in [0..0 -> X] /\ f[0] = base
      OBVIOUS
    <2> HIDE DEF f
    <2>2. QED
      BY <2>1
  <1>3. ASSUME NEW k \in 1..n, Upto(k - 1) PROVE Upto(k)
    <2>1. PICK f \in [0..(k - 1) -> X] :
             f[0] = base /\ \A i \in 1..(k - 1) : f[i] = step[i][f[i - 1]]
      BY <1>3
    <2> DEFINE g == [i \in 0..k |-> IF i = k THEN step[k][f[k - 1]] ELSE f[i]]
    <2>2. step[k][f[k - 1]] \in X
      BY <2>1
    <2>3. g \in [0..k -> X]
      BY <2>2
    <2>4. \A i \in 0..(k - 1) : g[i] = f[i]
      OBVIOUS
    <2>5. g[k] = step[k][f[k - 1]]
      OBVIOUS
    <2> HIDE DEF g
    <2>6. 0 \in 0..(k - 1) /\ k - 1 \in 0..(k - 1)
      OBVIOUS
    <2>7. ASSUME NEW i \in 1..k PROVE g[i] = step[i][g[i - 1]]
      <3>1. CASE i = k
        BY <2>4, <2>5, <2>6, <3>1
      <3>2. CASE i # k
        <4>1. i \in 1..(k - 1) /\ i - 1 \in 0..(k - 1) /\ i \in 0..(k - 1)
          BY <3>2
        <4>2. QED
          BY <2>1, <2>4, <4>1
      <3>3. QED
        BY <3>1, <3>2
    <2>8. QED
      BY <2>1, <2>3, <2>4, <2>6, <2>7
  <1> HIDE DEF Upto
  <1>4. 0 \in S /\ \A k \in 1..n : k - 1 \in S => k \in S
    BY <1>2, <1>3
  <1>5. n \in S
    <2> HIDE DEF S
    <2>1. n \in 0..n
      OBVIOUS
    <2>2. QED
      BY <1>4, <2>1, Inductively
  <1>6. QED
    BY <1>5 DEF Upto, Reaches

\* So is a sum of natural numbers.
LEMMA TotalSteps ==
  ASSUME NEW n \in Nat, NEW w \in [1..n -> Nat]
  PROVE  \E f \in [0..n -> Nat] : f[0] = 0 /\ (\A i \in 1..n : f[i] = f[i - 1] + w[i]) /\ Total(w) = f[n]
  <1> DEFINE step == [i \in 1..n |-> [x \in Nat |-> x + w[i]]]
             upTo == CHOOSE f : f = [i \in 0..n |-> IF i = 0 THEN 0 ELSE f[i - 1] + w[i]]
  <1>1. Steps(step, n, Nat) /\ 0 \in Nat
    BY DEF Steps
  <1>2. \A i \in 1..n, x \in Nat : step[i][x] = x + w[i]
    OBVIOUS
  <1>3. w \in Seq(Nat) /\ Len(w) = n
    <2>1. w \in Seq(Nat)
      BY SeqDef
    <2>2. QED
      BY <2>1, LenProperties
  <1>4. Total(w) = upTo[n]
    BY <1>3 DEF Total
  <1> HIDE DEF step, upTo
  <1>5. Reaches(0, step, n, Nat)
    BY <1>1, StepByStep
  <1>6. PICK f \in [0..n -> Nat] : Stepwise(f, 0, step, n)
    BY <1>5 DEF Reaches
  <1>7. \A i \in 1..n : f[i] = f[i - 1] + w[i]
    <2>1. \A i \in 1..n : f[i] = step[i][f[i - 1]] /\ f[i - 1] \in Nat
      BY <1>6 DEF Stepwise
    <2>2. QED
      BY <1>2, <2>1
  <1>8. \A i \in 0..n : f[i] = IF i = 0 THEN 0 ELSE f[i - 1] + w[i]
    BY <1>6, <1>7 DEF Stepwise
  <1>9. f = [i \in 0..n |-> IF i = 0 THEN 0 ELSE f[i - 1] + w[i]]
    BY <1>6, <1>8
  <1>10. upTo = [i \in 0..n |-> IF i = 0 THEN 0 ELSE upTo[i - 1] + w[i]]
    BY <1>9 DEF upTo
  <1>11. upTo[0] = 0 /\ \A i \in 1..n : upTo[i] = upTo[i - 1] + w[i]
    BY <1>10
  <1>12. \A i \in 0..n : upTo[i] \in Nat
    <2> DEFINE S == {i \in 0..n : upTo[i] \in Nat}
    <2>4. ASSUME NEW i \in 1..n, upTo[i - 1] \in Nat PROVE upTo[i] \in Nat
      <3>1. w[i] \in Nat /\ upTo[i] = upTo[i - 1] + w[i]
        BY <1>11
      <3>2. QED
        BY <2>4, <3>1
    <2>1. 0 \in S /\ \A i \in 1..n : i - 1 \in S => i \in S
      BY <1>11, <2>4
    <2> HIDE DEF S
    <2>2. 0..n \subseteq S
      BY <2>1, Inductively
    <2>3. QED
      BY <2>2 DEF S
  <1>13. upTo \in [0..n -> Nat]
    BY <1>10, <1>12
  <1>14. QED
    BY <1>4, <1>11, <1>13

\* Greater numbers have a greater sum.
LEMMA TotalGrows ==
  ASSUME NEW n \in Nat, NEW w \in [1..n -> Nat], NEW v \in [1..n -> Nat], \A i \in 1..n : w[i] <= v[i]
  PROVE  Total(w) \in Nat /\ Total(w) <= Total(v)
  <1>1. PICK f \in [0..n -> Nat] : f[0] = 0 /\ (\A i \in 1..n : f[i] = f[i - 1] + w[i]) /\ Total(w) = f[n]
    BY TotalSteps
  <1>2. PICK g \in [0..n -> Nat] : g[0] = 0 /\ (\A i \in 1..n : g[i] = g[i - 1] + v[i]) /\ Total(v) = g[n]
    BY TotalSteps
  <1> DEFINE S == {i \in 0..n : f[i] <= g[i]}
  <1>3. 0 \in S
    BY <1>1, <1>2
  <1>4. ASSUME NEW i \in 1..n, i - 1 \in S PROVE i \in S
    <2>1. f[i - 1] <= g[i - 1] /\ w[i] <= v[i] /\ f[i] = f[i - 1] + w[i] /\ g[i] = g[i - 1] + v[i]
      BY <1>1, <1>2, <1>4
    <2>2. i - 1 \in 0..n /\ i \in 0..n
      OBVIOUS
    <2>3. f[i - 1] \in Nat /\ g[i - 1] \in Nat /\ w[i] \in Nat /\ v[i] \in Nat
      BY <2>2
    <2>4. QED
      BY <2>1, <2>2, <2>3
  <1> HIDE DEF S
  <1>5. n \in S
    <2>1. \A i \in 1..n : i - 1 \in S => i \in S
      BY <1>4
    <2>2. 0..n \subseteq S
      BY <1>3, <2>1, Inductively
    <2>3. QED
      BY <2>2
  <1>6. QED
    BY <1>1, <1>2, <1>5 DEF S

-----------------------------------------------------------------------------
(* Reference chains.                                                        *)

LEMMA ChainNumbers ==
  ASSUME NEW chain \in Seq(Id)
  PROVE  /\ Len(chain) \in Nat
         /\ [i \in DOMAIN chain |-> chain[i].bytes] \in [1..Len(chain) -> Nat]
         /\ [i \in DOMAIN chain |-> chain[i].chars] \in [1..Len(chain) -> Nat]
         /\ \A i \in 1..Len(chain) : chain[i].chars <= chain[i].bytes
  BY LenProperties DEF Id

\* A character has a byte or more.
LEMMA FewerCharacters ==
  ASSUME NEW chain \in Seq(Id)
  PROVE  Characters(chain) <= Length(chain) /\ Length(chain) \in Nat /\ Characters(chain) \in Nat
  <1> DEFINE w == [i \in DOMAIN chain |-> chain[i].chars]
             v == [i \in DOMAIN chain |-> chain[i].bytes]
  <1>1. w \in [1..Len(chain) -> Nat] /\ v \in [1..Len(chain) -> Nat] /\ Len(chain) \in Nat
    BY ChainNumbers
  <1>2. \A i \in 1..Len(chain) : w[i] <= v[i] /\ v[i] <= v[i]
    BY <1>1, ChainNumbers
  <1>3. Blanks(chain) \in Nat
    BY EmptySeq DEF Blanks
  <1>5. Length(chain) = Blanks(chain) + Total(v) /\ Characters(chain) = Blanks(chain) + Total(w)
    BY DEF Length, Characters
  <1> HIDE DEF w, v
  <1>4. Total(w) \in Nat /\ Total(w) <= Total(v) /\ Total(v) \in Nat
    BY <1>1, <1>2, TotalGrows
  <1>6. QED
    BY <1>3, <1>4, <1>5

\* No chain and a chain of one.
LEMMA ShortChains ==
  ASSUME NEW chain \in Seq(Id)
  PROVE  /\ chain = <<>> => Length(chain) = 0
         /\ Len(chain) = 1 => Length(chain) = chain[1].bytes
  <1> DEFINE v == [i \in DOMAIN chain |-> chain[i].bytes]
  <1>1. v \in [1..Len(chain) -> Nat] /\ Len(chain) \in Nat
    BY ChainNumbers
  <1>2. Length(chain) = Blanks(chain) + Total(v)
    BY DEF Length
  <1>5. \A i \in 1..Len(chain) : v[i] = chain[i].bytes
    BY LenProperties
  <1> HIDE DEF v
  <1>3. PICK f \in [0..Len(chain) -> Nat] :
           f[0] = 0 /\ (\A i \in 1..Len(chain) : f[i] = f[i - 1] + v[i]) /\ Total(v) = f[Len(chain)]
    BY <1>1, TotalSteps
  <1>4. CASE chain = <<>>
    BY <1>2, <1>3, <1>4, EmptySeq DEF Blanks
  <1>6. CASE Len(chain) = 1
    <2>4. chain # <<>>
      <3>1. Len(<<>>) = 0
        OBVIOUS
      <3>2. Len(chain) # 0
        BY <1>6
      <3>3. QED
        BY <3>1, <3>2, Zenon
    <2>1. Blanks(chain) = 0
      BY <1>6, <2>4 DEF Blanks
    <2>2. f[1] = f[0] + v[1] /\ v[1] \in Nat /\ f[0] = 0 /\ v[1] = chain[1].bytes
      BY <1>1, <1>3, <1>5, <1>6
    <2>3. Total(v) = f[1]
      BY <1>3, <1>6
    <2>5. QED
      BY <1>2, <1>6, <2>1, <2>2, <2>3
  <1>7. QED
    BY <1>4, <1>6, EmptySeq

\* A message's own id and all that came before it.
LEMMA AncestryProperties ==
  ASSUME NEW m, IsMessage(m)
  PROVE  /\ InReplyTo(m) \in Id /\ NoId \in Id
         /\ Ancestry(m) \in Seq(Id) /\ Len(Ancestry(m)) \in Nat
         /\ InReplyTo(m) # NoId => Len(Ancestry(m)) > 0 /\ Ancestry(m)[Len(Ancestry(m))] = InReplyTo(m)
  <1> DEFINE older == IF m.references = <<>> THEN m.inReplyTo ELSE m.references
             own == IF InReplyTo(m) = NoId THEN <<>> ELSE <<InReplyTo(m)>>
  <1>1. m.ids \in Seq(Id) /\ older \in Seq(Id)
    BY DEF IsMessage
  <1>2. NoId \in Id
    <2>1. MaxChain \in Nat
      BY TalkAssumption
    <2>2. NoId.chars = 0 /\ NoId.bytes = 0
      BY DEF NoId
    <2>3. NoId \in [name : Word, bytes : Nat, chars : Nat]
      BY DEF NoId, Word
    <2>4. QED
      BY <2>1, <2>2, <2>3 DEF Id
  <1>3. InReplyTo(m) \in Id
    <2>1. CASE Len(m.ids) = 1
      <3>1. m.ids[1] \in Id
        BY <1>1, <2>1, ElementOfSeq
      <3>2. QED
        BY <2>1, <3>1 DEF InReplyTo
    <2>2. QED
      BY <1>2, <2>1 DEF InReplyTo
  <1>4. own \in Seq(Id) /\ (InReplyTo(m) # NoId => Len(own) = 1 /\ own[1] = InReplyTo(m))
    BY <1>3
  <1>5. Ancestry(m) = older \o own
    BY DEF Ancestry
  <1> HIDE DEF older, own
  <1>6. /\ Ancestry(m) \in Seq(Id) /\ Len(Ancestry(m)) = Len(older) + Len(own)
        /\ \A i \in 1..(Len(older) + Len(own)) :
              Ancestry(m)[i] = IF i <= Len(older) THEN older[i] ELSE own[i - Len(older)]
    BY <1>1, <1>4, <1>5, ConcatProperties
  <1>7. Len(older) \in Nat /\ Len(own) \in Nat
    BY <1>1, <1>4, LenProperties
  <1>8. QED
    BY <1>2, <1>3, <1>4, <1>6, <1>7

\* What is left of a list without its first links.
LEMMA Rest ==
  ASSUME NEW S, NEW s \in Seq(S), NEW k \in 0..Len(s)
  PROVE  /\ SubSeq(s, k + 1, Len(s)) \in Seq(S)
         /\ Len(SubSeq(s, k + 1, Len(s))) = Len(s) - k
         /\ \A i \in 1..(Len(s) - k) : SubSeq(s, k + 1, Len(s))[i] = s[k + i]
  <1>1. Len(s) \in Nat /\ \A i \in (k + 1)..Len(s) : s[i] \in S
    BY LenProperties, ElementOfSeq
  <1>2. k + 1 \in Int /\ Len(s) \in Int
    BY <1>1
  <1>3. /\ SubSeq(s, k + 1, Len(s)) \in Seq(S)
        /\ Len(SubSeq(s, k + 1, Len(s))) = IF k + 1 <= Len(s) THEN Len(s) - (k + 1) + 1 ELSE 0
        /\ \A i \in 1..(Len(s) - (k + 1) + 1) : SubSeq(s, k + 1, Len(s))[i] = s[k + 1 + i - 1]
    BY <1>1, <1>2, SubSeqProperties
  <1>4. k \in Nat /\ k <= Len(s)
    BY <1>1
  <1> DEFINE rest == SubSeq(s, k + 1, Len(s))
  <1> HIDE DEF rest
  <1>5. Len(rest) = Len(s) - k
    BY <1>1, <1>3, <1>4 DEF rest
  <1>6. ASSUME NEW i \in 1..(Len(s) - k) PROVE rest[i] = s[k + i]
    <2>1. i \in 1..(Len(s) - (k + 1) + 1) /\ k + 1 + i - 1 = k + i
      BY <1>1, <1>4
    <2>2. rest[i] = s[k + 1 + i - 1]
      BY <1>3, <2>1 DEF rest
    <2>3. QED
      BY <2>1, <2>2
  <1>7. QED
    BY <1>3, <1>5, <1>6 DEF rest

\* Without the first k links it fits in the header.
Fits(m, k) == Length(SubSeq(Ancestry(m), k + 1, Len(Ancestry(m)))) <= MaxChain

\* References leaves out as few as it can.
LEMMA ReferencesFit ==
  ASSUME NEW m, IsMessage(m)
  PROVE  \E drop \in 0..Len(Ancestry(m)) :
            /\ References(m) = SubSeq(Ancestry(m), drop + 1, Len(Ancestry(m)))
            /\ Fits(m, drop)
            /\ \A j \in 0..(drop - 1) : ~Fits(m, j)
  <1> DEFINE A == Ancestry(m)
             n == Len(A)
             older == IF m.references = <<>> THEN m.inReplyTo ELSE m.references
             chain == IF InReplyTo(m) = NoId THEN older ELSE Append(older, InReplyTo(m))
             drop == CHOOSE k \in 0..n : Fits(m, k) /\ \A j \in 0..(k - 1) : ~Fits(m, j)
             T == {k \in 0..n : Fits(m, k)}
  <1>1. chain = A
    <2>1. older \in Seq(Id) /\ InReplyTo(m) \in Id
      BY AncestryProperties DEF IsMessage
    <2>2. A = older \o (IF InReplyTo(m) = NoId THEN <<>> ELSE <<InReplyTo(m)>>)
      BY DEF Ancestry
    <2> HIDE DEF older, A
    <2>3. older \o <<>> = older
      BY <2>1, ConcatEmptySeq
    <2>4. Append(older, InReplyTo(m)) = older \o <<InReplyTo(m)>>
      BY <2>1, AppendIsConcat
    <2>5. QED
      BY <2>2, <2>3, <2>4
  <1>2. References(m) = SubSeq(chain, (CHOOSE k \in 0..Len(chain) :
                            Length(SubSeq(chain, k + 1, Len(chain))) <= MaxChain
                              /\ \A j \in 0..(k - 1) : ~(Length(SubSeq(chain, j + 1, Len(chain))) <= MaxChain)) + 1, Len(chain))
    BY DEF References
  <1> HIDE DEF chain
  <1>3. References(m) = SubSeq(A, drop + 1, n)
    BY <1>1, <1>2 DEF Fits
  <1>4. A \in Seq(Id) /\ n \in Nat
    BY AncestryProperties
  <1> HIDE DEF A, n
  <1>5. Fits(m, n)
    <2>1. n \in 0..n
      BY <1>4
    <2>2. /\ SubSeq(A, n + 1, n) \in Seq(Id) /\ SubSeq(A, n + 1, n) = <<>>
      BY <1>4, <2>1, Rest, SubSeqEmpty DEF n
    <2>3. Length(SubSeq(A, n + 1, n)) = 0
      BY <2>2, ShortChains
    <2>4. QED
      BY <2>3, TalkAssumption DEF Fits, A, n
  <1>6. PICK k \in T : \A j \in T : k <= j
    <2>1. n \in T /\ T \in SUBSET Nat
      BY <1>4, <1>5
    <2> HIDE DEF T
    <2>2. QED
      BY <2>1, SmallestOf
  <1>7. k \in 0..n /\ Fits(m, k) /\ \A j \in 0..(k - 1) : ~Fits(m, j)
    BY <1>4, <1>6
  <1>8. drop \in 0..n /\ Fits(m, drop) /\ \A j \in 0..(drop - 1) : ~Fits(m, j)
    BY <1>7
  <1>9. QED
    BY <1>3, <1>8 DEF A, n

\* A reply's references are within the limits of Send, and lack no more than they must.
LEMMA Replies ==
  ASSUME NEW m, IsMessage(m)
  PROVE  /\ References(m) \in Seq(Id)
         /\ Length(References(m)) <= MaxChain
         /\ LET A == Ancestry(m)
                dropped == Len(A) - Len(References(m))
            IN  /\ dropped \in 0..Len(A)
                /\ References(m) = SubSeq(A, dropped + 1, Len(A))
                /\ dropped > 0 => Length(SubSeq(A, dropped, Len(A))) > MaxChain
                /\ InReplyTo(m) # NoId /\ InReplyTo(m).bytes <= MaxChain =>
                      References(m) # <<>> /\ Last(References(m)) = InReplyTo(m)
  <1> DEFINE A == Ancestry(m)
             n == Len(A)
             R == References(m)
  <1>1. PICK drop \in 0..n : R = SubSeq(A, drop + 1, n) /\ Fits(m, drop) /\ \A j \in 0..(drop - 1) : ~Fits(m, j)
    BY ReferencesFit
  <1>2. A \in Seq(Id) /\ n \in Nat
    BY AncestryProperties
  <1>0. MaxChain \in Nat
    BY TalkAssumption
  <1>3. \A k \in 0..n : Fits(m, k) <=> Length(SubSeq(A, k + 1, n)) <= MaxChain
    BY DEF Fits
  <1>4. InReplyTo(m) # NoId => n > 0 /\ A[n] = InReplyTo(m)
    BY AncestryProperties
  <1>5. Len(A) = n
    OBVIOUS
  <1> HIDE DEF A, n
  <1>6. /\ R \in Seq(Id) /\ Len(R) = n - drop
        /\ \A i \in 1..(n - drop) : R[i] = A[drop + i]
    BY <1>1, <1>2, <1>5, Rest
  <1>7. n - Len(R) = drop
    BY <1>2, <1>6
  <1>8. drop > 0 => Length(SubSeq(A, drop, n)) > MaxChain
    <2> SUFFICES ASSUME drop > 0 PROVE Length(SubSeq(A, drop, n)) > MaxChain
      OBVIOUS
    <2>1. drop - 1 \in 0..n /\ drop - 1 \in 0..(drop - 1) /\ drop - 1 + 1 = drop
      BY <1>2
    <2>2. ~(Length(SubSeq(A, drop, n)) <= MaxChain)
      BY <1>1, <1>3, <2>1
    <2>3. SubSeq(A, drop - 1 + 1, n) \in Seq(Id)
      BY <1>2, <1>5, <2>1, Rest
    <2>4. Length(SubSeq(A, drop, n)) \in Nat
      BY <2>1, <2>3, FewerCharacters
    <2>5. QED
      BY <1>0, <2>2, <2>4
  <1>9. ASSUME InReplyTo(m) # NoId, InReplyTo(m).bytes <= MaxChain
        PROVE  R # <<>> /\ Last(R) = InReplyTo(m)
    <2>1. n > 0 /\ A[n] = InReplyTo(m) /\ n - 1 \in 0..n /\ n - 1 + 1 = n
      BY <1>2, <1>4, <1>9
    <2> DEFINE one == SubSeq(A, n - 1 + 1, n)
    <2>2. one \in Seq(Id) /\ Len(one) = n - (n - 1) /\ \A i \in 1..(n - (n - 1)) : one[i] = A[n - 1 + i]
      BY <1>2, <1>5, <2>1, Rest
    <2>3. Fits(m, n - 1) <=> Length(one) <= MaxChain
      BY <1>3, <2>1
    <2> HIDE DEF one
    <2>4. Len(one) = 1 /\ one[1] = InReplyTo(m)
      BY <1>2, <2>1, <2>2
    <2>5. Length(one) = InReplyTo(m).bytes
      BY <2>2, <2>4, ShortChains
    <2>6. Fits(m, n - 1)
      BY <1>9, <2>3, <2>5
    <2>7. ~(n - 1 \in 0..(drop - 1))
      BY <1>1, <2>6
    <2>8. drop <= n - 1
      BY <1>2, <2>1, <2>7
    <2>9. Len(R) \in 1..n /\ Len(R) = n - drop
      BY <1>2, <1>6, <2>8
    <2>10. R[Len(R)] = A[n]
      BY <1>2, <1>6, <2>9
    <2>11. R # <<>>
      BY <2>9
    <2>12. QED
      BY <2>1, <2>10, <2>11 DEF Last
  <1>10. Length(R) <= MaxChain
    BY <1>1, <1>3
  <1>11. n - Len(R) \in 0..n /\ R = SubSeq(A, n - Len(R) + 1, n)
    BY <1>1, <1>7
  <1>12. n - Len(R) > 0 => Length(SubSeq(A, n - Len(R), n)) > MaxChain
    BY <1>7, <1>8
  <1>13. QED
    BY <1>6, <1>9, <1>10, <1>11, <1>12 DEF A, n

-----------------------------------------------------------------------------
(* Trees of parts, and how far a walk gets.                                 *)

LEMMA PartsProperties ==
  ASSUME NEW m, IsMessage(m)
  PROVE  /\ Len(m.parts) \in Nat \ {0} /\ DOMAIN m.parts = 1..Len(m.parts)
         /\ \A i \in 1..Len(m.parts) : m.parts[i] \in Part /\ m.parts[i].depth \in Nat /\ m.parts[i].size \in Nat
  <1>1. m.parts \in Seq(Part) /\ m.parts # <<>>
    BY DEF IsMessage, IsTree
  <1>2. Len(m.parts) \in Nat \ {0} /\ DOMAIN m.parts = 1..Len(m.parts)
    BY <1>1, LenProperties, EmptySeq
  <1>3. \A i \in 1..Len(m.parts) : m.parts[i] \in Part
    BY <1>1, ElementOfSeq
  <1>4. QED
    BY <1>2, <1>3 DEF Part

\* A part is no deeper than its place, and only the root is not in another one.
LEMMA Depths ==
  ASSUME NEW m, IsMessage(m), NEW i \in 1..Len(m.parts)
  PROVE  m.parts[i].depth < i /\ (m.parts[i].depth = 0 <=> i = 1)
  <1> DEFINE n == Len(m.parts)
             S == {0} \cup {k \in 1..n : m.parts[k].depth < k}
  <1>1. n \in Nat \ {0} /\ \A k \in 1..n : m.parts[k].depth \in Nat
    BY PartsProperties
  <1>2. /\ m.parts[1].depth = 0
        /\ \A k \in 2..n : m.parts[k].depth \in 1..(m.parts[k - 1].depth + 1)
    BY DEF IsMessage, IsTree
  <1> HIDE DEF n
  <1>3. ASSUME NEW k \in 1..n, k - 1 \in S PROVE k \in S
    <2>1. CASE k = 1
      BY <1>1, <1>2, <2>1
    <2>2. CASE k # 1
      <3>1. k \in 2..n /\ k - 1 \in 1..n
        BY <1>1, <2>2
      <3>2. m.parts[k - 1].depth < k - 1 /\ m.parts[k].depth <= m.parts[k - 1].depth + 1
        BY <1>1, <1>2, <1>3, <2>2, <3>1
      <3>3. /\ m.parts[k].depth \in Nat
            /\ m.parts[k - 1].depth \in Nat
            /\ k \in Nat
        BY <1>1, <3>1
      <3>4. \A a, b, c \in Nat : a < c - 1 /\ b <= a + 1 => b < c
        OBVIOUS
      <3>5. QED
        BY <3>2, <3>3, <3>4, Zenon
    <2>3. QED
      BY <2>1, <2>2
  <1>4. 0..n \subseteq S
    <2>1. \A k \in 1..n : k - 1 \in S => k \in S
      BY <1>3
    <2>2. 0 \in S /\ n \in Nat
      BY <1>1
    <2> HIDE DEF S
    <2>3. QED
      BY <2>1, <2>2, Inductively
  <1>5. i \in 1..n /\ i \in 0..n /\ i # 0
    BY <1>1 DEF n
  <1>6. m.parts[i].depth < i
    BY <1>4, <1>5
  <1>7. m.parts[i].depth = 0 <=> i = 1
    BY <1>1, <1>2, <1>5
  <1>8. QED
    BY <1>6, <1>7

\* The parts a walk counts have their places in order.
LEMMA Places ==
  ASSUME NEW m, IsMessage(m)
  PROVE  /\ Reached(m) \subseteq 1..Len(m.parts) /\ Cardinality(Reached(m)) \in Nat
         /\ \A i \in Reached(m) : Place(m, i) \in 1..Cardinality(Reached(m))
         /\ \A i, j \in Reached(m) : Place(m, i) = Place(m, j) => i = j
  <1>1. Len(m.parts) \in Nat /\ DOMAIN m.parts = 1..Len(m.parts)
    BY PartsProperties
  <1>2. Reached(m) \subseteq 1..Len(m.parts)
    BY <1>1 DEF Reached
  <1>3. Reached(m) \in SUBSET Nat /\ IsFiniteSet(Reached(m))
    <2>1. 1 \in Int /\ Len(m.parts) \in Int
      BY <1>1
    <2>2. IsFiniteSet(1..Len(m.parts))
      BY <2>1, FS_Interval
    <2>3. IsFiniteSet(Reached(m))
      BY <1>2, <2>2, FS_Subset
    <2>4. QED
      BY <1>1, <1>2, <2>3
  <1>4. \A i : Place(m, i) = Rank(Reached(m), i)
    BY DEF Place, Rank
  <1>5. QED
    BY <1>2, <1>3, <1>4, RankProperties

\* A walk that meets no limit comes to every part, and counts them as they stand.
LEMMA WholeWalk ==
  ASSUME NEW m, IsMessage(m), ~Stopped(m)
  PROVE  /\ Reached(m) = 1..Len(m.parts) /\ Opened(m) = 1..Len(m.parts)
         /\ \A i \in 1..Len(m.parts) : Place(m, i) = i
         /\ Len(m.parts) <= MaxParts
  <1> DEFINE n == Len(m.parts)
             S == {0} \cup {k \in 1..n : m.parts[k].depth <= MaxDepth}
  <1>0. MaxDepth \in Nat /\ MaxParts \in Nat
    BY TalkAssumption
  <1>1. n \in Nat \ {0} /\ DOMAIN m.parts = 1..n /\ \A k \in 1..n : m.parts[k].depth \in Nat
    BY PartsProperties
  <1>2. /\ m.parts[1].depth = 0
        /\ \A k \in 2..n : m.parts[k].depth \in 1..(m.parts[k - 1].depth + 1)
    BY DEF IsMessage, IsTree
  <1>3. \A k \in 1..n : m.parts[k].depth <= MaxDepth + 1 => m.parts[k].depth <= MaxDepth
    BY <1>0, <1>1 DEF Stopped, Reached
  <1> HIDE DEF n
  <1>4. ASSUME NEW k \in 1..n, k - 1 \in S PROVE k \in S
    <2>1. CASE k = 1
      BY <1>0, <1>1, <1>2, <2>1
    <2>2. CASE k # 1
      <3>1. k \in 2..n /\ k - 1 \in 1..n
        BY <1>1, <2>2
      <3>2. m.parts[k - 1].depth <= MaxDepth /\ m.parts[k].depth <= m.parts[k - 1].depth + 1
        BY <1>1, <1>2, <1>4, <2>2, <3>1
      <3>3. m.parts[k].depth <= MaxDepth + 1
        BY <1>0, <1>1, <3>1, <3>2
      <3>4. QED
        BY <1>3, <3>3
    <2>3. QED
      BY <2>1, <2>2
  <1>5. 0..n \subseteq S
    <2>1. \A k \in 1..n : k - 1 \in S => k \in S
      BY <1>4
    <2>2. 0 \in S /\ n \in Nat
      BY <1>1
    <2> HIDE DEF S
    <2>3. QED
      BY <2>1, <2>2, Inductively
  <1>6. \A k \in 1..n : m.parts[k].depth <= MaxDepth
    BY <1>1, <1>5
  <1>7. Reached(m) = 1..n
    BY <1>0, <1>1, <1>6 DEF Reached
  <1>8. Cardinality(1..n) = n
    BY <1>1, FS_Interval
  <1>9. n <= MaxParts
    BY <1>0, <1>1, <1>7, <1>8 DEF Stopped
  <1>10. ASSUME NEW k \in 1..n PROVE Place(m, k) = k
    <2>1. {j \in 1..n : j <= k} = 1..k
      BY <1>1
    <2>2. Cardinality(1..k) = k
      BY <1>1, FS_Interval
    <2>3. QED
      BY <1>7, <2>1, <2>2 DEF Place
  <1>11. Opened(m) = 1..n
    BY <1>0, <1>1, <1>6, <1>7, <1>9, <1>10 DEF Opened
  <1>12. QED
    BY <1>7, <1>9, <1>10, <1>11 DEF n

-----------------------------------------------------------------------------
(* Files.                                                                   *)

\* The files of a walk, and those it lists.
FilesMet(m) == {i \in Opened(m) : IsFile(m.parts[i])}
Listed(m) == {i \in FilesMet(m) : Decodes(m.parts[i])}

LEMMA Scan ==
  ASSUME NEW m, NEW selected, m.strict
  PROVE  LET scan == ScanAttachments(m, selected)
         IN  /\ scan.items = {ItemOf(m, i) : i \in Listed(m)}
             /\ scan.incomplete <=> Stopped(m) \/ Broken(m) \/ FilesMet(m) # Listed(m)
             /\ (\E i \in FilesMet(m) : Place(m, i) = selected /\ m.parts[i].encoding # "unknown") =>
                   scan.data = selected
  BY DEF ScanAttachments, FilesMet, Listed

LEMMA ItemsListed ==
  ASSUME NEW m, IsMessage(m)
  PROVE  /\ Listed(m) \subseteq Reached(m)
         /\ \A i, j \in Listed(m) : ItemOf(m, i).id = ItemOf(m, j).id => i = j
         /\ IsFiniteSet(Listed(m))
         /\ Cardinality({ItemOf(m, i) : i \in Listed(m)}) = Cardinality(Listed(m))
  <1> DEFINE L == Listed(m)
             I == {ItemOf(m, i) : i \in L}
             f == [i \in L |-> ItemOf(m, i)]
  <1>1. L \subseteq Reached(m)
    BY DEF Listed, FilesMet, Opened
  <1>2. \A i, j \in L : ItemOf(m, i).id = ItemOf(m, j).id => i = j
    BY <1>1, Places DEF ItemOf
  <1>3. IsFiniteSet(L)
    <2>1. Len(m.parts) \in Nat /\ L \subseteq 1..Len(m.parts)
      BY <1>1, Places, PartsProperties
    <2>2. 1 \in Int /\ Len(m.parts) \in Int
      BY <2>1
    <2>3. IsFiniteSet(1..Len(m.parts))
      BY <2>2, FS_Interval
    <2>4. QED
      BY <2>1, <2>3, FS_Subset
  <1> HIDE DEF L
  <1>4. \A i, j \in L : f[i] = f[j] => i = j
    BY <1>2
  <1>5. f \in [L -> I] /\ \A x \in I : \E i \in L : f[i] = x
    OBVIOUS
  <1> HIDE DEF f, I
  <1>6. f \in Bijection(L, I)
    BY <1>4, <1>5 DEF Bijection, Injection, Surjection, IsInjective
  <1>7. ExistsBijection(L, I)
    BY <1>6 DEF ExistsBijection
  <1>8. Cardinality(I) = Cardinality(L)
    BY <1>3, <1>7, FS_Bijection
  <1>9. QED
    BY <1>1, <1>2, <1>3, <1>8 DEF L, I

\* Files are listed, or said to be missing, and downloads agree with the list.
LEMMA FilesAccounted ==
  ASSUME NEW m, IsMessage(m)
  PROVE  FilesAccountedFor(m)
  <1> DEFINE scan == ScanAttachments(m, 0)
  <1>1. ASSUME m.strict, ~scan.incomplete
        PROVE  Cardinality(scan.items) = Cardinality(FilesOf(m))
    <2>1. ~Stopped(m) /\ FilesMet(m) = Listed(m)
      BY <1>1, Scan
    <2>2. FilesMet(m) = FilesOf(m)
      BY <2>1, WholeWalk, PartsProperties DEF FilesMet, FilesOf
    <2>3. QED
      BY <1>1, <2>1, <2>2, Scan, ItemsListed
  <1>2. ASSUME NEW id \in 1..(MaxParts + 1)
        PROVE  IF \E item \in scan.items : item.id = id
               THEN /\ Attachment(m, id).item \in scan.items /\ Attachment(m, id).item.id = id
                    /\ Attachment(m, id).data = id
               ELSE Attachment(m, id) = NotFound
    <2> DEFINE own == ScanAttachments(m, id)
    <2>1. own.items = scan.items
      BY DEF ScanAttachments
    <2>2. Attachment(m, id) = IF \E item \in own.items : item.id = id
                              THEN [item |-> CHOOSE item \in own.items : item.id = id, data |-> own.data]
                              ELSE NotFound
      BY DEF Attachment
    <2>3. ASSUME NEW item \in scan.items, item.id = id PROVE own.data = id
      <3>1. m.strict
        BY <2>3 DEF ScanAttachments
      <3>2. PICK i \in Listed(m) : item = ItemOf(m, i)
        BY <2>3, <3>1, Scan
      <3>3. i \in FilesMet(m) /\ Place(m, i) = id /\ m.parts[i].encoding # "unknown"
        BY <2>3, <3>2 DEF Listed, ItemOf, Decodes
      <3>4. QED
        BY <3>1, <3>3, Scan
    <2> HIDE DEF own, scan
    <2>4. QED
      BY <2>1, <2>2, <2>3
  <1>3. QED
    BY <1>1, <1>2 DEF FilesAccountedFor

\* A name is cleaned, and never empty, a path or too long.
LEMMA SafeNames ==
  ASSUME NEW name \in Header
  PROVE  /\ Len(SafeName(name)) \in 1..NameLimit
         /\ SafeName(name) \notin {<<".">>, <<".", ".">>}
         /\ Range(SafeName(name)) \cap {"/", "\\", "control"} = {}
  <1> DEFINE text == DecodeHeader(name)
             bad == {"/", "\\", "control"}
             own == <<"attachment", "-", "id">>
             Y == ({text[i] : i \in DOMAIN text} \cup {"_", "attachment", "-", "id"}) \ bad
             clean == [i \in DOMAIN text |-> IF text[i] \in bad THEN "_" ELSE text[i]]
             given == IF clean \in {<<>>, <<".">>, <<".", ".">>} THEN own ELSE clean
             n == IF Len(given) > NameLimit THEN NameLimit ELSE Len(given)
  <1>0. NameLimit \in Nat /\ NameLimit >= 3
    BY TalkAssumption
  <1>1. DOMAIN text = 1..Len(text) /\ Len(text) \in Nat
    <2>1. name.text \in Seq(Word)
      BY DEF Header, Text
    <2>2. CASE name.coding = "unknown"
      <3>1. text = <<"=?">>
        BY <2>2 DEF DecodeHeader
      <3> HIDE DEF text
      <3>2. QED
        BY <3>1
    <2>3. CASE name.coding # "unknown"
      <3>1. text = name.text
        BY <2>3 DEF DecodeHeader
      <3> HIDE DEF text
      <3>2. QED
        BY <2>1, <3>1, LenProperties
    <2>4. QED
      BY <2>2, <2>3
  <1>2. SafeName(name) = SubSeq(given, 1, n)
    BY DEF SafeName
  <1> HIDE DEF text
  <1>3. clean \in Seq(Y)
    <2>1. \A i \in 1..Len(text) : (IF text[i] \in bad THEN "_" ELSE text[i]) \in Y
      BY <1>1
    <2> HIDE DEF Y, bad
    <2>2. clean \in [1..Len(text) -> Y]
      BY <1>1, <2>1
    <2> HIDE DEF clean
    <2>3. QED
      BY <1>1, <2>2, SeqDef
  <1>4. own \in Seq(Y) /\ own \notin {<<>>, <<".">>, <<".", ".">>} /\ Len(own) = 3
    <2>1. {"attachment", "-", "id"} \subseteq Y
      OBVIOUS
    <2> HIDE DEF Y
    <2>2. own \in Seq(Y)
      BY <2>1
    <2>3. QED
      BY <2>2
  <1> HIDE DEF clean, own
  <1>5. given \in Seq(Y) /\ given \notin {<<>>, <<".">>, <<".", ".">>}
    <2> HIDE DEF Y
    <2>1. QED
      BY <1>3, <1>4
  <1>6. Range(SafeName(name)) \cap bad = {} /\ Len(SafeName(name)) = n /\ n \in 1..NameLimit
    <2>1. Y \cap bad = {}
      OBVIOUS
    <2> HIDE DEF Y, given, bad
    <2>2. Len(given) \in Nat \ {0}
      BY <1>5, LenProperties, EmptySeq
    <2>3. n \in 1..NameLimit /\ n <= Len(given)
      BY <1>0, <2>2
    <2> HIDE DEF n
    <2>4. \A i \in 1..n : given[i] \in Y
      BY <1>5, <2>2, <2>3, ElementOfSeq
    <2>5. SubSeq(given, 1, n) \in Seq(Y) /\ Len(SubSeq(given, 1, n)) = n
      BY <1>0, <2>2, <2>3, <2>4, SubSeqProperties
    <2>6. Range(SubSeq(given, 1, n)) \subseteq Y
      BY <2>5, LenProperties, ElementOfSeq DEF Range
    <2>7. QED
      BY <1>2, <2>1, <2>3, <2>5, <2>6
  <1>7. SafeName(name) \notin {<<".">>, <<".", ".">>}
    <2> HIDE DEF Y, given
    <2>1. Len(given) \in Nat /\ SafeName(name) = SubSeq(given, 1, n)
      BY <1>2, <1>5, LenProperties
    <2>2. CASE Len(given) > NameLimit
      <3>1. Len(SafeName(name)) = NameLimit
        BY <1>6, <2>2
      <3>2. Len(<<".">>) = 1 /\ Len(<<".", ".">>) = 2
        OBVIOUS
      <3>3. Len(SafeName(name)) # 1 /\ Len(SafeName(name)) # 2
        BY <1>0, <3>1
      <3>4. QED
        BY <3>2, <3>3, Zenon
    <2>3. CASE ~(Len(given) > NameLimit)
      <3>1. SafeName(name) = SubSeq(given, 1, Len(given))
        BY <2>1, <2>3
      <3>2. SubSeq(given, 1, Len(given)) = given
        BY <1>5, SubSeqFull
      <3>3. QED
        BY <1>5, <3>1, <3>2
    <2>4. QED
      BY <2>2, <2>3
  <1>8. QED
    BY <1>6, <1>7

\* So are the names of all files.
LEMMA NamesStayNames ==
  ASSUME NEW m, IsMessage(m)
  PROVE  NamesAreNames(m)
  <1> SUFFICES ASSUME NEW item \in ScanAttachments(m, 0).items
               PROVE  /\ Len(item.name) \in 1..NameLimit
                      /\ item.name \notin {<<".">>, <<".", ".">>}
                      /\ Range(item.name) \cap {"/", "\\", "control"} = {}
    BY DEF NamesAreNames
  <1>1. m.strict
    BY DEF ScanAttachments
  <1>2. PICK i \in Listed(m) : item = ItemOf(m, i)
    BY <1>1, Scan
  <1>3. i \in 1..Len(m.parts) /\ item.name = SafeName(m.parts[i].name)
    BY <1>2, ItemsListed, Places DEF ItemOf
  <1>4. m.parts[i].name \in Header
    BY <1>3, PartsProperties DEF Part
  <1>5. QED
    BY <1>3, <1>4, SafeNames

-----------------------------------------------------------------------------
(* Bodies.                                                                  *)

BodyWalk(m) == [skip : 0..Len(m.parts), text : [of : 0..Len(m.parts), bytes : Nat],
                html : [of : 0..Len(m.parts), bytes : Nat]]
BodyStart(m) == [skip |-> Len(m.parts), text |-> NoBody, html |-> NoBody]

LEMMA BodyProperties ==
  ASSUME NEW m, IsMessage(m), NEW i \in 1..Len(m.parts)
  PROVE  /\ Body(m, i) \in [of : 0..Len(m.parts), bytes : Nat]
         /\ m.parts[i].size = 0 => Body(m, i) = NoBody
         /\ m.parts[i].size > 0 => Body(m, i).of = i /\ Body(m, i) # NoBody
  <1>1. Len(m.parts) \in Nat /\ m.parts[i].size \in Nat /\ MaxBodyBytes \in Nat
    BY PartsProperties, TalkAssumption
  <1>2. NoBody \in [of : 0..Len(m.parts), bytes : Nat]
    BY <1>1 DEF NoBody
  <1>3. CASE m.parts[i].size = 0
    BY <1>2, <1>3 DEF Body
  <1>4. CASE m.parts[i].size # 0
    <2>1. Body(m, i) = [of |-> i, bytes |-> IF m.parts[i].size > MaxBodyBytes THEN MaxBodyBytes ELSE m.parts[i].size]
      BY <1>4 DEF Body
    <2>2. Body(m, i).of = i
      BY <2>1
    <2>3. NoBody.of = 0 /\ i # 0
      BY <1>1 DEF NoBody
    <2>4. QED
      BY <1>1, <1>4, <2>1, <2>2, <2>3
  <1>5. QED
    BY <1>3, <1>4

LEMMA CollectTyped ==
  ASSUME NEW m, IsMessage(m), NEW walk \in BodyWalk(m), NEW i \in 1..Len(m.parts)
  PROVE  Collect(m, walk, i) \in BodyWalk(m)
  <1>1. Len(m.parts) \in Nat /\ m.parts[i].depth \in 0..Len(m.parts)
    BY PartsProperties, Depths
  <1>2. Body(m, i) \in [of : 0..Len(m.parts), bytes : Nat]
    BY BodyProperties
  <1>3. \A skip \in 0..Len(m.parts) : [walk EXCEPT !.skip = skip] \in BodyWalk(m)
    BY DEF BodyWalk
  <1> DEFINE away == [walk EXCEPT !.skip = Len(m.parts)]
  <1>4. away \in BodyWalk(m)
    BY <1>1, <1>3
  <1>5. [away EXCEPT !.text = Body(m, i)] \in BodyWalk(m) /\ [away EXCEPT !.html = Body(m, i)] \in BodyWalk(m)
    <2> HIDE DEF away
    <2>1. QED
      BY <1>2, <1>4 DEF BodyWalk
  <1>6. QED
    BY <1>1, <1>3, <1>4, <1>5 DEF Collect

\* The walk over the parts, step by step.
LEMMA CollectSteps ==
  ASSUME NEW m, IsMessage(m)
  PROVE  \E f \in [0..Len(m.parts) -> BodyWalk(m)] :
            /\ f[0] = BodyStart(m)
            /\ \A i \in 1..Len(m.parts) : f[i] = Collect(m, f[i - 1], i)
            /\ CollectBodies(m) = f[Len(m.parts)]
  <1> DEFINE n == Len(m.parts)
             X == BodyWalk(m)
             step == [i \in 1..n |-> [x \in X |-> Collect(m, x, i)]]
             walk == CHOOSE f : f = [i \in 0..n |-> IF i = 0 THEN BodyStart(m) ELSE Collect(m, f[i - 1], i)]
  <1>1. n \in Nat
    BY PartsProperties
  <1>2. BodyStart(m) \in X
    BY <1>1 DEF BodyStart, BodyWalk, NoBody
  <1>3. \A i \in 1..n, x \in X : Collect(m, x, i) \in X
    BY CollectTyped
  <1>4. CollectBodies(m) = walk[n]
    BY DEF CollectBodies, BodyStart
  <1> HIDE DEF X, n
  <1>5. Steps(step, n, X) /\ \A i \in 1..n, x \in X : step[i][x] = Collect(m, x, i)
    BY <1>3 DEF Steps
  <1> HIDE DEF step, walk
  <1>6. PICK f \in [0..n -> X] : Stepwise(f, BodyStart(m), step, n)
    <2>1. Reaches(BodyStart(m), step, n, X)
      BY <1>1, <1>2, <1>5, StepByStep
    <2>2. QED
      BY <2>1 DEF Reaches
  <1>7. f[0] = BodyStart(m) /\ \A i \in 1..n : f[i] = Collect(m, f[i - 1], i) /\ f[i - 1] \in X
    <2>1. \A i \in 1..n : f[i] = step[i][f[i - 1]] /\ f[i - 1] \in X
      BY <1>1, <1>6 DEF Stepwise
    <2>2. QED
      BY <1>5, <1>6, <2>1 DEF Stepwise
  <1>8. f = [i \in 0..n |-> IF i = 0 THEN BodyStart(m) ELSE Collect(m, f[i - 1], i)]
    BY <1>1, <1>6, <1>7
  <1>9. walk = [i \in 0..n |-> IF i = 0 THEN BodyStart(m) ELSE Collect(m, walk[i - 1], i)]
    BY <1>8 DEF walk
  <1>10. walk[0] = BodyStart(m) /\ \A i \in 1..n : walk[i] = Collect(m, walk[i - 1], i)
    BY <1>1, <1>9
  <1>11. \A i \in 0..n : walk[i] \in X
    <2> DEFINE S == {i \in 0..n : walk[i] \in X}
    <2>1. \A i \in 1..n : i - 1 \in S => i \in S
      BY <1>1, <1>3, <1>10
    <2>2. 0 \in S
      BY <1>1, <1>2, <1>10
    <2> HIDE DEF S
    <2>3. 0..n \subseteq S
      BY <1>1, <2>1, <2>2, Inductively
    <2>4. QED
      BY <2>3 DEF S
  <1>12. walk \in [0..n -> X]
    BY <1>9, <1>11
  <1>13. QED
    BY <1>4, <1>10, <1>12 DEF X, n

\* What the walk has found after k parts is the first body there is.
Found(m, body, type, k) ==
    /\ body = NoBody => \A j \in 1..k : j \notin Readable(m, type)
    /\ body # NoBody => /\ body.of \in 1..k /\ body.of \in Readable(m, type)
                        /\ \A j \in 1..k : j \in Readable(m, type) => body.of <= j

\* A damaged part that still hides what comes after part k.
Active(m, j, k) ==
    Undecodable(m.parts[j]) /\ \A l \in (j + 1)..k : m.parts[l].depth >= m.parts[j].depth

\* What it skips is what is hidden by the outermost of them.
Skips(m, skip, k) ==
    /\ skip < Len(m.parts) => \E j \in 1..k : Active(m, j, k) /\ m.parts[j].depth = skip
    /\ \A j \in 2..k : Active(m, j, k) => m.parts[j].depth >= skip

\* A damaged root is all there is.
LEMMA LoneRoot ==
  ASSUME NEW m, IsMessage(m), Undecodable(m.parts[1])
  PROVE  Len(m.parts) = 1
  <1>1. Len(m.parts) \in Nat \ {0}
    BY PartsProperties
  <1> SUFFICES ASSUME Len(m.parts) # 1 PROVE FALSE
    OBVIOUS
  <1> DEFINE n == Len(m.parts)
  <1>2. 2 \in 2..n
    <2>1. n \in Nat \ {0} /\ n # 1
      BY <1>1
    <2> HIDE DEF n
    <2>2. QED
      BY <2>1
  <1>3. m.parts[2].depth \in 1..(m.parts[2 - 1].depth + 1) /\ m.parts[1].depth = 0
        /\ (m.parts[2].depth > m.parts[2 - 1].depth => m.parts[2 - 1].type = "multipart")
    BY <1>2 DEF IsMessage, IsTree
  <1>4. m.parts[1].type = "multipart"
    BY <1>3
  <1>5. QED
    BY <1>4 DEF Undecodable

LEMMA HiddenIsActive ==
  ASSUME NEW m, NEW i \in Nat \ {0}
  PROVE  Hidden(m, i) <=> \E j \in 1..(i - 1) : Active(m, j, i)
  BY DEF Hidden, Active

\* One part of the walk.
LEMMA CollectStep ==
  ASSUME NEW m, IsMessage(m), NEW walk \in BodyWalk(m), NEW i \in 1..Len(m.parts),
         Skips(m, walk.skip, i - 1),
         Found(m, walk.text, "text/plain", i - 1), Found(m, walk.html, "text/html", i - 1)
  PROVE  LET next == Collect(m, walk, i)
         IN  /\ Skips(m, next.skip, i)
             /\ Found(m, next.text, "text/plain", i) /\ Found(m, next.html, "text/html", i)
  <1> DEFINE p == m.parts[i]
             n == Len(m.parts)
             next == Collect(m, walk, i)
             away == [walk EXCEPT !.skip = n]
  <1>1. n \in Nat \ {0} /\ i \in 1..n /\ \A j \in 1..n : m.parts[j].depth \in Nat /\ m.parts[j].depth < n
                                                  /\ (m.parts[j].depth = 0 <=> j = 1)
    <2>1. \A j \in 1..n : m.parts[j].depth \in Nat /\ m.parts[j].depth < j /\ (m.parts[j].depth = 0 <=> j = 1)
      BY Depths, PartsProperties
    <2>2. n \in Nat \ {0}
      BY PartsProperties
    <2> HIDE DEF n
    <2>3. QED
      BY <2>1, <2>2 DEF n
  <1>2. walk.skip \in 0..n
    BY DEF BodyWalk
  <1>3. next = IF p.depth >= walk.skip THEN walk
               ELSE IF Undecodable(p) /\ p.depth > 0 THEN [walk EXCEPT !.skip = p.depth]
               ELSE IF IsBody(p, "text/plain") /\ walk.text = NoBody THEN [away EXCEPT !.text = Body(m, i)]
               ELSE IF IsBody(p, "text/html") /\ walk.html = NoBody THEN [away EXCEPT !.html = Body(m, i)]
               ELSE away
    BY DEF Collect
  <1>4. \A j \in 1..(i - 1) : Active(m, j, i) <=> Active(m, j, i - 1) /\ p.depth >= m.parts[j].depth
    BY <1>1 DEF Active
  <1>5. Active(m, i, i) <=> Undecodable(p)
    BY <1>1 DEF Active
  <1>6. \A type : i \notin Readable(m, type) =>
           \A body : Found(m, body, type, i - 1) => Found(m, body, type, i)
    BY <1>1 DEF Found
  <1>7. Hidden(m, i) <=> \E j \in 1..(i - 1) : Active(m, j, i)
    BY <1>1, HiddenIsActive
  <1>8. /\ \A j \in 2..(i - 1) : Active(m, j, i - 1) => m.parts[j].depth >= walk.skip
        /\ walk.skip < n => \E j \in 1..(i - 1) : Active(m, j, i - 1) /\ m.parts[j].depth = walk.skip
    BY DEF Skips
  <1> HIDE DEF next, n
  <1>9. CASE p.depth >= walk.skip
    <2>1. next = walk
      BY <1>3, <1>9
    <2>2. PICK j \in 1..(i - 1) : Active(m, j, i - 1) /\ m.parts[j].depth = walk.skip
      BY <1>1, <1>2, <1>8, <1>9
    <2>3. Active(m, j, i) /\ j \in 1..i
      BY <1>1, <1>4, <1>9, <2>2
    <2>4. \A type : i \notin Readable(m, type)
      BY <1>7, <2>3 DEF Readable, LostInSilence
    <2>5. \A l \in 2..i : Active(m, l, i) => m.parts[l].depth >= walk.skip
      <3>1. \A l \in 2..i : l = i \/ (l \in 2..(i - 1) /\ l \in 1..(i - 1))
        BY <1>1
      <3>2. QED
        BY <1>4, <1>8, <1>9, <3>1
    <2>6. Skips(m, walk.skip, i)
      BY <2>2, <2>3, <2>5 DEF Skips
    <2>7. QED
      BY <1>6, <2>1, <2>4, <2>6 DEF next
  <1>10. CASE p.depth < walk.skip
    \* No earlier part hides this one.
    <2>1. \A j \in 1..(i - 1) : ~Active(m, j, i)
      <3> SUFFICES ASSUME NEW j \in 1..(i - 1), Active(m, j, i) PROVE FALSE
        OBVIOUS
      <3>1. Active(m, j, i - 1) /\ p.depth >= m.parts[j].depth
        BY <1>4
      <3>2. CASE j = 1
        <4>1. n = 1
          BY <3>2, LoneRoot DEF Active, n
        <4>2. QED
          BY <1>1, <3>2, <4>1
      <3>3. CASE j # 1
        <4>1. j \in 2..(i - 1) /\ j \in 1..n
          BY <1>1, <3>3
        <4>2. m.parts[j].depth >= walk.skip /\ m.parts[j].depth \in Nat /\ p.depth \in Nat
          BY <1>1, <1>8, <3>1, <4>1
        <4>3. QED
          BY <1>2, <1>1, <1>10, <3>1, <4>2
      <3>4. QED
        BY <3>2, <3>3
    <2>2. ~Hidden(m, i)
      BY <1>7, <2>1
    <2>3. \A j \in 2..i : Active(m, j, i) => j = i
      BY <1>1, <2>1
    <2>4. CASE Undecodable(p) /\ p.depth > 0
      <3>1. next = [walk EXCEPT !.skip = p.depth]
        BY <1>1, <1>2, <1>3, <1>10, <2>4
      <3>2. next.skip = p.depth /\ next.text = walk.text /\ next.html = walk.html
        BY <3>1 DEF BodyWalk
      <3>3. \A type : i \notin Readable(m, type)
        BY <1>1, <2>4 DEF Readable, LostInSilence
      <3>4. Skips(m, p.depth, i)
        BY <1>1, <1>5, <2>3, <2>4 DEF Skips
      <3>5. QED
        BY <1>6, <3>2, <3>3, <3>4 DEF next
    <2>5. CASE ~(Undecodable(p) /\ p.depth > 0)
      <3>1. \A type : i \in Readable(m, type) <=> IsBody(p, type) /\ p.size > 0
        <4>1. ~Undecodable(p) \/ i = 1
          BY <1>1, <2>5
        <4>2. i \in DOMAIN m.parts
          BY PartsProperties
        <4>3. QED
          BY <2>2, <4>1, <4>2 DEF Readable, LostInSilence
      <3>2. Skips(m, n, i)
        BY <1>1, <1>5, <2>3, <2>5 DEF Skips, n
      <3>3. away.skip = n /\ away.text = walk.text /\ away.html = walk.html
        BY DEF BodyWalk
      <3>4. \A type, body : ~IsBody(p, type) /\ Found(m, body, type, i - 1) => Found(m, body, type, i)
        BY <1>6, <3>1
      <3>5. \A type, body : body # NoBody /\ Found(m, body, type, i - 1) => Found(m, body, type, i)
        BY <1>1 DEF Found
      <3>6. \A type : IsBody(p, type) /\ Found(m, NoBody, type, i - 1) => Found(m, Body(m, i), type, i)
        <4> SUFFICES ASSUME NEW type, IsBody(p, type), Found(m, NoBody, type, i - 1)
                     PROVE  Found(m, Body(m, i), type, i)
          OBVIOUS
        <4>1. p.size \in Nat
          BY PartsProperties
        <4>2. \A j \in 1..(i - 1) : j \notin Readable(m, type)
          BY DEF Found
        <4>3. CASE p.size = 0
          <5>1. Body(m, i) = NoBody /\ i \notin Readable(m, type)
            BY <3>1, <4>3, BodyProperties
          <5>2. QED
            BY <1>6, <5>1
        <4>4. CASE p.size > 0
          <5>1. Body(m, i) # NoBody /\ Body(m, i).of = i /\ i \in Readable(m, type)
            BY <3>1, <4>4, BodyProperties
          <5>2. \A j \in 1..i : j \in Readable(m, type) => i <= j
            BY <1>1, <4>2
          <5>3. QED
            BY <1>1, <5>1, <5>2 DEF Found
        <4>5. QED
          BY <4>1, <4>3, <4>4
      <3>7. next = IF IsBody(p, "text/plain") /\ walk.text = NoBody THEN [away EXCEPT !.text = Body(m, i)]
                   ELSE IF IsBody(p, "text/html") /\ walk.html = NoBody THEN [away EXCEPT !.html = Body(m, i)]
                   ELSE away
        BY <1>1, <1>2, <1>3, <1>10, <2>5
      <3>8. ~(IsBody(p, "text/plain") /\ IsBody(p, "text/html"))
        BY DEF IsBody
      <3>9. Found(m, walk.text, "text/plain", i - 1) /\ Found(m, walk.html, "text/html", i - 1)
        OBVIOUS
      <3>10. CASE IsBody(p, "text/plain") /\ walk.text = NoBody
        <4>1. next.skip = n /\ next.text = Body(m, i) /\ next.html = walk.html
          BY <3>3, <3>7, <3>10 DEF BodyWalk
        <4>2. QED
          BY <3>2, <3>4, <3>6, <3>8, <3>9, <3>10, <4>1 DEF next
      <3>11. CASE IsBody(p, "text/html") /\ walk.html = NoBody
        <4>1. next.skip = n /\ next.text = walk.text /\ next.html = Body(m, i)
          BY <3>3, <3>7, <3>8, <3>11 DEF BodyWalk
        <4>2. QED
          BY <3>2, <3>4, <3>6, <3>8, <3>9, <3>11, <4>1 DEF next
      <3>12. CASE ~(IsBody(p, "text/plain") /\ walk.text = NoBody) /\ ~(IsBody(p, "text/html") /\ walk.html = NoBody)
        <4>1. next.skip = n /\ next.text = walk.text /\ next.html = walk.html
          BY <3>3, <3>7, <3>12
        <4>2. QED
          BY <3>2, <3>4, <3>5, <3>9, <3>12, <4>1 DEF next
      <3>13. QED
        BY <3>10, <3>11, <3>12
    <2>6. QED
      BY <2>4, <2>5
  <1>11. QED
    BY <1>1, <1>2, <1>9, <1>10

\* After all parts it has found the first bodies there are.
LEMMA FirstBodies ==
  ASSUME NEW m, IsMessage(m)
  PROVE  BodiesAreFirst(m)
  <1> DEFINE n == Len(m.parts)
             first(S) == IF S = {} THEN 0 ELSE Min(S)
  <1>1. n \in Nat \ {0} /\ DOMAIN m.parts = 1..n
    BY PartsProperties
  <1>2. PICK f \in [0..n -> BodyWalk(m)] :
           f[0] = BodyStart(m) /\ (\A i \in 1..n : f[i] = Collect(m, f[i - 1], i)) /\ CollectBodies(m) = f[n]
    BY CollectSteps
  <1> DEFINE Right(k) == /\ Skips(m, f[k].skip, k)
                         /\ Found(m, f[k].text, "text/plain", k) /\ Found(m, f[k].html, "text/html", k)
             S == {k \in 0..n : Right(k)}
  <1>3. Right(0)
    <2>1. f[0].skip = n /\ f[0].text = NoBody /\ f[0].html = NoBody
      BY <1>2 DEF BodyStart
    <2>2. \A type : Found(m, NoBody, type, 0)
      BY DEF Found
    <2>3. Skips(m, n, 0)
      BY <1>1 DEF Skips
    <2>4. QED
      BY <2>1, <2>2, <2>3
  <1>4. \A i \in 1..n : Right(i - 1) => Right(i)
    <2>1. \A i \in 1..n : f[i - 1] \in BodyWalk(m) /\ f[i] = Collect(m, f[i - 1], i)
      BY <1>1, <1>2
    <2>2. QED
      BY <2>1, CollectStep
  <1> HIDE DEF Right
  <1>5. 0 \in S /\ \A i \in 1..n : i - 1 \in S => i \in S
    BY <1>1, <1>3, <1>4
  <1>6. n \in S
    <2> HIDE DEF S, n
    <2>1. n \in 0..n
      BY <1>1
    <2>2. QED
      BY <1>1, <1>5, <2>1, Inductively
  <1>7. Found(m, CollectBodies(m).text, "text/plain", n) /\ Found(m, CollectBodies(m).html, "text/html", n)
    BY <1>2, <1>6 DEF Right
  <1>8. ASSUME NEW body, NEW type, Found(m, body, type, n)
        PROVE  body.of = first(Readable(m, type))
    <2>1. Readable(m, type) \subseteq 1..n
      BY <1>1 DEF Readable
    <2>2. CASE body = NoBody
      <3>1. Readable(m, type) = {} /\ body.of = 0
        BY <1>8, <2>1, <2>2 DEF Found, NoBody
      <3>2. QED
        BY <3>1
    <2>3. CASE body # NoBody
      <3>1. body.of \in Readable(m, type) /\ \A j \in Readable(m, type) : body.of <= j
        BY <1>8, <2>1, <2>3 DEF Found
      <3>2. \A x \in Readable(m, type) : (\A y \in Readable(m, type) : x <= y) => x = body.of
        BY <1>1, <2>1, <3>1
      <3>3. Min(Readable(m, type)) = body.of
        BY <3>1, <3>2 DEF Min
      <3>4. QED
        BY <3>1, <3>3
    <2>4. QED
      BY <2>2, <2>3
  <1>9. m.lenient => Parse(m).text = CollectBodies(m).text /\ Parse(m).html = CollectBodies(m).html
    BY DEF Parse
  <1>10. m.lenient => /\ Parse(m).text.of = first(Readable(m, "text/plain"))
                      /\ Parse(m).html.of = first(Readable(m, "text/html"))
    BY <1>7, <1>8, <1>9
  <1>11. ~m.lenient => Parse(m).text.of = 0 /\ Parse(m).html.of = 0
    BY DEF Parse, NoBody
  <1>12. QED
    BY <1>10, <1>11 DEF BodiesAreFirst

-----------------------------------------------------------------------------
(* Inline media.                                                            *)

\* What is used up is the sum of what was taken.
LEMMA UsedUp ==
  ASSUME NEW n \in Nat, NEW w \in [1..n -> Nat], NEW left \in [0..n -> Nat],
         \A i \in 1..n : left[i] + w[i] = left[i - 1]
  PROVE  Total(w) + left[n] = left[0]
  <1>1. PICK f \in [0..n -> Nat] : f[0] = 0 /\ (\A i \in 1..n : f[i] = f[i - 1] + w[i]) /\ Total(w) = f[n]
    BY TotalSteps
  <1> DEFINE S == {i \in 0..n : f[i] + left[i] = left[0]}
  <1>2. 0 \in S
    BY <1>1
  <1>3. ASSUME NEW i \in 1..n, i - 1 \in S PROVE i \in S
    <2>1. i - 1 \in 0..n /\ i \in 0..n /\ 0 \in 0..n
      OBVIOUS
    <2>2. f[i - 1] \in Nat /\ left[i - 1] \in Nat /\ w[i] \in Nat /\ left[i] \in Nat /\ left[0] \in Nat
      BY <2>1
    <2>3. f[i - 1] + left[i - 1] = left[0] /\ f[i] = f[i - 1] + w[i] /\ left[i] + w[i] = left[i - 1]
      BY <1>1, <1>3
    <2>4. QED
      BY <2>1, <2>2, <2>3
  <1>4. n \in S
    <2>1. \A i \in 1..n : i - 1 \in S => i \in S
      BY <1>3
    <2>2. n \in 0..n
      OBVIOUS
    <2> HIDE DEF S
    <2>3. QED
      BY <1>2, <2>1, <2>2, Inductively
  <1>5. QED
    BY <1>1, <1>4

Shown(m) == [cid : Word, of : 1..Len(m.parts)]
View(m) == [remaining : Nat, omitted : BOOLEAN, shown : SUBSET Shown(m)]
ViewStart(m) == [remaining |-> InlineBudget, omitted |-> Stopped(m) \/ Broken(m), shown |-> {}]

\* What happens to one part: nothing, it is left out, or it is shown.
LEMMA InlineCases ==
  ASSUME NEW m, IsMessage(m), NEW view \in View(m), NEW i \in 1..Len(m.parts)
  PROVE  LET p == m.parts[i]
             next == Inline(m, view, i)
         IN  /\ next \in View(m)
             /\ \/ /\ next = view
                   /\ \/ i \notin Opened(m) \/ p.type = "multipart" \/ p.cid = "none"
                      \/ \E s \in view.shown : s.cid = p.cid
                \/ next.omitted /\ next.remaining = view.remaining /\ next.shown = view.shown
                \/ /\ next.omitted = view.omitted
                   /\ next.remaining + p.size = view.remaining
                   /\ next.shown = view.shown \cup {[cid |-> p.cid, of |-> i]}
                   /\ Harmless(p) /\ \A s \in view.shown : s.cid # p.cid
  <1> DEFINE p == m.parts[i]
             next == Inline(m, view, i)
             item == [cid |-> p.cid, of |-> i]
             out == [view EXCEPT !.omitted = TRUE]
             in == [view EXCEPT !.remaining = view.remaining - p.size, !.shown = view.shown \cup {item}]
             passed == i \notin Opened(m) \/ p.type = "multipart" \/ p.cid = "none"
             refused == ~Harmless(p) \/ p.garbled \/ p.size > InlineLimit \/ p.size > view.remaining
             there == \E s \in view.shown : s.cid = p.cid
  <1>1. p.size \in Nat /\ p.cid \in Word
    BY PartsProperties DEF Part
  <1>2. view.remaining \in Nat /\ view.omitted \in BOOLEAN /\ view.shown \in SUBSET Shown(m)
    BY DEF View
  <1>3. next = IF passed THEN view ELSE IF refused THEN out ELSE IF there THEN view ELSE in
    BY DEF Inline
  <1>4. item \in Shown(m)
    BY <1>1 DEF Shown
  <1>5. out \in View(m) /\ out.omitted /\ out.remaining = view.remaining /\ out.shown = view.shown
    BY DEF View
  <1>6. in.omitted = view.omitted /\ in.remaining = view.remaining - p.size /\ in.shown = view.shown \cup {item}
    BY DEF View
  <1>7. ~refused => Harmless(p) /\ p.size <= view.remaining
    BY <1>1, <1>2
  <1>8. ~refused => view.remaining - p.size \in Nat /\ view.remaining - p.size + p.size = view.remaining
    BY <1>1, <1>2, <1>7
  <1> HIDE DEF p, item
  <1>9. ~refused => in \in View(m)
    <2>1. view.shown \cup {item} \in SUBSET Shown(m)
      BY <1>2, <1>4
    <2> HIDE DEF refused
    <2>2. QED
      BY <1>8, <2>1 DEF View
  <1> HIDE DEF out, in, next, refused
  <1>10. CASE passed
    BY <1>3, <1>10 DEF next, p, item
  <1>11. CASE ~passed /\ refused
    <2>1. next = out
      BY <1>3, <1>11
    <2>2. QED
      BY <1>5, <2>1 DEF next
  <1>12. CASE ~passed /\ ~refused /\ there
    <2>1. next = view
      BY <1>3, <1>12
    <2>2. QED
      BY <1>12, <2>1 DEF next, p
  <1>13. CASE ~passed /\ ~refused /\ ~there
    <2>1. next = in
      BY <1>3, <1>13
    <2>2. \A s \in view.shown : s.cid # p.cid
      BY <1>13
    <2>3. in \in View(m) /\ Harmless(p) /\ in.remaining + p.size = view.remaining
      BY <1>6, <1>7, <1>8, <1>9, <1>13
    <2>4. QED
      BY <1>6, <2>1, <2>2, <2>3 DEF next, p, item
  <1>14. QED
    BY <1>10, <1>11, <1>12, <1>13

\* The walk over the parts, step by step.
LEMMA InlineSteps ==
  ASSUME NEW m, IsMessage(m)
  PROVE  \E f \in [0..Len(m.parts) -> View(m)] :
            /\ f[0] = ViewStart(m)
            /\ \A i \in 1..Len(m.parts) : f[i] = Inline(m, f[i - 1], i)
            /\ InlineMedia(m) = f[Len(m.parts)]
  <1> DEFINE n == Len(m.parts)
             X == View(m)
             step == [i \in 1..n |-> [x \in X |-> Inline(m, x, i)]]
             view == CHOOSE f : f = [i \in 0..n |-> IF i = 0 THEN ViewStart(m) ELSE Inline(m, f[i - 1], i)]
  <1>1. n \in Nat
    BY PartsProperties
  <1>2. ViewStart(m) \in X
    <2>1. InlineBudget \in Nat /\ (Stopped(m) \/ Broken(m)) \in BOOLEAN /\ {} \in SUBSET Shown(m)
      BY TalkAssumption DEF Stopped, Broken
    <2>2. QED
      BY <2>1 DEF ViewStart, View
  <1>3. \A i \in 1..n, x \in X : Inline(m, x, i) \in X
    BY InlineCases
  <1>4. InlineMedia(m) = view[n]
    BY DEF InlineMedia, ViewStart
  <1> HIDE DEF X, n
  <1>5. Steps(step, n, X) /\ \A i \in 1..n, x \in X : step[i][x] = Inline(m, x, i)
    BY <1>3 DEF Steps
  <1> HIDE DEF step, view
  <1>6. PICK f \in [0..n -> X] : Stepwise(f, ViewStart(m), step, n)
    <2>1. Reaches(ViewStart(m), step, n, X)
      BY <1>1, <1>2, <1>5, StepByStep
    <2>2. QED
      BY <2>1 DEF Reaches
  <1>7. f[0] = ViewStart(m) /\ \A i \in 1..n : f[i] = Inline(m, f[i - 1], i) /\ f[i - 1] \in X
    <2>1. \A i \in 1..n : f[i] = step[i][f[i - 1]] /\ f[i - 1] \in X
      BY <1>1, <1>6 DEF Stepwise
    <2>2. QED
      BY <1>5, <1>6, <2>1 DEF Stepwise
  <1>8. f = [i \in 0..n |-> IF i = 0 THEN ViewStart(m) ELSE Inline(m, f[i - 1], i)]
    BY <1>1, <1>6, <1>7
  <1>9. view = [i \in 0..n |-> IF i = 0 THEN ViewStart(m) ELSE Inline(m, view[i - 1], i)]
    BY <1>8 DEF view
  <1>10. view[0] = ViewStart(m) /\ \A i \in 1..n : view[i] = Inline(m, view[i - 1], i)
    BY <1>1, <1>9
  <1>11. \A i \in 0..n : view[i] \in X
    <2> DEFINE S == {i \in 0..n : view[i] \in X}
    <2>1. \A i \in 1..n : i - 1 \in S => i \in S
      BY <1>1, <1>3, <1>10
    <2>2. 0 \in S
      BY <1>1, <1>2, <1>10
    <2> HIDE DEF S
    <2>3. 0..n \subseteq S
      BY <1>1, <2>1, <2>2, Inductively
    <2>4. QED
      BY <2>3 DEF S
  <1>12. view \in [0..n -> X]
    BY <1>9, <1>11
  <1>13. QED
    BY <1>4, <1>10, <1>12 DEF X, n

\* What is right of the view after k parts.
ViewRight(m, view, k) ==
    /\ \A s \in view.shown : s.of \in 1..k /\ Harmless(m.parts[s.of]) /\ m.parts[s.of].cid = s.cid
    /\ \A s, t \in view.shown : s.cid = t.cid => s = t
    /\ ~view.omitted => /\ ~Stopped(m)
                        /\ \A i \in 1..k : i \in Opened(m) /\ m.parts[i].type # "multipart" /\ m.parts[i].cid # "none" =>
                              \E s \in view.shown : s.cid = m.parts[i].cid

\* What a part adds to it.
ViewAdds(m, view, next, i) ==
    LET p == m.parts[i]
    IN  IF \E s \in next.shown : s.of = i
        THEN next.remaining + p.size = view.remaining /\ \A s \in next.shown : s \in view.shown \/ s.of = i
        ELSE next.remaining = view.remaining /\ next.shown = view.shown

\* A part is right in the view, and adds no more than its size.
LEMMA InlineStep ==
  ASSUME NEW m, IsMessage(m), NEW view \in View(m), NEW i \in 1..Len(m.parts), ViewRight(m, view, i - 1)
  PROVE  LET next == Inline(m, view, i)
         IN  ViewRight(m, next, i) /\ ViewAdds(m, view, next, i) /\ view.shown \subseteq next.shown
  <1> DEFINE p == m.parts[i]
             next == Inline(m, view, i)
             item == [cid |-> p.cid, of |-> i]
  <1>0. Len(m.parts) \in Nat
    BY PartsProperties
  <1>1. \/ /\ next = view
           /\ \/ i \notin Opened(m) \/ p.type = "multipart" \/ p.cid = "none"
              \/ \E s \in view.shown : s.cid = p.cid
        \/ next.omitted /\ next.remaining = view.remaining /\ next.shown = view.shown
        \/ /\ next.omitted = view.omitted
           /\ next.remaining + p.size = view.remaining
           /\ next.shown = view.shown \cup {item}
           /\ Harmless(p) /\ \A s \in view.shown : s.cid # p.cid
    BY InlineCases
  <1>2. item.cid = p.cid /\ item.of = i
    OBVIOUS
  <1>3. \A k \in 1..i : k = i \/ k \in 1..(i - 1)
    BY <1>0
  <1>4. 1..(i - 1) \subseteq 1..i /\ i \notin 1..(i - 1) /\ i \in 1..i
    BY <1>0
  <1>5. \A s \in view.shown : s.of \in 1..(i - 1)
    BY DEF ViewRight
  <1> HIDE DEF next, item
  <1>6. CASE next = view /\ (\/ i \notin Opened(m) \/ p.type = "multipart" \/ p.cid = "none"
                             \/ \E s \in view.shown : s.cid = p.cid)
    <2>1. ViewRight(m, view, i)
      BY <1>3, <1>4, <1>6 DEF ViewRight
    <2>2. ViewAdds(m, view, view, i)
      BY <1>4, <1>5 DEF ViewAdds
    <2>3. QED
      BY <1>6, <2>1, <2>2 DEF next
  <1>7. CASE next.omitted /\ next.remaining = view.remaining /\ next.shown = view.shown
    <2>1. ViewRight(m, next, i)
      BY <1>4, <1>7 DEF ViewRight
    <2>2. ViewAdds(m, view, next, i)
      BY <1>4, <1>5, <1>7 DEF ViewAdds
    <2>3. QED
      BY <1>7, <2>1, <2>2 DEF next
  <1>8. CASE /\ next.omitted = view.omitted
             /\ next.remaining + p.size = view.remaining
             /\ next.shown = view.shown \cup {item}
             /\ Harmless(p) /\ \A s \in view.shown : s.cid # p.cid
    <2>1. \A s \in next.shown : s \in view.shown \/ s = item
      BY <1>8
    <2>2. item \in next.shown /\ view.shown \subseteq next.shown
      BY <1>8
    <2>3. ViewAdds(m, view, next, i)
      BY <1>2, <1>8, <2>1, <2>2 DEF ViewAdds
    <2>4. \A s \in next.shown : s.of \in 1..i /\ Harmless(m.parts[s.of]) /\ m.parts[s.of].cid = s.cid
      BY <1>2, <1>4, <1>8, <2>1 DEF ViewRight
    <2>5. \A s, t \in next.shown : s.cid = t.cid => s = t
      BY <1>2, <1>8, <2>1 DEF ViewRight
    <2>6. ~next.omitted => /\ ~Stopped(m)
                           /\ \A k \in 1..i : k \in Opened(m) /\ m.parts[k].type # "multipart" /\ m.parts[k].cid # "none" =>
                                 \E s \in next.shown : s.cid = m.parts[k].cid
      BY <1>2, <1>3, <1>8, <2>2 DEF ViewRight
    <2>7. ViewRight(m, next, i)
      BY <2>4, <2>5, <2>6 DEF ViewRight
    <2>8. QED
      BY <2>2, <2>3, <2>7 DEF next
  <1>9. QED
    BY <1>1, <1>6, <1>7, <1>8

\* Inline media stay within the budget, and none is left out without a word of what can be
\* opened.
LEMMA BoundedInline ==
  ASSUME NEW m, IsMessage(m)
  PROVE  InlineIsBounded(m)
  <1> DEFINE n == Len(m.parts)
             bytes(shown) == [i \in DOMAIN m.parts |-> IF \E s \in shown : s.of = i THEN m.parts[i].size ELSE 0]
  <1>1. n \in Nat \ {0} /\ DOMAIN m.parts = 1..n /\ \A i \in 1..n : m.parts[i].size \in Nat
    BY PartsProperties
  <1>2. PICK f \in [0..n -> View(m)] :
           f[0] = ViewStart(m) /\ (\A i \in 1..n : f[i] = Inline(m, f[i - 1], i)) /\ InlineMedia(m) = f[n]
    BY InlineSteps
  <1> DEFINE S == {k \in 0..n : ViewRight(m, f[k], k)}
  <1>3. \A i \in 1..n : f[i - 1] \in View(m) /\ f[i] \in View(m) /\ f[i] = Inline(m, f[i - 1], i)
    <2>1. \A i \in 1..n : i - 1 \in 0..n /\ i \in 0..n
      BY <1>1
    <2> HIDE DEF n
    <2>2. QED
      BY <1>2, <2>1
  <1>4. \A k \in 0..n : ViewRight(m, f[k], k)
    <2>1. 0 \in S
      <3>1. ViewStart(m).shown = {} /\ ViewStart(m).omitted = (Stopped(m) \/ Broken(m))
        BY DEF ViewStart
      <3>3. f[0].shown = {} /\ (~f[0].omitted => ~Stopped(m))
        BY <1>2, <3>1, Zenon
      <3>2. QED
        BY <1>1, <3>3 DEF ViewRight
    <2>2. \A i \in 1..n : i - 1 \in S => i \in S
      BY <1>1, <1>3, InlineStep
    <2> HIDE DEF S, n
    <2>3. 0..n \subseteq S
      BY <1>1, <2>1, <2>2, Inductively
    <2>4. QED
      BY <2>3 DEF S
  <1>5. ASSUME NEW i \in 1..n
        PROVE  ViewAdds(m, f[i - 1], f[i], i) /\ f[i - 1].shown \subseteq f[i].shown
    <2>1. ViewRight(m, f[i - 1], i - 1)
      BY <1>1, <1>4
    <2>2. QED
      BY <1>3, <2>1, InlineStep
  \* What is shown of a part in the end was so as soon as it was read.
  <1>6. ASSUME NEW i \in 1..n
        PROVE  (\E s \in f[n].shown : s.of = i) <=> (\E s \in f[i].shown : s.of = i)
    <2> DEFINE T == {k \in 0..n : k < i \/ ((\E s \in f[k].shown : s.of = i) <=> (\E s \in f[i].shown : s.of = i))}
    <2>1. 0 \in T
      BY <1>1
    <2>2. ASSUME NEW k \in 1..n, k - 1 \in T PROVE k \in T
      <3>1. CASE k <= i
        BY <1>1, <3>1
      <3>2. CASE k > i
        <4>1. (\E s \in f[k - 1].shown : s.of = i) <=> (\E s \in f[i].shown : s.of = i)
          <5>1. ~(k - 1 < i)
            BY <1>1, <3>2
          <5>2. QED
            BY <2>2, <5>1
        <4>2. \A s \in f[k].shown : s \in f[k - 1].shown \/ s.of = k
          BY <1>5 DEF ViewAdds
        <4>3. f[k - 1].shown \subseteq f[k].shown
          BY <1>5
        <4>4. k # i /\ k \in 0..n
          BY <1>1, <3>2
        <4>5. (\E s \in f[k].shown : s.of = i) <=> (\E s \in f[k - 1].shown : s.of = i)
          BY <4>2, <4>3, <4>4
        <4>6. QED
          BY <4>1, <4>4, <4>5
      <3>3. QED
        BY <1>1, <3>1, <3>2
    <2>3. \A k \in 1..n : k - 1 \in T => k \in T
      BY <2>2
    <2>4. n \in T
      <3> HIDE DEF T
      <3>1. n \in 0..n /\ n \in Nat
        BY <1>1
      <3> HIDE DEF n
      <3>2. QED
        BY <2>1, <2>3, <3>1, Inductively
    <2>5. ~(n < i)
      BY <1>1
    <2>6. QED
      BY <2>4, <2>5
  <1> DEFINE w == bytes(f[n].shown)
             left == [k \in 0..n |-> f[k].remaining]
  <1>7. Total(w) <= InlineBudget
    <2>1. w \in [1..n -> Nat]
      BY <1>1
    <2>2. left \in [0..n -> Nat] /\ left[0] = InlineBudget /\ \A k \in 0..n : left[k] = f[k].remaining
      BY <1>1, <1>2 DEF View, ViewStart
    <2>3. \A i \in 1..n : w[i] = IF \E s \in f[i].shown : s.of = i THEN m.parts[i].size ELSE 0
      BY <1>1, <1>6
    <2>4. \A i \in 1..n : i \in 0..n /\ i - 1 \in 0..n
      BY <1>1
    <2>5. \A k \in 0..n : left[k] \in Nat
      BY <2>2
    <2> HIDE DEF w, left
    <2>6. ASSUME NEW i \in 1..n PROVE left[i] + w[i] = left[i - 1]
      <3>1. left[i] = f[i].remaining /\ left[i - 1] = f[i - 1].remaining /\ left[i] \in Nat /\ left[i - 1] \in Nat
        BY <2>2, <2>4, <2>5
      <3>2. CASE \E s \in f[i].shown : s.of = i
        BY <1>5, <2>3, <3>1, <3>2 DEF ViewAdds
      <3>3. CASE ~ \E s \in f[i].shown : s.of = i
        <4>1. w[i] = 0 /\ f[i].remaining = f[i - 1].remaining
          BY <1>5, <2>3, <3>3 DEF ViewAdds
        <4>2. QED
          BY <3>1, <4>1
      <3>4. QED
        BY <3>2, <3>3
    <2> HIDE DEF n
    <2>7. Total(w) + left[n] = InlineBudget
      BY <1>1, <2>1, <2>2, <2>6, UsedUp
    <2>8. Total(w) \in Nat /\ left[n] \in Nat
      <3>1. \A i \in 1..n : w[i] <= w[i]
        BY <2>1
      <3>2. Total(w) \in Nat
        BY <1>1, <2>1, <3>1, TotalGrows
      <3>3. QED
        BY <1>1, <2>5, <3>2
    <2>9. QED
      BY <2>7, <2>8
  <1>8. CASE m.lenient
    <2>1. Present(m).media = f[n].shown /\ Present(m).omitted = f[n].omitted
      BY <1>2, <1>8 DEF Present
    <2>2. ViewRight(m, f[n], n)
      BY <1>1, <1>4
    <2>3. ~f[n].omitted => \A i \in 1..n : m.parts[i].type # "multipart" /\ m.parts[i].cid # "none" =>
             \E s \in f[n].shown : s.cid = m.parts[i].cid
      BY <2>2, WholeWalk DEF ViewRight
    <2>4. /\ \A s \in f[n].shown : Harmless(m.parts[s.of]) /\ m.parts[s.of].cid = s.cid
          /\ \A s, t \in f[n].shown : s.cid = t.cid => s = t
      BY <2>2 DEF ViewRight
    <2>5. [i \in DOMAIN m.parts |-> IF \E s \in Present(m).media : s.of = i THEN m.parts[i].size ELSE 0] = w
      BY <2>1
    <2> HIDE DEF w
    <2>6. QED
      BY <1>1, <1>7, <2>1, <2>3, <2>4, <2>5 DEF InlineIsBounded
  <1>9. CASE ~m.lenient
    <2>1. Present(m).media = {}
      BY <1>9 DEF Present
    <2> DEFINE none == [i \in DOMAIN m.parts |-> IF \E s \in Present(m).media : s.of = i THEN m.parts[i].size ELSE 0]
               zero == [k \in 0..n |-> 0]
    <2>2. none \in [1..n -> Nat] /\ \A i \in 1..n : none[i] = 0
      BY <1>1, <2>1
    <2>3. zero \in [0..n -> Nat] /\ \A k \in 0..n : zero[k] = 0
      OBVIOUS
    <2>4. \A i \in 1..n : zero[i] + none[i] = zero[i - 1]
      <3>1. \A i \in 1..n : i - 1 \in 0..n /\ i \in 0..n
        BY <1>1
      <3> HIDE DEF n, none, zero
      <3>2. \A i \in 1..n : zero[i] = 0 /\ zero[i - 1] = 0 /\ none[i] = 0
        BY <2>2, <2>3, <3>1
      <3>3. QED
        BY <3>2
    <2>5. zero[0] = 0 /\ zero[n] = 0 /\ n \in Nat
      BY <1>1, <2>3
    <2> HIDE DEF n, zero, none
    <2>6. Total(none) + zero[n] = zero[0]
      BY <2>2, <2>3, <2>4, <2>5, UsedUp
    <2>7. Total(none) = 0
      <3>1. \A i \in 1..n : none[i] <= none[i]
        BY <2>2
      <3>2. Total(none) \in Nat
        BY <2>2, <2>5, <3>1, TotalGrows
      <3>3. QED
        BY <2>5, <2>6, <3>2
    <2>8. InlineBudget \in Nat
      BY TalkAssumption
    <2>9. QED
      BY <1>9, <2>1, <2>7, <2>8 DEF InlineIsBounded, none
  <1>10. QED
    BY <1>8, <1>9

\* All that is shown of a message.
LEMMA ShownWhole ==
  ASSUME NEW m, IsMessage(m)
  PROVE  FilesAccountedFor(m) /\ NamesAreNames(m) /\ BodiesAreFirst(m) /\ InlineIsBounded(m)
  BY FilesAccounted, NamesStayNames, FirstBodies, BoundedInline

-----------------------------------------------------------------------------
(* Drafts that are relayed.                                                 *)

\* Places count the members passed.
LEMMA RankSteps ==
  ASSUME NEW n \in Nat, NEW U \in SUBSET (1..n)
  PROVE  /\ IsFiniteSet(U) /\ Rank(U, 0) = 0 /\ Rank(U, n) = Cardinality(U)
         /\ \A k \in 1..n : Rank(U, k) = IF k \in U THEN Rank(U, k - 1) + 1 ELSE Rank(U, k - 1)
         /\ \A k \in 0..n : Rank(U, k) \in Nat
  <1>0. \A v \in U : v \in 1..n /\ v \in Nat
    OBVIOUS
  <1>1. IsFiniteSet(U)
    <2>1. IsFiniteSet(1..n)
      BY FS_Interval
    <2>2. QED
      BY <2>1, FS_Subset
  <1>2. \A k \in 0..n : IsFiniteSet({v \in U : v <= k})
    <2>1. \A k \in 0..n : {v \in U : v <= k} \in SUBSET U
      OBVIOUS
    <2>2. QED
      BY <1>1, <2>1, FS_Subset
  <1>3. Rank(U, 0) = 0
    <2>1. {v \in U : v <= 0} = {}
      <3>1. \A v \in U : ~(v <= 0)
        BY <1>0
      <3>2. QED
        BY <3>1
    <2>2. QED
      BY <2>1, FS_EmptySet DEF Rank
  <1>4. Rank(U, n) = Cardinality(U)
    <2>1. {v \in U : v <= n} = U
      <3>1. \A v \in U : v <= n
        BY <1>0
      <3>2. QED
        BY <3>1
    <2>2. QED
      BY <2>1 DEF Rank
  <1>5. ASSUME NEW k \in 1..n
        PROVE  Rank(U, k) = IF k \in U THEN Rank(U, k - 1) + 1 ELSE Rank(U, k - 1)
    <2> DEFINE upTo(j) == {v \in U : v <= j}
    <2>0. k \in Nat /\ k - 1 \in 0..n /\ ~(k <= k - 1)
      OBVIOUS
    <2>1. IsFiniteSet(upTo(k - 1)) /\ k \notin upTo(k - 1)
      BY <1>2, <2>0
    <2>2. Rank(U, k) = Cardinality(upTo(k)) /\ Rank(U, k - 1) = Cardinality(upTo(k - 1))
      BY DEF Rank
    <2>3. CASE k \in U
      <3>0. \A v \in U : v <= k <=> v <= k - 1 \/ v = k
        BY <1>0, <2>0
      <3>1. upTo(k) = upTo(k - 1) \cup {k}
        BY <2>3, <3>0
      <3> HIDE DEF upTo
      <3>2. QED
        BY <2>1, <2>2, <2>3, <3>1, FS_AddElement
    <2>4. CASE k \notin U
      <3>0. \A v \in U : v <= k <=> v <= k - 1
        BY <1>0, <2>0, <2>4
      <3>1. upTo(k) = upTo(k - 1)
        BY <3>0
      <3> HIDE DEF upTo
      <3>2. QED
        BY <2>2, <2>4, <3>1
    <2>5. QED
      BY <2>3, <2>4
  <1>6. \A k \in 0..n : Rank(U, k) \in Nat
    BY <1>2, FS_CardinalityType DEF Rank
  <1>7. QED
    BY <1>1, <1>3, <1>4, <1>5, <1>6

DraftLine == [name : Word, value : Word, folded : BOOLEAN]
Kept(raw) == {i \in DOMAIN raw.lines : raw.lines[i].name \notin Stripped}

LEMMA DraftProperties ==
  ASSUME NEW raw, IsDraft(raw)
  PROVE  /\ Len(raw.lines) \in Nat /\ DOMAIN raw.lines = 1..Len(raw.lines)
         /\ \A i \in 1..Len(raw.lines) : raw.lines[i] \in DraftLine
         /\ \A i \in 2..Len(raw.lines) : raw.lines[i].folded => raw.lines[i].name = raw.lines[i - 1].name
         /\ Kept(raw) \in SUBSET (1..Len(raw.lines))
         /\ \A name : Named(raw, name) \in SUBSET (1..Len(raw.lines))
  <1>1. raw.lines \in Seq(DraftLine)
    BY DEF IsDraft, DraftLine
  <1>2. Len(raw.lines) \in Nat /\ DOMAIN raw.lines = 1..Len(raw.lines)
    BY <1>1, LenProperties
  <1>3. \A i \in 1..Len(raw.lines) : raw.lines[i] \in DraftLine
    BY <1>1, ElementOfSeq
  <1>4. QED
    BY <1>2, <1>3 DEF IsDraft, Kept, Named

CopyState == [skip : BOOLEAN, lines : Seq(DraftLine)]
CopyStart == [skip |-> FALSE, lines |-> <<>>]

LEMMA CopyTyped ==
  ASSUME NEW copy \in CopyState, NEW line \in DraftLine
  PROVE  CopyLine(copy, line) \in CopyState
  <1>1. copy.skip \in BOOLEAN /\ copy.lines \in Seq(DraftLine) /\ line.folded \in BOOLEAN
    BY DEF CopyState, DraftLine
  <1>2. Strips(copy, line) \in BOOLEAN
    <2>1. (line.name \in Stripped) \in BOOLEAN
      OBVIOUS
    <2>2. CASE line.folded
      BY <1>1, <2>2 DEF Strips
    <2>3. CASE ~line.folded
      BY <2>1, <2>3 DEF Strips
    <2>4. QED
      BY <2>2, <2>3
  <1>3. (IF Strips(copy, line) THEN copy.lines ELSE Append(copy.lines, line)) \in Seq(DraftLine)
    BY <1>1, AppendProperties
  <1>4. QED
    BY <1>2, <1>3 DEF CopyLine, CopyState

\* The walk over the lines, step by step.
LEMMA CopySteps ==
  ASSUME NEW raw, IsDraft(raw)
  PROVE  \E f \in [0..Len(raw.lines) -> CopyState] :
            /\ f[0] = CopyStart
            /\ \A i \in 1..Len(raw.lines) : f[i] = CopyLine(f[i - 1], raw.lines[i])
            /\ Prepare(raw) = Generated(raw, "date") \o Generated(raw, "message-id") \o f[Len(raw.lines)].lines
  <1> DEFINE n == Len(raw.lines)
             step == [i \in 1..n |-> [x \in CopyState |-> CopyLine(x, raw.lines[i])]]
             copy == CHOOSE f : f = [i \in 0..n |-> IF i = 0 THEN CopyStart ELSE CopyLine(f[i - 1], raw.lines[i])]
  <1>1. n \in Nat
    BY DraftProperties
  <1>2. CopyStart \in CopyState
    BY EmptySeq DEF CopyStart, CopyState
  <1>3. \A i \in 1..n, x \in CopyState : CopyLine(x, raw.lines[i]) \in CopyState
    BY DraftProperties, CopyTyped
  <1>4. Prepare(raw) = Generated(raw, "date") \o Generated(raw, "message-id") \o copy[n].lines
    BY DEF Prepare, CopyStart
  <1> HIDE DEF n
  <1>5. Steps(step, n, CopyState) /\ \A i \in 1..n, x \in CopyState : step[i][x] = CopyLine(x, raw.lines[i])
    BY <1>3 DEF Steps
  <1> HIDE DEF step, copy
  <1>6. PICK f \in [0..n -> CopyState] : Stepwise(f, CopyStart, step, n)
    <2>1. Reaches(CopyStart, step, n, CopyState)
      BY <1>1, <1>2, <1>5, StepByStep
    <2>2. QED
      BY <2>1 DEF Reaches
  <1>7. f[0] = CopyStart /\ \A i \in 1..n : f[i] = CopyLine(f[i - 1], raw.lines[i]) /\ f[i - 1] \in CopyState
    <2>1. \A i \in 1..n : f[i] = step[i][f[i - 1]] /\ f[i - 1] \in CopyState
      BY <1>1, <1>6 DEF Stepwise
    <2>2. QED
      BY <1>5, <1>6, <2>1 DEF Stepwise
  <1>8. f = [i \in 0..n |-> IF i = 0 THEN CopyStart ELSE CopyLine(f[i - 1], raw.lines[i])]
    BY <1>1, <1>6, <1>7
  <1>9. copy = [i \in 0..n |-> IF i = 0 THEN CopyStart ELSE CopyLine(copy[i - 1], raw.lines[i])]
    BY <1>8 DEF copy
  <1>10. copy[0] = CopyStart /\ \A i \in 1..n : copy[i] = CopyLine(copy[i - 1], raw.lines[i])
    BY <1>1, <1>9
  <1>11. \A i \in 0..n : copy[i] \in CopyState
    <2> DEFINE S == {i \in 0..n : copy[i] \in CopyState}
    <2>1. \A i \in 1..n : i - 1 \in S => i \in S
      BY <1>1, <1>3, <1>10
    <2>2. 0 \in S
      BY <1>1, <1>2, <1>10
    <2> HIDE DEF S
    <2>3. 0..n \subseteq S
      BY <1>1, <2>1, <2>2, Inductively
    <2>4. QED
      BY <2>3 DEF S
  <1>12. copy \in [0..n -> CopyState]
    BY <1>9, <1>11
  <1>13. QED
    BY <1>4, <1>10, <1>12 DEF n

\* What has been copied of the first k lines.
Copied(raw, copy, k) ==
    /\ copy.lines \in Seq(DraftLine) /\ Len(copy.lines) = Rank(Kept(raw), k)
    /\ k # 0 => (copy.skip <=> k \notin Kept(raw))
    /\ \A i \in 1..k : i \in Kept(raw) => copy.lines[Rank(Kept(raw), i)] = raw.lines[i]

\* A line goes on with the lines it continues, or is dropped with them.
LEMMA CopyStep ==
  ASSUME NEW raw, IsDraft(raw), PrepareAccepts(raw), NEW k \in 1..Len(raw.lines),
         NEW copy \in CopyState, Copied(raw, copy, k - 1)
  PROVE  Copied(raw, CopyLine(copy, raw.lines[k]), k)
  <1> DEFINE n == Len(raw.lines)
             line == raw.lines[k]
             next == CopyLine(copy, line)
             R(i) == Rank(Kept(raw), i)
  <1>1. n \in Nat /\ k \in 1..n /\ line \in DraftLine /\ DOMAIN raw.lines = 1..n
    BY DraftProperties
  <1>2. k \in Kept(raw) <=> line.name \notin Stripped
    BY <1>1 DEF Kept
  <1>3. Strips(copy, line) <=> k \notin Kept(raw)
    <2>1. CASE ~line.folded
      BY <1>2, <2>1 DEF Strips
    <2>2. CASE line.folded
      <3>1. k # 1
        BY <1>1, <2>2 DEF PrepareAccepts
      <3>2. k \in 2..n /\ k - 1 \in 1..n /\ k - 1 # 0
        BY <1>1, <3>1
      <3>3. line.name = raw.lines[k - 1].name
        BY <2>2, <3>2, DraftProperties
      <3>4. k - 1 \in Kept(raw) <=> k \in Kept(raw)
        BY <1>1, <1>2, <3>2, <3>3 DEF Kept
      <3>5. copy.skip <=> k - 1 \notin Kept(raw)
        BY <3>2 DEF Copied
      <3>6. QED
        BY <2>2, <3>4, <3>5 DEF Strips
    <2>3. QED
      BY <2>1, <2>2
  <1>4. /\ \A i \in 1..n : R(i) = IF i \in Kept(raw) THEN R(i - 1) + 1 ELSE R(i - 1)
        /\ \A i \in 0..n : R(i) \in Nat
    BY <1>1, DraftProperties, RankSteps
  <1>5. /\ copy.lines \in Seq(DraftLine) /\ Len(copy.lines) = R(k - 1)
        /\ \A i \in 1..(k - 1) : i \in Kept(raw) => copy.lines[R(i)] = raw.lines[i]
    BY DEF Copied
  <1>6. next.skip = Strips(copy, line)
        /\ next.lines = IF Strips(copy, line) THEN copy.lines ELSE Append(copy.lines, line)
    BY DEF CopyLine
  <1>7. \A i \in 1..k : i = k \/ i \in 1..(k - 1)
    BY <1>1
  <1> HIDE DEF next, n, line
  <1>8. CASE k \notin Kept(raw)
    <2>1. R(k) = R(k - 1) /\ next.lines = copy.lines /\ next.skip
      BY <1>1, <1>3, <1>4, <1>6, <1>8
    <2> HIDE DEF R
    <2>2. QED
      BY <1>5, <1>7, <1>8, <2>1 DEF Copied, R, next, line
  <1>9. CASE k \in Kept(raw)
    <2>1. R(k) = R(k - 1) + 1 /\ next.lines = Append(copy.lines, line) /\ ~next.skip
      BY <1>1, <1>3, <1>4, <1>6, <1>9
    <2>2. /\ next.lines \in Seq(DraftLine) /\ Len(next.lines) = R(k - 1) + 1
          /\ \A i \in 1..R(k - 1) : next.lines[i] = copy.lines[i]
          /\ next.lines[R(k - 1) + 1] = line
      BY <1>1, <1>5, <2>1, AppendProperties
    <2>3. ASSUME NEW i \in 1..k, i \in Kept(raw) PROVE next.lines[R(i)] = raw.lines[i]
      <3>1. CASE i = k
        BY <2>1, <2>2, <3>1 DEF line
      <3>2. CASE i # k
        <4>1. i \in 1..(k - 1) /\ i < k
          BY <1>1, <3>2
        <4>2. R(i) \in 1..R(k - 1)
          <5>1. Kept(raw) \in SUBSET (1..n)
            BY DraftProperties DEF n
          <5>2. Kept(raw) \in SUBSET Nat /\ IsFiniteSet(Kept(raw))
            BY <1>1, <5>1, RankSteps
          <5>3. R(i) < R(k) /\ R(i) \in 1..Cardinality(Kept(raw)) /\ Cardinality(Kept(raw)) \in Nat
            BY <1>9, <2>3, <4>1, <5>2, RankProperties
          <5>4. R(k - 1) \in Nat
            BY <1>1, <1>4
          <5> HIDE DEF R
          <5>5. QED
            BY <2>1, <5>3, <5>4
        <4>3. QED
          BY <1>5, <2>2, <2>3, <4>1, <4>2
      <3>3. QED
        BY <3>1, <3>2
    <2> HIDE DEF R
    <2>4. QED
      BY <1>9, <2>1, <2>2, <2>3 DEF Copied, R, next, line
  <1>10. QED
    BY <1>8, <1>9

\* A draft goes out with what is generated for it before the lines it keeps.
LEMMA Relayed ==
  ASSUME NEW raw, IsDraft(raw), PrepareAccepts(raw)
  PROVE  \E lines \in Seq(DraftLine) :
            /\ Prepare(raw) = Generated(raw, "date") \o Generated(raw, "message-id") \o lines
            /\ Len(lines) = Cardinality(Kept(raw))
            /\ \A i \in Kept(raw) : lines[Rank(Kept(raw), i)] = raw.lines[i]
  <1> DEFINE n == Len(raw.lines)
  <1>1. n \in Nat /\ Kept(raw) \in SUBSET (1..n)
    BY DraftProperties
  <1>2. PICK f \in [0..n -> CopyState] :
            /\ f[0] = CopyStart
            /\ \A i \in 1..n : f[i] = CopyLine(f[i - 1], raw.lines[i])
            /\ Prepare(raw) = Generated(raw, "date") \o Generated(raw, "message-id") \o f[n].lines
    BY CopySteps
  <1> DEFINE S == {k \in 0..n : Copied(raw, f[k], k)}
  <1>3. 0 \in S
    <2>1. f[0].lines = <<>>
      BY <1>2 DEF CopyStart
    <2>2. Rank(Kept(raw), 0) = 0
      BY <1>1, RankSteps
    <2>3. <<>> \in Seq(DraftLine) /\ Len(<<>>) = 0
      BY EmptySeq
    <2>4. Copied(raw, f[0], 0)
      BY <2>1, <2>2, <2>3 DEF Copied
    <2>5. 0 \in 0..n
      BY <1>1
    <2>6. QED
      BY <2>4, <2>5
  <1>4. \A i \in 1..n : i - 1 \in S => i \in S
    <2>0. \A i \in 1..n : i - 1 \in 0..n /\ i \in 0..n
      BY <1>1
    <2>1. \A i \in 1..n : f[i - 1] \in CopyState /\ f[i] = CopyLine(f[i - 1], raw.lines[i]) /\ i \in 0..n
      <3> HIDE DEF n
      <3>1. QED
        BY <1>2, <2>0
    <2>2. QED
      BY <2>1, CopyStep
  <1>5. n \in S
    <2>1. n \in 0..n
      BY <1>1
    <2> HIDE DEF S, n
    <2>2. QED
      BY <1>1, <1>3, <1>4, <2>1, Inductively
  <1>6. /\ f[n].lines \in Seq(DraftLine) /\ Len(f[n].lines) = Cardinality(Kept(raw))
        /\ \A i \in Kept(raw) : f[n].lines[Rank(Kept(raw), i)] = raw.lines[i]
    <2>1. Rank(Kept(raw), n) = Cardinality(Kept(raw))
      BY <1>1, RankSteps
    <2> HIDE DEF n
    <2>2. QED
      BY <1>1, <1>5, <2>1 DEF Copied
  <1>7. QED
    BY <1>2, <1>6

\* The lines that are generated for a draft.
Lacks(raw, name) == \A i \in Named(raw, name) : raw.lines[i].value = "empty"
Extra(raw) == {Line(name, "new") : name \in {n \in {"date", "message-id"} : Lacks(raw, n)}}

LEMMA GeneratedLines ==
  ASSUME NEW raw, NEW name \in {"date", "message-id"}
  PROVE  /\ Generated(raw, name) \in Seq({Line("date", "new"), Line("message-id", "new")})
         /\ Lacks(raw, name) => Len(Generated(raw, name)) = 1 /\ Generated(raw, name)[1] = Line(name, "new")
         /\ ~Lacks(raw, name) => Len(Generated(raw, name)) = 0
  <1> DEFINE T == {Line("date", "new"), Line("message-id", "new")}
  <1>1. Line(name, "new") \in T
    OBVIOUS
  <1>2. Lacks(raw, name) => Generated(raw, name) = <<Line(name, "new")>>
    BY DEF Generated, Lacks
  <1>3. ~Lacks(raw, name) => Generated(raw, name) = <<>>
    BY DEF Generated, Lacks
  <1> HIDE DEF T
  <1>4. <<Line(name, "new")>> \in Seq(T) /\ <<>> \in Seq(T) /\ Len(<<>>) = 0
    BY <1>1, EmptySeq
  <1>5. Len(<<Line(name, "new")>>) = 1 /\ <<Line(name, "new")>>[1] = Line(name, "new")
    OBVIOUS
  <1>6. Generated(raw, name) \in Seq(T)
    BY <1>2, <1>3, <1>4
  <1>7. Lacks(raw, name) => Len(Generated(raw, name)) = 1 /\ Generated(raw, name)[1] = Line(name, "new")
    BY <1>2, <1>5, Zenon
  <1>8. ~Lacks(raw, name) => Len(Generated(raw, name)) = 0
    BY <1>3, <1>4, Zenon
  <1>9. QED
    BY <1>6, <1>7, <1>8 DEF T

LEMMA FreshLines ==
  ASSUME NEW raw
  PROVE  LET g == Generated(raw, "date") \o Generated(raw, "message-id")
         IN  /\ g \in Seq({Line("date", "new"), Line("message-id", "new")})
             /\ Len(g) \in 0..2
             /\ \A i \in 1..Len(g) : g[i] \in Extra(raw)
             /\ \A l \in Extra(raw) : \E i \in 1..Len(g) : g[i] = l
  <1> DEFINE T == {Line("date", "new"), Line("message-id", "new")}
             d == Generated(raw, "date")
             m == Generated(raw, "message-id")
             g == d \o m
  <1>1. /\ d \in Seq(T) /\ m \in Seq(T)
        /\ Lacks(raw, "date") => Len(d) = 1 /\ d[1] = Line("date", "new")
        /\ ~Lacks(raw, "date") => Len(d) = 0
        /\ Lacks(raw, "message-id") => Len(m) = 1 /\ m[1] = Line("message-id", "new")
        /\ ~Lacks(raw, "message-id") => Len(m) = 0
    BY GeneratedLines
  <1>2. /\ Lacks(raw, "date") => Line("date", "new") \in Extra(raw)
        /\ Lacks(raw, "message-id") => Line("message-id", "new") \in Extra(raw)
        /\ \A l \in Extra(raw) : \/ l = Line("date", "new") /\ Lacks(raw, "date")
                                 \/ l = Line("message-id", "new") /\ Lacks(raw, "message-id")
    BY DEF Extra
  <1> HIDE DEF T, d, m
  <1>3. /\ g \in Seq(T) /\ Len(g) = Len(d) + Len(m)
        /\ \A i \in 1..(Len(d) + Len(m)) : g[i] = IF i <= Len(d) THEN d[i] ELSE m[i - Len(d)]
    BY <1>1, ConcatProperties
  <1> HIDE DEF g
  <1>4. CASE Lacks(raw, "date") /\ Lacks(raw, "message-id")
    <2>0. Len(d) = 1 /\ Len(m) = 1
      BY <1>1, <1>4
    <2>1. Len(d) = 1 /\ Len(m) = 1 /\ Len(g) = 2
      BY <1>3, <2>0
    <2>2. g[1] = Line("date", "new") /\ g[2] = Line("message-id", "new")
      BY <1>1, <1>3, <1>4, <2>1
    <2>3. QED
      BY <1>2, <1>3, <1>4, <2>1, <2>2 DEF g, d, m, T
  <1>5. CASE Lacks(raw, "date") /\ ~Lacks(raw, "message-id")
    <2>1. Len(d) = 1 /\ Len(m) = 0 /\ Len(g) = 1
      BY <1>1, <1>3, <1>5
    <2>2. g[1] = Line("date", "new")
      BY <1>1, <1>3, <1>5, <2>1
    <2>3. QED
      BY <1>2, <1>3, <1>5, <2>1, <2>2 DEF g, d, m, T
  <1>6. CASE ~Lacks(raw, "date") /\ Lacks(raw, "message-id")
    <2>1. Len(d) = 0 /\ Len(m) = 1 /\ Len(g) = 1
      BY <1>1, <1>3, <1>6
    <2>2. g[1] = Line("message-id", "new")
      BY <1>1, <1>3, <1>6, <2>1
    <2>3. QED
      BY <1>2, <1>3, <1>6, <2>1, <2>2 DEF g, d, m, T
  <1>7. CASE ~Lacks(raw, "date") /\ ~Lacks(raw, "message-id")
    <2>1. Len(g) = 0
      BY <1>1, <1>3, <1>7
    <2>2. QED
      BY <1>2, <1>3, <1>7, <2>1 DEF g, d, m, T
  <1>8. QED
    BY <1>4, <1>5, <1>6, <1>7

\* What leaves, line by line.
LEMMA OutLines ==
  ASSUME NEW raw, IsDraft(raw), PrepareAccepts(raw)
  PROVE  LET out == Prepare(raw)
             added == Len(out) - Cardinality(Kept(raw))
         IN  /\ DOMAIN out = 1..Len(out) /\ Len(out) \in Nat /\ added \in 0..2
             /\ \A i \in Kept(raw) : added + Rank(Kept(raw), i) \in DOMAIN out
                                     /\ out[added + Rank(Kept(raw), i)] = raw.lines[i]
             /\ \A l \in Extra(raw) : \E j \in DOMAIN out : out[j] = l
             /\ \A j \in DOMAIN out : out[j] \in Extra(raw) \/ \E i \in Kept(raw) : out[j] = raw.lines[i]
  <1> DEFINE g == Generated(raw, "date") \o Generated(raw, "message-id")
             T == {Line("date", "new"), Line("message-id", "new")}
             L == DraftLine \cup T
             out == Prepare(raw)
             K == Kept(raw)
             R(i) == Rank(Kept(raw), i)
  <1>1. /\ g \in Seq(T) /\ Len(g) \in 0..2
        /\ \A i \in 1..Len(g) : g[i] \in Extra(raw)
        /\ \A l \in Extra(raw) : \E i \in 1..Len(g) : g[i] = l
    BY FreshLines
  <1>2. PICK lines \in Seq(DraftLine) :
           out = g \o lines /\ Len(lines) = Cardinality(K) /\ \A i \in K : lines[R(i)] = raw.lines[i]
    BY Relayed
  <1>3. /\ Cardinality(K) \in Nat
        /\ \A i \in K : R(i) \in 1..Cardinality(K)
        /\ \A k \in 1..Cardinality(K) : \E i \in K : R(i) = k
    <2>1. Len(raw.lines) \in Nat /\ K \in SUBSET (1..Len(raw.lines))
      BY DraftProperties
    <2>2. K \in SUBSET Nat /\ IsFiniteSet(K)
      BY <2>1, RankSteps
    <2> HIDE DEF K
    <2>3. QED
      BY <2>2, RankProperties DEF K
  <1>4. g \in Seq(L) /\ lines \in Seq(L)
    <2>1. T \subseteq L /\ DraftLine \subseteq L
      OBVIOUS
    <2> HIDE DEF T, L, g
    <2>2. QED
      BY <1>1, <2>1
  <1> HIDE DEF g, T, L, K, R, out
  <1>5. /\ out \in Seq(L) /\ Len(out) = Len(g) + Len(lines)
        /\ \A i \in 1..(Len(g) + Len(lines)) : out[i] = IF i <= Len(g) THEN g[i] ELSE lines[i - Len(g)]
    BY <1>2, <1>4, ConcatProperties
  <1>6. DOMAIN out = 1..Len(out) /\ Len(out) \in Nat
    BY <1>5, LenProperties
  <1> DEFINE c == Cardinality(K)
  <1>7. Len(out) - c = Len(g) /\ Len(out) = Len(g) + c /\ Len(g) \in Nat /\ c \in Nat
    BY <1>1, <1>2, <1>3, <1>5
  <1>8. \A i \in 1..Len(g) : i \in DOMAIN out /\ out[i] = g[i]
    BY <1>2, <1>5, <1>6, <1>7
  <1>9. \A k \in 1..c : Len(g) + k \in DOMAIN out /\ out[Len(g) + k] = lines[k]
    <2>1. ASSUME NEW k \in 1..c PROVE Len(g) + k \in DOMAIN out /\ out[Len(g) + k] = lines[k]
      <3>1. Len(g) + k \in 1..Len(out) /\ ~(Len(g) + k <= Len(g)) /\ Len(g) + k - Len(g) = k
        BY <1>7
      <3> HIDE DEF c
      <3>2. QED
        BY <1>5, <1>6, <3>1
    <2>2. QED
      BY <2>1
  <1>10. \A i \in K : Len(g) + R(i) \in DOMAIN out /\ out[Len(g) + R(i)] = raw.lines[i]
    BY <1>2, <1>3, <1>9
  <1>11. \A l \in Extra(raw) : \E j \in DOMAIN out : out[j] = l
    BY <1>1, <1>8
  <1>12. ASSUME NEW j \in DOMAIN out
         PROVE  out[j] \in Extra(raw) \/ \E i \in K : out[j] = raw.lines[i]
    <2>1. CASE j <= Len(g)
      <3>1. j \in 1..Len(g)
        BY <1>6, <1>7, <2>1
      <3>2. QED
        BY <1>1, <1>8, <3>1
    <2>2. CASE j > Len(g)
      <3>0. j \in 1..(Len(g) + c)
        BY <1>6, <1>7
      <3>1. j - Len(g) \in 1..c /\ Len(g) + (j - Len(g)) = j
        <4> HIDE DEF c
        <4>1. QED
          BY <1>7, <2>2, <3>0
      <3>2. PICK i \in K : R(i) = j - Len(g)
        BY <1>3, <3>1
      <3>3. QED
        BY <1>10, <3>1, <3>2
    <2>3. QED
      BY <1>6, <1>7, <2>1, <2>2
  <1> HIDE DEF c
  <1>13. Len(out) - Cardinality(K) = Len(g) /\ Len(g) \in 0..2
    BY <1>1, <1>7 DEF c
  <1>14. QED
    BY <1>6, <1>10, <1>11, <1>12, <1>13 DEF K, R, out

\* At most one line of a name, in a draft that is accepted.
LEMMA OneOfAName ==
  ASSUME NEW raw, IsDraft(raw), NEW name
  PROVE  /\ Cardinality(Named(raw, name)) <= 1 => \A i, j \in Named(raw, name) : i = j
         /\ Cardinality(Named(raw, name)) = 1 => \E i \in Named(raw, name) : TRUE
  <1> DEFINE U == Named(raw, name)
  <1>1. Len(raw.lines) \in Nat /\ U \in SUBSET (1..Len(raw.lines))
    BY DraftProperties
  <1>2. U \in SUBSET Nat /\ IsFiniteSet(U)
    BY <1>1, RankSteps
  <1> HIDE DEF U
  <1>3. /\ Cardinality(U) \in Nat
        /\ \A u \in U : Rank(U, u) \in 1..Cardinality(U)
        /\ \A u, v \in U : Rank(U, u) = Rank(U, v) => u = v
        /\ \A i \in 1..Cardinality(U) : \E u \in U : Rank(U, u) = i
    BY <1>2, RankProperties
  <1>4. Cardinality(U) <= 1 => \A u \in U : Rank(U, u) = 1
    BY <1>3
  <1>5. Cardinality(U) <= 1 => \A i, j \in U : i = j
    BY <1>3, <1>4
  <1>6. Cardinality(U) = 1 => \E i \in U : TRUE
    <2>1. Cardinality(U) = 1 => 1 \in 1..Cardinality(U)
      OBVIOUS
    <2>2. QED
      BY <1>3, <2>1
  <1>7. QED
    BY <1>5, <1>6 DEF U

\* A name that no line begins with does not go on either.
LEMMA NoneOfAName ==
  ASSUME NEW raw, IsDraft(raw), PrepareAccepts(raw), NEW name, Named(raw, name) = {}
  PROVE  \A i \in 1..Len(raw.lines) : raw.lines[i].name # name
  <1> DEFINE n == Len(raw.lines)
             S == {0} \cup {k \in 1..n : raw.lines[k].name # name}
  <1>1. n \in Nat /\ DOMAIN raw.lines = 1..n
    BY DraftProperties
  <1>2. ASSUME NEW k \in 1..n, k - 1 \in S PROVE k \in S
    <2>1. CASE ~raw.lines[k].folded
      BY <1>1, <2>1 DEF Named
    <2>2. CASE raw.lines[k].folded
      <3>1. k # 1
        BY <1>1, <2>2 DEF PrepareAccepts
      <3>2. k \in 2..n /\ k - 1 # 0
        BY <1>1, <3>1
      <3>3. raw.lines[k].name = raw.lines[k - 1].name
        BY <2>2, <3>2, DraftProperties
      <3>4. QED
        BY <1>2, <3>2, <3>3
    <2>3. QED
      BY <2>1, <2>2
  <1>3. 0 \in S /\ \A k \in 1..n : k - 1 \in S => k \in S
    BY <1>2
  <1>4. 0..n \subseteq S
    <2> HIDE DEF S, n
    <2>1. QED
      BY <1>1, <1>3, Inductively
  <1>5. QED
    BY <1>1, <1>4

\* What a draft that is accepted goes out as.
LEMMA OwnIsRelayed ==
  ASSUME stage = "relayed" => /\ IsDraft(mail.draft) /\ PrepareAccepts(mail.draft)
                              /\ mail.lines = Prepare(mail.draft)
  PROVE  RelayedIsOwn
  <1> SUFFICES ASSUME stage = "relayed" PROVE RelayedIsOwn
    BY DEF RelayedIsOwn
  <1> DEFINE raw == mail.draft
             out == mail.lines
             given == raw.lines
             K == Kept(raw)
             added == Len(out) - Cardinality(K)
             values(name) == {out[i].value : i \in {j \in DOMAIN out : out[j].name = name /\ ~out[j].folded}}
  <1>1. IsDraft(raw) /\ PrepareAccepts(raw) /\ out = Prepare(raw)
    OBVIOUS
  <1>2. /\ added \in 0..2
        /\ \A i \in K : added + Rank(K, i) \in DOMAIN out /\ out[added + Rank(K, i)] = given[i]
        /\ \A l \in Extra(raw) : \E j \in DOMAIN out : out[j] = l
        /\ \A j \in DOMAIN out : out[j] \in Extra(raw) \/ \E i \in K : out[j] = given[i]
    BY <1>1, OutLines
  <1>3. \A l \in Extra(raw) : \E name \in {"date", "message-id"} :
           Lacks(raw, name) /\ l.name = name /\ l.value = "new" /\ ~l.folded
    BY DEF Extra, Line
  <1>4. \A name : \A i \in Named(raw, name) : i \in DOMAIN given /\ given[i].name = name /\ ~given[i].folded
    BY DEF Named
  <1>5. \A name : name \notin Stripped => \A i \in Named(raw, name) : i \in K /\ given[i].value \in values(name)
    <2>1. \A name : name \notin Stripped => \A i \in Named(raw, name) : i \in K
      BY <1>4 DEF Kept
    <2>2. \A name : \A i \in Named(raw, name) : i \in K => given[i].value \in values(name)
      <3> SUFFICES ASSUME NEW name, NEW i \in Named(raw, name), i \in K PROVE given[i].value \in values(name)
        OBVIOUS
      <3>1. PICK j \in DOMAIN out : out[j] = given[i]
        BY <1>2
      <3>2. out[j].name = name /\ ~out[j].folded
        BY <1>4, <3>1
      <3>3. out[j].value \in values(name)
        BY <3>2
      <3>4. QED
        BY <3>1, <3>3
    <2>3. QED
      BY <2>1, <2>2
  \* A value comes from the draft, or is new.
  <1>6. \A name : \A v \in values(name) :
           \/ \E i \in Named(raw, name) : v = given[i].value
           \/ name \in {"date", "message-id"} /\ Lacks(raw, name) /\ v = "new"
    <2> SUFFICES ASSUME NEW name, NEW j \in DOMAIN out, out[j].name = name, ~out[j].folded
                 PROVE  \/ \E i \in Named(raw, name) : out[j].value = given[i].value
                        \/ name \in {"date", "message-id"} /\ Lacks(raw, name) /\ out[j].value = "new"
      OBVIOUS
    <2>1. CASE out[j] \in Extra(raw)
      BY <1>3, <2>1
    <2>2. ASSUME NEW i \in K, out[j] = given[i] PROVE \E k \in Named(raw, name) : out[j].value = given[k].value
      <3>1. i \in Named(raw, name)
        BY <2>2 DEF Named, Kept
      <3>2. QED
        BY <2>2, <3>1
    <2>3. QED
      BY <1>2, <2>1, <2>2
  <1>7. {"from", "sender", "date", "message-id"} \cap Stripped = {}
    BY DEF Stripped
  <1>8. values("from") = {"own"} /\ values("sender") \subseteq {"own"}
    <2>1. \A i \in Named(raw, "from") \cup Named(raw, "sender") : given[i].value = "own"
      BY <1>1 DEF PrepareAccepts
    <2>2. PICK i \in Named(raw, "from") : TRUE
      BY <1>1, OneOfAName DEF PrepareAccepts
    <2>3. "own" \in values("from")
      BY <1>5, <1>7, <2>1, <2>2
    <2>4. values("from") \subseteq {"own"} /\ values("sender") \subseteq {"own"}
      BY <1>6, <2>1
    <2> HIDE DEF values
    <2>5. QED
      BY <2>3, <2>4
  <1>9. \A i \in DOMAIN out : out[i].name \notin Stripped \cup {"resent"}
    <2>1. \A i \in K : given[i].name \notin Stripped /\ given[i].name # "resent"
      <3>1. Named(raw, "resent") = {}
        BY <1>1 DEF PrepareAccepts
      <3>2. \A i \in 1..Len(given) : given[i].name # "resent"
        BY <1>1, <3>1, NoneOfAName
      <3>3. K \in SUBSET (1..Len(given))
        BY <1>1, DraftProperties
      <3>4. QED
        BY <3>2, <3>3 DEF Kept
    <2>2. \A name \in {"date", "message-id"} : name \notin Stripped \cup {"resent"}
      BY DEF Stripped
    <2>3. QED
      BY <1>2, <1>3, <2>1, <2>2
  <1>10. ASSUME NEW name \in {"date", "message-id"}
         PROVE  Cardinality(values(name) \ {"empty"}) = 1
    <2>1. \A i, j \in Named(raw, name) : i = j
      BY <1>1, OneOfAName DEF PrepareAccepts
    <2>2. name \notin Stripped
      BY <1>7
    <2>3. CASE Lacks(raw, name)
      <3>1. Line(name, "new") \in Extra(raw)
        BY <2>3 DEF Extra
      <3>2. PICK j \in DOMAIN out : out[j] = Line(name, "new")
        BY <1>2, <3>1
      <3>3. out[j].name = name /\ out[j].value = "new" /\ ~out[j].folded
        BY <3>2 DEF Line
      <3>4. "new" \in values(name)
        BY <3>3
      <3>5. \A v \in values(name) : v = "new" \/ v = "empty"
        BY <1>6, <2>3 DEF Lacks
      <3> HIDE DEF values
      <3>6. values(name) \ {"empty"} = {"new"}
        BY <3>4, <3>5
      <3>7. QED
        BY <3>6, FS_Singleton
    <2>4. CASE ~Lacks(raw, name)
      <3>1. PICK i \in Named(raw, name) : given[i].value # "empty"
        BY <2>4 DEF Lacks
      <3>2. given[i].value \in values(name)
        BY <1>5, <2>2
      <3>3. \A v \in values(name) : v = given[i].value
        BY <1>6, <2>1, <2>4
      <3> HIDE DEF values
      <3>4. values(name) \ {"empty"} = {given[i].value}
        BY <3>1, <3>2, <3>3
      <3>5. QED
        BY <3>4, FS_Singleton
    <2>5. QED
      BY <2>3, <2>4
  <1>11. \A i \in K : out[added + Cardinality({j \in K : j <= i})] = given[i]
    BY <1>2 DEF Rank
  <1>12. {i \in DOMAIN given : given[i].name \notin Stripped} = K
    BY DEF Kept
  <1> HIDE DEF K
  <1>13. QED
    BY <1>2, <1>8, <1>9, <1>10, <1>11, <1>12 DEF RelayedIsOwn

-----------------------------------------------------------------------------
(* Messages that are sent from here.                                        *)

IsRequest(c) ==
    /\ IsComposed(c)
    /\ c.references \in Seq(Id) /\ Length(c.references) <= MaxChain
    /\ c.inReplyTo \in Id

\* The parts of Build.
BodyParts(c, depth) ==
    IF c.text.size > 0 /\ c.html.size > 0
    THEN <<Multipart(depth), Leaf(depth + 1, "text/plain", c.text.size),
           Leaf(depth + 1, "text/html", c.html.size)>>
    ELSE IF c.html.size > 0 THEN <<Leaf(depth, "text/html", c.html.size)>>
    ELSE <<Leaf(depth, "text/plain", c.text.size)>>
FilePart(f) == [Leaf(1, f.type, f.size) EXCEPT !.disposition = "attachment", !.name = Plain(f.name)]

\* A part that is no file, and sound.
Sound(p) ==
    /\ p \in Part /\ p.depth <= 2 /\ ~p.cut /\ ~Undecodable(p) /\ ~IsFile(p) /\ p.disposition # "attachment"

LEMMA Leaves ==
  ASSUME NEW depth \in 0..2, NEW type \in {"multipart", "text/plain", "text/html"}, NEW size \in Nat
  PROVE  /\ Sound(Leaf(depth, type, size))
         /\ Leaf(depth, type, size).depth = depth /\ Leaf(depth, type, size).type = type
         /\ Leaf(depth, type, size).size = size
  <1> DEFINE p == Leaf(depth, type, size)
  <1>1. p = [depth |-> depth, type |-> type, disposition |-> "none", name |-> NoName, encoding |-> "known",
             charsetKnown |-> TRUE, cid |-> "none", size |-> size, garbled |-> FALSE, cut |-> FALSE, sniffed |-> "other"]
    BY DEF Leaf
  <1>2. {"none", "known", "other", type} \subseteq Word
    BY DEF Word
  <1>3. NoName \in Header
    <2>1. <<>> \in Seq(Word)
      BY EmptySeq
    <2>2. QED
      BY <1>2, <2>1 DEF NoName, Plain, Header, Text
  <1>4. p \in Part
    BY <1>1, <1>2, <1>3 DEF Part
  <1>5. /\ p.depth = depth /\ p.type = type /\ p.size = size /\ p.disposition = "none" /\ p.name = NoName
        /\ p.encoding = "known" /\ p.charsetKnown /\ ~p.cut
    BY <1>1
  <1> HIDE DEF p
  <1>6. Sound(p)
    BY <1>4, <1>5 DEF Sound, Undecodable, IsFile
  <1>7. QED
    BY <1>5, <1>6 DEF p

LEMMA FileParts ==
  ASSUME NEW f \in File
  PROVE  LET p == FilePart(f)
         IN  /\ p \in Part /\ p.depth = 1 /\ ~p.cut /\ ~Undecodable(p) /\ IsFile(p) /\ Decodes(p)
             /\ p.disposition = "attachment" /\ p.size = f.size /\ p.type # "multipart"
  <1> DEFINE p == FilePart(f)
  <1>1. f.name \in Text /\ f.type \in Word /\ f.size \in 0..MaxMessageBytes /\ f.type # "multipart"
    BY DEF File
  <1>2. p = [depth |-> 1, type |-> f.type, disposition |-> "attachment", name |-> Plain(f.name), encoding |-> "known",
             charsetKnown |-> TRUE, cid |-> "none", size |-> f.size, garbled |-> FALSE, cut |-> FALSE, sniffed |-> "other"]
    <2> DEFINE q == Leaf(1, f.type, f.size)
    <2>1. q = [depth |-> 1, type |-> f.type, disposition |-> "none", name |-> NoName, encoding |-> "known",
               charsetKnown |-> TRUE, cid |-> "none", size |-> f.size, garbled |-> FALSE, cut |-> FALSE, sniffed |-> "other"]
      BY DEF Leaf
    <2>2. p = [q EXCEPT !.disposition = "attachment", !.name = Plain(f.name)]
      BY DEF FilePart
    <2> HIDE DEF q, p
    <2>3. QED
      BY <2>1, <2>2
  <1>3. {"none", "known", "other", "attachment"} \subseteq Word
    BY DEF Word
  <1>4. Plain(f.name) \in Header
    BY <1>1, <1>3 DEF Plain, Header
  <1>5. f.size \in Nat /\ f.size <= MaxMessageBytes
    BY <1>1, TalkAssumption
  <1>6. p \in Part
    BY <1>1, <1>2, <1>3, <1>4, <1>5 DEF Part
  <1>7. /\ p.depth = 1 /\ p.type = f.type /\ p.size = f.size /\ p.disposition = "attachment"
        /\ p.encoding = "known" /\ p.charsetKnown /\ ~p.cut /\ ~p.garbled
    BY <1>2
  <1> HIDE DEF p
  <1>8. ~Undecodable(p) /\ IsFile(p) /\ Decodes(p)
    BY <1>1, <1>5, <1>7 DEF Undecodable, IsFile, Decodes
  <1>9. QED
    BY <1>1, <1>6, <1>7, <1>8 DEF p

\* A text or a page is there if it is not empty.
Holds(parts, type) == \E i \in 1..Len(parts) : IsBody(parts[i], type) /\ parts[i].size > 0

\* Each part of a list is in the one before it or beside it.
Nested(parts) ==
    \A i \in 2..Len(parts) :
        /\ parts[i].depth \in 1..(parts[i - 1].depth + 1)
        /\ parts[i].depth > parts[i - 1].depth => parts[i - 1].type = "multipart"

\* The bodies of a message that is sent.
LEMMA BodyPartsAre ==
  ASSUME NEW c, IsComposed(c), NEW depth \in 0..1
  PROVE  LET B == BodyParts(c, depth)
         IN  /\ B \in Seq(Part) /\ Len(B) \in 1..3
             /\ \A i \in 1..Len(B) : Sound(B[i]) /\ B[i].depth >= depth
             /\ B[1].depth = depth /\ Nested(B)
             /\ Holds(B, "text/plain") <=> c.text.size > 0
             /\ Holds(B, "text/html") <=> c.html.size > 0
  <1> DEFINE B == BodyParts(c, depth)
             t == c.text.size
             h == c.html.size
             mp == Multipart(depth)
  <1>1. t \in Nat /\ h \in Nat
    BY DEF IsComposed, Content
  <1>2. depth \in 0..2 /\ depth + 1 \in 0..2 /\ depth \in Nat
    OBVIOUS
  <1>3. Sound(mp) /\ mp.depth = depth /\ mp.type = "multipart"
    <2>1. mp = Leaf(depth, "multipart", 0)
      BY DEF Multipart
    <2>2. QED
      BY <1>2, <2>1, Leaves
  <1>4. ~IsBody(mp, "text/plain") /\ ~IsBody(mp, "text/html")
    BY <1>3 DEF IsBody
  <1>5. ASSUME NEW d \in 0..2, NEW type \in {"text/plain", "text/html"}, NEW size \in Nat
        PROVE  LET p == Leaf(d, type, size)
               IN  /\ Sound(p) /\ p.depth = d /\ p.type = type /\ p.size = size
                   /\ \A other : IsBody(p, other) <=> other = type
    <2> DEFINE p == Leaf(d, type, size)
    <2>1. Sound(p) /\ p.depth = d /\ p.type = type /\ p.size = size
      BY Leaves
    <2> HIDE DEF p
    <2>2. \A other : IsBody(p, other) <=> other = type
      BY <2>1 DEF IsBody, Sound
    <2>3. QED
      BY <2>1, <2>2 DEF p
  <1> HIDE DEF t, h, mp, B
  <1>6. CASE t > 0 /\ h > 0
    <2> DEFINE p == Leaf(depth + 1, "text/plain", t)
               q == Leaf(depth + 1, "text/html", h)
    <2>1. B = <<mp, p, q>>
      BY <1>6 DEF BodyParts, B, t, h, mp
    <2>2. /\ Sound(p) /\ p.depth = depth + 1 /\ p.size = t /\ IsBody(p, "text/plain") /\ ~IsBody(p, "text/html")
          /\ Sound(q) /\ q.depth = depth + 1 /\ q.size = h /\ IsBody(q, "text/html") /\ ~IsBody(q, "text/plain")
          /\ p.type # "multipart"
      BY <1>1, <1>2, <1>5
    <2> HIDE DEF p, q
    <2>3. Len(B) = 3 /\ B[1] = mp /\ B[2] = p /\ B[3] = q
      BY <2>1
    <2>4. \A i \in 1..Len(B) : i = 1 \/ i = 2 \/ i = 3
      BY <2>3
    <2>5. \A i \in 2..Len(B) : (i = 2 /\ i - 1 = 1) \/ (i = 3 /\ i - 1 = 2)
      BY <2>3
    <2>6. B \in Seq(Part)
      <3>1. mp \in Part /\ p \in Part /\ q \in Part
        BY <1>3, <2>2 DEF Sound
      <3>2. QED
        BY <2>1, <3>1
    <2>7. \A i \in 1..Len(B) : Sound(B[i]) /\ B[i].depth >= depth
      BY <1>2, <1>3, <2>2, <2>3, <2>4
    <2>8. Nested(B)
      <3>1. B[2].depth \in 1..(B[1].depth + 1) /\ (B[2].depth > B[1].depth => B[1].type = "multipart")
        BY <1>2, <1>3, <2>2, <2>3
      <3>2. B[3].depth \in 1..(B[2].depth + 1) /\ ~(B[3].depth > B[2].depth)
        BY <1>2, <2>2, <2>3
      <3>3. QED
        BY <2>5, <3>1, <3>2 DEF Nested
    <2>9. Holds(B, "text/plain") /\ Holds(B, "text/html")
      <3>1. 2 \in 1..Len(B) /\ 3 \in 1..Len(B)
        BY <2>3
      <3>2. QED
        BY <1>6, <2>2, <2>3, <3>1 DEF Holds
    <2>10. QED
      BY <1>3, <1>6, <2>3, <2>6, <2>7, <2>8, <2>9 DEF B, t, h
  <1>7. ASSUME NEW type \in {"text/plain", "text/html"}, NEW size \in Nat, B = <<Leaf(depth, type, size)>>
        PROVE  /\ B \in Seq(Part) /\ Len(B) = 1
               /\ \A i \in 1..Len(B) : Sound(B[i]) /\ B[i].depth >= depth
               /\ B[1].depth = depth /\ Nested(B)
               /\ \A other : Holds(B, other) <=> other = type /\ size > 0
    <2> DEFINE p == Leaf(depth, type, size)
    <2>1. Sound(p) /\ p.depth = depth /\ p.size = size /\ \A other : IsBody(p, other) <=> other = type
      BY <1>2, <1>5
    <2>2. B = <<p>>
      BY <1>7
    <2> HIDE DEF p
    <2>3. Len(B) = 1 /\ B[1] = p
      BY <2>2
    <2>4. \A i \in 1..Len(B) : i = 1
      BY <2>3
    <2>5. B \in Seq(Part)
      <3>1. p \in Part
        BY <2>1 DEF Sound
      <3>2. QED
        BY <2>2, <3>1
    <2>6. Nested(B)
      BY <2>3 DEF Nested
    <2>7. \A other : Holds(B, other) <=> other = type /\ size > 0
      <3>1. 1 \in 1..Len(B)
        BY <2>3
      <3>2. QED
        BY <2>1, <2>3, <2>4, <3>1 DEF Holds
    <2>8. QED
      BY <1>2, <2>1, <2>3, <2>4, <2>5, <2>6, <2>7
  <1>8. CASE ~(t > 0) /\ h > 0
    <2>1. B = <<Leaf(depth, "text/html", h)>>
      BY <1>8 DEF BodyParts, B, t, h
    <2>2. QED
      BY <1>1, <1>7, <1>8, <2>1 DEF B, t, h
  <1>9. CASE ~(h > 0)
    <2>1. B = <<Leaf(depth, "text/plain", t)>>
      BY <1>9 DEF BodyParts, B, t, h
    <2>2. QED
      BY <1>1, <1>7, <1>9, <2>1 DEF B, t, h
  <1>10. QED
    BY <1>6, <1>8, <1>9

\* What Build makes: at most four parts for the bodies, and then the files.
LEMMA BuildParts ==
  ASSUME NEW c, IsComposed(c)
  PROVE  LET P == Build(c).parts
             off == Len(P) - Len(c.files)
         IN  /\ P \in Seq(Part) /\ Len(P) \in Nat /\ Len(c.files) \in Nat
             /\ off \in 1..4
             /\ \A i \in 1..off : Sound(P[i])
             /\ \A k \in 1..Len(c.files) : c.files[k] \in File /\ P[off + k] = FilePart(c.files[k])
             /\ IsTree(P)
             /\ Holds(P, "text/plain") <=> c.text.size > 0
             /\ Holds(P, "text/html") <=> c.html.size > 0
  <1> DEFINE P == Build(c).parts
             F == [k \in DOMAIN c.files |-> FilePart(c.files[k])]
             nf == Len(c.files)
             B == BodyParts(c, 1)
             b == Len(B)
             mp == Multipart(0)
  <1>1. c.files \in Seq(File)
    BY DEF IsComposed
  <1>2. nf \in Nat /\ DOMAIN c.files = 1..nf /\ \A k \in 1..nf : c.files[k] \in File
    BY <1>1, LenProperties, ElementOfSeq
  <1>3. P = IF c.files = <<>> THEN BodyParts(c, 0) ELSE <<mp>> \o B \o F
    BY DEF Build, BodyParts, FilePart
  <1>4. CASE c.files = <<>>
    <2> DEFINE Q == BodyParts(c, 0)
    <2>1. /\ Q \in Seq(Part) /\ Len(Q) \in 1..3
          /\ \A i \in 1..Len(Q) : Sound(Q[i])
          /\ Q[1].depth = 0 /\ Nested(Q)
          /\ Holds(Q, "text/plain") <=> c.text.size > 0
          /\ Holds(Q, "text/html") <=> c.html.size > 0
      BY BodyPartsAre
    <2>2. P = Q /\ nf = 0
      <3>1. P = Q
        BY <1>3, <1>4
      <3>2. nf = 0
        BY <1>1, <1>4, EmptySeq
      <3>3. QED
        BY <3>1, <3>2
    <2> HIDE DEF P, Q, nf
    <2>3. IsTree(Q)
      <3>1. Q # <<>>
        <4>1. Len(<<>>) = 0 /\ Len(Q) # 0
          BY <2>1
        <4>2. QED
          BY <4>1, Zenon
      <3>2. QED
        BY <2>1, <3>1 DEF IsTree, Nested
    <2>4. Len(P) - nf = Len(Q) /\ Len(Q) \in Nat /\ Len(Q) \in 1..4
      BY <2>1, <2>2
    <2>5. \A k : k \notin 1..nf
      BY <2>2
    <2> DEFINE off == Len(P) - nf
    <2>6. off = Len(Q) /\ off \in 1..4
      BY <2>4
    <2>7. \A i \in 1..off : Sound(P[i])
      BY <2>1, <2>2, <2>6
    <2>8. P \in Seq(Part) /\ Len(P) \in Nat /\ nf \in Nat /\ IsTree(P)
      BY <2>1, <2>2, <2>3, <2>4
    <2>9. (Holds(P, "text/plain") <=> c.text.size > 0) /\ (Holds(P, "text/html") <=> c.html.size > 0)
      BY <2>1, <2>2
    <2>10. \A k \in 1..nf : c.files[k] \in File /\ P[off + k] = FilePart(c.files[k])
      BY <2>5
    <2>11. QED
      BY <2>6, <2>7, <2>8, <2>9, <2>10 DEF P, nf
  <1>5. CASE c.files # <<>>
    <2>1. /\ B \in Seq(Part) /\ b \in 1..3
          /\ \A i \in 1..b : Sound(B[i]) /\ B[i].depth >= 1
          /\ B[1].depth = 1 /\ Nested(B)
          /\ Holds(B, "text/plain") <=> c.text.size > 0
          /\ Holds(B, "text/html") <=> c.html.size > 0
      BY BodyPartsAre
    <2>2. \A k \in 1..nf : /\ FilePart(c.files[k]) \in Part /\ FilePart(c.files[k]).depth = 1
                           /\ FilePart(c.files[k]).disposition = "attachment"
      BY <1>2, FileParts
    <2>3. F \in Seq(Part) /\ Len(F) = nf /\ \A k \in 1..nf : F[k] = FilePart(c.files[k])
      <3>1. F \in [1..nf -> Part] /\ \A k \in 1..nf : F[k] = FilePart(c.files[k])
        BY <1>2, <2>2
      <3> HIDE DEF F, nf
      <3>2. F \in Seq(Part)
        BY <1>2, <3>1, SeqDef
      <3>3. QED
        BY <1>2, <3>1, <3>2, LenProperties
    <2>4. Sound(mp) /\ mp.depth = 0 /\ mp.type = "multipart"
      <3>1. mp = Leaf(0, "multipart", 0) /\ 0 \in 0..2 /\ 0 \in Nat
        BY DEF Multipart
      <3>2. QED
        BY <3>1, Leaves
    <2>5. ~IsBody(mp, "text/plain") /\ ~IsBody(mp, "text/html")
      BY <2>4 DEF IsBody
    <2>6. P = <<mp>> \o B \o F
      BY <1>3, <1>5
    <2> HIDE DEF P, F, nf, B, b, mp
    <2> DEFINE top == <<mp>>
               front == top \o B
               off == b + 1
    <2>7. top \in Seq(Part) /\ Len(top) = 1 /\ top[1] = mp
      <3>1. mp \in Part
        BY <2>4 DEF Sound
      <3>2. QED
        BY <3>1
    <2> HIDE DEF top
    <2>8. /\ front \in Seq(Part) /\ Len(front) = 1 + b
          /\ \A i \in 1..(1 + b) : front[i] = IF i <= 1 THEN top[i] ELSE B[i - 1]
      <3>1. B \in Seq(Part) /\ Len(B) = b
        BY <2>1 DEF b
      <3>2. /\ front \in Seq(Part) /\ Len(front) = Len(top) + Len(B)
            /\ \A i \in 1..(Len(top) + Len(B)) : front[i] = IF i <= Len(top) THEN top[i] ELSE B[i - Len(top)]
        BY <2>7, <3>1, ConcatProperties
      <3> HIDE DEF front
      <3>3. QED
        BY <2>7, <3>1, <3>2
    <2>9. P = front \o F
      BY <2>6 DEF top
    <2> HIDE DEF front
    <2>10. /\ P \in Seq(Part) /\ Len(P) = 1 + b + nf
           /\ \A i \in 1..(1 + b + nf) : P[i] = IF i <= 1 + b THEN front[i] ELSE F[i - (1 + b)]
      <3>1. /\ P \in Seq(Part) /\ Len(P) = Len(front) + Len(F)
            /\ \A i \in 1..(Len(front) + Len(F)) : P[i] = IF i <= Len(front) THEN front[i] ELSE F[i - Len(front)]
        BY <2>3, <2>8, <2>9, ConcatProperties
      <3>2. Len(front) = 1 + b /\ Len(F) = nf
        BY <2>3, <2>8
      <3>3. QED
        BY <3>1, <3>2
    <2>11. b \in Nat /\ off \in 1..4 /\ Len(P) - nf = off /\ Len(P) \in Nat /\ Len(P) = off + nf
      BY <1>2, <2>1, <2>10
    <2>12. P[1] = mp
      BY <1>2, <2>7, <2>8, <2>10, <2>11
    <2>13. \A i \in 1..b : i + 1 \in 1..off /\ P[i + 1] = B[i]
      <3>1. ASSUME NEW i \in 1..b PROVE i + 1 \in 1..off /\ P[i + 1] = B[i]
        <4>1. i + 1 \in 1..(1 + b) /\ i + 1 \in 1..(1 + b + nf) /\ ~(i + 1 <= 1) /\ i + 1 - 1 = i /\ i + 1 <= 1 + b
          BY <1>2, <2>11
        <4>2. P[i + 1] = front[i + 1] /\ front[i + 1] = B[i]
          BY <2>8, <2>10, <4>1
        <4>3. QED
          BY <2>11, <4>2
      <3>2. QED
        BY <3>1
    <2>14. \A k \in 1..nf : off + k \in 1..Len(P) /\ P[off + k] = FilePart(c.files[k])
      <3>1. ASSUME NEW k \in 1..nf PROVE off + k \in 1..Len(P) /\ P[off + k] = FilePart(c.files[k])
        <4>1. off + k \in 1..(1 + b + nf) /\ ~(off + k <= 1 + b) /\ off + k - (1 + b) = k
          BY <1>2, <2>11
        <4>4. PICK i \in 1..(1 + b + nf) : i = off + k
          BY <4>1
        <4>5. P[i] = IF i <= 1 + b THEN front[i] ELSE F[i - (1 + b)]
          BY <2>10
        <4>6. ~(i <= 1 + b) /\ i - (1 + b) = k
          BY <1>2, <2>11, <4>4
        <4>2. P[off + k] = F[k]
          BY <4>4, <4>5, <4>6
        <4>3. QED
          BY <2>3, <2>10, <4>1, <4>2
      <3>2. QED
        BY <3>1
    \* Every place is the root's, one of the bodies' or one of the files'.
    <2>15. \A i \in 1..Len(P) : \/ i = 1
                                \/ \E j \in 1..b : i = j + 1
                                \/ \E k \in 1..nf : i = off + k
      <3>1. ASSUME NEW i \in 1..Len(P), i # 1, i <= off PROVE i - 1 \in 1..b /\ i = i - 1 + 1
        BY <2>11, <3>1
      <3>2. ASSUME NEW i \in 1..Len(P), ~(i <= off) PROVE i - off \in 1..nf /\ i = off + (i - off)
        BY <1>2, <2>11, <3>2
      <3> HIDE DEF off
      <3>3. QED
        BY <3>1, <3>2
    <2>16. \A i \in 1..off : Sound(P[i])
      <3>1. \A i \in 1..off : i = 1 \/ \E j \in 1..b : i = j + 1
        <4>1. \A i \in 1..off : i # 1 => i - 1 \in 1..b /\ i = i - 1 + 1
          BY <2>11
        <4>2. QED
          BY <4>1
      <3>2. QED
        BY <2>1, <2>4, <2>12, <2>13, <3>1
    <2>17. ASSUME NEW i \in 2..Len(P)
           PROVE  /\ P[i].depth \in 1..(P[i - 1].depth + 1)
                  /\ P[i].depth > P[i - 1].depth => P[i - 1].type = "multipart"
      <3>0. i \in 1..Len(P) /\ i # 1 /\ i \in Nat
        BY <2>11
      <3>1. CASE i = 2
        <4>1. 1 \in 1..b /\ 1 + 1 = 2 /\ i - 1 = 1
          BY <2>1, <3>1
        <4>2. P[2] = B[1]
          BY <2>13, <4>1
        <4>3. QED
          BY <2>1, <2>4, <2>12, <3>1, <4>1, <4>2
      <3>2. CASE i # 2 /\ i <= off
        <4> DEFINE j == i - 1
        <4>1. j \in 2..b /\ j \in 1..b /\ j - 1 \in 1..b /\ j + 1 = i /\ j - 1 + 1 = i - 1
          BY <2>11, <3>0, <3>2
        <4> HIDE DEF j
        <4>2. P[i] = B[j] /\ P[i - 1] = B[j - 1]
          BY <2>13, <4>1
        <4>3. QED
          BY <2>1, <4>1, <4>2 DEF Nested, b
      <3>3. CASE i = off + 1
        <4>1. b \in 1..b /\ i - 1 = b + 1 /\ 1 \in 1..nf
          BY <1>2, <2>1, <2>11, <3>0, <3>3
        <4>2. P[i - 1] = B[b]
          BY <2>13, <4>1
        <4>3. P[i].depth = 1
          BY <2>2, <2>14, <3>3, <4>1
        <4>4. P[i - 1].depth \in Nat /\ P[i - 1].depth >= 1
          BY <2>1, <4>1, <4>2 DEF Sound, Part
        <4>5. QED
          BY <4>3, <4>4
      <3>4. CASE i > off + 1
        <4> DEFINE k == i - off
        <4>1. k \in 1..nf /\ k - 1 \in 1..nf /\ i = off + k /\ i - 1 = off + (k - 1)
          BY <1>2, <2>11, <3>0, <3>4
        <4> HIDE DEF k, off
        <4>2. P[i].depth = 1 /\ P[i - 1].depth = 1
          BY <2>2, <2>14, <4>1
        <4>3. QED
          BY <4>2
      <3>5. QED
        BY <2>11, <3>0, <3>1, <3>2, <3>3, <3>4
    <2>18. IsTree(P)
      <3>1. P # <<>>
        <4>1. Len(<<>>) = 0 /\ Len(P) # 0
          BY <1>2, <2>11
        <4>2. QED
          BY <4>1, Zenon
      <3>2. QED
        BY <2>4, <2>10, <2>12, <2>17, <3>1 DEF IsTree
    <2>19. ASSUME NEW type \in {"text/plain", "text/html"} PROVE Holds(P, type) <=> Holds(B, type)
      <3>1. ASSUME NEW i \in 1..Len(P), IsBody(P[i], type), P[i].size > 0 PROVE Holds(B, type)
        <4>1. i # 1
          BY <2>5, <2>12, <3>1
        <4>2. ~ \E k \in 1..nf : i = off + k
          BY <2>2, <2>14, <3>1 DEF IsBody
        <4>3. QED
          BY <2>13, <2>15, <3>1, <4>1, <4>2 DEF Holds, b
      <3>2. ASSUME NEW j \in 1..b, IsBody(B[j], type), B[j].size > 0 PROVE Holds(P, type)
        <4>1. j + 1 \in 1..Len(P)
          BY <1>2, <2>11
        <4>2. QED
          BY <2>13, <3>2, <4>1 DEF Holds
      <3>3. QED
        BY <3>1, <3>2 DEF Holds, b
    <2> HIDE DEF off
    <2>20. /\ Len(P) - nf \in 1..4 /\ \A i \in 1..(Len(P) - nf) : Sound(P[i])
           /\ \A k \in 1..nf : c.files[k] \in File /\ P[Len(P) - nf + k] = FilePart(c.files[k])
      <3>1. Len(P) - nf = off /\ off \in 1..4
        BY <2>11
      <3>2. QED
        BY <1>2, <2>14, <2>16, <3>1
    <2>21. P \in Seq(Part) /\ Len(P) \in Nat /\ nf \in Nat /\ IsTree(P)
      BY <1>2, <2>10, <2>11, <2>18
    <2>22. (Holds(P, "text/plain") <=> c.text.size > 0) /\ (Holds(P, "text/html") <=> c.html.size > 0)
      BY <2>1, <2>19
    <2>23. QED
      BY <2>20, <2>21, <2>22 DEF P, nf
  <1>6. QED
    BY <1>4, <1>5

\* What is sent is a message that can be read.
LEMMA BuildIsMessage ==
  ASSUME NEW c, IsRequest(c)
  PROVE  /\ IsMessage(Build(c)) /\ Build(c).lenient /\ Build(c).strict
         /\ InReplyTo(Build(c)).name = "new" /\ InReplyTo(Build(c)) # NoId /\ InReplyTo(Build(c)).bytes = 1
  <1> DEFINE m == Build(c)
             own == [name |-> "new", bytes |-> 1, chars |-> 1]
             parent == IF c.inReplyTo = NoId THEN <<>> ELSE <<c.inReplyTo>>
  <1>1. m.lenient = TRUE /\ m.strict = TRUE /\ m.ids = <<own>> /\ m.references = c.references /\ m.inReplyTo = parent
    BY DEF Build
  <1>2. own \in Id
    <2>1. MaxChain \in Nat /\ 1 <= MaxChain
      BY TalkAssumption
    <2>2. own \in [name : Word, bytes : Nat, chars : Nat]
      BY DEF Word
    <2>3. QED
      BY <2>1, <2>2 DEF Id
  <1>3. own.name = "new" /\ own.bytes = 1 /\ own # NoId
    BY DEF NoId
  <1> HIDE DEF own
  <1>4. m.ids \in Seq(Id) /\ Len(m.ids) = 1 /\ m.ids[1] = own
    BY <1>1, <1>2
  <1>5. m.references \in Seq(Id) /\ m.inReplyTo \in Seq(Id)
    <2>1. c.references \in Seq(Id) /\ c.inReplyTo \in Id
      BY DEF IsRequest
    <2>2. parent \in Seq(Id)
      BY <2>1
    <2> HIDE DEF parent
    <2>3. QED
      BY <1>1, <2>1, <2>2
  <1>6. IsTree(m.parts)
    BY BuildParts DEF IsRequest
  <1>7. InReplyTo(m) = own
    BY <1>4 DEF InReplyTo
  <1> HIDE DEF m, parent
  <1>8. IsMessage(m)
    BY <1>1, <1>4, <1>5, <1>6 DEF IsMessage
  <1>9. QED
    BY <1>1, <1>3, <1>7, <1>8 DEF m

\* Its walk meets no limit, and lists the files and nothing else.
LEMMA SentFiles ==
  ASSUME NEW c, IsRequest(c), SendAccepts(c)
  PROVE  LET m == Build(c)
             off == Len(m.parts) - Len(c.files)
         IN  /\ ~Stopped(m) /\ ~Broken(m) /\ FilesMet(m) = Listed(m)
             /\ Listed(m) = (off + 1)..Len(m.parts)
             /\ \A k \in 1..Len(c.files) : ItemOf(m, off + k).id = off + k
                                           /\ ItemOf(m, off + k).size = c.files[k].size
  <1> DEFINE m == Build(c)
             P == m.parts
             n == Len(P)
             nf == Len(c.files)
             off == n - nf
  <1>0. /\ MaxFiles \in Nat /\ MaxParts \in Nat /\ MaxDepth \in Nat
        /\ MaxParts >= MaxFiles + 4 /\ MaxDepth >= 2
    BY TalkAssumption
  <1>1. /\ n \in Nat /\ nf \in Nat /\ off \in 1..4
        /\ \A i \in 1..off : Sound(P[i])
        /\ \A k \in 1..nf : c.files[k] \in File /\ P[off + k] = FilePart(c.files[k])
    BY BuildParts DEF IsRequest
  <1>2. n <= MaxParts
    <2>1. nf <= MaxFiles
      BY DEF SendAccepts
    <2> HIDE DEF n, nf
    <2>2. QED
      BY <1>0, <1>1, <2>1
  <1>3. IsMessage(m)
    BY BuildIsMessage
  <1>4. \A i \in 1..n : i \in 1..off \/ (i - off \in 1..nf /\ i = off + (i - off))
    <2> HIDE DEF n, nf
    <2>1. QED
      BY <1>1
  <1>5. \A i \in 1..off : i \in 1..n
    <2> HIDE DEF n, nf
    <2>1. QED
      BY <1>1
  <1>6. \A k \in 1..nf : off + k \in 1..n /\ off + k \notin 1..off
    <2> HIDE DEF n, nf
    <2>1. QED
      BY <1>1
  <1> HIDE DEF P, n, nf, off, m
  <1>7. \A i \in 1..n : P[i].depth \in Nat /\ P[i].depth <= 2 /\ ~P[i].cut
    <2>1. \A i \in 1..off : P[i].depth \in Nat /\ P[i].depth <= 2 /\ ~P[i].cut
      <3>1. \A p : Sound(p) => p.depth \in Nat /\ p.depth <= 2 /\ ~p.cut
        BY DEF Sound, Part
      <3>2. QED
        BY <1>1, <3>1
    <2>2. \A k \in 1..nf : P[off + k].depth = 1 /\ ~P[off + k].cut
      <3>1. \A k \in 1..nf : c.files[k] \in File /\ P[off + k] = FilePart(c.files[k])
        BY <1>1
      <3>2. \A f \in File : FilePart(f).depth = 1 /\ ~FilePart(f).cut
        BY FileParts
      <3>3. QED
        BY <3>1, <3>2
    <2>3. \A i \in 1..n : i \notin 1..off => P[i].depth = 1 /\ ~P[i].cut
      BY <1>4, <2>2
    <2>4. QED
      BY <2>1, <2>3
  <1>8. DOMAIN P = 1..n
    BY <1>3, PartsProperties DEF P, n
  <1>9. ~Stopped(m)
    <2>1. Reached(m) = 1..n
      BY <1>0, <1>7, <1>8 DEF Reached, P
    <2>2. Cardinality(1..n) = n
      <3>1. 1 \in Int /\ n \in Int
        BY <1>1
      <3>2. QED
        BY <1>1, <3>1, FS_Interval
    <2>3. \A i \in 1..n : ~(P[i].depth > MaxDepth)
      BY <1>0, <1>7
    <2>4. ~(n > MaxParts)
      BY <1>0, <1>1, <1>2
    <2>5. QED
      BY <2>1, <2>2, <2>3, <2>4 DEF Stopped, P
  <1>10. Opened(m) = 1..n /\ \A i \in 1..n : Place(m, i) = i
    BY <1>3, <1>9, WholeWalk DEF P, n
  <1>11. ~Broken(m)
    BY <1>7, <1>10 DEF Broken, P
  <1>12. \A i \in 1..off : ~IsFile(P[i])
    BY <1>1 DEF Sound
  <1>13. \A k \in 1..nf : IsFile(P[off + k]) /\ Decodes(P[off + k]) /\ P[off + k].size = c.files[k].size
    BY <1>1, FileParts
  <1>14. \A i \in 1..n : i \notin 1..off <=> i \in (off + 1)..n
    <2> HIDE DEF P
    <2>1. QED
      BY <1>1
  <1>15. \A i \in 1..n : i \notin 1..off => IsFile(P[i]) /\ Decodes(P[i])
    BY <1>4, <1>13
  <1>16. \A i \in (off + 1)..n : i \in 1..n
    BY <1>1
  <1>17. FilesMet(m) = (off + 1)..n
    BY <1>10, <1>12, <1>14, <1>15, <1>16 DEF FilesMet, P
  <1>18. Listed(m) = FilesMet(m)
    BY <1>14, <1>15, <1>16, <1>17 DEF Listed, P
  <1>19. \A k \in 1..nf : ItemOf(m, off + k).id = off + k /\ ItemOf(m, off + k).size = c.files[k].size
    <2>1. \A i \in 1..n : ItemOf(m, i).id = i /\ ItemOf(m, i).size = P[i].size
      BY <1>10 DEF ItemOf, P
    <2>2. QED
      BY <1>6, <1>13, <2>1
  <1>20. QED
    BY <1>9, <1>11, <1>17, <1>18, <1>19 DEF m, P, n, nf, off

\* The item with k items up to it is that of the k-th file.
LEMMA NthItem ==
  ASSUME NEW c, IsRequest(c), SendAccepts(c)
  PROVE  LET items == ScanAttachments(Build(c), 0).items
         IN  /\ Cardinality(items) = Len(c.files)
             /\ \A i \in 1..Len(c.files) :
                   (CHOOSE item \in items : Cardinality({j \in items : j.id <= item.id}) = i).size = c.files[i].size
  <1> DEFINE m == Build(c)
             items == ScanAttachments(m, 0).items
             n == Len(m.parts)
             nf == Len(c.files)
             off == n - nf
             item(k) == ItemOf(m, off + k)
             upTo(k) == {j \in items : j.id <= off + k}
  <1>1. /\ Listed(m) = (off + 1)..n
        /\ \A k \in 1..nf : item(k).id = off + k /\ item(k).size = c.files[k].size
    BY SentFiles
  <1>2. n \in Nat /\ nf \in Nat /\ off \in 1..4
    BY BuildParts DEF IsRequest
  <1>3. items = {ItemOf(m, i) : i \in Listed(m)}
    BY BuildIsMessage, Scan
  <1>4. n = off + nf
    <2> HIDE DEF n, nf
    <2>1. QED
      BY <1>2
  <1>5. \A k \in 1..nf : off + k \in (off + 1)..n
    <2> HIDE DEF n, nf
    <2>1. QED
      BY <1>2, <1>4
  <1>6. \A i \in (off + 1)..n : i - off \in 1..nf /\ off + (i - off) = i
    <2> HIDE DEF n, nf
    <2>1. QED
      BY <1>2, <1>4
  <1> HIDE DEF m, n, nf, off, items
  <1>7. \A k \in 1..nf : item(k) \in items
    BY <1>1, <1>3, <1>5
  <1>8. \A x \in items : \E k \in 1..nf : x = item(k)
    <2>1. \A i \in (off + 1)..n : \E k \in 1..nf : ItemOf(m, i) = item(k)
      BY <1>6
    <2>2. QED
      BY <1>1, <1>3, <2>1
  <1>9. off \in Nat
    BY <1>2
  <1> HIDE DEF item
  <1>10. ASSUME NEW k \in 0..nf PROVE Cardinality(upTo(k)) = k
    <2> DEFINE f == [i \in 1..k |-> item(i)]
    <2>1. \A i \in 1..k : i \in 1..nf /\ i \in Nat /\ i <= k /\ off + i <= off + k
      BY <1>2, <1>9
    <2>2. \A i \in 1..k : f[i] = item(i) /\ item(i) \in upTo(k)
      BY <1>1, <1>7, <2>1
    <2>3. \A i, j \in 1..k : f[i] = f[j] => i = j
      <3>1. \A i, j \in 1..k : item(i).id = item(j).id => i = j
        <4>1. \A i, j \in 1..k : off + i = off + j => i = j
          BY <1>9, <2>1
        <4>2. QED
          BY <1>1, <2>1, <4>1
      <3>2. QED
        BY <3>1
    <2>4. \A x \in upTo(k) : \E i \in 1..k : x = item(i)
      <3>1. ASSUME NEW x \in upTo(k) PROVE \E i \in 1..k : x = item(i)
        <4>1. PICK i \in 1..nf : x = item(i)
          BY <1>8
        <4>2. off + i <= off + k
          BY <1>1, <4>1
        <4>3. i \in 1..k
          BY <1>2, <1>9, <4>2
        <4>4. QED
          BY <4>1, <4>3
      <3>2. QED
        BY <3>1
    <2> HIDE DEF upTo
    <2>5. f \in [1..k -> upTo(k)] /\ \A x \in upTo(k) : \E i \in 1..k : f[i] = x
      BY <2>2, <2>4
    <2> HIDE DEF f
    <2>6. ExistsBijection(1..k, upTo(k))
      BY <2>3, <2>5 DEF ExistsBijection, Bijection, Injection, Surjection, IsInjective
    <2>7. 1 \in Int /\ k \in Int /\ k \in Nat
      BY <1>2
    <2>8. IsFiniteSet(1..k) /\ Cardinality(1..k) = k
      BY <2>7, FS_Interval
    <2>9. QED
      BY <2>6, <2>8, FS_Bijection
  <1>11. \A k \in 1..nf : {j \in items : j.id <= item(k).id} = upTo(k)
    BY <1>1
  <1>12. Cardinality(items) = nf
    <2>1. \A x \in items : x.id <= off + nf
      <3>1. \A k \in 1..nf : off + k <= off + nf
        BY <1>2, <1>9
      <3>2. QED
        BY <1>1, <1>8, <3>1
    <2>2. upTo(nf) = items
      BY <2>1
    <2>3. nf \in 0..nf
      BY <1>2
    <2> HIDE DEF upTo
    <2>4. QED
      BY <1>10, <2>2, <2>3
  <1>13. ASSUME NEW i \in 1..nf
         PROVE  (CHOOSE x \in items : Cardinality({j \in items : j.id <= x.id}) = i).size = c.files[i].size
    <2>1. \A k \in 1..nf : Cardinality({j \in items : j.id <= item(k).id}) = k
      <3>1. \A k \in 1..nf : k \in 0..nf
        BY <1>2
      <3> HIDE DEF upTo
      <3>2. QED
        BY <1>10, <1>11, <3>1
    <2>2. \A x \in items : Cardinality({j \in items : j.id <= x.id}) = i => x = item(i)
      BY <1>8, <2>1
    <2>3. item(i) \in items /\ Cardinality({j \in items : j.id <= item(i).id}) = i
      BY <1>7, <2>1
    <2>4. (CHOOSE x \in items : Cardinality({j \in items : j.id <= x.id}) = i) = item(i)
      BY <2>2, <2>3
    <2>5. QED
      BY <1>1, <2>4
  <1>14. QED
    BY <1>12, <1>13 DEF m, items, nf

\* Its bodies are read if they are there.
LEMMA SentBodies ==
  ASSUME NEW c, IsRequest(c), NEW type \in {"text/plain", "text/html"}
  PROVE  LET m == Build(c)
             first(S) == IF S = {} THEN 0 ELSE Min(S)
         IN  first(Readable(m, type)) # 0 <=> Holds(m.parts, type)
  <1> DEFINE m == Build(c)
             P == m.parts
             n == Len(P)
             nf == Len(c.files)
             off == n - nf
             R == Readable(m, type)
  <1>1. /\ n \in Nat /\ nf \in Nat /\ off \in 1..4
        /\ \A i \in 1..off : Sound(P[i])
        /\ \A k \in 1..nf : c.files[k] \in File /\ P[off + k] = FilePart(c.files[k])
    BY BuildParts DEF IsRequest
  <1>2. \A i \in 1..n : i \in 1..off \/ (i - off \in 1..nf /\ i = off + (i - off))
    <2> HIDE DEF n, nf
    <2>1. QED
      BY <1>1
  <1>3. DOMAIN P = 1..n
    BY BuildIsMessage, PartsProperties
  <1> HIDE DEF m, P, n, nf, off
  <1>4. \A i \in 1..n : ~Undecodable(P[i])
    <2>1. \A i \in 1..off : ~Undecodable(P[i])
      BY <1>1 DEF Sound
    <2>2. \A k \in 1..nf : ~Undecodable(P[off + k])
      BY <1>1, FileParts
    <2>3. QED
      BY <1>2, <2>1, <2>2
  <1>5. \A i \in 1..n : \A j \in 1..(i - 1) : j \in 1..n
    BY <1>1
  <1>6. \A i \in 1..n : ~Hidden(m, i)
    BY <1>4, <1>5 DEF Hidden, P
  <1>7. R = {i \in 1..n : IsBody(P[i], type) /\ P[i].size > 0}
    BY <1>3, <1>4, <1>6 DEF Readable, LostInSilence, P
  <1>8. R = {} <=> ~Holds(P, type)
    BY <1>7 DEF Holds, n
  <1>9. R # {} => Min(R) # 0
    <2> SUFFICES ASSUME R # {} PROVE Min(R) # 0
      OBVIOUS
    <2>1. R \in SUBSET Nat /\ 0 \notin R
      BY <1>1, <1>7
    <2> HIDE DEF R
    <2>2. \E x \in R : \A y \in R : x <= y
      BY <2>1, SmallestOf
    <2>3. Min(R) \in R
      BY <2>2 DEF Min
    <2>4. QED
      BY <2>1, <2>3
  <1> HIDE DEF R
  <1>10. QED
    BY <1>8, <1>9 DEF m, P, R

\* What is sent is read as it was composed.
LEMMA SentAreRead ==
  ASSUME NEW c, IsRequest(c), SendAccepts(c)
  PROVE  LET m == Build(c)
             scan == ScanAttachments(m, 0)
         IN  /\ Validate(c) /\ ~scan.incomplete
             /\ (Parse(m).text.of # 0) = (c.text.size > 0)
             /\ (Parse(m).html.of # 0) = (c.html.size > 0)
             /\ Parse(m).fields.FromAddr = Lower(c.from)
             /\ Last(Present(m).references).name = "new"
  <1> DEFINE m == Build(c)
             scan == ScanAttachments(m, 0)
             first(S) == IF S = {} THEN 0 ELSE Min(S)
  <1>1. IsMessage(m) /\ m.lenient /\ m.strict
    BY BuildIsMessage
  <1>2. Validate(c)
    BY DEF SendAccepts, Validate, HasBody
  <1>3. ~scan.incomplete
    BY <1>1, SentFiles, Scan
  <1>4. Parse(m).text.of = first(Readable(m, "text/plain")) /\ Parse(m).html.of = first(Readable(m, "text/html"))
    BY <1>1, FirstBodies DEF BodiesAreFirst
  <1>5. (first(Readable(m, "text/plain")) # 0 <=> c.text.size > 0)
        /\ (first(Readable(m, "text/html")) # 0 <=> c.html.size > 0)
    <2>1. (Holds(m.parts, "text/plain") <=> c.text.size > 0) /\ (Holds(m.parts, "text/html") <=> c.html.size > 0)
      BY BuildParts DEF IsRequest
    <2>2. (first(Readable(m, "text/plain")) # 0 <=> Holds(m.parts, "text/plain"))
          /\ (first(Readable(m, "text/html")) # 0 <=> Holds(m.parts, "text/html"))
      BY SentBodies
    <2> HIDE DEF first, m
    <2>3. QED
      BY <2>1, <2>2
  <1>6. Parse(m).fields.FromAddr = Lower(c.from)
    <2>1. m.from = [valid |-> TRUE, list |-> <<c.from>>, raw |-> c.from]
      BY DEF Build
    <2>2. m.from.valid /\ m.from.list = <<c.from>>
      BY <2>1
    <2>3. SplitAddress(m.from) = Lower(c.from)
      <3>1. Len(<<c.from>>) = 1 /\ <<c.from>>[1] = c.from
        OBVIOUS
      <3>2. QED
        BY <2>2, <3>1 DEF SplitAddress
    <2> HIDE DEF m
    <2>4. Parse(m).fields = Fields(m)
      BY <1>1 DEF Parse
    <2>5. Fields(m).FromAddr = SplitAddress(m.from)
      BY DEF Fields
    <2>6. QED
      BY <2>3, <2>4, <2>5
  <1>7. Last(Present(m).references).name = "new"
    <2>1. InReplyTo(m).name = "new" /\ InReplyTo(m) # NoId /\ InReplyTo(m).bytes <= MaxChain
      BY BuildIsMessage, TalkAssumption
    <2>2. Last(References(m)) = InReplyTo(m)
      BY <1>1, <2>1, Replies
    <2> HIDE DEF m
    <2>3. Present(m).references = References(m)
      BY <1>1 DEF Present
    <2>4. QED
      BY <2>1, <2>2, <2>3
  <1> HIDE DEF m, scan, first
  <1>8. (Parse(m).text.of # 0) = (c.text.size > 0) /\ (Parse(m).html.of # 0) = (c.html.size > 0)
    BY <1>4, <1>5
  <1>9. QED
    BY <1>2, <1>3, <1>6, <1>7, <1>8 DEF m, scan

-----------------------------------------------------------------------------
(* Conversations.                                                           *)

\* What a message is where it is.
TalkInv ==
    /\ stage = "received" => IsMessage(mail)
    /\ stage = "requested" => IsRequest(mail)
    /\ stage = "draft" => IsDraft(mail)
    /\ stage = "relayed" => /\ IsDraft(mail.draft) /\ PrepareAccepts(mail.draft)
                            /\ mail.lines = Prepare(mail.draft)

\* An answer refers to what it answers, within the limits.
LEMMA ReplyIsRequest ==
  ASSUME NEW m, IsMessage(m)
  PROVE  /\ Present(m).references \in Seq(Id) /\ Length(Present(m).references) <= MaxChain
         /\ Present(m).inReplyTo \in Id
  <1>1. CASE m.lenient
    <2>1. Present(m).references = References(m) /\ Present(m).inReplyTo = InReplyTo(m)
      BY <1>1 DEF Present
    <2>2. QED
      BY <2>1, Replies, AncestryProperties
  <1>2. CASE ~m.lenient
    <2>1. Present(m).references = <<>> /\ Present(m).inReplyTo = NoId
      BY <1>2 DEF Present
    <2>2. <<>> \in Seq(Id) /\ NoId \in Id /\ MaxChain \in Nat
      BY EmptySeq, AncestryProperties, TalkAssumption
    <2>3. Length(<<>>) = 0
      BY <2>2, ShortChains
    <2>4. QED
      BY <2>1, <2>2, <2>3
  <1>3. QED
    BY <1>1, <1>2

LEMMA RequestIs ==
  ASSUME NEW c, IsComposed(c), NEW chain \in Seq(Id), Length(chain) <= MaxChain, NEW parent \in Id
  PROVE  IsRequest(Request(c, chain, parent))
  <1> DEFINE r == Request(c, chain, parent)
  <1>1. r.text = c.text /\ r.html = c.html /\ r.files = c.files /\ r.references = chain /\ r.inReplyTo = parent
    BY DEF Request
  <1>2. QED
    BY <1>1 DEF IsRequest, IsComposed

\* It is so at every step.
LEMMA TalkIsInductive == TalkSpec => []TalkInv
  <1>1. TalkInit => TalkInv
    BY DEF TalkInit, TalkInv
  <1>2. TalkInv /\ [Talk]_talkVars => TalkInv'
    <2> SUFFICES ASSUME TalkInv, [Talk]_talkVars PROVE TalkInv'
      OBVIOUS
    <2>1. CASE Arrive
      BY <2>1, TalkAssumption DEF Arrive, Goes, TalkInv
    <2>2. CASE Compose
      <3>1. PICK c \in Composed : Goes("requested", Request(c, <<>>, NoId))
        BY <2>2 DEF Compose
      <3>2. IsComposed(c)
        BY TalkAssumption
      <3>3. <<>> \in Seq(Id) /\ NoId \in Id /\ Length(<<>>) <= MaxChain
        <4>1. <<>> \in Seq(Id) /\ MaxChain \in Nat
          BY EmptySeq, TalkAssumption
        <4>2. Length(<<>>) = 0
          BY <4>1, ShortChains
        <4>3. NoId \in Id
          <5>1. NoId.chars = 0 /\ NoId.bytes = 0 /\ NoId \in [name : Word, bytes : Nat, chars : Nat]
            BY DEF NoId, Word
          <5>2. QED
            BY <4>1, <5>1 DEF Id
        <4>4. QED
          BY <4>1, <4>2, <4>3
      <3>4. IsRequest(Request(c, <<>>, NoId))
        BY <3>2, <3>3, RequestIs
      <3>5. QED
        BY <3>1, <3>4 DEF Goes, TalkInv
    <2>3. CASE Reply
      <3>1. PICK a \in Answers : Goes("requested", Request(a, Present(mail).references, Present(mail).inReplyTo))
        BY <2>3 DEF Reply
      <3>2. IsComposed(a) /\ IsMessage(mail)
        BY <2>3, TalkAssumption DEF Reply, TalkInv
      <3>3. IsRequest(Request(a, Present(mail).references, Present(mail).inReplyTo))
        BY <3>2, ReplyIsRequest, RequestIs
      <3>4. QED
        BY <3>1, <3>3 DEF Goes, TalkInv
    <2>4. CASE Send
      <3>1. IsMessage(Build(mail))
        BY <2>4, BuildIsMessage DEF Send, TalkInv
      <3>2. QED
        BY <2>4, <3>1 DEF Send, Goes, TalkInv
    <2>5. CASE HandIn
      BY <2>5, TalkAssumption DEF HandIn, Goes, TalkInv
    <2>6. CASE Relay
      <3>1. /\ stage' = "relayed" /\ mail' = [draft |-> mail, lines |-> Prepare(mail)]
            /\ IsDraft(mail) /\ PrepareAccepts(mail)
        BY <2>6 DEF Relay, Goes, TalkInv
      <3>2. mail'.draft = mail /\ mail'.lines = Prepare(mail)
        BY <3>1
      <3>3. QED
        BY <3>1, <3>2 DEF TalkInv
    <2>7. CASE UNCHANGED talkVars
      BY <2>7 DEF talkVars, TalkInv
    <2>8. QED
      BY <2>1, <2>2, <2>3, <2>4, <2>5, <2>6, <2>7 DEF Talk
  <1>3. QED
    BY <1>1, <1>2, PTL DEF TalkSpec

\* Whatever arrives, is composed or handed in, at every limit: all files are listed or said
\* to be missing; so are the inline media of what go-message can open, and its bodies are
\* the first ones that LostInSilence does not name; nothing is relayed under another name;
\* what is sent here is what is read here; and a conversation goes on, however long it gets
\* (attachments.go, parse.go, presentation.go, submission/server.go, provider.go).
THEOREM MailSurvives == TalkSpec => []MailSurvivesHandling
  <1>1. TalkInv => MailSurvivesHandling
    <2> SUFFICES ASSUME TalkInv PROVE MailSurvivesHandling
      OBVIOUS
    <2>1. ShownIsWhole
      BY ShownWhole DEF TalkInv, ShownIsWhole
    <2>2. RepliesAreAccepted
      <3>1. ASSUME stage = "requested", mail.to # {}, HasBody(mail), Len(mail.files) <= MaxFiles
            PROVE  SendAccepts(mail)
        <4>1. IsRequest(mail)
          BY <3>1 DEF TalkInv
        <4>2. Characters(mail.references) <= MaxChain
          <5>1. /\ Characters(mail.references) <= Length(mail.references) /\ Length(mail.references) <= MaxChain
                /\ Characters(mail.references) \in Nat /\ Length(mail.references) \in Nat /\ MaxChain \in Nat
            BY <4>1, FewerCharacters, TalkAssumption DEF IsRequest
          <5>2. QED
            BY <5>1
        <4>3. mail.inReplyTo.chars <= MaxChain
          BY <4>1 DEF IsRequest, Id
        <4>4. QED
          BY <3>1, <4>2, <4>3 DEF SendAccepts
      <3>2. ASSUME stage = "received", mail.lenient
            PROVE  LET chain == Present(mail).references
                       dropped == Len(Ancestry(mail)) - Len(chain)
                   IN  /\ chain = SubSeq(Ancestry(mail), dropped + 1, Len(Ancestry(mail)))
                       /\ dropped > 0 => Length(SubSeq(Ancestry(mail), dropped, Len(Ancestry(mail)))) > MaxChain
                       /\ InReplyTo(mail) # NoId /\ InReplyTo(mail).bytes <= MaxChain =>
                             Last(chain) = InReplyTo(mail)
        <4>1. Present(mail).references = References(mail)
          BY <3>2 DEF Present
        <4>2. IsMessage(mail)
          BY <3>2 DEF TalkInv
        <4>3. QED
          BY <4>1, <4>2, Replies
      <3>3. QED
        BY <3>1, <3>2 DEF RepliesAreAccepted
    <2>3. SentIsRead
      <3> SUFFICES ASSUME stage = "requested", SendAccepts(mail) PROVE SentIsRead
        BY DEF SentIsRead
      <3>1. IsRequest(mail)
        BY DEF TalkInv
      <3>2. DOMAIN mail.files = 1..Len(mail.files)
        BY <3>1, LenProperties DEF IsRequest, IsComposed
      <3>3. LET items == ScanAttachments(Build(mail), 0).items
            IN  /\ Cardinality(items) = Len(mail.files)
                /\ \A i \in DOMAIN mail.files :
                      (CHOOSE item \in items : Cardinality({j \in items : j.id <= item.id}) = i).size
                         = mail.files[i].size
        BY <3>1, <3>2, NthItem
      <3>4. QED
        BY <3>1, <3>3, SentAreRead DEF SentIsRead
    <2>4. RelayedIsOwn
      BY OwnIsRelayed DEF TalkInv
    <2>5. QED
      BY <2>1, <2>2, <2>3, <2>4 DEF MailSurvivesHandling
  <1>2. QED
    BY <1>1, TalkIsInductive, PTL
=============================================================================
