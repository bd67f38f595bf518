---------------------------- MODULE ImapSessions ----------------------------
(***************************************************************************)
(* IMAP sessions (internal/imapservice) over MailStore.  A session that    *)
(* has selected a folder answers by a snapshot of it, in which messages    *)
(* are numbered, and tells its client of changes when the client polls     *)
(* (NOOP) or idles.  Other sessions, deliveries and the web client change  *)
(* the folder at any time, and the folder is found by its name.            *)
(*                                                                         *)
(* `told' is the client's own numbering: the UIDs by message number, as    *)
(* the server's answers have made it.  The IMAP library is outside the     *)
(* repository: of its EXPUNGE it matters that it searches for what is      *)
(* flagged first, calls Expunge, and then reports what it had found.       *)
(***************************************************************************)
EXTENDS MailStore

CONSTANTS
    Sessions,
    Drafts,     \* what clients append
    BoxOf       \* the mailbox each session is logged in to

ASSUME SessionAssumption ==
    /\ Drafts \subseteq Mails
    /\ BoxOf \in [Sessions -> Boxes]
    /\ Sessions \cap (Calls \cup Webs) = {}

VARIABLES
    sess,       \* the sessions
    announced   \* per folder: clients look for new mail from this UID on

vars == <<storeVars, sess, announced>>

SessionSteps == {"out", "ready", "found", "purge", "move", "poll"}
Out == [at |-> "out", dir |-> "INBOX", snap |-> {}, told |-> <<>>, lost |-> FALSE,
        ids |-> {}, seen |-> {}, away |-> {}, found |-> {}]

Items == [uid : Nat, deleted : BOOLEAN]
Uids(S) == {i.uid : i \in S}

\* Numbers in ascending order, each at its rank.
InOrder(U) == [i \in 1..Cardinality(U) |-> CHOOSE u \in U : Cardinality({v \in U : v <= u}) = i]

TypeOK ==
    /\ StoreTypeOK
    /\ \A s \in Sessions :
          /\ sess[s].at \in SessionSteps
          /\ sess[s].dir \in Names
          /\ sess[s].snap \subseteq Items
          /\ sess[s].told \in Seq(Nat)
          /\ sess[s].at = "out" => sess[s].snap = {} /\ sess[s].told = <<>>
    /\ announced \in [1..MaxFolders -> Nat]

Init ==
    /\ StoreInit
    /\ sess = [s \in Sessions |-> Out]
    /\ announced = [v \in 1..MaxFolders |-> 0]

-----------------------------------------------------------------------------
(* The session's view.                                                      *)

Item(r) == [uid |-> r.uid, deleted |-> r.deleted]

\* loadRecords: the folder that has the session's name now.
Current(s) == InDir(BoxOf[s], sess[s].dir)

\* Mutant: the snapshot's own flags.
MutRecordsStale(s) == sess[s].snap

\* records: the snapshot, with fresh flags for what is still there.
Records(s) ==
    {i \in sess[s].snap : i.uid \notin Uids(Current(s))}
    \cup {Item(r) : r \in {r \in Current(s) : r.uid \in Uids(sess[s].snap)}}

SessionAt(s, at) ==
    sess' = [sess EXCEPT ![s].at = at, ![s].ids = {}, ![s].seen = {}, ![s].away = {}, ![s].found = {}]

\* A client that has been told of everything below n looks from n on.
Announce(b, d, n) ==
    announced' = IF Exists(b, d) THEN [announced EXCEPT ![dirs[b][d]] = IF n > @ THEN n ELSE @]
                 ELSE announced

\* Status takes the store's lock, so that UIDNEXT is not above a number still to appear.
Status(s, d) ==
    /\ Exists(BoxOf[s], d)
    /\ LockFree(BoxOf[s])
    /\ Announce(BoxOf[s], d, uid + 1)
    /\ UNCHANGED <<storeVars, sess>>

\* SELECT: Status on a new Mailbox, whose snapshot it sets.
Select(s, d) ==
    /\ sess[s].at \in {"out", "ready"} /\ Idle(s)
    /\ Exists(BoxOf[s], d)
    /\ LockFree(BoxOf[s])
    /\ sess' = [sess EXCEPT ![s] = [Out EXCEPT !.at = "ready", !.dir = d,
                   !.snap = {Item(r) : r \in InDir(BoxOf[s], d)},
                   !.told = InOrder(Uids(InDir(BoxOf[s], d)))]]
    /\ Announce(BoxOf[s], d, uid + 1)
    /\ UNCHANGED storeVars

\* The client's numbering after EXPUNGE responses with these numbers, one after the other.
Expunged(numbering, numbers) ==
    LET after[k \in 0..Len(numbers)] ==
            IF k = 0 THEN numbering
            ELSE IF numbers[k] \in DOMAIN after[k - 1] THEN RemoveAt(after[k - 1], numbers[k])
            ELSE after[k - 1]
    IN  after[Len(numbers)]

NumbersOf(list, U) == InOrder({i \in DOMAIN list : list[i] \in U})

\* Mutant: the numbers are those of the old list.
MutExpungeNumbersUnshifted(before, gone) == NumbersOf(before, gone)

\* Poll's EXPUNGE numbers: each counts those before it as gone already.
ExpungeNumbers(before, gone) ==
    LET numbers == NumbersOf(before, gone)
    IN  [k \in DOMAIN numbers |-> numbers[k] - (k - 1)]

\* EXPUNGE responses, EXISTS (which cannot shorten a list), and FETCH with UID and flags for
\* what is new or changed.
Polled(s) ==
    LET now == Current(s)
        list == InOrder(Uids(now))
        before == InOrder(Uids(sess[s].snap))
        kept == Expunged(sess[s].told, ExpungeNumbers(before, Uids(sess[s].snap) \ Uids(now)))
        fetched == {r.uid : r \in {r \in now : Item(r) \notin sess[s].snap}}
    IN  IF sess[s].lost THEN <<>>
        ELSE [i \in DOMAIN list \cup DOMAIN kept |->
                 IF i \in DOMAIN list /\ list[i] \in fetched THEN list[i]
                 ELSE IF i \in DOMAIN kept THEN kept[i] ELSE 0]

\* NOOP, a tick of IDLE, or the end of MOVE.
Poll(s) ==
    /\ sess[s].at \in {"ready", "poll"} /\ Idle(s)
    /\ sess' = [sess EXCEPT ![s].at = "ready", ![s].told = Polled(s),
                            ![s].snap = {Item(r) : r \in Current(s)}]
    /\ Announce(BoxOf[s], sess[s].dir, Max({0} \cup Uids(Current(s))) + 1)
    /\ UNCHANGED storeVars

-----------------------------------------------------------------------------
(* Commands on messages.                                                    *)

\* STORE of one message: SELECT ... FOR UPDATE, UPDATE.
Store(s, r, on) ==
    /\ sess[s].at = "ready" /\ Idle(s)
    /\ r \in Current(s) /\ r.uid \in Uids(sess[s].snap)
    /\ Unlocked({r})
    /\ r.deleted # on
    /\ rows' = (rows \ {r}) \cup {[r EXCEPT !.deleted = on]}
    /\ UNCHANGED <<dirs, open, uid, validity, call, landed, marks, sess, announced>>

\* APPEND, and COPY for each of its messages.
Append1(s, d, m, flagged) ==
    /\ sess[s].at \in {"out", "ready"} /\ Idle(s)
    /\ Exists(BoxOf[s], d)
    /\ LockFree(BoxOf[s])
    /\ uid < scene.maxUid
    /\ uid' = uid + 1
    /\ Begin(s, BoxOf[s], {}, {[box |-> BoxOf[s], dir |-> d, uid |-> uid + 1, mail |-> m,
                                smtp |-> FALSE, deleted |-> flagged]}, {}, TRUE)
    /\ UNCHANGED <<rows, dirs, validity, call, landed, marks, sess, announced>>

\* A message the snapshot has and the folder no longer has fails the command.
Copy(s, r, d) ==
    /\ sess[s].at = "ready"
    /\ r \in Current(s) /\ r.uid \in Uids(sess[s].snap)
    /\ Append1(s, d, r.mail, r.deleted)

Flagged(S) == {i.uid : i \in {i \in S : i.deleted}}

\* EXPUNGE, in the library: SearchMessages reads every message and fails if one is gone.
Search(s) ==
    /\ sess[s].at = "ready" /\ Idle(s)
    /\ Uids(sess[s].snap) \subseteq Uids(Current(s))
    /\ sess' = [sess EXCEPT ![s].at = "found", ![s].found = Flagged(Records(s))]
    /\ UNCHANGED <<storeVars, announced>>

\* Expunge reads its records: `seen' is what really is flagged then, and `away' what was
\* flagged in the snapshot and is not in the folder, which may have been renamed.
ReadDeleted(s) ==
    /\ sess[s].at = "found"
    /\ sess' = [sess EXCEPT ![s].at = "purge", ![s].ids = Flagged(Records(s)),
                            ![s].seen = Flagged(Current(s)),
                            ![s].away = Flagged(Records(s)) \ Uids(Current(s))]
    /\ UNCHANGED <<storeVars, announced>>

\* DELETE, the new snapshot, and the library's report of what it had found, from the last
\* to the first.  If that is not what was removed - others changed flags, or the folder was
\* renamed and its messages live on - the client has lost the numbering.  The answer of the
\* database may be lost.
Purge(s) ==
    LET b == BoxOf[s]
        before == InOrder(Uids(sess[s].snap))
        dead == {r \in Current(s) : r.uid \in sess[s].ids}
        missed == {r \in rows \ dead : r.box = b /\ r.uid \in sess[s].ids}
        lost == sess[s].lost \/ sess[s].found # sess[s].ids \/ missed # {}
    IN  /\ sess[s].at = "purge"
        /\ Unlocked(dead)
        /\ rows' = rows \ dead
        /\ marks' = marks \cup {<<b, r.mail, "removed">> : r \in {r \in dead : r.uid \in sess[s].seen}}
                          \cup {<<b, r.mail, "torn">> : r \in {r \in dead : r.uid \in sess[s].away}}
        /\ \/ SessionAt(s, "ready")
           \/ sess' = [sess EXCEPT ![s] = [sess[s] EXCEPT
                  !.at = "ready", !.ids = {}, !.seen = {}, !.away = {}, !.found = {},
                  !.snap = {i \in Records(s) : i.uid \notin sess[s].ids},
                  !.lost = lost,
                  !.told = IF lost THEN <<>>
                           ELSE Expunged(sess[s].told, Reverse(NumbersOf(before, sess[s].found)))]]
        /\ UNCHANGED <<dirs, open, uid, validity, call, landed, announced>>

\* Copies of R in folder d, numbered in the order of their UIDs.
Copies(R, d) ==
    {[r EXCEPT !.dir = d, !.smtp = FALSE, !.uid = uid + Cardinality({q \in R : q.uid <= r.uid})] : r \in R}

\* MOVE up to its INSERT: the lock, the copies.
MoveInsert(s, U, d) ==
    LET from == {r \in Current(s) : r.uid \in U}
    IN  /\ sess[s].at = "ready" /\ Idle(s)
        /\ d # sess[s].dir /\ Exists(BoxOf[s], d)
        /\ U \subseteq Uids(sess[s].snap) /\ U # {}
        /\ LockFree(BoxOf[s])
        /\ uid + Cardinality(from) <= scene.maxUid
        /\ uid' = uid + Cardinality(from)
        /\ Begin(s, BoxOf[s], {}, Copies(from, d), {}, TRUE)
        /\ sess' = [sess EXCEPT ![s].at = "move", ![s].ids = U, ![s].seen = Uids(from)]
        /\ UNCHANGED <<rows, dirs, validity, call, landed, marks, announced>>

\* MOVE: the DELETE, by name and UID as well, and the commit, answered or not.  A rename since the INSERT
\* tears the move: what was copied is not what is deleted.
MoveDelete(s) ==
    LET b == BoxOf[s]
        dead == {r \in Current(s) : r.uid \in sess[s].ids}
        torn == {r \in rows : r.box = b /\ r.uid \in (sess[s].seen \cup Uids(dead))
                                       \ (sess[s].seen \cap Uids(dead))}
    IN  /\ sess[s].at = "move"
        /\ Unlocked(dead)
        /\ \E t \in TxOf(s) :
              /\ CommitWithout(t, dead)
              /\ marks' = marks \cup {<<b, r.mail, "moved">> : r \in {r \in dead : r.uid \in sess[s].seen}}
                                \cup {<<b, r.mail, "torn">> : r \in torn}
        /\ SessionAt(s, "poll") \/ SessionAt(s, "ready")
        /\ UNCHANGED <<uid, call, landed, announced>>

\* Any other write of a session commits.
SessionCommit(s) ==
    /\ sess[s].at \in {"out", "ready"}
    /\ \E t \in TxOf(s) : Commit(t)
    /\ UNCHANGED <<uid, call, landed, marks, sess, announced>>

\* A command fails; its transaction rolls back.
CommandFails(s) ==
    /\ ~Idle(s) \/ sess[s].at \in {"found", "purge", "poll"}
    /\ Rollback(s)
    /\ SessionAt(s, IF sess[s].at = "out" THEN "out" ELSE "ready")
    /\ UNCHANGED <<rows, dirs, uid, validity, call, landed, marks, announced>>

-----------------------------------------------------------------------------
(* Folders.                                                                 *)

CreateMailbox(s, d) ==
    /\ sess[s].at \in {"out", "ready"} /\ Idle(s)
    /\ ~Exists(BoxOf[s], d) /\ NameFree(BoxOf[s], d)
    /\ MakeDir(BoxOf[s], d)
    /\ UNCHANGED <<rows, open, uid, call, landed, marks, sess, announced>>

\* The messages go with the folder.
DeleteMailbox(s, d) ==
    LET b == BoxOf[s]
    IN  /\ sess[s].at \in {"out", "ready"} /\ Idle(s)
        /\ d # "INBOX" /\ Exists(b, d)
        /\ NotInUse(b, d) /\ Unlocked(InDir(b, d))
        /\ dirs' = [dirs EXCEPT ![b][d] = 0]
        /\ rows' = rows \ InDir(b, d)
        /\ marks' = marks \cup {<<b, r.mail, "removed">> : r \in InDir(b, d)}
        /\ UNCHANGED <<open, uid, validity, call, landed, sess, announced>>

\* The folder row gets another name and the messages follow it.
RenameMailbox(s, d, e) ==
    LET b == BoxOf[s]
    IN  /\ sess[s].at \in {"out", "ready"} /\ Idle(s)
        /\ d # "INBOX" /\ e # "INBOX"
        /\ Exists(b, d) /\ ~Exists(b, e) /\ NameFree(b, e)
        /\ NotInUse(b, d) /\ Unlocked(InDir(b, d))
        /\ dirs' = [dirs EXCEPT ![b][d] = 0, ![b][e] = dirs[b][d]]
        /\ rows' = (rows \ InDir(b, d)) \cup {[r EXCEPT !.dir = e] : r \in InDir(b, d)}
        /\ UNCHANGED <<open, uid, validity, call, landed, marks, sess, announced>>

\* INBOX stays: its messages go to a new folder, with their UIDs.
RenameInbox(s, e) ==
    LET b == BoxOf[s]
        all == InDir(b, "INBOX")
    IN  /\ sess[s].at \in {"out", "ready"} /\ Idle(s)
        /\ e # "INBOX" /\ ~Exists(b, e) /\ NameFree(b, e)
        /\ validity < MaxFolders
        /\ Unlocked(all)
        /\ Begin(s, b, all, {[r EXCEPT !.dir = e] : r \in all}, {e}, FALSE)
        /\ UNCHANGED <<rows, dirs, uid, validity, call, landed, marks, sess, announced>>

-----------------------------------------------------------------------------

Session(s) ==
    \/ \E d \in Names : Status(s, d) \/ Select(s, d)
    \/ Poll(s)
    \/ SessionCommit(s)
    \/ CommandFails(s)
    \/ /\ Does(s, "flags")
       /\ \/ \E r \in rows, on \in BOOLEAN : Store(s, r, on)
          \/ Search(s) \/ ReadDeleted(s) \/ Purge(s)
    \/ /\ Does(s, "copy")
       /\ \E d \in Names : \/ \E m \in Drafts : Append1(s, d, m, FALSE)
                          \/ \E r \in rows : Copy(s, r, d)
    \/ /\ Does(s, "move")
       /\ \/ \E d \in Names : \E U \in SUBSET Uids(sess[s].snap) : MoveInsert(s, U, d)
          \/ MoveDelete(s)
    \/ /\ Does(s, "folders")
       /\ \E d \in Names : CreateMailbox(s, d) \/ DeleteMailbox(s, d) \/ RenameInbox(s, d)
    \/ /\ Does(s, "rename")
       /\ \E d, e \in Names : RenameMailbox(s, d, e)

Next ==
    \/ StoreNext /\ UNCHANGED <<sess, announced>>
    \/ (\E s \in Sessions \cap scene.actors : Session(s)) /\ UNCHANGED scene

Spec == Init /\ [][Next]_vars

-----------------------------------------------------------------------------
(* Properties.                                                              *)

\* One answer stands for every recipient: mail the peer was told we have was stored
\* for each of them, by this transaction or an earlier one (lmtp.go:82-112).
AcknowledgedIsStored ==
    \A c \in Calls : call[c].at = "acked" =>
        \A b \in call[c].to : landed[<<b, MailOf[c]>>] > 0

\* A retried delivery is stored once, wherever the web client or a rename has put the first
\* copy and however the tries overlap (store.go:127-131); only an IMAP client that moved
\* or removed the copy makes it unknown.  Mail without a Message-ID cannot be recognised.
RetryStoredOnce ==
    \A b \in Boxes, m \in Mails \ Unnamed : landed[<<b, m>>] > 1 =>
        \E mark \in Marks : <<b, m, mark>> \in marks

\* Stored mail stays in its mailbox through moves, renames and expunges, until a message
\* seen flagged \Deleted is expunged or its folder is deleted.  MOVE and EXPUNGE torn by a
\* rename of their folder are excepted (mailbox.go:333-416 looks for its name twice).
KeptUntilRemoved ==
    \A b \in Boxes, m \in Mails : landed[<<b, m>>] > 0 =>
        \/ \E r \in rows : r.box = b /\ r.mail = m
        \/ <<b, m, "removed">> \in marks
        \/ <<b, m, "torn">> \in marks

InFolder(v) == {r.uid : r \in {r \in rows : dirs[r.box][r.dir] = v}}

\* New mail gets a UID above all others of its folder and not below any UIDNEXT or UID a
\* client was told (0012_imap_storage.sql:29-31, mailbox.go:98-99).
UidsAscend ==
    [][\A v \in 1..MaxFolders :
          (\E b \in Boxes, d \in Names : dirs[b][d] = v) =>
              \A n \in InFolder(v)' \ InFolder(v) :
                  /\ n >= announced[v]
                  /\ \A u \in InFolder(v) : n > u]_vars

\* Message numbers mean the same message to client and session, through every order of
\* polls, arrivals, removals and renames by others (updates.go:33-56): except after an
\* EXPUNGE that another session's flags overtook, or that a rename of the folder made miss
\* the messages it reports.  Those may come back below others, where no poll adds a message.
NumberingAgrees ==
    \A s \in Sessions : ~sess[s].lost => sess[s].told = InOrder(Uids(sess[s].snap))
=============================================================================
