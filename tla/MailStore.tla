------------------------------ MODULE MailStore ------------------------------
(***************************************************************************)
(* Received mail: the tables behind every mailbox (internal/inbound), the  *)
(* LMTP transactions that fill them and the web client that moves messages *)
(* between INBOX and Junk.  ImapSessions adds the IMAP server.             *)
(*                                                                         *)
(* A message row is seen by others when its transaction commits.  Whoever  *)
(* inserts or moves a message takes the mailbox's advisory lock and a UID  *)
(* in one step and commits in another; what it will add and remove stands  *)
(* in `open' until then.  Rows in t.old are locked: others wait for them.  *)
(*                                                                         *)
(* Of a message's flags only \Deleted is kept: no property tells the       *)
(* others apart.                                                           *)
(***************************************************************************)
EXTENDS Naturals, Sequences, FiniteSets, FiniteSetsExt, SequencesExt

CONSTANTS
    Boxes,      \* mailboxes
    Mails,      \* messages
    Spam,       \* those with a spam verdict
    Names,      \* folder names
    Calls,      \* LMTP transactions: first tries and retries
    Webs,       \* users of the web client
    MailOf,     \* the message each LMTP transaction carries
    Scenes,     \* bounds: who acts in a behaviour, what is done, which mails have no
                \* Message-ID, which <<box, mail>> there are at the start and how many UIDs
                \* are given out
    MaxFolders  \* bounds the folders created

Kinds == {"deliver", "web", "flags", "copy", "move", "folders", "rename"}

ASSUME StoreAssumption ==
    /\ {"INBOX", "Junk"} \subseteq Names
    /\ Spam \subseteq Mails
    /\ MailOf \in [Calls -> Mails]
    /\ \A s \in Scenes : /\ s.kinds \subseteq Kinds /\ s.unnamed \subseteq Mails
                         /\ s.held \subseteq Boxes \X Mails /\ IsFiniteSet(s.held)
                         /\ s.maxUid \in Nat /\ Cardinality(s.held) <= s.maxUid
    /\ IsFiniteSet(Boxes)
    /\ Calls \cap Webs = {}
    /\ MaxFolders \in Nat /\ 2 * Cardinality(Boxes) <= MaxFolders

VARIABLES
    scene,      \* one of Scenes, from the start
    rows,       \* messages: committed rows
    dirs,       \* imap_folders: the UIDVALIDITY of each folder, 0 for none
    open,       \* transactions that have written and not committed
    uid,        \* imap_uid_seq: last_value
    validity,   \* imap_validity_seq: last_value
    call,       \* LMTP transactions
    landed,     \* how often a delivery has stored a mail
    marks       \* what IMAP clients have done to a mail

storeVars == <<scene, rows, dirs, open, uid, validity, call, landed, marks>>

Row == [box : Boxes, dir : Names, uid : Nat, mail : Mails, smtp : BOOLEAN, deleted : BOOLEAN]
Marks == {"moved", "removed", "torn"}
CallSteps == {"rcpt", "folder", "insert", "commit", "acked", "refused"}

\* Messages are told apart by their Message-ID; parse finds one in all the others.
Unnamed == scene.unnamed

DeliveryFolder(m) == IF m \in Spam THEN "Junk" ELSE "INBOX"

StoreTypeOK ==
    /\ rows \subseteq Row
    /\ dirs \in [Boxes -> [Names -> 0..MaxFolders]]
    /\ \A t \in open : t.old \subseteq rows /\ t.new \subseteq Row /\ t.makes \subseteq Names
    /\ uid \in 0..scene.maxUid
    /\ validity \in 0..MaxFolders
    /\ \A c \in Calls : call[c].at \in CallSteps /\ call[c].left \in Seq(Boxes)
    /\ landed \in [Boxes \X Mails -> Nat]
    /\ marks \subseteq Boxes \X Mails \X Marks
    \* A UID is given once, and every message lies in a folder.
    /\ \A r, q \in rows : r.uid = q.uid => r = q
    /\ \A r \in rows : dirs[r.box][r.dir] # 0

\* The sequences have been used: an installation that has stored some mail.
StoreInit ==
    /\ scene \in Scenes
    /\ LET held == SetToSeq(scene.held)
       IN  /\ rows = {[box |-> held[i][1], dir |-> DeliveryFolder(held[i][2]), uid |-> i,
                       mail |-> held[i][2], smtp |-> TRUE, deleted |-> FALSE] : i \in DOMAIN held}
           /\ uid = Len(held)
    /\ LET order == SetToSeq(Boxes)
           Nr(b) == 2 * CHOOSE i \in DOMAIN order : order[i] = b
       IN  dirs = [b \in Boxes |-> [d \in Names |-> CASE d = "INBOX" -> Nr(b) - 1
                                                     [] d = "Junk" -> Nr(b)
                                                     [] OTHER -> 0]]
    /\ validity = 2 * Cardinality(Boxes)
    /\ open = {}
    /\ call = [c \in Calls |-> [at |-> "rcpt", to |-> {}, left |-> <<>>]]
    /\ landed = [p \in Boxes \X Mails |-> IF p \in scene.held THEN 1 ELSE 0]
    /\ marks = {}

-----------------------------------------------------------------------------
(* What a transaction of the store meets.                                   *)

InDir(b, d) == {r \in rows : r.box = b /\ r.dir = d}

Exists(b, d) == dirs[b][d] # 0

\* Mutant: the trigger numbers without the lock.
MutLockFreeAlways(b) == TRUE

\* pg_advisory_xact_lock on the mailbox.
LockFree(b) == \A t \in open : t.locks => t.box # b

Unlocked(R) == \A t \in open : t.old \cap R = {}

\* Mutant: no foreign key.
MutNotInUseAlways(b, d) == TRUE

\* No uncommitted row holds the folder by its foreign key.
NotInUse(b, d) == \A t \in open : \A r \in t.new : ~(r.box = b /\ r.dir = d)

\* Nobody is about to create the folder: an insert of the same name would wait.
NameFree(b, d) == \A t \in open : ~(t.box = b /\ d \in t.makes)

MakeDir(b, d) ==
    /\ validity < MaxFolders
    /\ validity' = validity + 1
    /\ dirs' = [dirs EXCEPT ![b][d] = validity + 1]

\* INSERT INTO imap_folders ... ON CONFLICT DO NOTHING.
EnsureDir(b, d) ==
    IF Exists(b, d) THEN UNCHANGED <<dirs, validity>> ELSE NameFree(b, d) /\ MakeDir(b, d)

Begin(a, b, old, new, makes, locks) ==
    open' = open \cup {[by |-> a, box |-> b, old |-> old, new |-> new,
                        makes |-> makes, locks |-> locks]}

TxOf(a) == {t \in open : t.by = a}
Idle(a) == TxOf(a) = {}

\* The last statement may have removed rows of its own.
CommitWithout(t, gone) ==
    /\ rows' = (rows \ (t.old \cup gone)) \cup t.new
    /\ open' = open \ {t}
    /\ IF t.makes = {} THEN UNCHANGED <<dirs, validity>>
       ELSE \E d \in t.makes : MakeDir(t.box, d)

Commit(t) == CommitWithout(t, {})

Rollback(a) == open' = open \ TxOf(a)

-----------------------------------------------------------------------------
(* LMTP: one answer for all recipients.                                     *)

CallAt(c, s) == call' = [call EXCEPT ![c].at = s]

\* MailboxByAddress found a mailbox; an unknown address changes nothing.
Rcpt(c, b) ==
    /\ call[c].at = "rcpt"
    /\ b \notin call[c].to
    /\ call' = [call EXCEPT ![c].to = @ \cup {b}, ![c].left = Append(@, b)]
    /\ UNCHANGED <<rows, dirs, open, uid, validity, landed, marks>>

Data(c) ==
    /\ call[c].at = "rcpt"
    /\ call[c].left # <<>>
    /\ CallAt(c, "folder")
    /\ UNCHANGED <<rows, dirs, open, uid, validity, landed, marks>>

\* On to the next recipient, or the answer for all.
Advance(c) ==
    LET rest == Tail(call[c].left)
    IN  call' = [call EXCEPT ![c].left = rest, ![c].at = IF rest = <<>> THEN "acked" ELSE "folder"]

DeliverFolder(c) ==
    /\ call[c].at = "folder"
    /\ EnsureDir(Head(call[c].left), DeliveryFolder(MailOf[c]))
    /\ CallAt(c, "insert")
    /\ UNCHANGED <<rows, open, uid, landed, marks>>

\* Mutant: the index that recognises a retry looks at one folder.
MutHeldInFolder(b, m) == m \notin Unnamed /\ \E r \in InDir(b, DeliveryFolder(m)) : r.mail = m /\ r.smtp

\* The unique index on (mailbox_id, message_id) of what SMTP delivered.
Held(b, m) == m \notin Unnamed /\ \E r \in rows : r.box = b /\ r.mail = m /\ r.smtp

\* The trigger takes the lock and a number, then index and foreign key are looked at.
DeliverInsert(c) ==
    LET b == Head(call[c].left)
        d == DeliveryFolder(MailOf[c])
        row == [box |-> b, dir |-> d, uid |-> uid + 1, mail |-> MailOf[c],
                smtp |-> TRUE, deleted |-> FALSE]
    IN  /\ call[c].at = "insert"
        /\ LockFree(b)
        /\ uid < scene.maxUid
        /\ uid' = uid + 1
        /\ \/ /\ Held(b, MailOf[c])
              /\ Advance(c)
              /\ UNCHANGED open
           \/ /\ ~Held(b, MailOf[c])
              /\ ~Exists(b, d)
              /\ CallAt(c, "refused")
              /\ UNCHANGED open
           \/ /\ ~Held(b, MailOf[c])
              /\ Exists(b, d)
              /\ Begin(c, b, {}, {row}, {}, TRUE)
              /\ CallAt(c, "commit")
        /\ UNCHANGED <<rows, dirs, validity, landed, marks>>

\* The mail is stored, whether or not the answer comes in time.
DeliverCommit(c) ==
    /\ call[c].at = "commit"
    /\ \E t \in TxOf(c) : Commit(t)
    /\ landed' = [landed EXCEPT ![<<Head(call[c].left), MailOf[c]>>] = @ + 1]
    /\ Advance(c) \/ CallAt(c, "refused")
    /\ UNCHANGED <<uid, marks>>

\* Mutant: an error for one recipient does not stop the loop.
MutDeliverFails(c) ==
    /\ call[c].at \in {"folder", "insert", "commit"}
    /\ Rollback(c)
    /\ Advance(c)
    /\ UNCHANGED <<rows, dirs, uid, validity, landed, marks>>

\* Any other error, the 30 seconds, or the end of the process: 451 or silence for all.
DeliverFails(c) ==
    /\ call[c].at \in {"folder", "insert", "commit"}
    /\ Rollback(c)
    /\ CallAt(c, "refused")
    /\ UNCHANGED <<rows, dirs, uid, validity, landed, marks>>

LMTP(c) ==
    \/ \E b \in Boxes : Rcpt(c, b)
    \/ Data(c)
    \/ DeliverFolder(c)
    \/ DeliverInsert(c)
    \/ DeliverCommit(c)
    \/ DeliverFails(c)

-----------------------------------------------------------------------------
(* The web client.                                                          *)

\* MoveMessage up to its commit; a move to where the message is changes nothing.
MoveMessage(w, r, d) ==
    /\ Idle(w)
    /\ r.dir # d
    /\ LockFree(r.box) /\ Unlocked({r}) /\ NameFree(r.box, d)
    /\ uid < scene.maxUid
    /\ uid' = uid + 1
    /\ Begin(w, r.box, {r}, {[r EXCEPT !.dir = d, !.uid = uid + 1]},
             IF Exists(r.box, d) THEN {} ELSE {d}, TRUE)
    /\ UNCHANGED <<rows, dirs, validity, call, landed, marks>>

MoveCommit(w) ==
    /\ \E t \in TxOf(w) : Commit(t)
    /\ UNCHANGED <<uid, call, landed, marks>>

MoveFails(w) ==
    /\ ~Idle(w)
    /\ Rollback(w)
    /\ UNCHANGED <<rows, dirs, uid, validity, call, landed, marks>>

Web(w) ==
    \/ \E r \in rows, d \in {"INBOX", "Junk"} : MoveMessage(w, r, d)
    \/ MoveCommit(w)
    \/ MoveFails(w)

Does(a, kind) == a \in scene.actors /\ kind \in scene.kinds

StoreNext ==
    /\ \/ \E c \in Calls : Does(c, "deliver") /\ LMTP(c)
       \/ \E w \in Webs : Does(w, "web") /\ Web(w)
    /\ UNCHANGED scene
=============================================================================
