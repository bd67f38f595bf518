---------------------------- MODULE Conversation ----------------------------
(***************************************************************************)
(* A message on its way through the system: it arrives or is composed, is  *)
(* shown, answered by a member in the browser (httpapi/send_session.go),   *)
(* sent and read again; or a mail client hands in a draft that is relayed  *)
(* (submission/server.go).  One message at a time: what the steps make of  *)
(* it is defined in Messages.                                              *)
(***************************************************************************)
EXTENDS Messages

CONSTANTS
    Received,   \* messages as they arrive from elsewhere
    Composed,   \* what API and web client compose
    Answers,    \* what is composed as an answer
    HandedIn    \* drafts of mail clients

-----------------------------------------------------------------------------
(* What arrives, in any shape; and what is composed and handed in.          *)

\* All strings; those the system itself puts into messages are named, for the proofs.
Word == STRING \cup {"none", "new", "known", "other", "attachment", "multipart", "text/plain", "text/html"}
Text == Seq(Word)
Header == [coding : Word, text : Text]

\* An id has at most MaxChain characters (messageIDPattern), each of a byte or more.
Id == {id \in [name : Word, bytes : Nat, chars : Nat] : id.chars <= id.bytes /\ id.chars <= MaxChain}

Part == [depth : Nat, type : Word, disposition : Word, name : Header, encoding : Word,
         charsetKnown : BOOLEAN, cid : Word, size : Nat, garbled : BOOLEAN, cut : BOOLEAN, sniffed : Word]

\* One root, and what is deeper than the part before it is in that part.
IsTree(parts) ==
    /\ parts \in Seq(Part) /\ parts # <<>> /\ parts[1].depth = 0
    /\ \A i \in 2..Len(parts) :
          /\ parts[i].depth \in 1..(parts[i - 1].depth + 1)
          /\ parts[i].depth > parts[i - 1].depth => parts[i - 1].type = "multipart"

IsMessage(m) ==
    /\ m.lenient \in BOOLEAN /\ m.strict \in BOOLEAN
    /\ {m.ids, m.references, m.inReplyTo} \subseteq Seq(Id)
    /\ IsTree(m.parts)

\* Files are uploaded whole and within their limit, under any name, and as a type of
\* their own: one that is declared to be a multipart is taken apart where it arrives.
File == {f \in [name : Text, type : Word, size : 0..MaxMessageBytes] : f.type # "multipart"}
Content == {b \in [size : Nat, blank : BOOLEAN] : b.size = 0 => b.blank}

IsComposed(c) == c.text \in Content /\ c.html \in Content /\ c.files \in Seq(File)

\* A folded line goes under the name of the line it continues.
IsDraft(raw) ==
    /\ raw.lines \in Seq([name : Word, value : Word, folded : BOOLEAN])
    /\ \A i \in 2..Len(raw.lines) : raw.lines[i].folded => raw.lines[i].name = raw.lines[i - 1].name

\* What is sent at its limits is within those of reading.
ASSUME TalkAssumption ==
    /\ {MaxParts, MaxDepth, MaxMessageBytes, MaxBodyBytes, NameLimit} \subseteq Nat
    /\ {InlineLimit, InlineBudget, MaxChain, MaxFiles} \subseteq Nat
    /\ MaxParts >= MaxFiles + 4 /\ MaxDepth >= 2 /\ NameLimit >= 3 /\ MaxBodyBytes > 0 /\ MaxChain > 0
    /\ \A m \in Received : IsMessage(m)
    /\ \A c \in Composed \cup Answers : IsComposed(c)
    /\ \A raw \in HandedIn : IsDraft(raw)

-----------------------------------------------------------------------------

VARIABLES
    stage,      \* where the message is
    mail        \* the message, as what it is there

talkVars == <<stage, mail>>

Request(c, chain, parent) ==
    [from |-> c.from, to |-> c.to, subject |-> c.subject, text |-> c.text, html |-> c.html, files |-> c.files,
     references |-> chain, inReplyTo |-> parent]

TalkInit == stage = "none" /\ mail = NoId

Goes(to, as) == stage' = to /\ mail' = as

\* LMTP takes any message.
Arrive == stage = "none" /\ \E m \in Received : Goes("received", m)

\* A new message refers to no other.
Compose == stage = "none" /\ \E c \in Composed : Goes("requested", Request(c, <<>>, NoId))

\* A reply takes its references from what is shown of the original.
Reply ==
    /\ stage = "received"
    /\ \E a \in Answers :
          Goes("requested", Request(a, Present(mail).references, Present(mail).inReplyTo))

\* The request is checked, stored and queued, and the sender builds the message; it is
\* read where it arrives as it is read here.
Send ==
    /\ stage = "requested"
    /\ SendAccepts(mail)
    /\ Validate(mail)
    /\ Goes("received", Build(mail))

HandIn == stage = "none" /\ \E raw \in HandedIn : Goes("draft", raw)

\* What a draft is relayed as; its limits, quota and signature are in Submission.
Relay ==
    /\ stage = "draft"
    /\ PrepareAccepts(mail)
    /\ Goes("relayed", [draft |-> mail, lines |-> Prepare(mail)])

Talk == Arrive \/ Compose \/ Reply \/ Send \/ HandIn \/ Relay

TalkSpec == TalkInit /\ [][Talk]_talkVars

-----------------------------------------------------------------------------
(* Received mail, from elsewhere or sent here.                              *)

FilesOf(m) == {i \in DOMAIN m.parts : IsFile(m.parts[i])}

\* If nothing is said to be missing all files of the whole tree are listed, however deep
\* and damaged it is; what is listed is what a download by its id yields, and nothing else
\* can be downloaded.
FilesAccountedFor(m) ==
    LET scan == ScanAttachments(m, 0)
    IN  /\ m.strict /\ ~scan.incomplete => Cardinality(scan.items) = Cardinality(FilesOf(m))
        /\ \A id \in 1..(MaxParts + 1) :
              LET got == Attachment(m, id)
              IN  IF \E item \in scan.items : item.id = id
                  THEN got.item \in scan.items /\ got.item.id = id /\ got.data = id
                  ELSE got = NotFound

\* The name of a file is never empty and never a path, whatever encoding hid it.
NamesAreNames(m) ==
    \A item \in ScanAttachments(m, 0).items :
        /\ Len(item.name) \in 1..NameLimit
        /\ item.name \notin {<<".">>, <<".", ".">>}
        /\ Range(item.name) \cap {"/", "\\", "control"} = {}

\* What the walk for bodies loses without a word: a part the library cannot decode, unless
\* it is the whole message, and, because that ends the loop, its later siblings.
Hidden(m, i) ==
    \E j \in 1..(i - 1) :
        /\ Undecodable(m.parts[j])
        /\ \A k \in (j + 1)..i : m.parts[k].depth >= m.parts[j].depth

LostInSilence(m, i) == (Undecodable(m.parts[i]) /\ i # 1) \/ Hidden(m, i)

Readable(m, type) ==
    {i \in DOMAIN m.parts : /\ IsBody(m.parts[i], type) /\ m.parts[i].size > 0
                            /\ ~LostInSilence(m, i)}

\* Of each kind the first body with anything in it that is not lost is shown, and never an
\* attachment; a message that go-message cannot open shows none.
BodiesAreFirst(m) ==
    LET first(S) == IF S = {} THEN 0 ELSE Min(S)
    IN  /\ Parse(m).text.of = IF m.lenient THEN first(Readable(m, "text/plain")) ELSE 0
        /\ Parse(m).html.of = IF m.lenient THEN first(Readable(m, "text/html")) ELSE 0

\* Inline media stay within their budget and are harmless.  In a message that go-message
\* can open, every content id has its part shown unless the view says that something is
\* left out; one it cannot open shows none, and does not say so.
InlineIsBounded(m) ==
    LET view == Present(m)
        bytes == [i \in DOMAIN m.parts |-> IF \E s \in view.media : s.of = i THEN m.parts[i].size ELSE 0]
    IN  /\ Total(bytes) <= InlineBudget
        /\ \A s \in view.media : Harmless(m.parts[s.of]) /\ m.parts[s.of].cid = s.cid
        /\ \A s, t \in view.media : s.cid = t.cid => s = t
        /\ m.lenient /\ ~view.omitted =>
              \A i \in DOMAIN m.parts : m.parts[i].type # "multipart" /\ m.parts[i].cid # "none" =>
                  \E s \in view.media : s.cid = m.parts[i].cid

\* What is shown of a message.  Its files are all listed, or the list says that it is not
\* complete (attachments.go:25-27, 111-123), in every shape and at every limit.  Its bodies
\* are the first ones (parse.go:64-67), of those the walk does not lose: LostInSilence says
\* which it does, and of a message that cannot be opened it loses all.  Its inline media are
\* all shown or said to be left out (presentation.go:76-132), if it can be opened.
ShownIsWhole ==
    stage = "received" =>
        /\ FilesAccountedFor(mail)
        /\ NamesAreNames(mail)
        /\ BodiesAreFirst(mail)
        /\ InlineIsBounded(mail)

-----------------------------------------------------------------------------
(* Conversations.                                                           *)

\* All that was known of the conversation before a message, and the message.
Ancestry(m) ==
    (IF m.references = <<>> THEN m.inReplyTo ELSE m.references)
        \o (IF InReplyTo(m) = NoId THEN <<>> ELSE <<InReplyTo(m)>>)

\* However long a conversation gets and whoever wrote its headers, a reply passes the
\* limits of Send (service.go:79-80, presentation.go:71-74), drops no more of the oldest
\* references than it must, and names the message it answers unless that alone is too long:
\* an id of 900 characters has more bytes when they are not ASCII.
RepliesAreAccepted ==
    /\ stage = "requested" /\ mail.to # {} /\ HasBody(mail) /\ Len(mail.files) <= MaxFiles =>
          SendAccepts(mail)
    /\ stage = "received" /\ mail.lenient =>
          LET chain == Present(mail).references
              dropped == Len(Ancestry(mail)) - Len(chain)
          IN  /\ chain = SubSeq(Ancestry(mail), dropped + 1, Len(Ancestry(mail)))
              /\ dropped > 0 => Length(SubSeq(Ancestry(mail), dropped, Len(Ancestry(mail)))) > MaxChain
              /\ InReplyTo(mail) # NoId /\ InReplyTo(mail).bytes <= MaxChain =>
                    Last(chain) = InReplyTo(mail)

\* What Send accepts is not refused by the sender (provider.go:70-71), and read at its
\* receiver it shows its bodies, all its files in their order, and its place in the
\* conversation: the limits of sending are within those of reading.  Its author is the one
\* it was sent for, whose case is stored as given and read in lower case (parse.go:133).
SentIsRead ==
    stage = "requested" /\ SendAccepts(mail) =>
        LET m == Build(mail)
            scan == ScanAttachments(m, 0)
            nth(i) == CHOOSE item \in scan.items : Cardinality({j \in scan.items : j.id <= item.id}) = i
        IN  /\ Validate(mail)
            /\ ~scan.incomplete /\ Cardinality(scan.items) = Len(mail.files)
            /\ \A i \in DOMAIN mail.files : nth(i).size = mail.files[i].size
            /\ (Parse(m).text.of # 0) = (mail.text.size > 0)
            /\ (Parse(m).html.of # 0) = (mail.html.size > 0)
            /\ Parse(m).fields.FromAddr = Lower(mail.from)
            /\ Last(Present(m).references).name = "new"

\* What leaves through submission has one author, who is the mailbox, a date and an id, and
\* no trace of blind recipients or of a way it did not go, on folded lines either; the rest
\* of its head is as it was handed in (submission/server.go:233-234).
RelayedIsOwn ==
    stage = "relayed" =>
        LET out == mail.lines
            given == mail.draft.lines
            kept == {i \in DOMAIN given : given[i].name \notin Stripped}
            added == Len(out) - Cardinality(kept)
            values(name) == {out[i].value : i \in {j \in DOMAIN out : out[j].name = name /\ ~out[j].folded}}
        IN  /\ values("from") = {"own"} /\ values("sender") \subseteq {"own"}
            /\ \A i \in DOMAIN out : out[i].name \notin Stripped \cup {"resent"}
            /\ \A name \in {"date", "message-id"} : Cardinality(values(name) \ {"empty"}) = 1
            /\ added \in 0..2
            /\ \A i \in kept : out[added + Cardinality({j \in kept : j <= i})] = given[i]

\* All of it: files are listed or said to be missing, and so are the inline media of what can
\* be opened; no body takes the place of an earlier one, but for those lost in silence; what
\* is sent here is what is read here, and under no other name; and a conversation goes on.
MailSurvivesHandling ==
    /\ ShownIsWhole
    /\ RepliesAreAccepted
    /\ SentIsRead
    /\ RelayedIsOwn
=============================================================================
