------------------------------ MODULE Messages ------------------------------
(***************************************************************************)
(* What is made of a message: its files (attachments.go), its bodies and   *)
(* header fields (parse.go), what a detail view shows and a reply carries  *)
(* (presentation.go); what a draft handed in by SMTP goes out as           *)
(* (submission/server.go), and what a composed message is sent as          *)
(* (provider).  Pure functions of the message, without state.              *)
(*                                                                         *)
(* The MIME tree is a sequence of its parts in the order of a walk, each   *)
(* with its depth; a part is a leaf or a "multipart" that holds the deeper *)
(* parts that follow.  Texts are sequences of characters, of which only    *)
(* those that matter are told apart, and bodies are lengths.               *)
(***************************************************************************)
EXTENDS Naturals, Sequences, FiniteSets, FiniteSetsExt, SequencesExt, TLC

CONSTANTS
    MaxParts, MaxDepth,         \* of a walk
    MaxMessageBytes,            \* of one file
    MaxBodyBytes,               \* of one body kept for display
    NameLimit,                  \* characters of a file's name
    InlineLimit, InlineBudget,  \* bytes shown inline: of one part, of all
    MaxChain,                   \* of a reference chain: bytes here, characters in Send's check
    MaxFiles                    \* files of one composed message

NoId == [name |-> "none", bytes |-> 0, chars |-> 0]
Plain(text) == [coding |-> "none", text |-> text]
NoName == Plain(<<>>)

\* Of an address it matters that upper and lower case are told apart until they are not.
Address(name, upper) == [name |-> name, upper |-> upper]
NoAddress == Address("", FALSE)
Lower(address) == [address EXCEPT !.upper = FALSE]

ShownTypes == {"image/png", "image/jpeg", "image/gif", "image/webp", "audio/mpeg", "audio/ogg",
               "audio/wave", "audio/wav", "video/mp4", "video/webm"}
Images == {"image/png", "image/jpeg", "image/gif", "image/webp"}

Total(numbers) ==
    LET upTo[i \in 0..Len(numbers)] == IF i = 0 THEN 0 ELSE upTo[i - 1] + numbers[i]
    IN  upTo[Len(numbers)]

-----------------------------------------------------------------------------
(* Header fields.                                                           *)

\* An encoded word in a charset nobody knows stays as it is.
DecodeHeader(v) == IF v.coding = "unknown" THEN <<"=?">> ELSE v.text

\* A single address in lower case, or else the trimmed value as it stands.
SplitAddress(from) == IF from.valid /\ Len(from.list) = 1 THEN Lower(from.list[1]) ELSE from.raw

ParseDate(date) == IF date = "valid" THEN "sent" ELSE "none"

Fields(m) ==
    [Subject |-> DecodeHeader(m.subject), MessageID |-> m.ids,
     FromAddr |-> SplitAddress(m.from), SentAt |-> ParseDate(m.date)]

-----------------------------------------------------------------------------
(* Files.                                                                   *)

\* The parts a walk counts: it goes into no part below MaxDepth, and counts those first.
Reached(m) == {i \in DOMAIN m.parts : m.parts[i].depth <= MaxDepth + 1}
Place(m, i) == Cardinality({j \in Reached(m) : j <= i})

Opened(m) == {i \in Reached(m) : Place(m, i) <= MaxParts /\ m.parts[i].depth <= MaxDepth}

\* Bug: what lies too deep is passed over in silence.
MutStoppedByCountOnly(m) == Cardinality(Reached(m)) > MaxParts

\* It has met a limit.
Stopped(m) ==
    \/ Cardinality(Reached(m)) > MaxParts
    \/ \E i \in Reached(m) : m.parts[i].depth > MaxDepth

\* A multipart that ends without its last boundary, or has none.
Broken(m) == \E i \in Opened(m) : m.parts[i].type = "multipart" /\ m.parts[i].cut

IsFile(p) == p.type # "multipart" /\ (p.disposition = "attachment" \/ p.name # NoName)
Decodes(p) == p.encoding # "unknown" /\ ~p.garbled /\ p.size <= MaxMessageBytes

SafeName(name) ==
    LET clean == [i \in DOMAIN DecodeHeader(name) |->
                    IF DecodeHeader(name)[i] \in {"/", "\\", "control"} THEN "_" ELSE DecodeHeader(name)[i]]
        given == IF clean \in {<<>>, <<".">>, <<".", ".">>} THEN <<"attachment", "-", "id">> ELSE clean
    IN  SubSeq(given, 1, IF Len(given) > NameLimit THEN NameLimit ELSE Len(given))

\* Ids are places in the walk, never names the sender chose.
ItemOf(m, i) == [id |-> Place(m, i), name |-> SafeName(m.parts[i].name), size |-> m.parts[i].size]

ScanAttachments(m, selected) ==
    IF ~m.strict
    THEN [items |-> {}, data |-> 0, incomplete |-> TRUE]
    ELSE LET files == {i \in Opened(m) : IsFile(m.parts[i])}
             listed == {i \in files : Decodes(m.parts[i])}
         IN  [items |-> {ItemOf(m, i) : i \in listed},
              data |-> IF \E i \in files : Place(m, i) = selected /\ m.parts[i].encoding # "unknown"
                       THEN selected ELSE 0,
              incomplete |-> Stopped(m) \/ Broken(m) \/ files # listed]

NotFound == [item |-> [id |-> 0, name |-> <<>>, size |-> 0], data |-> 0]

Attachment(m, id) ==
    LET scan == ScanAttachments(m, id)
    IN  IF \E item \in scan.items : item.id = id
        THEN [item |-> CHOOSE item \in scan.items : item.id = id, data |-> scan.data]
        ELSE NotFound

-----------------------------------------------------------------------------
(* Bodies.                                                                  *)

\* A part the library cannot decode is an error to the loop over its siblings.
Undecodable(p) == p.type # "multipart" /\ (p.encoding = "unknown" \/ ~p.charsetKnown)

IsBody(p, type) == p.type = type /\ p.disposition # "attachment"

NoBody == [of |-> 0, bytes |-> 0]

\* An empty body leaves its place to a later one; size is what could be decoded.
Body(m, i) ==
    IF m.parts[i].size = 0 THEN NoBody
    ELSE [of |-> i, bytes |-> IF m.parts[i].size > MaxBodyBytes THEN MaxBodyBytes ELSE m.parts[i].size]

\* One part of collectBodies.  skip: the depth of an undecodable part, whose later
\* siblings are not read; beyond every depth if there is none.
Collect(m, walk, i) ==
    LET p == m.parts[i]
        open == [walk EXCEPT !.skip = Len(m.parts)]
    IN  IF p.depth >= walk.skip THEN walk
        ELSE IF Undecodable(p) /\ p.depth > 0 THEN [walk EXCEPT !.skip = p.depth]
        ELSE IF IsBody(p, "text/plain") /\ walk.text = NoBody
             THEN [open EXCEPT !.text = Body(m, i)]
        ELSE IF IsBody(p, "text/html") /\ walk.html = NoBody
             THEN [open EXCEPT !.html = Body(m, i)]
        ELSE open

CollectBodies(m) ==
    LET walk[i \in 0..Len(m.parts)] ==
            IF i = 0 THEN [skip |-> Len(m.parts), text |-> NoBody, html |-> NoBody]
            ELSE Collect(m, walk[i - 1], i)
    IN  walk[Len(m.parts)]

\* parse never fails: headers one library cannot read are tried with the other.
Parse(m) ==
    LET none == [Subject |-> <<>>, MessageID |-> <<>>, FromAddr |-> NoAddress, SentAt |-> "none"]
    IN  [fields |-> IF m.lenient \/ m.strict THEN Fields(m) ELSE none,
         text |-> IF m.lenient THEN CollectBodies(m).text ELSE NoBody,
         html |-> IF m.lenient THEN CollectBodies(m).html ELSE NoBody]

-----------------------------------------------------------------------------
(* The detail view.                                                         *)

\* Reply-To if it yields an address, From otherwise; no address that breaks a line.
ReplyTo(m) ==
    LET usable(field) == IF field.valid THEN SelectSeq(field.list, LAMBDA a : a.name # "crlf") ELSE <<>>
    IN  IF usable(m.replyTo) # <<>> THEN usable(m.replyTo) ELSE usable(m.from)

InReplyTo(m) == IF Len(m.ids) = 1 THEN m.ids[1] ELSE NoId

\* Joined with blanks: in bytes, as Present counts, and in characters, as Send does.
Blanks(chain) == IF chain = <<>> THEN 0 ELSE Len(chain) - 1
Length(chain) == Blanks(chain) + Total([i \in DOMAIN chain |-> chain[i].bytes])
Characters(chain) == Blanks(chain) + Total([i \in DOMAIN chain |-> chain[i].chars])

\* The chain for a reply, without as many of its oldest links as it takes.
References(m) ==
    LET older == IF m.references = <<>> THEN m.inReplyTo ELSE m.references
        chain == IF InReplyTo(m) = NoId THEN older ELSE Append(older, InReplyTo(m))
        fits(k) == Length(SubSeq(chain, k + 1, Len(chain))) <= MaxChain
        drop == CHOOSE k \in 0..Len(chain) : fits(k) /\ \A j \in 0..(k - 1) : ~fits(j)
    IN  SubSeq(chain, drop + 1, Len(chain))

\* Active documents are never shown inline, whatever they call themselves.
Harmless(p) == p.type \in ShownTypes /\ (p.type \in Images => p.sniffed = p.type)

\* One part of Present's walk; shown pairs a content id with the part shown for it.
Inline(m, view, i) ==
    LET p == m.parts[i]
    IN  IF i \notin Opened(m) \/ p.type = "multipart" \/ p.cid = "none" THEN view
        ELSE IF ~Harmless(p) \/ p.garbled \/ p.size > InlineLimit \/ p.size > view.remaining
             THEN [view EXCEPT !.omitted = TRUE]
        ELSE IF \E s \in view.shown : s.cid = p.cid THEN view
        ELSE [view EXCEPT !.remaining = @ - p.size, !.shown = @ \cup {[cid |-> p.cid, of |-> i]}]

InlineMedia(m) ==
    LET view[i \in 0..Len(m.parts)] ==
            IF i = 0 THEN [remaining |-> InlineBudget, omitted |-> Stopped(m) \/ Broken(m), shown |-> {}]
            ELSE Inline(m, view[i - 1], i)
    IN  view[Len(m.parts)]

Present(m) ==
    LET scan == ScanAttachments(m, 0)
        files == [attachments |-> scan.items, attachmentsOmitted |-> scan.incomplete, replyTo |-> <<>>,
                  inReplyTo |-> NoId, references |-> <<>>, media |-> {}, omitted |-> FALSE]
    IN  IF ~m.lenient THEN files
        ELSE [files EXCEPT !.replyTo = ReplyTo(m), !.inReplyTo = InReplyTo(m), !.references = References(m),
                           !.media = InlineMedia(m).shown, !.omitted = InlineMedia(m).omitted]

-----------------------------------------------------------------------------
(* Messages that go out.                                                    *)

Stripped == {"bcc", "return-path", "received", "authentication-results", "dkim-signature", "arc"}

Named(raw, name) == {i \in DOMAIN raw.lines : ~raw.lines[i].folded /\ raw.lines[i].name = name}

\* What prepare asks of a draft: a head of lines with names, one author, who is the
\* mailbox itself, and nothing that makes it ambiguous.
PrepareAccepts(raw) ==
    /\ raw.separated
    /\ \A i \in DOMAIN raw.lines : raw.lines[i].name # "none" /\ (i = 1 => ~raw.lines[i].folded)
    /\ Cardinality(Named(raw, "from")) = 1
    /\ \A name \in {"sender", "date", "message-id"} : Cardinality(Named(raw, name)) <= 1
    /\ \A i \in Named(raw, "from") \cup Named(raw, "sender") : raw.lines[i].value = "own"
    /\ Named(raw, "resent") = {}

\* A folded line goes the way of the line it continues.
Strips(copy, line) == IF line.folded THEN copy.skip ELSE line.name \in Stripped

CopyLine(copy, line) ==
    LET skip == Strips(copy, line)
    IN  [skip |-> skip, lines |-> IF skip THEN copy.lines ELSE Append(copy.lines, line)]

Line(name, value) == [name |-> name, value |-> value, folded |-> FALSE]

Generated(raw, name) ==
    IF \E i \in Named(raw, name) : raw.lines[i].value # "empty" THEN <<>> ELSE <<Line(name, "new")>>

Prepare(raw) ==
    LET copy[i \in 0..Len(raw.lines)] ==
            IF i = 0 THEN [skip |-> FALSE, lines |-> <<>>] ELSE CopyLine(copy[i - 1], raw.lines[i])
    IN  Generated(raw, "date") \o Generated(raw, "message-id") \o copy[Len(raw.lines)].lines

HasBody(c) == ~c.text.blank \/ ~c.html.blank

\* What Send accepts: the tags of its request, and a body that is not blank.
SendAccepts(c) ==
    /\ c.to # {}
    /\ Len(c.files) <= MaxFiles
    /\ Characters(c.references) <= MaxChain /\ c.inReplyTo.chars <= MaxChain
    /\ HasBody(c)

\* What the sender takes from the queue.
Validate(c) == c.to # {} /\ ~(c.html.blank /\ c.text.blank)

Leaf(depth, type, size) ==
    [depth |-> depth, type |-> type, disposition |-> "none", name |-> NoName, encoding |-> "known",
     charsetKnown |-> TRUE, cid |-> "none", size |-> size, garbled |-> FALSE, cut |-> FALSE, sniffed |-> "other"]
Multipart(depth) == Leaf(depth, "multipart", 0)

\* The tree the mail library makes of the calls of Send.
Build(c) ==
    LET body(depth) ==
            IF c.text.size > 0 /\ c.html.size > 0
            THEN <<Multipart(depth), Leaf(depth + 1, "text/plain", c.text.size),
                   Leaf(depth + 1, "text/html", c.html.size)>>
            ELSE IF c.html.size > 0 THEN <<Leaf(depth, "text/html", c.html.size)>>
            ELSE <<Leaf(depth, "text/plain", c.text.size)>>
        file(f) == [Leaf(1, f.type, f.size) EXCEPT !.disposition = "attachment", !.name = Plain(f.name)]
        author == [valid |-> TRUE, list |-> <<c.from>>, raw |-> c.from]
    IN  [lenient |-> TRUE, strict |-> TRUE, subject |-> Plain(c.subject), date |-> "valid",
         from |-> author, replyTo |-> [author EXCEPT !.valid = FALSE],
         ids |-> <<[name |-> "new", bytes |-> 1, chars |-> 1]>>, references |-> c.references,
         inReplyTo |-> IF c.inReplyTo = NoId THEN <<>> ELSE <<c.inReplyTo>>,
         parts |-> IF c.files = <<>> THEN body(0)
                   ELSE <<Multipart(0)>> \o body(1) \o [i \in DOMAIN c.files |-> file(c.files[i])]]

=============================================================================
