-------------------------- MODULE MCImapSessions --------------------------
(* Instances of ImapSessions and Conversation for TLC, side by side: what   *)
(* becomes of a message depends on nothing in the store, so conversations   *)
(* have a scene of their own, in which nobody else acts.                    *)
EXTENDS ImapSessions, Conversation

CONSTANTS b1, b2, m1, m2, m3, c1, c2, w1, s1, s2

TwoBoxes == {b1, b2}
ThreeMails == {m1, m2, m3}
TwoCalls == {c1, c2}
OneWeb == {w1}
TwoSessions == {s1, s2}
ThreeNames == {"INBOX", "Junk", "Archive"}
Junked == {m1}
Retry == [c \in TwoCalls |-> m1]
AllInOne == [s \in TwoSessions |-> b1]
OneDraft == {m2}

Scene(actors, kinds, held, maxUid) ==
    [actors |-> actors, kinds |-> kinds, unnamed |-> {}, held |-> {b1} \X held, maxUid |-> maxUid]

\* The mail that is delivered twice has no Message-ID.
Anonymous == [Scene({c1, c2}, {"deliver"}, {m2}, 4) EXCEPT !.unnamed = {m1}]

\* Nobody touches the store.
Quiet == Scene({}, {}, {}, 0)

\* Kinds of writers that meet, over as little mail as shows it.
AllScenes == {
    Quiet,
    Anonymous,
    Scene({c1, c2, w1},     {"deliver", "web"},     {},       5),
    Scene({c1, c2, s1},     {"deliver", "move"},    {},       4),
    Scene({c1, s1},         {"deliver", "folders", "rename"}, {m2}, 4),
    Scene({c1, s1},         {"deliver", "copy"},    {m2},     4),
    Scene({c1, s1},         {"deliver", "flags", "move"}, {m2}, 3),
    Scene({s1, s2},         {"flags"},              {m2, m3}, 2),
    Scene({s1, s2},         {"flags", "rename"},    {m2, m3}, 2),
    Scene({s1, s2},         {"flags", "folders", "rename"}, {m2}, 1),
    Scene({s1, s2},         {"flags", "move"},      {m2},     3),
    Scene({s1, s2, w1},     {"flags", "web"},       {m2},     3),
    Scene({s1, w1},         {"web", "folders", "rename"}, {m2}, 2),
    Scene({s1, s2},         {"move", "folders", "rename"}, {m2}, 2)}

\* A conversation, or the store and those who use it.
MCInit == Init /\ TalkInit

MCNext ==
    \/ Next /\ UNCHANGED talkVars
    \/ scene = Quiet /\ Talk /\ UNCHANGED vars

MCSpec == MCInit /\ [][MCNext]_<<vars, talkVars>>

Symmetry == Permutations(TwoCalls) \cup Permutations(TwoSessions)

-----------------------------------------------------------------------------
(* Messages: all small trees, and some wide ones.                           *)

FileOf(name) == [Leaf(1, "image/svg", 1) EXCEPT !.disposition = "attachment", !.name = name]
Inlined(type, sniffed, size) == [Leaf(1, type, size) EXCEPT !.cid = "x", !.sniffed = sniffed]

Branches == {Multipart(0), [Multipart(0) EXCEPT !.cut = TRUE]}
Files == {FileOf(Plain(<<"a">>)), [FileOf(NoName) EXCEPT !.garbled = TRUE],
          [Leaf(1, "text/plain", 2) EXCEPT !.name = Plain(<<"a">>), !.encoding = "unknown"],
          [FileOf(NoName) EXCEPT !.size = MaxMessageBytes + 1]}
Bodies == {Leaf(1, "text/plain", 0), Leaf(1, "text/plain", MaxBodyBytes + 1), Leaf(1, "text/html", 1),
           [Leaf(1, "text/html", 1) EXCEPT !.charsetKnown = FALSE]}
Media == {Inlined("image/png", "image/png", 2), [Inlined("image/png", "image/png", 3) EXCEPT !.cid = "y"],
          Inlined("image/png", "other", 1), Inlined("image/png", "image/png", InlineLimit + 1)}
Parts == Branches \cup Files \cup Bodies \cup Media

Depths(n) == {d \in [1..n -> 0..(n - 1)] :
                \A i \in 1..n : IF i = 1 THEN d[i] = 0 ELSE d[i] \in 1..(d[i - 1] + 1)}
Trees(n, kinds) == {[i \in 1..n |-> [kind[i] EXCEPT !.depth = depth[i]]] :
    <<kind, depth>> \in {<<k, d>> \in [1..n -> kinds] \X Depths(n) :
        \A i \in 1..(n - 1) : d[i + 1] > d[i] => k[i] \in Branches}}
Wide(n) == {<<Multipart(0)>> \o [i \in 1..(n - 1) |-> part] : part \in Parts \ Branches}
AllTrees == UNION {Trees(n, Parts) : n \in 1..3} \cup Trees(4, Branches \cup Files)
              \cup UNION {Wide(n) : n \in 4..(MaxParts + 2)}

Ann == Address("ann", FALSE)
ANN == Address("ann", TRUE)
Bob == Address("bob", FALSE)
Authors(list, raw) == [valid |-> list # <<>>, list |-> list, raw |-> Address(raw, TRUE)]
Author == Authors(<<ANN>>, "ann")
Several == Authors(<<ANN, Bob>>, "ann, bob")
Unreadable == Authors(<<>>, "?")
Unsafe == Authors(<<Address("crlf", FALSE)>>, "crlf")
\* An id has at most MaxChain characters (messageIDPattern), some of several bytes.
IdOf(name, bytes) == [name |-> name, bytes |-> bytes, chars |-> IF bytes > MaxChain THEN MaxChain ELSE bytes]
Ids == {IdOf("short", 1), IdOf("long", MaxChain - 1), IdOf("longest", MaxChain), IdOf("longer", MaxChain + 1)}

Letter(parts) ==
    [lenient |-> TRUE, strict |-> TRUE, subject |-> Plain(<<"s">>), date |-> "valid", from |-> Author,
     replyTo |-> Unreadable, ids |-> <<IdOf("own", 1)>>, references |-> <<>>, inReplyTo |-> <<>>, parts |-> parts]
Simple == Letter(<<Leaf(0, "text/plain", 1)>>)
Titled == {<<"a">>, <<".">>, <<".", ".">>, <<"/", ".", "control">>, <<"a", "b", "c", "\\">>}

AllReceived ==
    {Letter(parts) : parts \in AllTrees}
    \cup {Letter(<<[FileOf([coding |-> coding, text |-> text]) EXCEPT !.depth = 0]>>) :
            coding \in {"none", "known", "unknown"}, text \in Titled}
    \cup {[Simple EXCEPT !.ids = ids, !.references = references, !.inReplyTo = parent] :
            ids \in SeqOf(Ids, 2), references \in SeqOf(Ids, 2), parent \in SeqOf({IdOf("parent", 1)}, 1)}
    \cup {[Simple EXCEPT !.lenient = lenient, !.strict = strict, !.from = from, !.replyTo = replyTo] :
            lenient \in BOOLEAN, strict \in BOOLEAN, from \in {Author, Several, Unreadable, Unsafe},
            replyTo \in {Author, Several, Unreadable, Unsafe}}

HeaderLines == {Line("from", "own"), Line("from", "other"), Line("sender", "own"), Line("bcc", "x"),
                Line("received", "x"), Line("date", "given"), Line("date", "empty"),
                Line("message-id", "given"), Line("resent", "x"), Line("subject", "x"), Line("none", "x")}
Folded(line) == <<line, [line EXCEPT !.value = "more", !.folded = TRUE]>>
AllHandedIn == {[separated |-> separated, lines |-> FlattenSeq(chunks)] :
    separated \in BOOLEAN,
    chunks \in SeqOf({<<line>> : line \in HeaderLines} \cup {Folded(line) : line \in HeaderLines}, 3)}

Nothing == [size |-> 0, blank |-> TRUE]
Texts == {Nothing, [size |-> 1, blank |-> TRUE],
          [size |-> MaxBodyBytes + 1, blank |-> FALSE]}
Uploads == [name : {<<"a">>}, type : {"text/plain", "image/png"}, size : {1, MaxMessageBytes}]
AllComposed ==
    [from : {Ann, ANN}, to : {{}, {Bob}}, subject : {<<"s">>}, text : Texts, html : Texts,
     files : SeqOf(Uploads, MaxFiles + 1)]
SomeAnswers ==
    [from : {ANN}, to : {{Bob}}, subject : {<<"s">>}, text : Texts, html : {Nothing},
     files : {<<>>}]
=============================================================================
