---------------------------- MODULE MCOutbound ----------------------------
(* Instances of Outbound for TLC.                                          *)
EXTENDS Outbound, TLC

CONSTANTS e1, e2, e3, w1, k, text, otherText, file, photo

TwoCalls == {e1, e2}
ThreeCalls == {e1, e2, e3}
OneWorker == {w1}
OneFile == {file}
TwoFiles == {file, photo}

Ask(key, content, files) == [key |-> key, content |-> content, files |-> files]

\* The key decides the files; a key may be reused for other content, and a request
\* without a key competes for one of the files.
KeyedRequests == {Ask(k, text, TwoFiles), Ask(k, otherText, TwoFiles), Ask(NoKey, text, {file})}

\* A key reused for the same text without the file.
FileDropped == {Ask(k, text, {file}), Ask(k, text, {})}

\* A failing API over working workers, and the other way round.
EitherSideFails == {{"api", "delete"}, {"db", "crash", "lease"}}
NoFaults == {{}}
CallSymmetry == Permutations(ThreeCalls)
=============================================================================
