--------------------------- MODULE MCSigningKeys ---------------------------
(* Instances of SigningKeys for TLC.                                       *)
EXTENDS SigningKeys, TLC

CONSTANTS c1, c2, r1, r2

TwoCalls == {c1, c2}
OneRow == {r1}
TwoRows == {r1, r2}
ThreeKeys == 1..3
SecondKey == {2}

KeysSymmetry == Permutations(TwoCalls) \cup Permutations(Rows)
=============================================================================
