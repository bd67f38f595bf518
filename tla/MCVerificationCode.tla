------------------------- MODULE MCVerificationCode -------------------------
(* Instances of VerificationCode for TLC.                                  *)
EXTENDS VerificationCode, TLC

CONSTANTS c1, c2, c3, r1, r2, right, wrong

ThreeCalls == {c1, c2, c3}
TwoRows == {r1, r2}
TwoCodes == {right, wrong}

CodeSymmetry == Permutations(ThreeCalls) \cup Permutations(TwoRows) \cup Permutations(TwoCodes)
=============================================================================
