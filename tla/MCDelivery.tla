---------------------------- MODULE MCDelivery ----------------------------
(* Instances of Delivery for TLC.                                          *)
EXTENDS Delivery

CONSTANTS e1, w1, w2

OneEmail == {e1}
TwoWorkers == {w1, w2}

\* Undisturbed behaviours, and behaviours that may meet every failure.
CalmOrStorm == {{}, FaultKinds}
CrashOnly == {{"crash"}}
=============================================================================
