------------------------------ MODULE MCRunGate ------------------------------
(* Instances of RunGate small enough for TLC. *)
EXTENDS RunGate

CONSTANTS r1, r2, r3, r4, r5

MCRuns5 == {r1, r2, r3, r4, r5}
MCLimits == {1, 2, 3}
=============================================================================
