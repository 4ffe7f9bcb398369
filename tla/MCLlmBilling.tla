--------------------------- MODULE MCLlmBilling ---------------------------
(* Instances of LlmBilling small enough for TLC. *)
EXTENDS LlmBilling, TLC

CONSTANTS u1, u2, r1, r2, r3

MCUsers1 == {u1}
MCUsers2 == {u1, u2}
MCRequests2 == {r1, r2}
MCDeltas == {-1, 3}
MCGrantsOnly == {2, 3}
MCOneGrant == {3}
MCEstimates == {1, 2}
MCCosts == {0, 1, 3}
\* No route has the multiplier 0.
MCNoFreeRoute == {1, 3}

RequestSymmetry == Permutations(Requests)
=============================================================================
