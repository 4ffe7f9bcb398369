-------------------------- MODULE MCPersistentPool --------------------------
(* Instances of PersistentPool small enough for TLC. *)
EXTENDS PersistentPool, TLC

CONSTANTS a1, a2, a3, q1, q2, q3, q4, c1, c2

MCApps1 == {a1}
MCApps3 == {a1, a2, a3}
MCProcs2 == {q1, q2}
MCProcs3 == {q1, q2, q3}
MCCalls == {c1, c2}
MCLimits == {1, 2}
=============================================================================
