---------------------------- MODULE MCMembership ----------------------------
(* Instances of Membership small enough for TLC. *)
EXTENDS Membership, TLC

CONSTANTS u1, u2, p1, p2, g1, g2, o1, o2, c1

MCUsers1 == {u1}
MCUsers2 == {u1, u2}
MCPlans == {p1, p2}
MCGroups == {g1, g2}
MCGroups1 == {g1}
MCOrders == {o1, o2}
MCCodes == {c1}
MCOneDuration == {1}

\* Two plans for one group, and a group for each plan.
MCSameGroup == [p \in Plans |-> g1]
MCOwnGroups == [p \in Plans |-> IF p = p1 THEN g1 ELSE g2]

MCSymmetry == Permutations(Users) \cup Permutations(Orders)
=============================================================================
