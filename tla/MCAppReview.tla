---------------------------- MODULE MCAppReview ----------------------------
(* Instances of AppReview small enough for TLC. *)
EXTENDS AppReview, TLC

CONSTANTS u1, u2, v1, v2, v3, v4, w1

MCUsers == {u1, u2}
MCVersions == {v1, v2, v3, v4}
MCSigned == {v3}
MCUploads == {w1}
MCSymmetry == Permutations(Users) \cup Permutations(Versions \ Signed)
=============================================================================
