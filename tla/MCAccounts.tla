----------------------------- MODULE MCAccounts -----------------------------
(* Instances of Accounts small enough for TLC. *)
EXTENDS Accounts, TLC

CONSTANTS s1, s2, r1, r2, k1, k2

MCSessions == {s1, s2}
MCRequests == {r1, r2}
MCSecrets == {k1, k2}

AccountSymmetry ==
    Permutations(Sessions) \cup Permutations(Requests) \cup Permutations(Secrets)
=============================================================================
