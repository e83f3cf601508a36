---------------------------- MODULE MCUserAccess ----------------------------
(* Finite instances of UserAccess for TLC. *)
EXTENDS UserAccessInductive, TLC

CONSTANTS r1, r2, r3, u1, u2

ThreeRequests == {r1, r2, r3}
TwoUsers == {u1, u2}

Symmetry == Permutations(Requests) \cup Permutations(Users)

=============================================================================
