--------------------------- MODULE MCUserLifecycle ---------------------------
(* UserLifecycle with few calls of each kind.                               *)
EXTENDS UserLifecycle, TLC

CONSTANTS r1, r2, d1, d2, i1, i2, v1, q1

\* The calls of one kind are interchangeable.
Symmetric == Permutations(Registers) \cup Permutations(Deletes) \cup Permutations(Issues)
=============================================================================
