------------------------- MODULE MCManagedOperation -------------------------
(* Instances of ManagedOperation for TLC. *)
EXTENDS ManagedOperation, TLC

CONSTANTS r1, r2, s1

Symmetric == Permutations(Requests)
=============================================================================
