------------------------ MODULE MCCleanupRunLease ------------------------
(* Operations are interchangeable.                                        *)
EXTENDS CleanupRunLease, TLC

Symmetry == Permutations(Ops)
=============================================================================
