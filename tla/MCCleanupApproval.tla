------------------------ MODULE MCCleanupApproval ------------------------
(* Model values for CleanupApproval and the permutations that map a model  *)
(* to itself: requests of one kind are interchangeable, so are the targets *)
(* of one kind.                                                            *)
EXTENDS CleanupApproval, TLC

Symmetry == Permutations(ApproveOps) \cup Permutations(RetryOps)
              \cup Permutations(Movies) \cup Permutations(Episodes)
=============================================================================
