---------------------- MODULE MCCleanupMaintenanceGate ----------------------
(* One process, or two that are configured with the same database.         *)
EXTENDS CleanupMaintenanceGate, TLC

CONSTANTS p1, p2, run1, run2, write1, deletion1, backup1, restore1

OneHome == [o \in {run1, run2, write1, deletion1, backup1, restore1} |-> p1]

TwoHomes == [o \in {run1, restore1} |-> IF o = run1 THEN p1 ELSE p2]

Symmetry == Permutations(Runs)
=============================================================================
