CONSTANTS
  p1 = p1  p2 = p2
  run1 = run1  run2 = run2  write1 = write1
  deletion1 = deletion1  backup1 = backup1  restore1 = restore1
  Processes = {p1}
  Runs = {run1, run2}
  Writes = {write1}
  Deletions = {deletion1}
  Backups = {backup1}
  Restores = {restore1}
  Home <- OneHome
  MaxRestarts = 2
SPECIFICATION Spec
SYMMETRY Symmetry
CHECK_DEADLOCK FALSE
INVARIANTS
  GateMatchesOperations
  NestedGuardIsGranted
  RestoreIsAlone
  DeletionIsAlone
