CONSTANTS
  p1 = p1  p2 = p2
  run1 = run1  run2 = run2  write1 = write1
  deletion1 = deletion1  backup1 = backup1  restore1 = restore1
  Processes = {p1, p2}
  Runs = {run1}
  Writes = {}
  Deletions = {}
  Backups = {}
  Restores = {restore1}
  Home <- TwoHomes
  MaxRestarts = 1
SPECIFICATION Spec
CHECK_DEADLOCK FALSE
INVARIANTS
  RestoreIsAlone
