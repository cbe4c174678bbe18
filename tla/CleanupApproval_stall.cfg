CONSTANTS
  m1 = m1  e1 = e1  a1 = a1  r1 = r1
  Movies = {m1}
  Episodes = {e1}
  ApproveOps = {a1}
  RetryOps = {r1}
  NoOp = NoOp
  NoItem = NoItem
  MayStall = TRUE
  MaxFaults = 1
  MaxCrashes = 1
  MaxMeddling = 0
SPECIFICATION Spec
CHECK_DEADLOCK FALSE
INVARIANTS
  TypeOK
  ExecutedIsTrue
  UnattributedNeverDeleted
  AtMostOneOverrun
  BatchSettlesItsRows
PROPERTIES
  FinalIsFinal
