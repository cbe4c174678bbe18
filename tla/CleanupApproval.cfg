CONSTANTS
  m1 = m1  a1 = a1  a2 = a2  r1 = r1
  Movies = {m1}
  Episodes = {}
  ApproveOps = {a1, a2}
  RetryOps = {r1}
  NoOp = NoOp
  NoItem = NoItem
  MayStall = FALSE
  MaxFaults = 2
  MaxCrashes = 1
  MaxMeddling = 1
SPECIFICATION FairSpec
CHECK_DEADLOCK FALSE
INVARIANTS
  MutatesUnderOwnership
  EmptyPlanMeansFileGone
PROPERTIES
  EveryStepAdvances
  ImplementsRunLock
  InFlightSettles
