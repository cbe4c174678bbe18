SPECIFICATION FairSpec
CONSTANTS
  q1 = q1
  q2 = q2
  Absent = Absent
  q3 = q3
  Requests <- ThreeCallers
  Threshold = 3
  Window = 4
  Cooldown = 2
  MaxAttempts = 3
INVARIANTS
  TypeOK
  EvidenceCounts
  RefusalIsRecent
PROPERTIES
  CleanupIsInvisible
  AttemptsRunOut
  Recovers
  EveryRequestEnds
