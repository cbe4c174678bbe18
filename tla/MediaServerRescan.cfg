CONSTANTS
  u1 = u1  u2 = u2  s1 = s1  s2 = s2  s3 = s3
  plex = plex  jellyfin = jellyfin  x1 = x1  x2 = x2
  w1 = w1  w2 = w2  t1 = t1  t2 = t2  t3 = t3  t4 = t4
  Users = {u1}
  NoUser = NoUser
  Approvals = {1, 2}
  Scans = {s1, s2}
  NoScan = NoScan
  Operations = {plex}
  NoOperation = NoOperation
  Workers = {w1, w2}
  NoWorker = NoWorker
  Tokens = {t1, t2, t3, t4}
  NoToken = NoToken
  UserOf <- OneUserOf
  ApprovalOf <- OneApprovalOf
  OperationOf <- OneOperationOf
  Plan <- OnePlan
  PlexOperations = {plex}
  MaxFaults = 1
  MaxStalls = 2
SPECIFICATION Spec
SYMMETRY Symmetry
CHECK_DEADLOCK FALSE
INVARIANTS
  TypeOK
  RecordedMeansRefreshed
  AtMostOneStray
PROPERTIES
  NoEarlyReissue
  EveryStepDescends
