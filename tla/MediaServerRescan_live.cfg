CONSTANTS
  u1 = u1  u2 = u2  s1 = s1  s2 = s2  s3 = s3
  plex = plex  jellyfin = jellyfin  x1 = x1  x2 = x2
  w1 = w1  w2 = w2  t1 = t1  t2 = t2  t3 = t3  t4 = t4
  Users = {u1, u2}
  NoUser = NoUser
  Approvals = {1, 2}
  Scans = {s1, s2}
  NoScan = NoScan
  Operations = {jellyfin}
  NoOperation = NoOperation
  Workers = {w1, w2}
  NoWorker = NoWorker
  Tokens = {t1, t2, t3}
  NoToken = NoToken
  UserOf <- TwoUserOf
  ApprovalOf <- TwoApprovalOf
  OperationOf <- TwoOperationOf
  Plan <- TwoPlan
  PlexOperations = {}
  MaxFaults = 2
  MaxStalls = 0
SPECIFICATION LiveSpec
CHECK_DEADLOCK FALSE
PROPERTIES
  Settles
  ImplementsOperationLock
