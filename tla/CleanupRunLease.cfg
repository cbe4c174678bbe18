CONSTANTS
  o1 = o1  o2 = o2
  Ops = {o1, o2}
  NoOp = NoOp
  Lease = 4
  Heartbeat = 2
  Delay = 1
  MaxClock = 9
SPECIFICATION Spec
SYMMETRY Symmetry
CHECK_DEADLOCK FALSE
INVARIANTS
  HolderLooksAlive
PROPERTIES
  ImplementsRunLock
