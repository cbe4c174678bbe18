CONSTANTS
  d1 = d1  d2 = d2  f1 = f1  u1 = u1  u2 = u2
  tpl1 = tpl1  tpl2 = tpl2
  Deploys = {d1, d2}
  Formats = {f1}
  Profile = Profile
  Naming = Naming
  Template <- TwoTemplates
  Writes <- FirstWrites
  Keeps <- SecondKeeps
  Absent = Absent  Original = Original  Edited = Edited  Draft = Draft  NoValue = NoValue
  Initial <- AllNew
  Undos = {u1}
  Table <- Undeploys
  Target <- OfFirst
  Deletable = {}
  Nobody = Nobody
  MaxFaults = 1
  MaxCrashes = 1
  MaxEdits = 0
SPECIFICATION Spec
CHECK_DEADLOCK FALSE
INVARIANTS
  TypeOK
  WriteAhead
  NoWorkOnUncertain
  RolledBackIsComplete
PROPERTIES
  WorkRunsOut
