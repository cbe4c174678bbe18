CONSTANTS
  d1 = d1  d2 = d2  f1 = f1  u1 = u1  u2 = u2
  tpl1 = tpl1  tpl2 = tpl2
  Deploys = {d1}
  Formats = {f1}
  Profile = Profile
  Naming = Naming
  Template <- OneTemplate
  Writes <- AllWrite
  Keeps <- NothingKept
  Absent = Absent  Original = Original  Edited = Edited  Draft = Draft  NoValue = NoValue
  Initial <- AllThere
  Undos = {u1}
  Table <- Undeploys
  Target <- OfFirst
  Deletable = {}
  Nobody = Nobody
  MaxFaults = 2
  MaxCrashes = 1
  MaxEdits = 0
SPECIFICATION LiveSpec
CHECK_DEADLOCK FALSE
PROPERTIES
  RecoveryEnds
