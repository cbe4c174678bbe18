CONSTANTS
  d1 = d1  d2 = d2  f1 = f1  u1 = u1  u2 = u2
  tpl1 = tpl1  tpl2 = tpl2
  Deploys = {d1}
  Formats = {f1}
  Profile = Profile
  Naming = Naming
  Template <- OneTemplate
  Writes <- NoFormats
  Keeps <- NothingKept
  Absent = Absent  Original = Original  Edited = Edited  Draft = Draft  NoValue = NoValue
  Initial <- FormatsNew
  Undos = {u1, u2}
  Table <- BothRoutes
  Target <- OfFirst
  Deletable = {d1}
  Nobody = Nobody
  MaxFaults = 1
  MaxCrashes = 1
  MaxEdits = 1
SPECIFICATION Spec
CHECK_DEADLOCK FALSE
INVARIANTS
  RolledBackTogether
  EnteredIsClaimed
  UndeployCanBeRetried
