SPECIFICATION FairSpec
CONSTANTS
  Packages = {p1, p2}
  Model = model
  Config = config
  Torn = torn
  Absent = absent
  Unverified = unverified
  Versions = {1, 2, 3}
  Broken = {3}
  Manifest <- MCManifest
  Triggers <- MCTriggers
  RollbackEnabled = TRUE
  TriggerCap = 1
  CrashCap = 1
  FailCap = 1
INVARIANT OtaSafety
PROPERTY RecordedIsInstalled
PROPERTY ManifestInstalled
