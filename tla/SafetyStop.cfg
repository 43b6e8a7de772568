SPECIFICATION Spec
CONSTANTS
  Monitors = {}
  Events = {"press","reboot","flashfail"}
  ServiceOps = {"reset","confirm","clear"}
  IsrModes = {TRUE}
  FaultThreshold = 2
  FaultCap = 2
  HealthyThreshold = 1
  MismatchThreshold = 1
  Grace = 1
  CmdVelTimeout = 0
  WatchdogTimeout = 1
  RecoveryTimeout = 1
INVARIANT StopSafety
