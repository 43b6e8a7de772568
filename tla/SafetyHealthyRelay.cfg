SPECIFICATION Spec
CONSTANTS
  Monitors = {m1}
  Events = {}
  ServiceOps = {}
  IsrModes = {TRUE}
  FaultThreshold = 3
  FaultCap = 3
  HealthyThreshold = 10
  MismatchThreshold = 3
  Grace = 1
  CmdVelTimeout = 1
  WatchdogTimeout = 2
  RecoveryTimeout = 2
INVARIANT HealthyRelayNeverFaults
CHECK_DEADLOCK FALSE
