SPECIFICATION FairSpec
CONSTANTS
  Monitors = {m1}
  Events = {"degrade"}
  ServiceOps = {"reset","confirm"}
  IsrModes = {FALSE}
  FaultThreshold = 2
  FaultCap = 2
  HealthyThreshold = 1
  MismatchThreshold = 2
  Grace = 1
  CmdVelTimeout = 0
  WatchdogTimeout = 1
  RecoveryTimeout = 1
CHECK_DEADLOCK FALSE
INVARIANT FaultPersisted
 
PROPERTY ControlResolves
