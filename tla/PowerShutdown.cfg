SPECIFICATION PowerSpec
CONSTANTS
  Grace = 3
  Timeout = 1
  Pulse = 1
  ResetWindow = 13
  MaxResets = 3
  CriticalTime = 2
  RecoveryCount = 2
  PowerEvents = {"estop","discharge"}
PROPERTY ShutdownHolds
