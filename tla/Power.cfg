SPECIFICATION SupplySpec
CONSTANTS
  Payloads = {p5, p12, bad}
  Acceptable = {p5, p12}
  Wants12 = {p12}
  NoPayload = NoPayload
  Events = {"shutdown", "i2cfail"}
  Grace = 3
  Timeout = 1
  Pulse = 1
  ResetWindow = 13
  MaxResets = 3
  CriticalTime = 2
  RecoveryCount = 2
  PowerEvents = {"estop","discharge"}
INVARIANT PayloadSafety
PROPERTY RemovedUnpowered
 
PROPERTY PowerSafety
PROPERTY HungPiPowerCycled
 
