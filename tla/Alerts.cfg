SPECIFICATION FairSpec
CONSTANTS
  None = none
  Near = 1
  Channels = {"primary", "slack", "feishu"}
  SeverityFilter <- MCFilter
  Configured = {"primary", "slack"}
  BatteryLevels = {"ok", "warn"}
  Window = 2
  Hours = {0, 1}
  QuietHours = {0}
  AllowedLevels = {"critical"}
  OutboxCap = 1
  DropCap = 1
  StepBackCap = 1
  FailCap = 1
 
PROPERTY ConditionsTold
 
