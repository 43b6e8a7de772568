SPECIFICATION FairSpec
CONSTANTS
  Goals = {g1}
  NavIds = {1}
  Threads = 3
  MaxRetries = 1
  ApproachTimeout = 0
  ServoTimeout = 0
  ContactTimeout = 0
  QueueCap = 1
CHECK_DEADLOCK FALSE
 
PROPERTY DockingTagLost
