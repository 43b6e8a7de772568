SPECIFICATION ThreeweSpec
CONSTANTS
  Tasks = {"t1"}
  Goals = {"g1", "g2"}
  Waypoints = 2
  MaxSteps = 2
  VlmTimeout = 0
  CallCap = 2
  ConnectCap = 2
  Arena = 3
  Span = 2
  Near = 1
  Radius = 1
  Fence = 2
  StepLimit = 5
  Legs = 2
  Robots = {"r0", "r1"}
  Ego = "r0"
  StartCell <- MCStartCell
  Track = {0, 1, 2, 3}
  Blocked = {2}
  Origin = 1
  LongestTick = 2
  OfflineFrom = 3
  OfflineFor = 1
  ClockCap = 4
  EpisodeCap = 2
  Feeds <- MCFeeds
  Modalities <- MCModalities
  Fragile = {"camera"}
  MessageCap = 2
  LinkCap = 2
INVARIANT ReadingsAdvance
 
INVARIANT RewardsAddUp
INVARIANT SimulationHonest
PROPERTY CallsEnd
PROPERTY OrphanStops
CHECK_DEADLOCK FALSE
