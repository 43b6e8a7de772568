SPECIFICATION CollectorSpec
CONSTANTS
  MaxBalls = 2
  Capacity = 1
  MaxPickRetries = 1
  SearchTimeout = 0
  PickTimeout = 0
  ReturnTimeout = 0
  DumpTimeout = 0
  OverallTimeout = 1
  MinFrames = 2
  MotionsFail = TRUE
  CountCap = 2
  PickCap = 2
  Boxes = {1, 2, 3}
  Overlap <- MCOverlap
  Nearer <- MCNearer
  Understood = {"hailo", "cv"}
  ConsecutiveFrames = 2
  Depth = 2
  FrameCap = 3
INVARIANT CollectionSafety
PROPERTY CountedBallsPicked
 
INVARIANT PerceptionHonest
CHECK_DEADLOCK FALSE
