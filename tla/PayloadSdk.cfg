SPECIFICATION ToolsSpec
CONSTANTS
  N = 2
  Goals = {1, 2}
  Messages = 2
  Descriptors <- MCDescriptors
  Devices = {"d1", "d2", "d3"}
  Files = {"f1", "f2"}
  FileOf <- MCFileOf
  Lists <- MCLists
  KeyCap = 3
  Suites <- MCSuites
INVARIANT ClientSafety
 
INVARIANT ValidationHonest
PROPERTY WaypointDoneFirst
PROPERTY CallsEnd
CHECK_DEADLOCK FALSE
