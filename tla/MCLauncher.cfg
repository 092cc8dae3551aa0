SPECIFICATION Spec
CONSTANTS
  Nodes = 3
  Neighbors <- MCNeighbors
  MaxFaults = 1
  MaxCuts = 1
  MaxLog = 1
INVARIANTS Inv ReadyUnlessCut
PROPERTIES LaunchCompletes NobodyLeftRunning
CHECK_DEADLOCK FALSE
