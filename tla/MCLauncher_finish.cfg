SPECIFICATION Spec
CONSTANTS
  Nodes = 3
  Neighbors <- MCNeighbors
  MaxFaults = 0
  MaxCuts = 0
  MaxLog = 0
PROPERTY ResultEndsElection
CHECK_DEADLOCK FALSE
