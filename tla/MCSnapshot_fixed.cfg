SPECIFICATION Spec
CONSTANTS
  Node = {1, 2}
  Observer = 0
  Vote = {1, 2}
  Elapsed <- Uneven
  Backlog = 2
  Margin = 1
  MaxTakeSnapshot = 1
  MaxApp = 6
  MaxCrashes = 0
  None = None
PROPERTY
  VoteFixedWhenFinished
CHECK_DEADLOCK FALSE
