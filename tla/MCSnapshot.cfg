SPECIFICATION Spec
CONSTANTS
  Node = {1, 2}
  Observer = 0
  Vote = {1, 2}
  Elapsed <- Uneven
  Backlog = 1
  Margin = 1
  MaxTakeSnapshot = 1
  MaxApp = 3
  MaxCrashes = 1
  None = None
INVARIANTS
  Inv
  NoIllegalState
  AgreedBeforeForced
  TallyIsComplete
  ReportIsFrozen
PROPERTIES
  SnapshotFinishes
CHECK_DEADLOCK FALSE
