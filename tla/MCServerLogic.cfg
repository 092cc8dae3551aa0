SPECIFICATION Spec
CONSTANTS
  Node = {1, 2, 3}
  Neighbors <- Line
  Observer = 3
  User = User
  MaxAlgorithm = 2
  MaxRequests = 2
  Mortal = {2}
INVARIANTS
  Inv
  InOrder
PROPERTIES
  HandlerReturns
  AnsweredIsHandled
  AtomicSends
  StopAllStopsAll
CHECK_DEADLOCK FALSE
