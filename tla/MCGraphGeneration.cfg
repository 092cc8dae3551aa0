SPECIFICATION Spec
CONSTANTS
  Requests <- AllRequests
INVARIANTS
  Inv
  DegreesAsAsked
  RefusedHasNoGraph
  NetworkSuitsElection
  AddressesFit
PROPERTIES
  Terminates
CHECK_DEADLOCK FALSE
