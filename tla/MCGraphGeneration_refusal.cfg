SPECIFICATION Spec
CONSTANTS
  Requests <- AllRequests
INVARIANT
  TooLargeIsInvalidArgument
CHECK_DEADLOCK FALSE
