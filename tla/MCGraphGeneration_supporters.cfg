SPECIFICATION Spec
CONSTANTS
  Requests <- AllRequests
INVARIANT
  SupportersAsDescribed
CHECK_DEADLOCK FALSE
