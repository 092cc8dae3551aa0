SPECIFICATION Spec
CONSTANTS
  Point = 2
  Full = 3
  NoLevels = NoLevels
  NoId = NoId
  Voter <- MCVoter
  Neighbors <- MCNeighbors
  Receives <- MCReceives
  MaxActivities = 3
  Limits <- MCLimits
INVARIANTS Inv OneActivity CountedFeedback SupportersCount
PROPERTIES RumorSpreads GoesOn OpinionsSettle
CHECK_DEADLOCK FALSE
