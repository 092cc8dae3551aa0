SPECIFICATION FairSpec
CONSTANTS
  Node = {1, 2, 3}
  Neighbors <- Triangle
  Id = {x, y}
  Initiator <- TwoCampaigns
  MaxFaults = 1
  x = x
  y = y
  None = None
  NoContent = NoContent
INVARIANTS
  Inv
PROPERTIES
  StartedCampaignCompletes
CHECK_DEADLOCK FALSE
