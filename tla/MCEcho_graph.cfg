SPECIFICATION FairSpec
CONSTANTS
  Node = {1, 2, 3, 4}
  Neighbors <- Graph2
  Id = {x}
  Initiator <- OneCampaign
  MaxFaults = 1
  x = x
  y = y
  None = None
  NoContent = NoContent
INVARIANTS
  CompletionInformsAll
  DistributedOnce
  NothingPendingAtCompletion
  OneMessagePerEdge
  EchoHasParent
PROPERTIES
  StartedCampaignCompletes
  HandlerReturns
  FeedbackSpec
CHECK_DEADLOCK FALSE
