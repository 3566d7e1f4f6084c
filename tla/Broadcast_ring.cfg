SPECIFICATION FairSpec
CONSTANTS
  a1 = a1
  a2 = a2
  b1 = b1
  hubA = hubA
  hubB = hubB
  Hub = {hubA, hubB}
  Socket = {a1, a2, b1}
  HubOf <- MCHubOf
  Capacity = 2
  Ring = 2
  MaxCast <- MCMaxCast
  None = None
CHECK_DEADLOCK FALSE
INVARIANTS TypeOK OneRegistry LosesOnlyBehind ReceivesInOrder
PROPERTIES ImplementsFifo Reaches
