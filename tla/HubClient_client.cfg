SPECIFICATION FairSpec
CONSTANTS
  codec = "JsonCodec"
  Links = 2
  MaxMsg <- MCMaxMsg
  MaxSaid <- MCMaxSaid
  Wire = 1
CHECK_DEADLOCK FALSE
INVARIANTS TypeOK InOrder Quiet NothingLost CloseUnderway
PROPERTIES Flushed DisconnectReturns DropCloses
