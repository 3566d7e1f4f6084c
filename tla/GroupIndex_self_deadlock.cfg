SPECIFICATION FairSpec
CONSTANTS
  Conn = {c1, c2}
  Group = {g1}
  Task = {t1}
  Shard <- OneShard
  Calls = {"add_to_group", "broadcast_group"}
  Serial = TRUE
  Evicts = TRUE
  Workers = 2
  NoConn = NoConn
  NoGroup = NoGroup
PROPERTY FanOutReturns
CHECK_DEADLOCK FALSE
