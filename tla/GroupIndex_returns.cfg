SPECIFICATION FairSpec
CONSTANTS
  Conn = {c1}
  Group = {g1}
  Task = {t1, t2, t3}
  Shard <- OneShard
  Calls = {"add_to_group", "remove_from_group", "remove", "broadcast_group",
           "broadcast_groups", "broadcast_except"}
  Serial = TRUE
  Evicts = FALSE
  Workers = 2
  NoConn = NoConn
  NoGroup = NoGroup
PROPERTY FanOutReturns
