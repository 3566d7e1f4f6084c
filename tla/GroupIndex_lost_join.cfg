SPECIFICATION Spec
CONSTANTS
  Conn = {c1, c2}
  Group = {g1}
  Task = {t1, t2}
  Shard <- OneShard
  Calls = {"add_to_group", "remove"}
  Serial = TRUE
  Evicts = FALSE
  Workers = 2
  NoConn = NoConn
  NoGroup = NoGroup
INVARIANT JoinedIsMember
CHECK_DEADLOCK FALSE
