SPECIFICATION Spec
CONSTANTS
  Conn = {c1, c2}
  Group = {g1, g2}
  Task = {t1, t2}
  Shard <- OneShard
  Calls = {"add_to_group", "remove", "broadcast_group", "broadcast_groups"}
  Serial = TRUE
  Evicts = TRUE
  Workers = 2
  NoConn = NoConn
  NoGroup = NoGroup
SYMMETRY Symmetry
INVARIANTS TypeOK NoGhosts RecipientsDistinct NoMemberSkipped NoLockCycle
PROPERTY CallAdvances
\* An eviction inside broadcast_group can wait for ever for its own lock.
CHECK_DEADLOCK FALSE
