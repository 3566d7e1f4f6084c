SPECIFICATION Spec
CONSTANTS
  Conn = {c1, c2}
  Task = {t1, t2}
  Policies = {"Block", "DropMessage", "DropConnection", "DropOnHighRtt"}
  Cap = 1
  MaxDrops = 2
  CanAbort = TRUE
  NoConn = NoConn
SYMMETRY Symmetry
INVARIANTS TypeOK EvictionAnnounced DropsBounded OneEvictor WaitsOnlyForReaders
PROPERTIES TriesEveryRecipient FanOutAdvances
