SPECIFICATION Spec
CONSTANTS
  Conn = {c1}
  Task = {t1, t2}
  Policies = {"DropConnection"}
  Cap = 1
  MaxDrops = 2
  CanAbort = FALSE
  NoConn = NoConn
PROPERTY ConsecutiveDrops
