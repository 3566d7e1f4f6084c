SPECIFICATION ReadingSpec
CONSTANTS
  Conn = {c1}
  Handler = {h1, h2}
  Cap = 2
  CanStall = TRUE
  CanBlock = TRUE
  IdleFires = TRUE
INVARIANTS TypeOK TornDown NoZombie NotMute NoWaitCycle
PROPERTIES ImplementsLifecycle CancelledEnds PeerEndEnds
\* A connection that is done stays done.
CHECK_DEADLOCK FALSE
