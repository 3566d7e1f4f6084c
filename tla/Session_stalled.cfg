SPECIFICATION FairSpec
CONSTANTS
  Conn = {c1}
  Handler = {h1, h2}
  Cap = 2
  CanStall = TRUE
  CanBlock = FALSE
  IdleFires = FALSE
PROPERTY CancelledEnds
\* A connection that is done stays done.
CHECK_DEADLOCK FALSE
