SPECIFICATION Spec
CONSTANTS
  Idles = {2, 3, 4}
  Heartbeats = {3}
  RttSamples = 2
  MaxAge = 4
  MaxLate = 3
  MaxFlight = 2
  MaxSilence = 5
  NoPing = NoPing
INVARIANTS TypeOK RttMatchesUnlessCrossed IdleYieldsToHeartbeat SilentIsDropped
\* A loop that has ended stays ended.
CHECK_DEADLOCK FALSE
