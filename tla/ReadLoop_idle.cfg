SPECIFICATION Spec
CONSTANTS
  Idles = {4}
  Heartbeats = {3}
  RttSamples = 2
  MaxAge = 4
  MaxLate = 3
  MaxFlight = 2
  MaxSilence = 5
  NoPing = NoPing
INVARIANT IdleIsDropped
\* A loop that has ended stays ended.
CHECK_DEADLOCK FALSE
