\* A civilian without a device, seen by a ground team and a drone.
SPECIFICATION ReportSpec
CONSTANTS
  Civilians = {c1}
  GroundSars = {s1}
  AerialSars = {d1}
  NoSar = NoSar
  NoCiv = NoCiv
  Signalling = {}
  MaxRetries = 2
  MaxTimers = 2
  MaxInFlight = 1
INVARIANTS
  ReportedHasEvent
  OneChainPerSighting
PROPERTIES
  AerialGivesUpLast
\* The scenario stops: a rescued civilian nobody has still to notice changes nothing.
CHECK_DEADLOCK FALSE
