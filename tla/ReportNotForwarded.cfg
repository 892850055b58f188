\* A rescuer with an assignment forwards nothing: one rescuer, two civilians.
SPECIFICATION ReportSpec
CONSTANTS
  Civilians = {c1, c2}
  GroundSars = {s1}
  AerialSars = {}
  NoSar = NoSar
  NoCiv = NoCiv
  Signalling = {}
  MaxRetries = 1
  MaxTimers = 1
  MaxInFlight = 1
PROPERTIES
  ForwardedUniformly
