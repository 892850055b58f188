\* A queued civilian may wait for ever: one rescuer, two civilians.
SPECIFICATION FairDispatchSpec
CONSTANTS
  Civilians = {c1, c2}
  GroundSars = {s1}
  AerialSars = {d1}
  NoSar = NoSar
  NoCiv = NoCiv
PROPERTIES
  QueuedGetsAssigned
