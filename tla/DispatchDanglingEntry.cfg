\* The nested loop erases the entry of the outer one: one rescuer, two civilians.
SPECIFICATION DispatchSpec
CONSTANTS
  Civilians = {c1, c2}
  GroundSars = {s1}
  AerialSars = {d1}
  NoSar = NoSar
  NoCiv = NoCiv
INVARIANTS
  ScanEntryIsLive
