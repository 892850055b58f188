\* The rescue tables: two ground rescuers, three civilians.
SPECIFICATION FairDispatchSpec
CONSTANTS
  Civilians = {c1, c2, c3}
  GroundSars = {s1, s2}
  AerialSars = {d1}
  NoSar = NoSar
  NoCiv = NoCiv
INVARIANTS
  TypeOK
  CrewsMatchAssignments
  OneMissionPerRescuer
  NoStrandedCivilian
  AttachedToCrew
  OffsetIsOfThisPair
  QueueWaitsOnlyWhenAllBusy
  NestingBounded
PROPERTIES
  NobodyDropped
  OnlyTheCrewDelivers
  KeepsLifecycle
  AssignedBecomesSafe
