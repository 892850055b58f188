\* Records of two civilians, two ground rescuers and a drone.
SPECIFICATION EventSpec
CONSTANTS
  Civilians = {c1, c2}
  GroundSars = {s1, s2}
  AerialSars = {d1}
  NoSar = NoSar
  NoCiv = NoCiv
SYMMETRY Symmetry
INVARIANTS
  RecordTypeOK
  RowsTellTheRescue
  TracksOfThisMission
