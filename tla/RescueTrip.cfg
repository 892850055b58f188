SPECIFICATION TripFairSpec
CONSTANTS
  Diameter = 60
  Gaps <- MCGaps
  Homes <- MCHomes
  Fastest = 5
  ApproachStep = 10
  Attachable = 12
  CarryStep = 8
  SarNear = 22
  CivilianNear = 12
  MaxApproach = 4
  MaxCarry = 15
CHECK_DEADLOCK FALSE
INVARIANT PairStaysClose
INVARIANT TracksTellTheWay
PROPERTY MissionEnds
