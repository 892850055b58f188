\* One node that walks and pauses, under a mission and changing weather.
SPECIFICATION WaypointFairSpec
CONSTANTS
  Legs <- MCLegs
  Bases <- MCBases
  Full = 2
  Factors <- MCFactors
  PauseTime = 2
  Step = 1
  Interval = 2
INVARIANTS
  WaypointTypeOK
  OneEvent
  ArrivesAtDestination
  MissionNodeStandsStill
  WeatherReachesWalkers
PROPERTIES
  LegsAndPausesEnd
