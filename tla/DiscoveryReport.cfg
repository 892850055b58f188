\* Two civilians, one with a beacon, competing for one rescuer that reports both.
SPECIFICATION FairReportSpec
CONSTANTS
  Civilians = {c1, c2}
  GroundSars = {s1}
  AerialSars = {}
  NoSar = NoSar
  NoCiv = NoCiv
  Signalling = {c2}
  MaxRetries = 1
  MaxTimers = 2
  MaxInFlight = 1
INVARIANTS
  ReportTypeOK
  AckMeansTasked
PROPERTIES
  WatchesUntilTasked
  KeepsDispatch
  ReportIsActedOn
