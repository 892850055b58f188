SPECIFICATION CommSpec
CONSTANTS
  all = all
  Nodes <- MCNodes3
  Broadcast = all
  Flows <- MCFlows
  Period = 1
  Ttl = 2
  Word = 16
  MaxPackets = 2
  MaxTime = 5
INVARIANTS StampsAreTrimmed DelayIsTransit RowsTellTheSent
CHECK_DEADLOCK FALSE
