SPECIFICATION CommSpec
CONSTANTS
  all = all
  Nodes <- MCNodes3
  Broadcast = all
  Flows <- MCUnicast
  Period = 1
  Ttl = 2
  Word = 16
  MaxPackets = 2
  MaxTime = 2
INVARIANT LossIsSeen
CHECK_DEADLOCK FALSE
