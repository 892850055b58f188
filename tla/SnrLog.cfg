\* One condition of the weather, its averages, and the rows of two nodes.
SPECIFICATION SnrSpec
CONSTANTS
  n1 = n1
  n2 = n2
  Intensities <- MCIntensities
  MaxTime = 4
  MaxChanges = 2
  Nodes <- MCNodes
  Listed <- MCListed
  Untagged = Untagged
  Period = 2
  FirstLog = 1
  FirstWindow = 1
  MaxFrames = 2
INVARIANTS
  SnrTypeOK
  HistoryIsCurrent
  AverageIsTrue
  EveryFrameCountedOnce
  RowIsOfItsWindow
\* The run ends.
CHECK_DEADLOCK FALSE
