SPECIFICATION LoweringSpec
CONSTANTS
  ConstSize <- MCConstSize
  DmaMinBytes = 256
  ActBytes = 128
  Wcet <- MCWcet
  Alignment = 64
  PlannedGraphs <- MCGraphsToLower
INVARIANTS
  PlanningNeverRaises
  PlanIsSound
  ImageIsWellFormed
  FetchedOnceAndAwaited
  ReadsTheSameData
\* The compiler stops when it has written the image.
CHECK_DEADLOCK FALSE
