SPECIFICATION LoweringSpec
CONSTANTS
  ConstSize <- MCConstSize
  DmaMinBytes = 256
  ActBytes = 128
  Wcet <- MCWcet
  Alignment = 64
  PlannedGraphs <- MCPlannedGraphs
INVARIANTS
  OverwrittenIsDead
\* The compiler stops when it has written the image.
CHECK_DEADLOCK FALSE
