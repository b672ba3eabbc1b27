SPECIFICATION Spec
CONSTANTS
  Calls <- MCCalls
  IntSpan = 16
  ElemsPerCycle = 2
  MacsPerCycle = 2
INVARIANTS
  ElementsExact
  MeansExact
  OffsetsFollowCoords
  InPlaceReadsFirst
  CostCoversWork
CHECK_DEADLOCK FALSE
