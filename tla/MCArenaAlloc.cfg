SPECIFICATION Spec
CONSTANTS
  Tensors = {1, 2, 3, 4}
  Sizes = {0, 64, 100}
  Ranges <- MCRanges
  Alignment = 64
INVARIANTS
  TypeOK
  SlotsAreSound
  PeakIsLowerBound
PROPERTIES
  LowestOffset
\* allocate returns when both layouts are verified.
CHECK_DEADLOCK FALSE
