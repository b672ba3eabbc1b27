SPECIFICATION MemorySpec
CONSTANTS
  NumChannels = 2
  Bandwidth = 16
  NoJob <- NoOp
  ConstSize <- MCConstSize
  DmaMinBytes = 256
  ActBytes = 128
  Alignment = 64
  Wcet <- MCWcet
  Images <- MCImages
  Masks <- MCMasks
  Deadlines = {0, 80}
  MaxFrames = 2
INVARIANTS
  OrderedFramesAreExact
  LoadFreeFramesAreOrdered
\* After MaxFrames frames the caller stops.
CHECK_DEADLOCK FALSE
