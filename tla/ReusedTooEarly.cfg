SPECIFICATION MemorySpec
CONSTANTS
  NumChannels = 2
  Bandwidth = 16
  NoJob <- NoOp
  ConstSize <- MCConstSize
  DmaMinBytes = 256
  ActBytes = 128
  Alignment = 64
  Wcet <- MCWcet
  Images <- MCImages
  Masks <- MCMasks
  Deadlines = {0}
  MaxFrames = 1
INVARIANTS
  ReuseIsHarmless
\* After MaxFrames frames the caller stops.
CHECK_DEADLOCK FALSE
