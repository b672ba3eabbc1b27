SPECIFICATION FairSpec
CONSTANTS
  NumChannels = 2
  Bandwidth = 16
  NoJob <- NoOp
  ConstSize <- MCConstSize
  DmaMinBytes = 256
  ActBytes = 64
  Wcet <- MCWcet
  Images <- MCImages
  Masks <- FullMask
  Deadlines = {0}
  MaxFrames = 1
INVARIANTS
  PoweredWhileUsed
CHECK_DEADLOCK FALSE
