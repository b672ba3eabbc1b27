SPECIFICATION FairSpec
CONSTANTS
  NumChannels = 2
  Bandwidth = 16
  NoJob <- NoOp
  ConstSize <- MCConstSize
  DmaMinBytes = 256
  ActBytes = 64
  Wcet <- MCWcet
  Images <- MCImages
  Masks <- MCMasks
  Deadlines = {0, 80}
  MaxFrames = 2
INVARIANTS
  TypeOK
  WireAgreement
  InputsResident
  CountersExact
  StatusIsTruthful
  MakespanBounds
  FramesAreIndependent
  PoweredInOrder
  SleepsBetweenFrames
PROPERTIES
  StallsOnlyWhenStuck
  ImplementsDataflow
  FrameTerminates
\* After MaxFrames frames the caller stops.
CHECK_DEADLOCK FALSE
