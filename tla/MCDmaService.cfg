SPECIFICATION Spec
CONSTANTS
  NumChannels = 2
  Bandwidth = 16
  j1 = j1
  j2 = j2
  j3 = j3
  none = none
  NoJob = none
  Jobs <- MCJobs
  Bytes <- MCBytes
  Steps <- MCSteps
  Horizon = 5
  MaxResets = 1
INVARIANTS
  TypeOK
  ExactlyOnce
  FabricCapacity
PROPERTIES
  ImplementsContract
