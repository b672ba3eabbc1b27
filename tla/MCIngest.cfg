SPECIFICATION SortSpec
CONSTANTS
  Names <- MCNames
  Absent = ""
  Models <- MCModels
INVARIANTS
  SortIsTopological
  SortIsComplete
  OnlyStuckModelsRefused
\* The sort stops when every node is sorted or stuck.
CHECK_DEADLOCK FALSE
