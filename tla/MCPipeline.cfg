SPECIFICATION Spec
CONSTANTS
  MaxInputs = 16
  MaxOutputs = 4
  MaxRank = 8
  MaxSuccessors = 2
  EvalRaises <- MCEvalRaises
  EvalShapes <- MCEvalShapes
  SourceGraphs <- MCSourceGraphs

  
PROPERTIES
  PassesKeepTheFunction
  CompilerTerminates
\* The compiler stops when it has written the image.
CHECK_DEADLOCK FALSE
