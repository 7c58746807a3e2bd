SPECIFICATION Spec
CONSTANTS
  F1 = F1
  F2 = F2
  IndexFile = IndexFile
  Found <- SourcePaths
  CargoOutputs <- OutputsOfCargo
  PipeSize = 2
INVARIANTS SuccessIsBuilt FailureLeavesNoExecutable
PROPERTY BuildEnds
CHECK_DEADLOCK FALSE
