SPECIFICATION Spec
CONSTANTS
  F1 = F1
  F2 = F2
  IndexFile = IndexFile
  Found <- SourcePaths
  CargoOutputs <- OutputsOfCargo
  PipeSize = 2
INVARIANT GatheredIsBuilt
PROPERTIES BuildAlwaysEnds FailureIsKept
CHECK_DEADLOCK FALSE
