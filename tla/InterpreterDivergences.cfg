CONSTANTS
  Names = {x, y}
  Ans = ans
  Modulus = 2
  MaxCells = 4
  MaxPlan = 4
  MaxDepth = 2
  MaxTuple = 2
  MaxBegun = 3
  MaxMachines = 1
  MaxEnv = 1
SPECIFICATION Spec
PROPERTIES AssignmentIsRead MutableOnlyWithTilde DefineNeverRebinds
CHECK_DEADLOCK FALSE
SYMMETRY NameSymmetry
