CONSTANTS
  Names = {x, y}
  Ans = ans
  Modulus = 2
  MaxCells = 3
  MaxPlan = 4
  MaxDepth = 2
  MaxTuple = 2
  MaxBegun = 2
  MaxMachines = 1
  MaxEnv = 1
SPECIFICATION MCSpec
INVARIANTS TypeOK PlanOrder
PROPERTIES StepIdempotent KindStable MutationOnlyByAssignment NoRebinding
CHECK_DEADLOCK FALSE
SYMMETRY NameSymmetry
