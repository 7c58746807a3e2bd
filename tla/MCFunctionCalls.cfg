SPECIFICATION Spec
CONSTANTS
  Names = {"n", "k", "x", "g", "out"}
  Functions <- AllFunctions
  Def <- Library
  Natives = {"add", "sub"}
  Expressions <- AllExpressions
  Globals <- SomeGlobals
  MaxPlan = 2
  MaxStack = 20
INVARIANTS LocalsDoNotBleed TailCallsDoNotNest
PROPERTIES ImplementsEvaluation EvaluationEnds
CHECK_DEADLOCK FALSE
