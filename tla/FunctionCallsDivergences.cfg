SPECIFICATION Spec
CONSTANTS
  Names = {"n", "k", "x", "g", "out"}
  Functions <- AllFunctions
  Def <- Library
  Natives = {"add", "sub"}
  Expressions <- DivergingCalls
  Globals <- SomeGlobals
  MaxPlan = 2
  MaxStack = 20
INVARIANTS NamedArgumentsInAnyOrder TailCallsMeanCalls
PROPERTY StepsAreKept
CHECK_DEADLOCK FALSE
