SPECIFICATION Spec
CONSTANTS
  Programs <- DivergingPrograms
  Globals <- DivergingGlobals
  Mutables = {"total"}
  MaxSteps = 4
INVARIANTS EnteredStatesAreDeclared EnteredStatesHaveArms
PROPERTIES LimitMeansExceeded OwnedValues GuardErrorsAreNotBool
CHECK_DEADLOCK FALSE
