SPECIFICATION Spec
CONSTANTS
  width = width
  depth = depth
  Names = {width, depth}
  Initials <- HeldNumbers
  Script <- Programs
  MaxSteps = 2
INVARIANTS FunctionsAgree StepsLeaveThePlanSolved CollectedAreDistinct
PROPERTIES SolvingAgainChangesNothing
CHECK_DEADLOCK FALSE
