SPECIFICATION Spec
CONSTANTS
  width = width
  depth = depth
  Names = {width, depth}
  Initials <- HeldNumbers
  Script <- Programs
  MaxSteps = 2
INVARIANTS SetsAreUnique MembershipIsOfValues OrderDoesNotMatter
PROPERTIES CalledStaysInPlan SetsAreImmutable
CHECK_DEADLOCK FALSE
