SPECIFICATION Spec
CONSTANTS
  grid = grid
  line = line
  stack = stack
  point = point
  Default = 0
  Cells <- WithPoint
  Initials <- HeldOnce
  Script <- TwoStatements
  MaxSteps = 1
INVARIANTS ReadsSelect LiteralsJoin FittingStatementsRun StepsRunUnlessReplaced
PROPERTIES AssignsOnlySelected WhatIsAssignedIsRead EveryOccurrenceCounts StepsKeepLiterals
CHECK_DEADLOCK FALSE
