SPECIFICATION Spec
CONSTANTS
  grid = grid
  line = line
  stack = stack
  point = point
  Default = 0
  Cells <- WithPoint
  Initials <- HeldOnce
  Script <- OneStatement
  MaxSteps = 0
INVARIANTS MasksReadByRows
CHECK_DEADLOCK FALSE
