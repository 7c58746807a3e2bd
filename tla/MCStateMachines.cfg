SPECIFICATION Spec
CONSTANTS
  Programs <- AllPrograms
  Globals <- MachineGlobals
  Mutables = {"total"}
  MaxSteps = 4
INVARIANTS NamedStatesHaveArms
PROPERTIES ImplementsMachine CallsReturn
CHECK_DEADLOCK FALSE
