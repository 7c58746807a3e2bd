SPECIFICATION Spec
CONSTANTS
  Kinds <- MCKinds
  Size <- MCSize
  Align <- MCAlign
  Element <- MCElement
  Compilable <- MCCompilable
  Decodable <- MCDecodable
  Functions <- MCFunctions
  Variadic <- MCVariadic
  Registered <- MCRegistered
  Takes <- MCTakes
  Solved <- MCSolved
  Sources <- MCSources
  Missing = {0, 1, 4, 5, 40}
  Passes = 2
CHECK_DEADLOCK FALSE
INVARIANTS
  ConstantsInBlob TypesWellFounded RegistersLoaded WholeFilesLoad
  FailsForCause RunsWhatWasCompiled
