SPECIFICATION Spec
CONSTANTS
  Inputs <- SomeInputs
  Outputs <- SomeOutputs
  Samples = {2, 3}
  Numbers <- SomeNumbers
  Flags = {}
  Float32 <- Narrow
  Low <- MinusOne
  High = 1
  LuaMax = 2
  Word = 16
  StackLimit = 2
INVARIANTS
  TypeOK
  CrashesAreKnown
  StackIsEmpty
  InputsReachTheCode
  OutputsFollowUnlessStale
  ValidOutputsAreRead
CHECK_DEADLOCK FALSE
