SPECIFICATION Spec
CONSTANTS
  Inputs <- NoInputs
  Outputs <- OneArray
  Samples = {0}
  Numbers = {2, 4}
  Flags = {0, 1}
  Float32 <- Narrow
  Low <- MinusOne
  High = 1
  LuaMax = 2
  Word = 16
  StackLimit = 2
INVARIANT
  OutputsFollowVariables
CHECK_DEADLOCK FALSE
