SPECIFICATION Spec
CONSTANTS
  f1 = f1
  f2 = f2
  v1 = v1
  v2 = v2
  Functions = {f1, f2}
  Values = {v1, v2}
  NumberOfSignals = 2
  Width <- Widths
  Dimensions <- ScalarAndArray
  Layouts <- WithRanges
  Unwritten = Unwritten
  NULL = NULL
  MaxEvents = 2
INVARIANT
  PreviousValuesFit
CHECK_DEADLOCK FALSE
