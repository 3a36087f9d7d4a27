SPECIFICATION Spec
CONSTANTS
  f1 = f1
  f2 = f2
  v1 = v1
  v2 = v2
  Functions = {f1}
  Values = {v1, v2}
  NumberOfSignals = 2
  Width <- Widths
  Dimensions <- Scalars
  Layouts <- OneFunction
  Unwritten = Unwritten
  NULL = NULL
  MaxEvents = 2
INVARIANT
  MonitoredIsShownInAnyOrder
CHECK_DEADLOCK FALSE
