SPECIFICATION WellConfiguredSpec
CONSTANTS
  f1 = f1
  f2 = f2
  v1 = v1
  v2 = v2
  Functions = {f1, f2}
  Values = {v1, v2}
  NumberOfSignals = 2
  Width <- Widths
  Dimensions <- Scalars
  Layouts <- AnyOrder
  Unwritten = Unwritten
  NULL = NULL
  MaxEvents = 2
INVARIANTS
  TypeOK
  MonitoredIsShown
  EventShowsPrevious
PROPERTY
  LogSpec
CHECK_DEADLOCK FALSE
