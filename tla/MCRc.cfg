\* Deadlock is not checked: a program that used a freed handle goes no further.
SPECIFICATION SpecPart
CONSTANTS
  Handles = {a, b, c, d}
  Blocks = {x, y}
  Addresses = {p, q}
  None = None
  NULL = NULL
  Roots = {r1, r2}
  Temporary = t
  Objects = {n1, n2, n3}
INVARIANTS
  TypeOK
  NoUseAfterFree
  LivesAsReferred
  NotNullIsLive
  HandlesInsideObjects
PROPERTY
  AssignRefersToOther
CHECK_DEADLOCK FALSE
