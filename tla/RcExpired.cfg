SPECIFICATION Spec
CONSTANTS
  Handles = {a, b, c}
  Blocks = {x, y}
  Addresses = {p, q}
  None = None
INVARIANT
  NoUseAfterFree
CHECK_DEADLOCK FALSE
