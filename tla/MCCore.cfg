SPECIFICATION SpecPart
CONSTANTS
  Vectors = {v1, v2}
  Iterators = {i1}
  Items = {a, b}
  Fresh = Fresh
  Step = 2
  MaxSize = 2
  Options = {o1, o2}
  Results = {r1, r2}
  Values = {x, y}
  Errors = {e}
  HeapCells = {c1, c2, c3, c4}
  Strings = {s1, s2}
  Chars = {1, 2}
  InitSize = 2
  MaxLen = 3
  NULL = NULL
  NoCell = NoCell
SYMMETRY Symmetry
INVARIANTS
  TypeOK
  IteratorReadsAnItem
  CellsHaveOneOwner
  AllQueriesAgree
PROPERTIES
  ActsLikeAList
  ActsLikeAValue
  ActsLikeText
CHECK_DEADLOCK FALSE
