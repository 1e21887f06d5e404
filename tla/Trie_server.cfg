CONSTANTS
  Char <- MCChar
  Keys <- MCKeys
  Items = {i1, i2, i3}
  NULL = NULL
  HasDestructor = TRUE
SPECIFICATION Spec
INVARIANTS ItemOwnership SizeCoversKeys
PROPERTY ImplementsMap
CHECK_DEADLOCK FALSE
