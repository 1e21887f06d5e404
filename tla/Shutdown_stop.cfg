CONSTANTS
  Main = main
  IO = {i1}
  Workers = {w1, w2}
  NONE = NONE
  MaxRequests = 3
SPECIFICATION Spec
INVARIANTS DestroyAfterJoin
PROPERTY Terminates
CHECK_DEADLOCK FALSE
