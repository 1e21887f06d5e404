CONSTANTS
  Workers = {w1, w2}
  FREE = FREE
  Char <- MCChar
  NULL = NULL
  HasDestructor = TRUE
  Keys <- MCKeys
  Ops = {"put", "get", "del"}
  Ttls <- MCNoTtl
  MaxRequests = 3
  MaxClock = 0
  SizeMod = 8
SPECIFICATION Spec
INVARIANTS NoReleasedRead
CHECK_DEADLOCK FALSE
