CONSTANTS
  Workers = {w1, w2}
  FREE = FREE
  Char <- MCChar
  NULL = NULL
  HasDestructor = TRUE
  Keys <- MCKeys
  Ops = {"put", "putp", "get", "getp", "del", "delp"}
  Ttls <- MCTtls
  MaxRequests = 3
  MaxClock = 1
  SizeMod = 8
SPECIFICATION HSpec
INVARIANTS TrieConsistent  ReleasedOnlyIfDisturbed KeyspaceCovers PrefixGetSnapshot
PROPERTIES NoKeyLost EvictOnlyExpired Answered
CHECK_DEADLOCK FALSE
