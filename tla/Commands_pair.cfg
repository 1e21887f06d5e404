CONSTANTS
  Workers = {w1, w2}
  Clients = {c1, c2}
  Names = {db0, db1}
  Default = db0
  Stored <- MCStored
  Globs <- MCGlobs
  Ops = {"INC", "DEC", "INCP", "DECP", "CNT", "USE", "DB", "KEYS", "PING", "INFO", "FLUSH", "QUIT"}
  MaxRequests = 4
SPECIFICATION HSpec
SYMMETRY Symmetry
INVARIANTS  IncrementsCount
CHECK_DEADLOCK FALSE
