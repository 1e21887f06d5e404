CONSTANTS
  Clients = {c1}
  IO = {t1}
  Workers = {w1, w2}
  Fds <- MCFds1
  Slots = {e1}
  NONE = NONE
  Kinds = {"good"}
  Leaves = {}
  MaxPackets = 2
  AcceptMayFail = FALSE
  CountMod = 8
SPECIFICATION Spec
PROPERTIES AlwaysServed
CHECK_DEADLOCK FALSE
