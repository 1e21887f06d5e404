CONSTANTS
  Clients = {c1, c2}
  IO = {t1}
  Workers = {w1}
  Fds <- MCFds2
  Slots = {e1, e2}
  NONE = NONE
  Kinds = {"good", "bad"}
  Leaves = {"fin"}
  MaxPackets = 2
  AcceptMayFail = TRUE
  CountMod = 8
SPECIFICATION Spec
PROPERTIES Served
CHECK_DEADLOCK FALSE
