CONSTANTS
  Clients = {c1, c2}
  IO = {t1}
  Workers = {w1, w2}
  Fds <- MCFds2
  Slots = {e1, e2}
  NONE = NONE
  Kinds = {"good", "big"}
  Leaves = {"fin", "reset"}
  MaxPackets = 2
  AcceptMayFail = TRUE
  CountMod = 8
SPECIFICATION Spec
INVARIANTS ClientsExact OneHolder RepliesInOrder
SYMMETRY SlotsAndWorkers
CHECK_DEADLOCK FALSE
