CONSTANTS
  LenBase = 8
  MAX_LEN_BYTES = 4
  max_request_size = 10
  Lengths = {3, 5, 7, 10, 11}
  Opcodes = {"PUT", "TTL"}
  ReplyLen = 1
  MaxPackets = 2
SPECIFICATION HSpec
INVARIANTS DeliveredExact 
 
CHECK_DEADLOCK FALSE
