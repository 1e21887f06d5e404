CONSTANTS
  Keys = {k1, k2, k3}
  PutTtls <- NoneOrShort
  Ttls <- AnyTtl
  MaxItems = 3
  MaxEntries = 3
  MaxClock = 2
SPECIFICATION HSpec
CONSTRAINT NotSpoilt
INVARIANTS   CounterCovers
PROPERTIES  ExpiredRemoved
CHECK_DEADLOCK FALSE
