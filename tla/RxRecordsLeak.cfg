SPECIFICATION Spec
CONSTANTS
  TransferLens = {3, 20, 25}
  FieldLens = {0, 3, 4, 6, 9, 12, 13, 21}
  DataOffsets = {0, 2}
  MaxPayload = 8
  BufferSize = 8
  PoolSize = 2
  CounterMod = 3
  WalkFaults = {"unmapped", "setLenFails", "enqueueFails", "allocFails", "deallocFails", "rejectDeallocFails"}
INVARIANTS
  LeaksAreCounted
CHECK_DEADLOCK FALSE
