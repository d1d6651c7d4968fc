SPECIFICATION FairSpec
CONSTANTS
  Packet = {p1, p2, p3}
  NoPacket = NoPacket
  CounterMod = 4
  FaultSets <- AllOrNoNull
INVARIANTS
  TypeOK
  TxAccounting
  LostAreCounted
  OneOwner
  OneTransfer
  StallIsCleared
PROPERTIES
  RefinesCustody
  QueuedIsTaken
  HeldComesBack
CHECK_DEADLOCK FALSE
