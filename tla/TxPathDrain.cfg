SPECIFICATION FairSpec
CONSTANTS
  Packet = {p1, p2}
  NoPacket = NoPacket
  CounterMod = 3
  FaultSets <- NoFaults
PROPERTIES
  DrainTerminates
CHECK_DEADLOCK FALSE
