SPECIFICATION FairSpec
CONSTANTS
  FaultSets = {{"acquireFails", "registerFails"}, {"acquireFails", "cancelFails"}}
INVARIANTS
  TypeOK
  NoReleaseUnderHandler
  CountdownHonest
  NothingOutlivesStop
PROPERTIES
  TeardownEnds
CHECK_DEADLOCK FALSE
