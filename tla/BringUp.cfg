SPECIFICATION FairSpec
CONSTANTS
  MacLen = 2
  LowLen = 1
  Eeproms <- MCEeproms
  Polls = 2
INVARIANTS
  TypeOK
  MacIsTheEeproms
  AutonegUnclaimed
  UpIsConfigured
PROPERTIES
  BringUpEnds
CHECK_DEADLOCK FALSE
