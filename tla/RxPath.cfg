SPECIFICATION FairSpec
CONSTANTS
  IdleLimit = 2
  RxFaults = {"asyncFails", "wakeFails", "clearStallFails", "enableFails", "disableFails", "linkFails", "superFails", "abortRefused"}
INVARIANTS
  TypeOK
  OneRead
  NeverSilentlyDeaf
  SpinBounded
  InterfaceAgrees
PROPERTIES
  NoReadAfterStop
  ReadsAgain
  StallIsCleared
CHECK_DEADLOCK FALSE
