SPECIFICATION Spec
CONSTANTS
  FaultSets = {{"registerFails", "cancelFails"}}
INVARIANTS
  NoReleaseUnderHandler
CHECK_DEADLOCK FALSE
