SPECIFICATION Spec
CONSTANTS
  FaultSets = {{}}
INVARIANTS
  ControlIOIsSafe
CHECK_DEADLOCK FALSE
