SPECIFICATION Spec
CONSTANTS
  Quiescers = {"queue", "start"}
INVARIANTS
  TypeOK
  OneTransferEach
  LateIoIsBounded
PROPERTIES
  OnlyTheStragglerSubmits
CHECK_DEADLOCK FALSE
