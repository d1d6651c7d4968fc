SPECIFICATION Spec
CONSTANTS
  SessionFaults = {"openFails", "lookFails", "configureFails", "pipesMissing"}
INVARIANTS
  TypeOK
  SessionsBalance
PROPERTIES
  Undisturbed
