SPECIFICATION Spec
CONSTANTS
  SessionFaults = {}
INVARIANTS
  ReadsItsOwnByte
