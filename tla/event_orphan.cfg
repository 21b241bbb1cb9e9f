SPECIFICATION Spec
CONSTANTS
  Client = {"call", "stream"}
  Caller = {"call"}
  Stream = {"stream"}
INVARIANT WaitClosedIsTruthful
CHECK_DEADLOCK FALSE
