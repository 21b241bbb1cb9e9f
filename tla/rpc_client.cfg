SPECIFICATION Spec
CONSTANTS
  Client = {"call", "stream"}
  Caller = {"call"}
  Stream = {"stream"}
INVARIANTS TypeOK NothingLeftOpen OutcomeIsHonest CompletionIsTruthful
PROPERTIES ClientsReturn
CHECK_DEADLOCK FALSE
