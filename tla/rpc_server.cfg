SPECIFICATION Spec
CONSTANTS
  Control = {"c1"}
  Events = {"v1"}
  RequestSlots = 1
  EventSlots = 1
  MaxPending = 1
  MaxPublished = 2
INVARIANTS TypeOK ServerIsEmpty CloseCancels ResourcesOutliveHandlers
PROPERTIES NothingSkipped RequestsEnd ThreadsEnd
CHECK_DEADLOCK FALSE
