SPECIFICATION Spec
CONSTANTS
  Proc = {p1, p2}
  MaxEntry = 2
  MaxBody = 2
  MaxNow = 2
  Rules <- MCRules
  Requests <- MCRequests
  Responses <- MCResponses
  NoProc = NoProc
SYMMETRY Symmetry
CHECK_DEADLOCK FALSE
INVARIANTS TypeOK NeverStale RecordDescribesEntry OneValue
PROPERTIES FreshIsKept ValueIsPermanent
