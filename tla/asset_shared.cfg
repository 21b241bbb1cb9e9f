SPECIFICATION Spec
CONSTANTS
  e3 = e3
  o1 = o1
  o2 = o2
  Proc = {p1, p2}
  Entry = {e1, e2}
  Object = {o1}
  Reference = {r1}
  ObjectOf <- MCObjectOf
  Length <- MCLength
  MaximumObjectBytes = 1
  MaximumStagingBytes = 1
  MaxFaults = 1
  NoProc = NoProc
  NoEntry = NoEntry
SYMMETRY Symmetry
INVARIANTS TypeOK EntryHasObject ReaderKeepsEntry ReferencesResolve LiveStagingStays
PROPERTIES RetainsRooted PinnedFromBirth RecoveryIsComplete
