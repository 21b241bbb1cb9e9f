SPECIFICATION Spec
CONSTANTS
  e3 = e3
  o1 = o1
  o2 = o2
  Proc = {p1, p2}
  Entry = {e1, e3}
  Object = {o1, o2}
  Reference = {r1}
  ObjectOf <- MCObjectOf
  Length <- MCLength
  MaximumObjectBytes = 2
  MaximumStagingBytes = 2
  MaxFaults = 2
  NoProc = NoProc
  NoEntry = NoEntry
SYMMETRY Symmetry
INVARIANT WithinCapacity
