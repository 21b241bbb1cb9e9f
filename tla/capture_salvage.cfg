SPECIFICATION Spec
CONSTANTS
  Entry = {e1, e2}
  Session = {s1, s2}
  Collector = {c1}
  Reader = {d1}
  Reference = {r1}
  Nobody = Nobody
  NoSession = NoSession
SYMMETRY Symmetry
INVARIANT PublishedIsReadable
