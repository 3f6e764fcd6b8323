SPECIFICATION Spec
CONSTANTS
  b1 = b1
  b2 = b2
  c1 = c1
  c2 = c2
  m1 = m1
  s1 = s1
  Sources = {s1}
  Buckets = {b1, b2}
  Manual = {m1}
  Calls = {c1, c2}
  None = None
  MinAvailable = 1
  MaxExcludedPercent = 50
  Losable = {c1, c2}
  RolledBack = {b1, b2}
  Movable = {s1}
SYMMETRY Symmetry
INVARIANTS
  TypeOK
  OneAggregateEach
  ManualMembersExist
PROPERTIES
  LastGoodKept
