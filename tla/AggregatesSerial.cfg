SPECIFICATION FairSpec
CONSTANTS
  b1 = b1
  b2 = b2
  c1 = c1
  s1 = s1
  s2 = s2
  Sources = {s1, s2}
  Buckets = {b1, b2}
  Manual = {}
  Calls = {c1}
  None = None
  MinAvailable = 1
  MaxExcludedPercent = 50
  Losable = {}
  RolledBack = {}
  Movable = {s1, s2}
INVARIANTS
  MembersAreEnabled
PROPERTIES
  DisabledIsWithdrawn
