SPECIFICATION HeldSpec
CONSTANTS
  r1 = r1
  r2 = r2
  a = a
  Revs = {r1, r2}
  Runs = {a}
  NoRev = NoRev
  MaxContent = 2
  Malformed = {}
  MaxFailures = 3
  Kinds = {"sync", "probe", "content"}
SYMMETRY Symmetry
INVARIANTS
  HeldUntilReleased
CHECK_DEADLOCK FALSE
