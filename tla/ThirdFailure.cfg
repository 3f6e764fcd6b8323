SPECIFICATION SourceSpec
CONSTANTS
  r1 = r1
  r2 = r2
  a = a
  Revs = {r1, r2}
  Runs = {a}
  NoRev = NoRev
  MaxContent = 2
  Malformed = {}
  MaxFailures = 3
  Kinds = {"sync", "probe"}
SYMMETRY Symmetry
PROPERTIES
  ThirdFailureQuarantines
CHECK_DEADLOCK FALSE
