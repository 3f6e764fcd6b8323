SPECIFICATION FocusedSpec
CONSTANTS
  r1 = r1
  r2 = r2
  r3 = r3
  a = a
  b = b
  Revs = {r1, r2, r3}
  Runs = {a, b}
  NoRev = NoRev
  MaxContent = 4
  Malformed = {2}
  MaxFailures = 3
  Kinds = {"sync", "probe", "content"}
SYMMETRY Symmetry
INVARIANTS
  SourceTypeOK
  EnabledIsServable
  HealthCountsFailures
  ActiveIsApproved
PROPERTIES
  BackgroundKeepsProtection
  NeverOlderContent
  RejectedStaysOut
  AutoApprovalEarned
  PinnedStaysPut
  ImplementsReview
CHECK_DEADLOCK FALSE
