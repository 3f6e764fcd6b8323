SPECIFICATION Spec
CONSTANTS
  b1 = b1
  b2 = b2
  x = x
  y = y
  Plugins = {1, 2}
  Bridges = {b1, b2}
  PluginSets = {x, y}
  SetOf <- TheSetOf
  Manifests <- TheManifests
  HandMade = {2}
  MaxFaults = 1
  t1 = t1
  t2 = t2
  t3 = t3
  t4 = t4
  agg = agg
  device = device
  system = system
  reset = reset
  request = request
  Tokens = {t1, t2, t3, t4}
  NoToken = NoToken
  BoundSets = {agg}
  SystemSets = {agg}
  BindingIds = {system, device}
  BoundTo <- TheBoundTo
  SystemOf <- TheSystemOf
  Resets = {reset}
  Requests = {request}
  catalog = catalog
  u1 = u1
  u2 = u2
  w1 = w1
  w2 = w2
  w3 = w3
  n1 = n1
  n2 = n2
  CatalogIds = {catalog}
  CatalogUrls = {u1, u2}
  Versions = 2
  Listed <- TheListed
  CandidateIds = {n1, n2}
  Visits = {w1, w2}
  Tests = {1, 2}
  MaxEdits = 2
  Fetches = {w1, w2, w3}
  Gates = {n1, n2}
  Hops = 1
  Processes = {w1, w2}
  Archives <- TheArchives
  InitialRows <- TheRows
  InitialSeeds <- TheSeeds
  ReleaseSeeds <- TheReleaseSeeds
  LocalRows <- TheLocalRows
  TransferFaults = 2
  SourceIds = {1, 2, 3, 4}
  KindOf <- TheKinds
  ItemsOf <- TheItems
  RuntimeBound = {3}
  Memberships <- TheMemberships
  RuleLists <- TheRules
  MaxPlugins = 1
INVARIANTS
  ExclusiveUntilRecovery
  EtagMeansInstalled
  UnloadedIsPending
  EndedIsRefused
  AcknowledgedIsRecorded
  OncePerEntry
  VerdictOfConfiguration
  SlotsAreHeld
  SeedsKept
  SeedsFollowRows
  RowsHaveSnapshots
  PublishedFromTheBest
PROPERTIES
  ForeignUntouched
  CredentialsEnd
  AcceptsOnlyOpen
SYMMETRY Alike
CHECK_DEADLOCK FALSE
