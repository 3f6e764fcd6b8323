SPECIFICATION CompilationSpec
CONSTANTS
  SourceIds = {1}
  KindOf <- TheKinds
  ItemsOf <- TheItems
  RuntimeBound = {}
  Memberships <- TheMemberships
  RuleLists <- TheRules
  MaxPlugins = 2
INVARIANTS
  SiblingsAreSupported
CHECK_DEADLOCK FALSE
