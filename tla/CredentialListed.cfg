SPECIFICATION BindingSpec
CONSTANTS
  t1 = t1
  t2 = t2
  t3 = t3
  agg = agg
  device = device
  system = system
  reset = reset
  request = request
  Tokens = {t1, t2, t3}
  NoToken = NoToken
  BoundSets = {agg}
  SystemSets = {agg}
  BindingIds = {system, device}
  BoundTo <- TheBoundTo
  SystemOf <- TheSystemOf
  Resets = {reset}
  Requests = {request}
INVARIANTS
  ListedIsSystemToken
CHECK_DEADLOCK FALSE
