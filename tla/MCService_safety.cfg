CONSTANTS
  wb = wb
  intl = intl
  m1 = m1
  m2 = m2
  RouteList <- MCRoutes
  Policies <- MCPolicies
  Requests = {r1, r2}
  MaxReload = 1
  MaxDraws = 3
  Editors = {e1, e2}
  Readers = {g1}
  MaxVersion = 3
  Empty = Empty
  Unset = Unset
  Rounds = {q1, q2}
  Retentions = {1, 2}
  Day = 2
  Month = 4
  LastTick = 4
  MaxEvents = 2
  Handlers = {h1}
  Pools <- MCPools
  Strategies = {rr, ff}
  Default = rr
  MaxWrites = 2
  Flows = {f1}
  Polls = {p1, p2}
  Users = {Alice}
  Opaque = Opaque
  MaxAccounts = 2
  MaxCalls = 3
  Discoverable <- MCDiscoverable
  Models <- MCModels
  Configured <- MCConfigured
  Reasons <- MCConfigured
  Syncs = {s1}
  Operators = {o1}
  Calls = {c1, c2}
  MaxTurns = 2
  MaxChunks = 2
  None = None
SPECIFICATION Spec
INVARIANTS
  TypesOK SharesAreExact LossNeedsARace BucketsNest
  ImportsAddUp UpstreamAccepts AnswerIsWellFormed
PROPERTIES
  SyncRespectsRows
CHECK_DEADLOCK FALSE
