\* The plane with two handlers; the other services have nobody to serve.
CONSTANTS
  wb = wb
  intl = intl
  m1 = m1
  m2 = m2
  RouteList <- MCRoutes
  Policies <- MCPolicies
  Requests = {}
  MaxReload = 0
  MaxDraws = 0
  Editors = {}
  Readers = {}
  MaxVersion = 0
  Empty = Empty
  Unset = Unset
  Rounds = {}
  Retentions = {1}
  Day = 2
  Month = 4
  LastTick = 0
  MaxEvents = 0
  Handlers = {h1, h2}
  Pools <- MCPools
  Strategies = {rr, ff}
  Default = rr
  MaxWrites = 2
  Flows = {}
  Polls = {}
  Users = {}
  Opaque = Opaque
  MaxAccounts = 0
  MaxCalls = 0
  Discoverable <- MCDiscoverable
  Models <- MCModels
  Configured <- MCConfigured
  Reasons <- MCConfigured
  Syncs = {}
  Operators = {}
  Calls = {}
  MaxTurns = 0
  MaxChunks = 0
  None = None
SPECIFICATION Spec
SYMMETRY MCSymmetry
INVARIANTS
  ChangesAreLive StrategyInForce
\* Where nobody is served nothing is to be done.
CHECK_DEADLOCK FALSE
