\* What must happen in the end around an account.
CONSTANTS
  Keys = {k1, k2}
  Models = {m1}
  Sessions = {s1}
  Requests = {r1, r2}
  Outcomes = {"ok", "error"}
  AffinityModes = {TRUE}
  ResetDelays = {1}
  Cooldown = 1
  BlockMax = 1
  MaxGen = 1
  MaxTime = 0
  NoSession = NoSession
  NoKey = NoKey
  OtherKey = OtherKey
  Rotators = {scheduler}
  Scheduler = scheduler
  Probes = {probe}
  Admins = {a1}
  Tokens = {t1, t2, t3}
  None = None
  ChatOnly = FALSE
  Deletes = FALSE
  MaxVersion = 2
  Wraps = TRUE
SPECIFICATION Spec
PROPERTIES RequestsEnd Recovers
