\* Cooldowns and quota blocks: every kind of outcome, two models.
CONSTANTS
  Keys = {k1}
  Models = {m1, m2}
  Sessions = {}
  Requests = {r1, r2}
  Profiles <- MCAnonymous
  Outcomes = {"ok", "reject", "quota", "auth", "error"}
  HardSets <- MCNoHard
  AffinityModes = {}
  ResetDelays <- MCResetDelays
  Cooldown = 1
  BlockMax = 3
  MaxGen = 2
  MaxTime = 2
  NoSession = NoSession
  NoKey = NoKey
  OtherKey = OtherKey
SPECIFICATION Spec
SYMMETRY MCSymmetry
INVARIANTS ExclusionsAreBounded
PROPERTIES CooldownHasCause
