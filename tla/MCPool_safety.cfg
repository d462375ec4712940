\* Leases and closing: two accounts whose credentials are replaced, a
\* conversation's stream and completions outside it, exclusions.
CONSTANTS
  Keys = {k1, k2}
  Models = {m1}
  Sessions = {s1}
  Requests = {r1, r2}
  Profiles <- MCMixed
  Outcomes = {"ok", "abort", "error"}
  HardSets <- MCAnyHard
  AffinityModes = {TRUE, FALSE}
  ResetDelays = {1}
  Cooldown = 1
  BlockMax = 1
  MaxGen = 1
  MaxTime = 1
  NoSession = NoSession
  NoKey = NoKey
  OtherKey = OtherKey
SPECIFICATION Spec
SYMMETRY MCSymmetry
INVARIANTS TypeOK LeasesBalance ClosedProvidersAreUnused
