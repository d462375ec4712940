CONSTANTS
  Accounts = {a1}
  Runs = {r1, r2}
  Loops = {l1, l2}
  None = None
  LastDay = 1
  RetryLimit = 1
  Changes = 1
  Passes = {p1, p2}
  FinalDay = 1
  ConfirmBudget = 2
  Tasks = {t1}
  Tiers = {x1}
  Chances = 1
  MaxDraws = 1
  Energy = 1
  MaxOpen = 1
  Replays = 1
  Metrics = {m1}
  Loop = Loop
  Operations = {op}
  Singles = {one}
  MaxReadings = 2
SPECIFICATION JobsSpec
SYMMETRY Symmetry
INVARIANTS
  TypesOK OneRunAtATime OpenRowHasReason MarkerFollowsSignIn OneTurnPerDay LitIsOfficial
  CreditsWereGranted ProgressIsShown
PROPERTIES ScheduleSkipsDone FreshIsRead
CHECK_DEADLOCK FALSE
