\* What must happen in the end.
CONSTANTS
  Events = {e1, e2}
  Callbacks = {c1, c2}
  Main = Main
  Other = Other
  MaxBatch = 2
  DiskMayFail = TRUE
  None = None
  Metrics = {m1}
  Loop = Loop
  Operations = {op}
  Singles = {one}
  MaxReadings = 1
SPECIFICATION Spec
PROPERTIES EventsSettle TurnReturns StopEnds
\* A turn that has returned is over.
CHECK_DEADLOCK FALSE
