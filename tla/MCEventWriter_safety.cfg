\* Three requests, batches of two, a disk that may fail.
CONSTANTS
  Events = {e1, e2, e3}
  Callbacks = {c1, c2, c3}
  Main = Main
  Other = Other
  None = None
  MaxBatch = 2
  DiskMayFail = TRUE
SPECIFICATION Spec
SYMMETRY MCSymmetry
INVARIANTS TypeOK NoStrandedEvents StatsAddUp OnePlace NothingPendingAtExit
PROPERTIES ImplementsLedger
