\* A callback that took its batch before Close is cut off by the exit.
CONSTANTS
  Events = {e1, e2}
  Callbacks = {c1, c2}
  Main = Main
  Other = Other
  None = None
  MaxBatch = 2
  DiskMayFail = FALSE
SPECIFICATION Spec
INVARIANTS CloseFlushes
