\* A dead session is recorded and the pool is not rebuilt.
CONSTANTS
  Rotators = {scheduler}
  Scheduler = scheduler
  Probes = {}
  Admins = {a1}
  Tokens = {t1, t2, t3, t4}
  None = None
  ChatOnly = FALSE
  Deletes = FALSE
  MaxVersion = 3
  Wraps = FALSE
SPECIFICATION Spec
PROPERTIES DeadSessionLeavesPool
