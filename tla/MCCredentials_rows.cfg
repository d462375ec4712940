\* Two administrators and the rotation loop on the rows of one account.
CONSTANTS
  Rotators = {scheduler}
  Scheduler = scheduler
  Probes = {}
  Admins = {a1, a2}
  Tokens = {t1, t2, t3, t4}
  None = None
  ChatOnly = FALSE
  Deletes = TRUE
  MaxVersion = 3
  Wraps = FALSE
SPECIFICATION Spec
INVARIANTS TypeOK NoOrphanRows
PROPERTIES RotationExtendsStored
SYMMETRY MCSymmetry
