SPECIFICATION Spec
CONSTANTS
  Tasks = {t1, t2}
  Uses = {u1, u2}
  NoUse = nouse
  Limit = 1
  LastDay = 1
  Careful = FALSE
SYMMETRY Symmetry
INVARIANT AdmittedWithinLimit
CHECK_DEADLOCK FALSE
