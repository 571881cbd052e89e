SPECIFICATION Spec
CONSTANTS
  Tasks = {t1, t2, t3}
  Uses = {u1, u2, u3}
  NoUse = nouse
  Limit = 2
  LastDay = 2
  Careful = TRUE
SYMMETRY Symmetry
INVARIANTS IInv AdmittedWithinLimit CountIsExact EveryKeyExpires
PROPERTIES RefusalJustified DailyAllowanceSpec
CHECK_DEADLOCK FALSE
CONSTRAINT FewBreaks
