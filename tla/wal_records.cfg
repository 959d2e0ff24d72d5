SPECIFICATION Spec
CONSTANTS
  Tuples = {t1, t2}
  MaxLog = 6
INVARIANT ReplayGivesMaps
INVARIANT SummaryLosesNothing
CHECK_DEADLOCK FALSE
