SPECIFICATION Spec
CONSTANTS
  t1 = t1
  t2 = t2
  n0 = n0
  n1 = n1
  n2 = n2
  n3 = n3
  Tuples = {t1}
  Nodes = {n0, n1, n2, n3}
  NStages = 3
  Host <- SharedHost
  Outcome <- AllEmit
  MaxEpoch <- NoKill
  MaxRetry = 1
  MaxLoss = 1
  MaxHydfsFail = 0
  LateTicks = FALSE
  MaxCrash = 0
INVARIANT InFlightRetried
CHECK_DEADLOCK FALSE
