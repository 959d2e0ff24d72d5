SPECIFICATION FairSpec
CONSTANTS
  t1 = t1
  t2 = t2
  n0 = n0
  n1 = n1
  n2 = n2
  n3 = n3
  Tuples = {t1}
  Nodes = {n0, n1, n2, n3}
  NStages = 1
  Host <- OwnHosts
  Outcome <- AllEmit
  MaxEpoch <- KillLast
  MaxRetry = 0
  MaxLoss = 0
  MaxHydfsFail = 0
  LateTicks = FALSE
  MaxCrash = 0
PROPERTY Delivered
CHECK_DEADLOCK FALSE
