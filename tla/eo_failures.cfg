SPECIFICATION Spec
CONSTANTS
  t1 = t1
  t2 = t2
  n0 = n0
  n1 = n1
  n2 = n2
  n3 = n3
  Tuples = {t1, t2}
  Nodes = {n0, n1, n2, n3}
  NStages = 1
  Host <- OwnHosts
  Outcome <- DropSecond
  MaxEpoch <- KillLast
  MaxRetry = 1
  MaxLoss = 1
  MaxHydfsFail = 1
  LateTicks = TRUE
  MaxCrash = 1
INVARIANT OutputOncePerIncarnation
PROPERTY AckedWasAccepted
PROPERTY ImplementsDelivery
CHECK_DEADLOCK FALSE
