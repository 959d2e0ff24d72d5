SPECIFICATION Spec
CONSTANTS
  t1 = t1
  t2 = t2
  n0 = n0
  n1 = n1
  n2 = n2
  n3 = n3
  Tuples = {t1}
  Nodes = {n0, n1, n2, n3}
  NStages = 2
  Host <- OwnHosts
  Outcome <- AllEmit
  MaxEpoch <- KillFirst
  MaxRetry = 1
  MaxLoss = 1
  MaxHydfsFail = 0
  LateTicks = TRUE
  MaxCrash = 0
INVARIANT TypeOK
INVARIANT InFlightRetried
INVARIANT DurableInFlight
INVARIANT FlushedAckIsDurable
PROPERTY AckedWasAccepted
CHECK_DEADLOCK FALSE
