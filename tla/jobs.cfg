SPECIFICATION Spec
CONSTANTS
  j1 = j1
  j2 = j2
  t1 = t1
  t2 = t2
  n1 = n1
  n2 = n2
  Jobs = {j1, j2}
  NoJob = NoJob
  Leader = Leader
  NStages <- Stages
  Lines = {t1, t2}
  Autoscale <- OneScaled
  Host <- Hosts
  Scenarios <- MainScenarios
INVARIANT TypeOK
INVARIANT OutputOwn
INVARIANT LineKept
PROPERTY StreamsWhenStarted
CHECK_DEADLOCK FALSE
