SPECIFICATION Spec
CONSTANTS
  t1 = t1
  x = x
  y = y
  z = z
  d = d
  e = e
  n1 = n1
  n2 = n2
  n3 = n3
  leader = leader
  Tuples = {t1}
  NStages = 2
  Tasks = {x, y, z, d, e}
  Stage <- TaskStage
  Rank <- TaskRank
  Host <- TaskHost
  Leader = leader
  KeyHash <- Hash2
  Scenarios <- DownScenario
INVARIANT SurvivorRetries
CHECK_DEADLOCK FALSE
