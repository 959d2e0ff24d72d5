SPECIFICATION Spec
CONSTANTS
  na = na
  nb = nb
  nc = nc
  nj = nj
  nk = nk
  wa = wa
  wb1 = wb1
  wb2 = wb2
  wc = wc
  wj1 = wj1
  wj2 = wj2
  wk = wk
  Workers = {wa, wc, wj1}
  Home <- RingHome
  Nodes = {na, nc, nj}
  Hash <- RingHash
  Position <- RingHash
  ReplicationFactor = 2
  Introducer = nc
  Initial = {na, nc}
  FileHash = 2
  Scenarios <- JoinScenario
  MaxTime = 0
INVARIANT ReplicasServe
