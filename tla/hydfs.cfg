SPECIFICATION Spec
CONSTANTS
  na = na
  nb = nb
  nc = nc
  nj = nj
  nk = nk
  wa = wa
  wb1 = wb1
  wb2 = wb2
  wc = wc
  wj1 = wj1
  wj2 = wj2
  wk = wk
  Workers = {wa, wb1, wb2, wc, wj1, wj2, wk}
  Home <- RingHome
  Nodes = {na, nb, nc, nj, nk}
  Hash <- RingHash
  Position <- RingHash
  ReplicationFactor = 2
  Introducer = nc
  Initial = {na, nb, nc}
  FileHash = 2
  Scenarios <- MainScenarios
  MaxTime = 1
INVARIANT TypeOK
INVARIANT StoredSomewhere
INVARIANT ClientOrder
INVARIANT PrimaryAgreed
INVARIANT ReplicasServeUnlessMerged
PROPERTY MergeAgrees
SYMMETRY Alike
