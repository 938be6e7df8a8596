CONSTANTS
  live = live
  backup = backup
  spare = spare
  c1 = c1
  c2 = c2
  c3 = c3
  l1 = l1
  l2 = l2
  l3 = l3
  k1 = k1
  k2 = k2
  NoConn = NoConn
  NoMount = NoMount
  Mounts <- OneMount
  Fallback <- NoFallbacks
  Override = {}
  WhenFull = {}
  MaxListeners <- LimitOne
  MaxFallbackDepth = 10
  Conns = {c1}
  Listeners = {l1, l2}
  Kicks = {k1, k2}
SPECIFICATION Spec
SYMMETRY TaskSymmetry
INVARIANTS
  StatsExact
  NoStaleListener
  NeverUndercounts
CONSTRAINT TotalBound
