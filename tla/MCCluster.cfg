CONSTANTS
  m1 = m1
  c1 = c1
  c2 = c2
  w1 = w1
  e1 = e1
  NoConn = NoConn
  Mounts <- OneMount
  Conns = {c1, c2}
  Watchers = {w1}
  Edges = {e1}
  Capacity = 1
  MaxPos = 2
  QueueCap = 1
SPECIFICATION ClusterFairSpec
INVARIANTS
  ClusterTypeOK
  NoByteMissed
  DeafOnlyAfterReturn
PROPERTIES
  EdgeCatchesUp
