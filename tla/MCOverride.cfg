CONSTANTS
  live = live
  backup = backup
  spare = spare
  c1 = c1
  c2 = c2
  c3 = c3
  l1 = l1
  l2 = l2
  l3 = l3
  k1 = k1
  k2 = k2
  NoConn = NoConn
  NoMount = NoMount
  Mounts <- TwoMounts
  Fallback <- ToBackup
  Override = {live}
  WhenFull = {}
  MaxListeners <- LimitOne
  MaxFallbackDepth = 3
  Conns = {c1, c2}
  Listeners = {l1}
  Kicks = {}
SPECIFICATION FairSpec
PROPERTY
  OverrideReturns
