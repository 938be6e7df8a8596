CONSTANTS
  m1 = m1
  m2 = m2
  c1 = c1
  c2 = c2
  c3 = c3
  c4 = c4
  NoConn = NoConn
  Mounts <- MCMounts
  Conns <- MCConns
SPECIFICATION SourceSpec
INVARIANTS
  OneSourcePerMount
