CONSTANTS
  m1 = m1
  c1 = c1
  c2 = c2
  NoConn = NoConn
  NoSession = NoSession
  Mounts <- OneMount
  Conns = {c1, c2}
  Capacity = 2
  MaxPos = 3
  Window = 2
SPECIFICATION HlsFairSpec
INVARIANTS
  NoDeadEntry
  ExclusiveUnlessRaced
  HlsTypeOK
  WindowConsecutive
  NoGap
PROPERTIES
  PlaylistStays
  SessionKept
  DataOffered
