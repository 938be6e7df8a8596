CONSTANTS
  Capacity = 4
  MaxChunk = 3
  MaxPos = 12
  r1 = r1
  Readers = {r1}
SPECIFICATION Spec
INVARIANTS
  TypeOK
  CellsCurrent
  DeliversStream
  DeliversNewest
  NoGap
  AtMostTwice
  ViewExact
