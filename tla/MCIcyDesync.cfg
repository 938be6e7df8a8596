CONSTANTS
  t1 = t1
  t2 = t2
  NoText = NoText
  Texts = {t1, t2}
  Units <- TwoSizes
  Kept <- CutAtSemicolon
  Brings <- NoField
  UnitBytes = 1
  LenBytes = 4
  Metaint = 2
  ReadSize = 2
  MaxUnread = 2
  MaxLine = 1
  MaxIntro = 0
SPECIFICATION IcySpec
INVARIANTS
  BlocksWhereExpected
