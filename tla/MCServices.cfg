CONSTANTS
  m1 = m1
  m2 = m2
  t1 = t1
  s1 = s1
  s2 = s2
  a1 = a1
  a2 = a2
  f1 = f1
  f2 = f2
  ann = ann
  bob = bob
  pw1 = pw1
  pw2 = pw2
  q1 = q1
  q2 = q2
  Mounts = {m1, m2}
  NoText = NoText
  Texts = {t1}
  Units <- OneUnit
  Kept <- AsItIs
  Brings <- AUrl
  UnitBytes = 2
  LenBytes = 2
  Metaint = 2
  ReadSize = 2
  MaxUnread = 2
  MaxLine = 1
  MaxIntro = 1
  Sids = {s1, s2}
  NoSid = NoSid
  Unlisted = Unlisted
  Monitored = {m1}
  MaxCount = 2
  MaxAlerts = 2
  Counts = {1, 2}
  RingCapacity = 2
  MaxSamples = 4
  AccountIds = {a1, a2}
  NoAccount = NoAccount
  PlanLimits = {1, 2, 3}
  DefaultLimit = 3
  Feeders = {f1, f2}
  ShoutcastMount = NoMount
  NoMount = NoMount
  RootMount = m2
  Users = {ann, bob}
  Passwords = {pw1, pw2}
  Missing = Missing
  Versions <- FileVersions
  StaticUsers <- BobIsStatic
  Chain <- FileThenStatic
  Tasks = {q1, q2}
SPECIFICATION ServicesFairSpec
CONSTRAINT InStep
INVARIANTS
  SourceStripped
  InStepUnlessAdrift
  SeriesIsLatest
  BootstrapHasAdmin
  QuotaKept
  AnswerCurrent
PROPERTIES
  ImplementsListing
  GoneIsDelisted
  SpikeReported
