CONSTANTS
  Text <- MCText
  Submitter = {s1, s2}
  WizardProfile <- MCProfile
  Key = {k1, k2}
  Setter = {g1, g2}
  TTL <- MCTTL
  TicksPerSecond = 2
  Request = {"r1", "r2"}
  Client = {"c1", "c2"}
  Proxy = {"loopback", "edge", "foreign"}
  Call <- MCCall
  Photo <- MCPhoto
  Route = {"app"}
  Status = {103, 200, 404}
  Workload = {"setup", "cache", "requests", "calls", "photos"}
  Environments <- MCEnvironmentsOf
  Calls <- MCCalls
  Bounds <- MCBounds
SPECIFICATION Spec
CHECK_DEADLOCK FALSE
INVARIANTS
  IInv
  NoHybridProfile
  SealedKeyIsKept
  RestartKeepsConfig
  TTLIsHonoured
  GaugeIsExact
  RecordedAsServed
  ForwardedIsHonest
  ScrubRemovesExactlyExif
PROPERTY
  SetupIsNotRepeated
