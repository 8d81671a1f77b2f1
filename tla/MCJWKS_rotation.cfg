SPECIFICATION FairSpec
CONSTANTS
  p1 = p1
  p2 = p2
  a = "a"
  b = "b"
  kA = kA
  kB = kB
  kEnc = kEnc
  NoKey = NoKey
  Procs = {p1, p2}
  Kids = {"a", "b"}
  Keys = {kA, kB, kEnc}
  Docs <- TwoDocs
  CacheTTL = 2
  MinRefreshDelay = 1
  HTTPTimeout = 1
  InstallDelay = 1
  EndpointFails = TRUE
INVARIANTS
  TypeOK
  RetiredKeysDieOut
PROPERTY
  CacheConverges
