SPECIFICATION Spec
CONSTANTS
  p1 = p1
  p2 = p2
  k1 = k1
  k2 = k2
  n1 = n1
  n2 = n2
  n3 = n3
  alice = alice
  NoKey = NoKey
  NoToken = NoToken
  NoNonce = NoNonce
  DefaultExpiry = 3
  Procs = {p1, p2}
  Services <- LocalServices
  Algs = {"RS256", "ES256"}
  Keys = {k1}
  Issuers = {"iss", ""}
  Subjects = {alice}
  IdPKeys = {k2}
  Foreign <- OneStranger
  TicksPerSecond = 2
  FallibleBlacklist = FALSE
  MaxExpiry = 2
  MaxTime = 3
  Nonces = {n1, n2}
INVARIANTS
  TypeOK
  AcceptedWasLive
  RefreshRetiresOld
PROPERTIES
  ReturnedIsUsable
  ImplementsCheck
