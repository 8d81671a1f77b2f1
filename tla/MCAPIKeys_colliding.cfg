SPECIFICATION Spec
CONSTANTS
  k1 = k1
  k2 = k2
  k3 = k3
  i1 = i1
  i2 = i2
  i3 = i3
  Procs = {p1, p2}
  Plaintexts = {k1, k2}
  Ids = {i1, i2, i3}
  IdOf <- CollidingIds
  Owners = {alice, bob}
  Lifetimes = {0, 1}
  NoPlaintext = NoPlaintext
  NoId = NoId
  NoKey = NoKey
  MaxTime = 2
INVARIANTS
  TypeOK
  AcceptedIsPresented
  IssuedKeyWorks
PROPERTY
  ImplementsCheck
