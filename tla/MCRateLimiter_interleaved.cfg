SPECIFICATION Spec
CONSTANTS
  Procs = {p1, p2}
  Limiters <- TwoWindows
  Keys = {k1}
  Buckets = {b1, b2}
  NoBucket = NoBucket
  StoreFails = TRUE
  MaxTime = 4
  MaxRequests = 4
SYMMETRY Interchangeable
INVARIANTS
  TypeOK
  WindowCap
  SlidingCap
  QuietClientAdmitted
