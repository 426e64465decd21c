\* Ints of four bits, -8 .. 7: a lifetime of 9 seconds becomes -7, which Redis
\* refuses.
SPECIFICATION Spec
CONSTANTS
  Proc = {p1, p2}
  State = {s1, s2}
  Verifier = {v1, v2}
  Realm = {"", "r1"}
  Ttl = {0, 9}
  IntLimit = 8
  MaxAttempts = 2
  MaxClock = 2
  None = None
SYMMETRY Symmetry
INVARIANTS
  TypeOK
  ReceivedOnce
  CreateOutcome
  ConsumedIntact
PROPERTIES
  ImplementsStore
