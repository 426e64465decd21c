\* Two coroutines, two states to draw, three logins: a third create call can
\* meet two taken states, and can follow an expiry or a consume.
SPECIFICATION Spec
CONSTANTS
  Proc = {p1, p2}
  State = {s1, s2}
  Verifier = {v1, v2, v3}
  Realm = {"", "r1"}
  Ttl = {0, 2}
  MaxAttempts = 2
  MaxClock = 2
  None = None
SYMMETRY Symmetry
INVARIANTS
  TypeOK
  HandedOnce
  CreateOutcome
  ConsumedIntact
PROPERTIES
  ImplementsStore
