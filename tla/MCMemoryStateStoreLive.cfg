\* Three coroutines contend for the mutex and one state; no symmetry, the property is a
\* liveness property.
SPECIFICATION FairSpec
CONSTANTS
  Proc = {p1, p2, p3}
  State = {s1}
  Verifier = {v1, v2}
  Realm = {"r1"}
  Ttl = {1}
  MaxAttempts = 3
  MaxClock = 1
  None = None
PROPERTIES
  LockReleased
