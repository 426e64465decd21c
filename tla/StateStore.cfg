SPECIFICATION Spec
CONSTANTS
  State = {s1, s2}
  Verifier = {v1, v2, v3}
  Realm = {"", "r1"}
  Ttl = {0, 1, 2}
  MaxClock = 2
INVARIANTS
  TypeOK
  HandedOnce
