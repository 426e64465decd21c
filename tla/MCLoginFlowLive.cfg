\* No symmetry, the property is a liveness property.
SPECIFICATION FairSpec
CONSTANTS
  both = both
  one = one
  client = client
  r1 = r1
  r2 = r2
  Req = {p1, p2}
  Instance = {both, one, client}
  Multi = {both, one}
  Configured <- MCConfigured
  RealmName = {r1, r2}
  Realm = {r1, r2, ""}
  State = {s1}
  Verifier = {v1}
  Code = {c1}
  StateTtl = 1
  Ttl = {1}
  MaxClock = 1
  None = None
PROPERTIES
  Answered
