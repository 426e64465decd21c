SPECIFICATION Spec
CONSTANTS
  Call = {p1, p2}
  Realm = {r1, r2}
  OtherRealm = other
  Token = {t1, t2, t3, t4}
  Session = {s1}
  None = None
SYMMETRY Symmetry
INVARIANTS
  TypeOK
  ActiveWhenSeen
  RefusedDidNothing
  RefreshedTokens
