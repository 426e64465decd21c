SPECIFICATION Spec
CONSTANTS
  Req = {p1, p2}
  Realm = {r1, r2}
  Login = {t1, t2, t3}
  RevokeOnLogout = TRUE
  Empty = Empty
  None = None
SYMMETRY Symmetry
INVARIANTS
  TypeOK
  RealmIsolation
  SameLogin
PROPERTIES
  LoginKept
