\* Two requests and two keys: a reply made before a rotation can be stored after
\* one made later.  The clock runs past CacheTtl + MaxLatency, and past exp + Skew.
SPECIFICATION BearerSpec
CONSTANTS
  Call = {p1, p2}
  Key = {k1, k2}
  Exp = {2}
  CacheTtl = 2
  Skew = 1
  MaxLatency = 1
  MaxClock = 4
  None = None
  Unusable = Unusable
SYMMETRY Symmetry
INVARIANTS
  BearerTypeOK
  UnknownKeyWindow
  CachedKeysPublished
PROPERTIES
  AttachedWasAccepted
