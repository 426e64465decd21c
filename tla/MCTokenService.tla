--------------------------- MODULE MCTokenService ---------------------------
\* Instances of TokenService for TLC.
EXTENDS TokenService, TLC

Symmetry == Permutations(Call) \cup Permutations(Realm) \cup Permutations(Token)
=============================================================================
