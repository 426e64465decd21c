----------------------------- MODULE MCSession ------------------------------
\* Instances of Session for TLC.
EXTENDS Session, TLC

Symmetry == Permutations(Req) \cup Permutations(Realm) \cup Permutations(Login)
=============================================================================
