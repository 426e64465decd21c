------------------------- MODULE MCRedisStateStore --------------------------
\* Instances of RedisStateStore for TLC.
EXTENDS RedisStateStore, TLC

\* Coroutines, drawn states and verifiers are interchangeable in Spec and in
\* its safety properties.
Symmetry ==
  Permutations(Proc) \cup Permutations(State) \cup Permutations(Verifier)
=============================================================================
