---------------------------- MODULE MCLoginFlow -----------------------------
\* Instances of LoginFlow for TLC.
EXTENDS LoginFlow, TLC

CONSTANTS both, one, client  \* three instances
CONSTANTS r1, r2             \* two realms

\* A rolling change of the configuration: one instance serves both realms, one
\* only r1, and one is a KeycloakClient for r2.
MCConfigured == both :> {r1, r2} @@ one :> {r1} @@ client :> {r2}

Symmetry == Permutations(Req) \cup Permutations(State)
              \cup Permutations(Verifier) \cup Permutations(Code)
=============================================================================
