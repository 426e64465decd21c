---------------------------- MODULE MCBearerAuth ----------------------------
\* Instances of BearerAuth for TLC.
EXTENDS BearerAuth, TLC

\* Calls and keys are interchangeable in BearerSpec and in its safety properties.
Symmetry == Permutations(Call) \cup Permutations(Key)
=============================================================================
