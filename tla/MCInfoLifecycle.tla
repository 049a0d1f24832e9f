--------------------------- MODULE MCInfoLifecycle ---------------------------
EXTENDS InfoLifecycleRefinement, TLC

\* Addresses and handles are interchangeable in every safety property.
Symmetry == Permutations(Objects) \union Permutations(Handles)
=============================================================================
