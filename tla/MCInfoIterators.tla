--------------------------- MODULE MCInfoIterators ---------------------------
EXTENDS InfoIterators, TLC

Symmetry == Permutations(Objects) \union Permutations(Iterators) \union Permutations(Keys)
=============================================================================
