--------------------------- MODULE MCInfoContainer ---------------------------
EXTENDS InfoContainer, TLC

\* Predicates that look at the value only, at both key and value, and at nothing.
SomePredicates ==
  {{p \in Pairs : p.val = v} : v \in Values}
  \union {{p \in Pairs : p.key # k /\ p.val # Blank} : k \in Keys}
  \union {Pairs}

Symmetry == Permutations(Infos) \union Permutations(Keys)

\* What the next step depends on; last is only ever written.
View == <<stable, value, order, call, erroneous>>
=============================================================================
