CONSTANTS
  Objects = {o, p}
  Iterators = {i, j}
  Keys = {k1, k2, k3}
  Singular = Singular
  End = End
SYMMETRY Symmetry
SPECIFICATION Spec
INVARIANTS
  TypeOK
  FreshInRange
  ComparisonsAgree
  NoErroneousCall
