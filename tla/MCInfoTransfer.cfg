CONSTANTS
  Objects = {o, p}
  Iterators = {i}
  Keys = {k1, k2}
  Singular = Singular
  End = End
SYMMETRY Symmetry
SPECIFICATION Spec
PROPERTIES
  TransfersKeepIterators
