CONSTANTS
  Infos = {a, b}
  Keys = {k1, k2, k3}
  Values = {v, Blank}
  Blank = Blank
  Absent = Absent
  End = End
  Threw = Threw
  NoKey = NoKey
  Idle = Idle
  PastTheEnd = FALSE
  MaxPairs = 2
  MaxHeld = 3
  Predicates <- SomePredicates
SYMMETRY Symmetry
VIEW View
SPECIFICATION Spec
INVARIANTS
  TypeOK
  NoErroneousCall
  MergeLosesNothing
PROPERTIES
  ImplementsMap
  EraseReturnsFollower
