CONSTANTS
  Infos = {a}
  Keys = {k1, k2}
  Values = {v, Blank}
  Blank = Blank
  Absent = Absent
  End = End
  Threw = Threw
  NoKey = NoKey
  Idle = Idle
  PastTheEnd = TRUE
  MaxPairs = 0
  MaxHeld = 2
  Predicates <- SomePredicates
VIEW View
SPECIFICATION Spec
PROPERTIES
  EraseAssertsPosition
