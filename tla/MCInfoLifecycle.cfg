CONSTANTS
  Objects = {o1, o2, o3}
  Handles = {h1, h2, h3, h4}
  Contents = {c0, c1}
  EnvContents = c1
  Null = Null
  Env = Env
  Raw = Raw
  Freed = Freed
  Ref = Ref
  AliasedAssign = FALSE
SYMMETRY Symmetry
SPECIFICATION Spec
INVARIANTS
  TypeOK
  OwnedIsLive
  SoleOwner
  NoLeak
  NoErroneousCall
PROPERTIES
  ImplementsValue
  AssignedIsValid
