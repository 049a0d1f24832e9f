CONSTANTS
  Threads = {t}
  Callbacks = {f, g}
  Unset = Unset
  MaxCallbacks = 2
  MaxCalls = 2
  Levels <- SomeLevels
  Exceptions = {Unsupported, Other}
  Unsupported = Unsupported
SPECIFICATION Spec
INVARIANTS
  LeavesFinalized
