CONSTANTS
  Threads = {t}
  Callbacks = {f, g}
  Unset = Unset
  MaxCallbacks = 3
  MaxCalls = 4
  Levels <- SomeLevels
  Exceptions = {}
  Unsupported = Unsupported
SPECIFICATION Spec
INVARIANTS
  EarlierCallbacksRun
