CONSTANTS
  Threads = {t}
  Callbacks = {f, g}
  Unset = Unset
  MaxCallbacks = 3
  MaxCalls = 4
  Levels <- SomeLevels
  Exceptions = {Unsupported, Other}
  Unsupported = Unsupported
SPECIFICATION FairSpec
INVARIANTS
  TypeOK
  CallbacksInReverse
  SlotsSuffice
  EveryCallbackRunsIfDeleted
  CallbacksSeeActive
  FuncHasSupport
  ActiveWasTrue
PROPERTIES
  TornDown
