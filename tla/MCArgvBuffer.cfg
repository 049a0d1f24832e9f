CONSTANTS
  Levels = {1, 2}
  Strings = {s}
  Empty = Empty
  Numbers <- SomeNumbers
  Infos = {NullInfo}
  NullInfo = NullInfo
  Comms = {World, Self}
  World = World
  Self = Self
  NullComm = NullComm
  SizeOf <- SizeOfComm
  UniverseSizes <- SomeUniverses
  Unknown = Unknown
  Unset = Unset
  MaxArgs = 2
  MaxCommands = 2
  IntMax = 3
  MultiNumbers = {1, 2}
  None = None
CHECK_DEADLOCK FALSE
SPECIFICATION MSpec
INVARIANTS
  ArgvFits
