\* The plain disk: nothing on it is unusual but the order of the calls.
SPECIFICATION Spec
CONSTANTS
  Names <- MCNames
  Hidden = {".", ".."}
  Hash <- MCHash
  Dirs = {"root", "dirA"}
  Root = "root"
  Files = {"F", "G"}
  Trees <- MCPlainTree
  Paths <- MCPaths
  Blocks = {"b1", "b2"}
  FileSize = 2
  InitError = 1
  MaxHeld = 2
  MaxOffset = 1
  TraceSlots = 9
  MaxRefused = 1
INVARIANT OpenLoads
CHECK_DEADLOCK FALSE
