\* Two files on three disks, two heap blocks and two openers: a file can be reopened while its
\* former block is free, held by the other file, or held by the rest of the kernel.
SPECIFICATION Spec
CONSTANTS
  Names <- MCNames
  Hidden = {".", ".."}
  Hash <- MCHash
  Dirs = {"root", "dirA"}
  Root = "root"
  Files = {"F", "G"}
  Trees <- MCTrees
  Paths <- MCPaths
  Blocks = {"b1", "b2"}
  FileSize = 2
  InitError = 1
  MaxHeld = 2
  MaxOffset = 1
  TraceSlots = 9
  MaxRefused = 1
\* main's entry and the deepest nest fill a trace stack of nine: after one refused call it does not fit.
INVARIANTS CountsExact BuffersSafe TraceFits LookupExact
PROPERTY Pinned
\* A fault stops the machine.
CHECK_DEADLOCK FALSE
