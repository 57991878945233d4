\* Hardware that does everything right.
SPECIFICATION Spec
CONSTANTS
  NumBlocks = 2
  Rca = 2
  Junk = 3
  MaxFaults = 0
  Tries = 2
INVARIANT WritesBuffer
CHECK_DEADLOCK FALSE
