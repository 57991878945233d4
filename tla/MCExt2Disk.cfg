\* Blocks of two numbers (eight bytes) and two direct blocks: a file of sixteen blocks uses all
\* three levels of indirection. Bitmaps of two words of 32 bits.
SPECIFICATION Spec
CONSTANTS
  P = 2
  DIRECT = 2
  NGroups = 2
  FreshBits <- MCFreshBits
  FirstBlock = 6
  Stale = 66
  NSlots = 2
  Offsets = {0, 7, 13}
  Sizes = {1, 9}
  Frees = {3, 5, 40}
  MaxCalls = 4
INVARIANTS GivenOnce CountsCover MapReadBack ReadBack
\* The calls are bounded.
CHECK_DEADLOCK FALSE
