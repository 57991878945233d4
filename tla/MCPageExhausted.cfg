\* The smallest memory in which both zones can fill up.
SPECIFICATION Spec
CONSTANTS
  KernelChunks = 3
  MaxChunk = 6
  ImageChunks = 1
  MaxRequest = 2
INVARIANT ExhaustionReported
CHECK_DEADLOCK FALSE
