\* The structures have their sizes on aarch64; the page is 240 bytes instead of 4096, so
\* that regions and the kernel region fill up within a few calls. A new region of one page
\* has 112 bytes free: 79 is the largest request it serves, 80 the smallest that create_region
\* rounds to one page all the same, 112 the smallest that gets two pages.
SPECIFICATION Spec
CONSTANTS
  KernelChunks = 5
  MaxChunk = 10
  ImageChunks = 1
  ALIGN = 240
  CHUNK_INFO_SIZE = 24
  CHUNK_ARR = 8
  REGION_INFO_SIZE = 32
  HEAP_INFO_SIZE = 16
  REGION_ARR = 8
  InitPages = 1
  Sizes = {1, 80, 112}
  MaxLive = 2
INVARIANTS HeapExact AccountsExact AllocFits
PROPERTIES UsesPagesRight ImplementsAllocator
\* A faulted machine has no next step.
CHECK_DEADLOCK FALSE
