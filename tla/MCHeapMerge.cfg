\* One region: small blocks freed around one that is freed last.
SPECIFICATION Spec
CONSTANTS
  KernelChunks = 5
  MaxChunk = 10
  ImageChunks = 1
  ALIGN = 360
  CHUNK_INFO_SIZE = 24
  CHUNK_ARR = 8
  REGION_INFO_SIZE = 32
  HEAP_INFO_SIZE = 16
  REGION_ARR = 8
  InitPages = 1
  Sizes = {1}
  MaxLive = 3
INVARIANT NeverCorrupt
CHECK_DEADLOCK FALSE
