\* Two zones of five chunks, one chunk of kernel image; requests of 0 to 3 chunks.
SPECIFICATION Spec
CONSTANTS
  KernelChunks = 5
  MaxChunk = 10
  ImageChunks = 1
  MaxRequest = 3
INVARIANTS PagesOwned InZone
PROPERTY RefusedOnlyWhenFull
\* The fault handler never returns: a faulted machine has no next step.
CHECK_DEADLOCK FALSE
