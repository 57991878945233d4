------------------------------ MODULE PageMap ------------------------------
(***************************************************************************)
(* The physical page map of kernel/src/memory/hardware_reserve.c.          *)
(*                                                                         *)
(* MEMORY_MAP is a bitmap with one bit per 4 KiB chunk.  It is represented *)
(* by the set u of the chunks whose bit is 1; set_bit, clear_bit and       *)
(* get_bit (bitmap.h) are then union, difference and membership.  The      *)
(* operators take the map as a parameter so that the page allocator        *)
(* (PageReserve) and the kernel heap built on it (KHeap) share them.       *)
(*                                                                         *)
(* find_free is a pair of nested loops that returns the first start that   *)
(* passes its test; here it is the least member of the set of the starts   *)
(* that pass it.                                                           *)
(***************************************************************************)
EXTENDS Integers

CONSTANTS
  KernelChunks,  \* KERNEL_RESERVED / CHUNK_SIZE: the kernel zone is 0 .. KernelChunks-1
  MaxChunk,      \* MAX_CHUNK = memory_total / CHUNK_SIZE
  ImageChunks    \* memory_kernel / CHUNK_SIZE: chunks of the kernel image

\* mem_init refuses a kernel image larger than the kernel zone; memory_init passes
\* the whole memory, which is larger than the kernel zone.
ASSUME ChunkAssumption ==
  /\ KernelChunks \in Nat
  /\ MaxChunk \in Nat
  /\ ImageChunks \in Nat
  /\ ImageChunks <= KernelChunks
  /\ KernelChunks <= MaxChunk

MEM_K == 0
MEM_U == 1
MemTypes == {MEM_K, MEM_U}

\* The bounds start and end that reserve computes from the requested type.
ZoneStart(type) == IF type = MEM_K THEN 0 ELSE KernelChunks
ZoneEnd(type)   == IF type = MEM_K THEN KernelChunks ELSE MaxChunk

\* The n chunks from first on.
Run(first, n) == first .. (first + n - 1)

\* The map after mem_init: the chunks of the kernel image are used.
mem_init == Run(0, ImageChunks)

\* if (n_chunks == 0) n_chunks = 1;
Chunks(n) == IF n = 0 THEN 1 ELSE n

\* Mutant: the zone's end is not tested, so a run may cross it.
FreeStarts_NoEnd(u, n, start, end) ==
  {i \in start .. (end - 1) : Run(i, n) \cap u = {}}

\* The starts at which find_free's inner loop meets no used chunk and the run
\* ends strictly before the end of the zone: (j == n_chunks) && (i+j < end).
FreeStarts(u, n, start, end) ==
  {i \in start .. (end - 1) : i + n < end /\ Run(i, n) \cap u = {}}

\* First fit from the bottom of the zone; -1 when no start passes.
find_free(u, n, start, end) ==
  LET starts == FreeStarts(u, n, start, end)
  IN  IF starts = {} THEN -1
      ELSE CHOOSE i \in starts : \A k \in starts : i <= k

\* The first chunk a reserve of n chunks of this type takes from map u, or -1.
Found(u, n, type) == find_free(u, Chunks(n), ZoneStart(type), ZoneEnd(type))
=============================================================================
