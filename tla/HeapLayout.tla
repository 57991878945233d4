---------------------------- MODULE HeapLayout -----------------------------
(***************************************************************************)
(* The layout of the regions of the kernel heap, and what alloc and cull   *)
(* of kernel/src/memory/malloc.c do to one region.                         *)
(*                                                                         *)
(* A region is a run of pages.  Every piece of it is described by a        *)
(* smart_ptr, a header of CHUNK_INFO_SIZE bytes that stands just before    *)
(* the memory it describes, and the region's chunk array points to the     *)
(* headers:                                                                *)
(*                                                                         *)
(*   base                                                 base + alloc     *)
(*   | hdr region_info | hdr block | ... | hdr free | hdr chunk array |    *)
(*       chunks[2]       chunks[3]         last           chunks[1]        *)
(*                                                                         *)
(* (indices start at 1 here, so chunks[i] is the C array's chunks[i-1]).   *)
(* The chunk array ends the region and grows downwards by CHUNK_ARR for    *)
(* every block carved from the free space.  The base field of a smart_ptr  *)
(* is left out: nothing reads it.                                          *)
(***************************************************************************)
EXTENDS Integers, Sequences

CONSTANTS
  ALIGN,             \* page size
  CHUNK_INFO_SIZE,   \* sizeof(smart_ptr)
  CHUNK_ARR,         \* sizeof(smart_ptr *)
  REGION_INFO_SIZE,  \* sizeof(region_t)
  HEAP_INFO_SIZE,    \* sizeof(heap_t)
  REGION_ARR         \* sizeof(region_t *)

\* Only that they are sizes is assumed, and that a page holds the bookkeeping of an
\* empty region, without which create would give a region no free space.
ASSUME LayoutAssumption ==
  /\ ALIGN \in Nat \ {0}
  /\ CHUNK_INFO_SIZE \in Nat \ {0}
  /\ CHUNK_ARR \in Nat \ {0}
  /\ REGION_INFO_SIZE \in Nat \ {0}
  /\ HEAP_INFO_SIZE \in Nat \ {0}
  /\ REGION_ARR \in Nat \ {0}
  /\ ALIGN > REGION_INFO_SIZE + 3 * CHUNK_INFO_SIZE + 3 * CHUNK_ARR

UNALLOCATED == 0
RESERVED    == 1
CULLED      == 2
Flags == {UNALLOCATED, RESERVED, CULLED}

NEW_REGION_SIZE == REGION_INFO_SIZE + 3 * CHUNK_INFO_SIZE + 3 * CHUNK_ARR

\* What a block of n bytes takes from the free space: itself, a header and a slot.
Cost(n) == n + CHUNK_INFO_SIZE + CHUNK_ARR

Chunk(addr, size, flag) == [addr |-> addr, size |-> size, flag |-> flag]

\* A user region as create and create_region lay it out.
NewRegion(base, size) ==
  [base   |-> base,
   alloc  |-> size,
   used   |-> NEW_REGION_SIZE,
   chunks |->
     << Chunk(base + size - 3 * CHUNK_ARR, 3 * CHUNK_ARR, RESERVED),
        Chunk(base + CHUNK_INFO_SIZE, REGION_INFO_SIZE, RESERVED),
        Chunk(base + REGION_INFO_SIZE + 2 * CHUNK_INFO_SIZE,
              size - NEW_REGION_SIZE, UNALLOCATED) >>]

\* Mutant: only the region info is added to the request, not the headers and slots.
RegionSize_NoHeaders(n) == ((n + REGION_INFO_SIZE) \div ALIGN + 1) * ALIGN

\* The size create_region is asked for when no region has room for n bytes.
RegionSize(n) == ((n + NEW_REGION_SIZE) \div ALIGN + 1) * ALIGN

Last(s) == s[Len(s)]

-----------------------------------------------------------------------------
(* alloc, on one region *)

\* alloc looks at the last chunk only: free space inside a region is not reused.
Fits(r, n) ==
  Last(r.chunks).size > Cost(n) /\ Last(r.chunks).flag = UNALLOCATED

\* Mutant: the new free space starts where the block does.
Carve_NoAdvance(r, n) ==
  LET k    == Len(r.chunks)
      free == r.chunks[k]
      grown == [r.chunks EXCEPT ![1].addr = @ - CHUNK_ARR, ![1].size = (k + 1) * CHUNK_ARR,
                                ![k] = Chunk(free.addr, n, RESERVED)]
  IN  [r EXCEPT !.used = @ + Cost(n),
                !.chunks = Append(grown, Chunk(free.addr + CHUNK_INFO_SIZE,
                                               free.size - Cost(n), UNALLOCATED))]

\* The chunk array moves down by one slot, the block takes the start of the free
\* space, and a new header describes what is left of it.
Carve(r, n) ==
  LET k    == Len(r.chunks)
      free == r.chunks[k]
      grown == [r.chunks EXCEPT ![1].addr = @ - CHUNK_ARR, ![1].size = (k + 1) * CHUNK_ARR,
                                ![k] = Chunk(free.addr, n, RESERVED)]
  IN  [r EXCEPT !.used = @ + Cost(n),
                !.chunks = Append(grown, Chunk(free.addr + n + CHUNK_INFO_SIZE,
                                               free.size - Cost(n), UNALLOCATED))]

-----------------------------------------------------------------------------
(* cull, on one region *)

IsFree(c) == c.flag = UNALLOCATED \/ c.flag = CULLED

\* Mutant: the pointers after chunk j are not moved down.
DropSlot_NoShift(chunks, j, c) ==
  LET k == Len(chunks) - 1
      merged == [i \in 1 .. k |-> IF i = j THEN c ELSE chunks[i]]
  IN  [merged EXCEPT ![1].addr = @ + CHUNK_ARR, ![1].size = @ - CHUNK_ARR,
                     ![k].size = @ + CHUNK_ARR]

\* Both merges of cull end alike: chunk j leaves the table and the chunk left in its
\* place is c, the chunk array moves up by one slot, and the last chunk gains it.
DropSlot(chunks, j, c) ==
  LET k == Len(chunks) - 1
      merged == [i \in 1 .. k |-> IF i = j THEN c
                                  ELSE IF i < j THEN chunks[i] ELSE chunks[i + 1]]
  IN  [merged EXCEPT ![1].addr = @ + CHUNK_ARR, ![1].size = @ - CHUNK_ARR,
                     ![k].size = @ + CHUNK_ARR]

\* Chunk j has been culled and its predecessor is free: the predecessor absorbs it.
MergePrev(chunks, j) ==
  DropSlot(chunks, j - 1,
           Chunk(chunks[j - 1].addr,
                 chunks[j - 1].size + CHUNK_INFO_SIZE + chunks[j].size, UNALLOCATED))

\* Chunk j is free and so is its successor: they become one chunk, whose address is
\* the culled pointer (new_free.addr = ptr) whether or not j starts there.
MergeNext(chunks, j, ptr) ==
  DropSlot(chunks, j,
           Chunk(ptr, chunks[j + 1].size + CHUNK_INFO_SIZE + chunks[j].size, UNALLOCATED))

\* A block whose two neighbours are free when it is culled.
Sandwiched(chunks, j) == IsFree(chunks[j - 1]) /\ IsFree(chunks[j + 1])

\* cull of chunk j of region r, at address ptr.
Cull(r, j, ptr) ==
  LET culled == [r.chunks EXCEPT ![j].flag = CULLED]
      prev == IsFree(culled[j - 1])
      step1 == IF prev THEN MergePrev(culled, j) ELSE culled
      k == IF prev THEN j - 1 ELSE j
  IN  [r EXCEPT !.used = @ - Cost(r.chunks[j].size),
                !.chunks = IF IsFree(step1[k + 1]) THEN MergeNext(step1, k, ptr) ELSE step1]

-----------------------------------------------------------------------------
(* What a well-formed region is *)

\* The end of what chunk c describes is the header of the chunk after it.
Abuts(c, d) == d.addr = c.addr + c.size + CHUNK_INFO_SIZE

\* Headers and chunks tile the region: the region info starts it, each chunk is
\* followed by the header of the next, the free space by the chunk array, and the
\* chunk array, one slot per chunk, ends it.
Tiled(r) ==
  LET cs == r.chunks
      k  == Len(cs)
  IN  /\ k >= 3
      /\ cs[1].addr + cs[1].size = r.base + r.alloc
      /\ cs[1].size = k * CHUNK_ARR
      /\ cs[2].addr = r.base + CHUNK_INFO_SIZE
      /\ cs[2].size = REGION_INFO_SIZE
      /\ \A i \in 2 .. (k - 1) : Abuts(cs[i], cs[i + 1])
      /\ Abuts(cs[k], cs[1])

\* The bookkeeping chunks are reserved, the last is the free space.
Flagged(r) ==
  LET cs == r.chunks
  IN  /\ cs[1].flag = RESERVED
      /\ cs[2].flag = RESERVED
      /\ Last(cs).flag = UNALLOCATED

\* The blocks of a region: reserved chunks after the two bookkeeping ones.
Blocks(r) ==
  {[addr |-> r.chunks[i].addr, size |-> r.chunks[i].size] :
      i \in {i \in 3 .. Len(r.chunks) : r.chunks[i].flag = RESERVED}}
=============================================================================
