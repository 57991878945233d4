------------------------------- MODULE KHeap -------------------------------
(***************************************************************************)
(* The kernel heap of kernel/src/memory/malloc.c on top of the page map:   *)
(* create, and the calls new, alt and del that every other part of the     *)
(* kernel makes (alloc, change, cull).                                     *)
(*                                                                         *)
(* The heap is a kernel region, which holds the heap_t, the region array   *)
(* and free room for that array to grow, and user regions that hold the    *)
(* blocks.  The kernel is single threaded here and no interrupt handler    *)
(* allocates, so calls do not interleave; a call is split into steps where *)
(* it reserves or gives back pages, because each of those can end in the   *)
(* fault of an exhausted zone:                                             *)
(*                                                                         *)
(*   alloc --room--> carve, return                                         *)
(*     \--none--> create_region: reserve --> [grow_kheap: reserve, copy,   *)
(*                relinquish] --> link the region --> alloc again          *)
(*                                                                         *)
(* status leaves "ok" when the code faults or runs into undefined          *)
(* behaviour, and no step follows:                                         *)
(*   "exhausted"  reserve found no run of pages (see PageReserve)          *)
(*   "stale"      a heap_t was read in pages that grow_kheap gave back and *)
(*                relinquish overwrote                                     *)
(*   "corrupt"    alloc wrote the header of the free space over the chunk  *)
(*                array's, or past the region                              *)
(***************************************************************************)
EXTENDS PageMap, HeapLayout, FiniteSets

CONSTANTS
  InitPages,  \* pages of the kernel region and of the first user region
  Sizes,      \* bound: the request sizes, in bytes
  MaxLive     \* bound: blocks a client holds at once

\* A page also holds the bookkeeping of a kernel region with two entries.
ASSUME HeapAssumption ==
  /\ ALIGN >= REGION_INFO_SIZE + HEAP_INFO_SIZE + 5 * CHUNK_INFO_SIZE + 2 * REGION_ARR + 5 * CHUNK_ARR
  /\ InitPages \in Nat \ {0}
  /\ Sizes \subseteq Nat
  /\ MaxLive \in Nat

VARIABLES
  used,     \* MEMORY_MAP
  kheap,    \* regions[0]: base, alloc_size, used_size, chunks[3] and the free chunk
  regions,  \* regions[1 ..], the user regions
  handle,   \* base of the kernel region in which the callers' heap_t lies (global_heap)
  pc,       \* where the running call is; "idle" between calls
  call,     \* the running call: operation, size, pointer
  pend,     \* pages reserved and not part of the heap yet, in order
  created,  \* regions created by the running call
  live,     \* history: the blocks the clients hold
  sandwich, \* history: the regions (by base) in which a sandwiched block was culled
  status

vars == <<used, kheap, regions, handle, pc, call, pend, created, live, sandwich, status>>
ghosts == <<live, sandwich>>

NoCall == [op |-> "none", n |-> 0, ptr |-> 0]

\* The kernel region as create and grow_kheap lay it out for n regions.
NewKheap(base, size, n) ==
  LET taken == REGION_INFO_SIZE + HEAP_INFO_SIZE + 5 * CHUNK_INFO_SIZE
               + n * REGION_ARR + 5 * CHUNK_ARR
  IN  [base  |-> base,
       alloc |-> size,
       used  |-> taken,
       arr   |-> n * REGION_ARR,
       free  |-> Chunk(base + 4 * CHUNK_INFO_SIZE + REGION_INFO_SIZE + HEAP_INFO_SIZE
                       + n * REGION_ARR, size - taken, UNALLOCATED)]

NoKheap == [base |-> 0, alloc |-> 0, used |-> 0, arr |-> 0, free |-> Chunk(0, 0, UNALLOCATED)]

Init ==
  /\ used = mem_init
  /\ kheap = NoKheap
  /\ regions = << >>
  /\ handle = 0
  /\ pc = "create"
  /\ call = NoCall
  /\ pend = << >>
  /\ created = 0
  /\ live = {}
  /\ sandwich = {}
  /\ status = "ok"

-----------------------------------------------------------------------------
(* Pages *)

Running(at) == status = "ok" /\ pc = at

\* The reserve the code makes at each point: chunks and type.
Request ==
  CASE pc = "create"      -> <<InitPages, MEM_K>>
    [] pc = "create_user" -> <<InitPages, MEM_U>>
    [] pc = "region"      -> <<RegionSize(call.n) \div ALIGN, MEM_U>>
    [] pc = "grow"        -> <<(kheap.alloc + ALIGN) \div ALIGN, MEM_K>>

FoundPages == Found(used, Request[1], Request[2])
Reserve == FoundPages # -1 /\ used' = used \cup Run(FoundPages, Chunks(Request[1]))

\* reserve with no run left: the machine faults (PageReserve!reserve_exhausted).
exhausted ==
  /\ status = "ok"
  /\ pc \in {"create", "create_user", "region", "grow"}
  /\ FoundPages = -1
  /\ status' = "exhausted"
  /\ UNCHANGED <<used, kheap, regions, handle, pc, call, pend, created, ghosts>>

-----------------------------------------------------------------------------
(* create *)

\* The pages of the kernel region; its two-entry region array and heap_t.
create ==
  /\ Running("create")
  /\ Reserve
  /\ kheap' = NewKheap(FoundPages * ALIGN, InitPages * ALIGN, 2)
  /\ pc' = "create_user"
  /\ UNCHANGED <<regions, handle, call, pend, created, ghosts, status>>

\* The pages of the first user region; global_heap is assigned.
create_user ==
  /\ Running("create_user")
  /\ Reserve
  /\ regions' = <<NewRegion(FoundPages * ALIGN, InitPages * ALIGN)>>
  /\ handle' = kheap.base
  /\ pc' = "idle"
  /\ UNCHANGED <<kheap, call, pend, created, ghosts, status>>

-----------------------------------------------------------------------------
(* The calls *)

\* The first chunk, region by region, whose address is ptr: cull's and change's search.
Search(regs, ptr) ==
  LET at == UNION {{<<i, j>> : j \in {j \in DOMAIN regs[i].chunks :
                                         regs[i].chunks[j].addr = ptr}} : i \in DOMAIN regs}
  IN  CHOOSE p \in at : \A q \in at : p[1] < q[1] \/ (p[1] = q[1] /\ p[2] <= q[2])

\* cull(h, ptr) on the user regions.
CullPtr(regs, ptr) ==
  LET p == Search(regs, ptr)
  IN  [regs EXCEPT ![p[1]] = Cull(@, p[2], ptr)]

\* The region in which culling ptr takes both merges, if it does.
CullSandwich(regs, ptr) ==
  LET p == Search(regs, ptr)
  IN  IF Sandwiched(regs[p[1]].chunks, p[2]) THEN {regs[p[1]].base} ELSE {}

\* new(ptr, n): alloc(global_heap, n) begins.
new(n) ==
  /\ Running("idle")
  /\ Cardinality(live) < MaxLive
  /\ call' = [op |-> "new", n |-> n, ptr |-> 0]
  /\ created' = 0
  /\ pc' = "alloc"
  /\ UNCHANGED <<used, kheap, regions, handle, pend, ghosts, status>>

\* alt(ptr, n): change(global_heap, ptr, n) finds the block and calls alloc.
alt(b, n) ==
  /\ Running("idle")
  /\ call' = [op |-> "alt", n |-> n, ptr |-> b.addr]
  /\ created' = 0
  /\ pc' = "alloc"
  /\ UNCHANGED <<used, kheap, regions, handle, pend, ghosts, status>>

\* del(ptr): cull(global_heap, ptr).
del(b) ==
  /\ Running("idle")
  /\ regions' = CullPtr(regions, b.addr)
  /\ live' = live \ {b}
  /\ sandwich' = sandwich \cup CullSandwich(regions, b.addr)
  /\ UNCHANGED <<used, kheap, handle, pc, call, pend, created, status>>

-----------------------------------------------------------------------------
(* alloc and create_region *)

\* The first user region with room.
Roomy(n) == {i \in DOMAIN regions : Fits(regions[i], n)}
FirstRoomy(n) == CHOOSE i \in Roomy(n) : \A k \in Roomy(n) : i <= k

\* The header of the free space has run into that of the chunk array.
Overrun(r) == Last(r.chunks).addr > r.chunks[1].addr - CHUNK_INFO_SIZE

\* alloc finds room: the block is carved; change then copies and culls the old one.
alloc_carve ==
  /\ Running("alloc")
  /\ handle = kheap.base
  /\ Roomy(call.n) # {}
  /\ LET i == FirstRoomy(call.n)
         carved == [regions EXCEPT ![i] = Carve(@, call.n)]
         block == [addr |-> Last(regions[i].chunks).addr, size |-> call.n]
     IN  IF Overrun(carved[i])
         THEN /\ status' = "corrupt"
              /\ regions' = carved
              /\ live' = live \cup {block}
              /\ UNCHANGED <<sandwich, pc, call>>
         ELSE /\ pc' = "idle"
              /\ call' = NoCall
              /\ UNCHANGED status
              /\ \/ /\ call.op = "new"
                    /\ regions' = carved
                    /\ live' = live \cup {block}
                    /\ UNCHANGED sandwich
                 \/ /\ call.op = "alt"
                    /\ regions' = CullPtr(carved, call.ptr)
                    /\ live' = {b \in live : b.addr # call.ptr} \cup {block}
                    /\ sandwich' = sandwich \cup CullSandwich(carved, call.ptr)
  /\ UNCHANGED <<used, kheap, handle, pend, created>>

\* alloc finds none and calls create_region.
alloc_miss ==
  /\ Running("alloc")
  /\ handle = kheap.base
  /\ Roomy(call.n) = {}
  /\ pc' = "region"
  /\ UNCHANGED <<used, kheap, regions, handle, call, pend, created, ghosts, status>>

\* create_region reserves the pages, then makes sure the region array has a free slot.
region_reserve ==
  /\ Running("region")
  /\ Reserve
  /\ pend' = <<[base |-> FoundPages * ALIGN, size |-> RegionSize(call.n)]>>
  /\ pc' = IF kheap.alloc - kheap.used < REGION_ARR THEN "grow" ELSE "link"
  /\ UNCHANGED <<kheap, regions, handle, call, created, ghosts, status>>

\* grow_kheap reserves a kernel region one page larger and copies the heap into it.
grow_reserve ==
  /\ Running("grow")
  /\ Reserve
  /\ pend' = Append(pend, [base |-> FoundPages * ALIGN, size |-> kheap.alloc + ALIGN])
  /\ pc' = "swap"
  /\ UNCHANGED <<kheap, regions, handle, call, created, ghosts, status>>

\* Mutant: the old kernel region is not given back.
grow_swap_Leak ==
  /\ Running("swap")
  /\ kheap' = NewKheap(pend[2].base, pend[2].size, 1 + Len(regions))
  /\ pend' = SubSeq(pend, 1, 1)
  /\ pc' = "link"
  /\ UNCHANGED <<used, regions, handle, call, created, ghosts, status>>

\* grow_kheap gives the old kernel region back.  Only create_region's own h is
\* changed: the callers' heap_t still is the one in the pages given back.
grow_swap ==
  /\ Running("swap")
  /\ used' = used \ Run(kheap.base \div ALIGN, kheap.alloc \div ALIGN)
  /\ kheap' = NewKheap(pend[2].base, pend[2].size, 1 + Len(regions))
  /\ pend' = SubSeq(pend, 1, 1)
  /\ pc' = "link"
  /\ UNCHANGED <<regions, handle, call, created, ghosts, status>>

\* Mutant: the new entry of the region array is not taken from the free chunk.
region_link_NoSlot ==
  /\ Running("link")
  /\ regions' = Append(regions, NewRegion(pend[1].base, pend[1].size))
  /\ kheap' = [kheap EXCEPT !.arr = @ + REGION_ARR]
  /\ pend' = << >>
  /\ created' = created + 1
  /\ pc' = "alloc"
  /\ UNCHANGED <<used, handle, call, ghosts, status>>

\* create_region lays the region out and enters it in the region array, which takes
\* one entry from the kernel region's free chunk; alloc starts over.
region_link ==
  /\ Running("link")
  /\ regions' = Append(regions, NewRegion(pend[1].base, pend[1].size))
  /\ kheap' = [kheap EXCEPT !.arr = @ + REGION_ARR, !.used = @ + REGION_ARR,
                            !.free.addr = @ + REGION_ARR, !.free.size = @ - REGION_ARR]
  /\ pend' = << >>
  /\ created' = created + 1
  /\ pc' = "alloc"
  /\ UNCHANGED <<used, handle, call, ghosts, status>>

\* alloc starts over with a heap_t in pages that relinquish filled with 'V'.
alloc_stale ==
  /\ Running("alloc")
  /\ handle # kheap.base
  /\ status' = "stale"
  /\ UNCHANGED <<used, kheap, regions, handle, pc, call, pend, created, ghosts>>

Next ==
  \/ create \/ create_user \/ exhausted
  \/ \E n \in Sizes : new(n)
  \/ \E b \in live, n \in Sizes : alt(b, n)
  \/ \E b \in live : del(b)
  \/ alloc_carve \/ alloc_miss \/ alloc_stale
  \/ region_reserve \/ grow_reserve \/ grow_swap \/ region_link

Spec == Init /\ [][Next]_vars

-----------------------------------------------------------------------------
(* Properties *)

\* A region whose blocks were never culled with both neighbours free.
Sound(r) == r.base \notin sandwich

\* Types, and that the counters of a call stay within the call.
TypeOK ==
  /\ used \subseteq 0 .. (MaxChunk - 1)
  /\ pc \in {"create", "create_user", "idle", "alloc", "region", "grow", "swap", "link"}
  /\ call.op \in {"none", "new", "alt"} /\ call.n \in Nat /\ call.ptr \in Nat
  /\ created \in Nat
  /\ Len(pend) <= 2
  /\ \A i \in DOMAIN regions : \A c \in DOMAIN regions[i].chunks :
        regions[i].chunks[c] \in [addr : Nat, size : Nat, flag : Flags]
  /\ status \in {"ok", "exhausted", "stale", "corrupt"}

\* Through any sequence of allocations, reallocations and frees the headers and the
\* chunks of a region tile it, and the last chunk is its free space, as long as no
\* block was culled between two free ones.
RegionsTiled == \A i \in DOMAIN regions : Sound(regions[i]) => Tiled(regions[i]) /\ Flagged(regions[i])

\* Two free chunks are never neighbours in such a region: cull has merged them.
Coalesced ==
  \A i \in DOMAIN regions :
    Sound(regions[i]) =>
      LET cs == regions[i].chunks
      IN  \A j \in 3 .. (Len(cs) - 1) : ~(IsFree(cs[j]) /\ IsFree(cs[j + 1]))

\* The chunk tables list exactly the blocks the clients hold, with their sizes: no
\* merge, move of the chunk array or new region loses or invents one.
BlocksMatch == live = UNION {Blocks(regions[i]) : i \in DOMAIN regions}

\* What the usage command adds up: a region's used_size is its bookkeeping and the
\* cost of the blocks in it, whatever was merged meanwhile.
UsedSizeExact ==
  \A i \in DOMAIN regions :
    LET r == regions[i]
        sum[j \in 2 .. Len(r.chunks)] ==
          IF j = 2 THEN 0
          ELSE sum[j - 1] + (IF r.chunks[j].flag = RESERVED THEN Cost(r.chunks[j].size) ELSE 0)
    IN  r.used = NEW_REGION_SIZE + sum[Len(r.chunks)]

\* The kernel region: its free chunk is what alloc_size - used_size says it is, ends
\* at the header of the chunk array, and starts after the region array, which has an
\* entry for every region.
KheapExact ==
  regions # << >> =>
    /\ kheap.arr = (1 + Len(regions)) * REGION_ARR
    /\ kheap.free.size = kheap.alloc - kheap.used /\ kheap.free.size >= 0
    /\ kheap.free.addr = kheap.base + 4 * CHUNK_INFO_SIZE + REGION_INFO_SIZE + HEAP_INFO_SIZE + kheap.arr
    /\ kheap.free.addr + kheap.free.size + CHUNK_INFO_SIZE + 5 * CHUNK_ARR = kheap.base + kheap.alloc

\* A request that create_region's rounding serves: the new page-rounded region has
\* strictly more than the block's cost free.
Served(n) == (n + NEW_REGION_SIZE) % ALIGN < ALIGN - (CHUNK_INFO_SIZE + CHUNK_ARR)

\* alloc calls itself at most once for such a request: the region just created fits.
ServedByOneRegion == Served(call.n) => created <= 1

\* As long as no block was culled between two free ones, alloc never writes a header
\* over the chunk array or past the region: its size test leaves room for everything.
NoCorruption == sandwich = {} => status # "corrupt"

\* del "combines it with surrounding free regions" (modules/memory/README.md), so the
\* heap is never written outside its chunks, whatever the order of frees.
NeverCorrupt == status # "corrupt"

\* The chunk tables and the clients' blocks agree after any sequence of calls: the
\* chunks tile their regions, free ones are merged, and the blocks in the tables are
\* those the clients hold (malloc.c 330-430, 540-640).
HeapExact == TypeOK /\ RegionsTiled /\ Coalesced /\ BlocksMatch

\* Both accounts of the heap, of the client regions and of the kernel region, are
\* exact, through merges, moves of the chunk array and growth (malloc.c 482, 565).
AccountsExact == UsedSizeExact /\ KheapExact

\* alloc's size test agrees with what alloc writes and with the region that
\* create_region makes for the request (malloc.c 381, 446).
AllocFits == NoCorruption /\ ServedByOneRegion

-----------------------------------------------------------------------------
(* The heap implements the abstract allocator and uses the page allocator *)

Promise == INSTANCE Allocator WITH
  blocks <- UNION {Blocks(regions[i]) : i \in DOMAIN regions}, failed <- (status # "ok")

\* Until the machine stops, the blocks in the chunk tables change only as the abstract
\* allocator allows: one is added that overlaps none, one is removed, or both.
ImplementsAllocator == Promise!Spec

PageRun(base, size, type) ==
  [first |-> base \div ALIGN, n |-> size \div ALIGN, type |-> type]

\* The runs of pages the heap holds: its regions and what create_region is setting up.
HeapExtents ==
  (IF kheap = NoKheap THEN {} ELSE {PageRun(kheap.base, kheap.alloc, MEM_K)})
  \cup {PageRun(regions[i].base, regions[i].alloc, MEM_U) : i \in DOMAIN regions}
  \cup {PageRun(pend[i].base, pend[i].size, IF i = 1 THEN MEM_U ELSE MEM_K) : i \in DOMAIN pend}

Pages == INSTANCE PageReserve WITH
  MaxRequest <- MaxChunk, extents <- HeapExtents, halted <- (status = "exhausted")

\* Every step of the heap is one reserve, one relinquish, or none, of the page
\* allocator, and what it gives back is a run it holds: the heap never leaks pages,
\* frees them twice or uses pages it does not own.
UsesPagesRight == Pages!Spec
=============================================================================
