---------------------------- MODULE KHeap_proofs ----------------------------
(***************************************************************************)
(* The kernel heap keeps its promises for every size of page, header and   *)
(* memory, and any number of regions, blocks and calls: it implements the  *)
(* abstract Allocator, uses the page allocator as PageReserve demands, and *)
(* its chunk tables list exactly the blocks the clients hold.              *)
(*                                                                         *)
(* None of this is inductive as it stands.  That cull removes the block it *)
(* was given needs that no other chunk has its address, so the invariant   *)
(* HeapInv says that the chunks of a region are in the order of their      *)
(* addresses (Ordered), inside the region (Framed, Overrun), and that the  *)
(* regions are on pages of their own (PagesOK).  Ordered and Framed hold   *)
(* even in a region where a block was culled between two free ones, whose  *)
(* chunks no longer tile it; that they tile it elsewhere is what makes     *)
(* alloc's size test safe.  That one new region is enough for a request,   *)
(* or none ever is, needs what alloc has found so far (CallOK).            *)
(*                                                                         *)
(* The accounts have an invariant of their own on top, AccountInv: a       *)
(* region's used_size is the running sum of what its chunks are charged    *)
(* (Billed), which a split, a merge and a move of the chunk array change   *)
(* in one place each, and the kernel region's account is that of the       *)
(* regions it lists (KernelBilled).                                        *)
(***************************************************************************)
EXTENDS KHeap, PageMap_proofs, SequenceTheorems

ChunkRec == [addr : Nat, size : Nat, flag : Flags]
RegionRec == [base : Nat, alloc : Nat, used : Int, chunks : Seq(ChunkRec)]

\* The chunks from the second on are in the order of their addresses, a header apart, and no
\* block reaches beyond the header of the next chunk.
Ordered(cs) ==
  \A i, j \in 2 .. Len(cs) :
    i < j => /\ cs[i].addr + CHUNK_INFO_SIZE <= cs[j].addr
             /\ cs[i].flag = RESERVED => cs[i].addr + cs[i].size + CHUNK_INFO_SIZE <= cs[j].addr

\* The chunk array is at the end of the region and the region info at its start.
Framed(r) ==
  LET cs == r.chunks
  IN  /\ Len(cs) >= 3
      /\ cs[1].addr + cs[1].size = r.base + r.alloc
      /\ cs[1].size = Len(cs) * CHUNK_ARR
      /\ cs[2].addr = r.base + CHUNK_INFO_SIZE
      /\ cs[2].size = REGION_INFO_SIZE
      /\ Flagged(r)
      /\ r.base >= ALIGN

\* Two free chunks are not neighbours.
Merged(cs) == \A j \in 3 .. (Len(cs) - 1) : ~(IsFree(cs[j]) /\ IsFree(cs[j + 1]))

\* A region after any sequence of calls.
Shaped(r) == r \in RegionRec /\ Framed(r) /\ Ordered(r.chunks)

\* The chunks of a region tile it and free ones are merged.
Neat(r) == Tiled(r) /\ Merged(r.chunks)

RegionsOK ==
  /\ regions \in Seq(RegionRec)
  /\ \A i \in DOMAIN regions :
       /\ Shaped(regions[i])
       /\ status # "corrupt" => ~Overrun(regions[i])
       /\ Sound(regions[i]) => Neat(regions[i])

\* The chunks of memory from base on.
PagesOf(base, size) == Run(base \div ALIGN, size \div ALIGN)

\* A whole number of pages, all marked in map u.
Whole(base, size) == \E f \in Nat, m \in Nat \ {0} : base = f * ALIGN /\ size = m * ALIGN
Owned(u, base, size) == Whole(base, size) /\ PagesOf(base, size) \subseteq u

Apart(b1, s1, b2, s2) == PagesOf(b1, s1) \cap PagesOf(b2, s2) = {}

\* Kernel region kh, regions regs and reserved pages pd have each pages of their own in map u.
Held(u, kh, regs, pd) ==
  /\ Owned(u, kh.base, kh.alloc)
  /\ \A i \in DOMAIN regs :
       /\ Owned(u, regs[i].base, regs[i].alloc)
       /\ Apart(kh.base, kh.alloc, regs[i].base, regs[i].alloc)
       /\ \A j \in DOMAIN regs : i # j => Apart(regs[i].base, regs[i].alloc, regs[j].base, regs[j].alloc)
       /\ \A j \in DOMAIN pd : Apart(regs[i].base, regs[i].alloc, pd[j].base, pd[j].size)
  /\ \A i \in DOMAIN pd :
       /\ Owned(u, pd[i].base, pd[i].size)
       /\ Apart(kh.base, kh.alloc, pd[i].base, pd[i].size)
       /\ \A j \in DOMAIN pd : i # j => Apart(pd[i].base, pd[i].size, pd[j].base, pd[j].size)

\* What the heap holds of the memory.
PagesOK ==
  /\ pc = "create" => kheap = NoKheap /\ regions = << >>
  /\ pc = "create_user" => regions = << >>
  /\ pc # "create" => KernelChunks > 0 /\ Held(used, kheap, regions, pend)

\* The pages reserved and not part of the heap yet, by the point the call has reached.
PendOK ==
  /\ pend \in Seq([base : Nat, size : Nat])
  /\ pc \in {"create", "create_user", "idle", "alloc", "region"} => pend = << >>
  /\ pc \in {"grow", "link"} => Len(pend) = 1
  /\ pc = "swap" => Len(pend) = 2
  /\ pend # << >> => pend[1].base >= ALIGN /\ pend[1].size = RegionSize(call.n)

\* What alloc knows of the regions: none had room when create_region was called, and the first
\* region created has room unless none ever will.
CallOK ==
  /\ call.op \in {"none", "new", "alt"} /\ call.n \in Nat /\ call.ptr \in Nat /\ created \in Nat
  /\ pc \in {"create", "create_user", "idle"} => created <= 1
  /\ pc \in {"region", "grow", "swap", "link"} =>
       /\ Roomy(call.n) = {}
       /\ Served(call.n) => created = 0
  /\ pc = "alloc" /\ created > 0 =>
       /\ Served(call.n) => created = 1
       /\ status # "corrupt" =>
            IF Served(call.n) THEN Roomy(call.n) # {} ELSE Roomy(call.n) = {}
  /\ status = "corrupt" => pc = "alloc" /\ created <= 1
  /\ pc \in {"alloc", "region", "grow", "swap", "link"} => call.op \in {"new", "alt"}
  /\ pc \in {"alloc", "region", "grow", "swap", "link"} /\ call.op = "alt" =>
       \E b \in live : b.addr = call.ptr

HeapInv ==
  /\ used \subseteq 0 .. (MaxChunk - 1)
  /\ pc \in {"create", "create_user", "idle", "alloc", "region", "grow", "swap", "link"}
  /\ status \in {"ok", "exhausted", "stale", "corrupt"}
  /\ sandwich = {} => status # "corrupt"
  /\ RegionsOK /\ PagesOK /\ PendOK /\ CallOK /\ BlocksMatch

-----------------------------------------------------------------------------
(* Chunk arrays *)

\* A function on 1 .. n is a sequence.
LEMMA FunIsSeq ==
  ASSUME NEW S, NEW n \in Nat, NEW e \in [1 .. n -> S]
  PROVE  e \in Seq(S) /\ Len(e) = n
<1>1. e \in Seq(S)
  BY SeqDef
<1>2. QED
  BY <1>1, LenProperties

\* The sizes of the layout are naturals.
LEMMA Layout ==
  /\ ALIGN \in Nat \ {0} /\ CHUNK_INFO_SIZE \in Nat \ {0} /\ CHUNK_ARR \in Nat \ {0}
  /\ REGION_INFO_SIZE \in Nat \ {0} /\ NEW_REGION_SIZE \in Nat
  /\ NEW_REGION_SIZE = REGION_INFO_SIZE + 3 * CHUNK_INFO_SIZE + 3 * CHUNK_ARR
  /\ ALIGN > NEW_REGION_SIZE
BY LayoutAssumption DEF NEW_REGION_SIZE

\* One slot more or less of the chunk array.
LEMMA Slots == \A k \in Nat : (k + 1) * CHUNK_ARR = k * CHUNK_ARR + CHUNK_ARR /\ k * CHUNK_ARR \in Nat
BY Layout

\* What is known of the chunks of a region.
LEMMA ShapedChunks ==
  ASSUME NEW r, Shaped(r)
  PROVE  /\ r.base \in Nat /\ r.alloc \in Nat /\ r.used \in Int /\ r.chunks \in Seq(ChunkRec)
         /\ Len(r.chunks) \in Nat /\ Len(r.chunks) >= 3 /\ DOMAIN r.chunks = 1 .. Len(r.chunks)
         /\ \A i \in 1 .. Len(r.chunks) :
              /\ r.chunks[i] \in ChunkRec
              /\ r.chunks[i].addr \in Nat /\ r.chunks[i].size \in Nat /\ r.chunks[i].flag \in Flags
<1>1. r.base \in Nat /\ r.alloc \in Nat /\ r.used \in Int /\ r.chunks \in Seq(ChunkRec)
  BY DEF Shaped, RegionRec
<1>2. Len(r.chunks) \in Nat /\ DOMAIN r.chunks = 1 .. Len(r.chunks)
  BY <1>1, LenProperties
<1>3. \A i \in 1 .. Len(r.chunks) : r.chunks[i] \in ChunkRec
  BY <1>1, ElementOfSeq
<1>4. QED
  BY <1>1, <1>2, <1>3 DEF Shaped, Framed, ChunkRec

\* A chunk with another address and size.
LEMMA ChunkSet ==
  ASSUME NEW c \in ChunkRec, NEW a, NEW z
  PROVE  [[c EXCEPT !.addr = a] EXCEPT !.size = z] = Chunk(a, z, c.flag)
<1>1. [c EXCEPT !.addr = a] = [addr |-> a, size |-> c.size, flag |-> c.flag]
  BY DEF ChunkRec
<1> DEFINE d == [c EXCEPT !.addr = a]
           y == c.size
           f == c.flag
<1> HIDE DEF y, f
<1>2. [[addr |-> a, size |-> y, flag |-> f] EXCEPT !.size = z] = [addr |-> a, size |-> z, flag |-> f]
  OBVIOUS
<1>3. d = [addr |-> a, size |-> y, flag |-> f]
  BY <1>1 DEF y, f
<1> HIDE DEF d
<1>4. [d EXCEPT !.size = z] = [addr |-> a, size |-> z, flag |-> f]
  BY <1>2, <1>3
<1>5. QED
  BY <1>4 DEF d, f, Chunk

\* Chunk array ds is cs with the last chunk split: n bytes are taken and the rest is free.
Split(cs, ds, n) ==
  LET k == Len(cs)
  IN  /\ ds \in Seq(ChunkRec) /\ Len(ds) = k + 1
      /\ ds[1] = Chunk(cs[1].addr - CHUNK_ARR, (k + 1) * CHUNK_ARR, cs[1].flag)
      /\ \A i \in 2 .. k - 1 : ds[i] = cs[i]
      /\ ds[k] = Chunk(cs[k].addr, n, RESERVED)
      /\ ds[k + 1] = Chunk(cs[k].addr + n + CHUNK_INFO_SIZE, cs[k].size - Cost(n), UNALLOCATED)

\* Arithmetic of the merges.
LEMMA Sums ==
  /\ \A x, y, z \in Nat : x + y + z \in Nat /\ x + y + z = z + y + x
  /\ \A x, y, z, h \in Nat : x + h <= y /\ y + h <= z => x <= y /\ y <= z
OBVIOUS

\* What Carve does.
LEMMA CarveEffect ==
  ASSUME NEW r, Shaped(r), NEW n \in Nat, Fits(r, n), r.chunks[1].addr - CHUNK_ARR \in Nat
  PROVE  LET q == Carve(r, n)
         IN  /\ q.base = r.base /\ q.alloc = r.alloc /\ q \in RegionRec /\ q.used = r.used + Cost(n)
             /\ Split(r.chunks, q.chunks, n)
<1> DEFINE cs == r.chunks
           k == Len(cs)
           free == cs[k]
           c1 == Chunk(cs[1].addr - CHUNK_ARR, (k + 1) * CHUNK_ARR, cs[1].flag)
           ck == Chunk(free.addr, n, RESERVED)
           cn == Chunk(free.addr + n + CHUNK_INFO_SIZE, free.size - Cost(n), UNALLOCATED)
           grown == [[cs EXCEPT ![1] = c1] EXCEPT ![k] = ck]
           ds == Append(grown, cn)
           q == Carve(r, n)
<1>1. /\ cs \in Seq(ChunkRec) /\ k \in Nat /\ k >= 3 /\ free.addr \in Nat /\ free.size \in Nat
      /\ DOMAIN cs = 1 .. k /\ cs[1] \in ChunkRec
  BY ShapedChunks
<1>2. c1 \in ChunkRec
  <2>1. (k + 1) * CHUNK_ARR \in Nat
    BY <1>1, Layout
  <2>2. cs[1].flag \in Flags
    BY <1>1, ShapedChunks
  <2>3. QED
    BY <2>1, <2>2 DEF Chunk, ChunkRec
<1>3. ck \in ChunkRec
  BY <1>1 DEF Chunk, ChunkRec, Flags
<1>4. cn \in ChunkRec
  <2>1. free.size - Cost(n) \in Nat
    <3>1. free.size > Cost(n)
      BY DEF Fits, Last
    <3>2. Cost(n) \in Nat
      BY Layout DEF Cost
    <3> HIDE DEF free
    <3>3. QED
      BY <1>1, <3>1, <3>2
  <2>2. free.addr + n + CHUNK_INFO_SIZE \in Nat
    BY <1>1, Layout, Sums
  <2>3. QED
    BY <2>1, <2>2 DEF Chunk, ChunkRec, Flags
<1>5. [cs EXCEPT ![1].addr = @ - CHUNK_ARR, ![1].size = (k + 1) * CHUNK_ARR,
                 ![k] = Chunk(free.addr, n, RESERVED)] = grown
  <2>1. [[cs[1] EXCEPT !.addr = @ - CHUNK_ARR] EXCEPT !.size = (k + 1) * CHUNK_ARR] = c1
    BY <1>1, ChunkSet
  <2>2. QED
    BY <1>1, <2>1
<1>6. q = [[r EXCEPT !.used = @ + Cost(n)] EXCEPT !.chunks = ds]
  BY <1>5 DEF Carve
<1> HIDE DEF c1, ck, cn, grown, ds
<1>7. /\ grown \in Seq(ChunkRec) /\ Len(grown) = k /\ grown[1] = c1 /\ grown[k] = ck
      /\ \A i \in 2 .. k - 1 : grown[i] = cs[i]
  <2> DEFINE g1 == [cs EXCEPT ![1] = c1]
  <2>1. g1 \in Seq(ChunkRec) /\ Len(g1) = k /\ \A j \in 1 .. k : g1[j] = IF j = 1 THEN c1 ELSE cs[j]
    BY <1>1, <1>2, ExceptSeq
  <2>2. grown = [g1 EXCEPT ![k] = ck]
    BY DEF grown
  <2> HIDE DEF g1
  <2>3. /\ grown \in Seq(ChunkRec) /\ Len(grown) = k
        /\ \A j \in 1 .. k : grown[j] = IF j = k THEN ck ELSE g1[j]
    BY <1>1, <1>3, <2>1, <2>2, ExceptSeq
  <2>4. grown[1] = c1 /\ grown[k] = ck
    BY <1>1, <2>1, <2>3
  <2>5. \A i \in 2 .. k - 1 : i \in 1 .. k /\ i # 1 /\ i # k
    BY <1>1
  <2>6. \A i \in 2 .. k - 1 : grown[i] = cs[i]
    BY <2>1, <2>3, <2>5
  <2>7. QED
    BY <2>3, <2>4, <2>6
<1>8. /\ ds \in Seq(ChunkRec) /\ Len(ds) = k + 1 /\ ds[k + 1] = cn
      /\ \A i \in 1 .. k : ds[i] = grown[i]
  BY <1>1, <1>4, <1>7, AppendProperties DEF ds
<1>9. Split(cs, ds, n)
  <2>1. 1 \in 1 .. k /\ k \in 1 .. k /\ \A i \in 2 .. k - 1 : i \in 1 .. k
    BY <1>1
  <2>2. ds[1] = c1 /\ ds[k] = ck /\ \A i \in 2 .. k - 1 : ds[i] = cs[i]
    BY <1>7, <1>8, <2>1
  <2>3. ds[1] = Chunk(cs[1].addr - CHUNK_ARR, (k + 1) * CHUNK_ARR, cs[1].flag)
    BY <2>2 DEF c1
  <2>4. ds[k] = Chunk(cs[k].addr, n, RESERVED)
    BY <2>2 DEF ck
  <2>5. ds[k + 1] = Chunk(cs[k].addr + n + CHUNK_INFO_SIZE, cs[k].size - Cost(n), UNALLOCATED)
    BY <1>8 DEF cn
  <2>6. QED
    BY <1>8, <2>2, <2>3, <2>4, <2>5, Zenon DEF Split
<1>10. q.chunks = ds /\ q.base = r.base /\ q.alloc = r.alloc /\ q.used = r.used + Cost(n) /\ q \in RegionRec
  <2>1. r \in RegionRec /\ Cost(n) \in Int
    BY Layout DEF Shaped, Cost
  <2>2. r.used + Cost(n) \in Int
    BY <2>1 DEF RegionRec
  <2> HIDE DEF q
  <2>3. QED
    BY <1>6, <1>8, <2>1, <2>2 DEF RegionRec
<1>11. QED
  BY <1>9, <1>10

\* The fields of the chunks that Split changes.
LEMMA SplitFields ==
  ASSUME NEW cs, NEW ds, NEW n, Split(cs, ds, n)
  PROVE  LET k == Len(cs)
         IN  /\ ds[1].addr = cs[1].addr - CHUNK_ARR /\ ds[1].size = (k + 1) * CHUNK_ARR /\ ds[1].flag = cs[1].flag
             /\ ds[k].addr = cs[k].addr /\ ds[k].size = n /\ ds[k].flag = RESERVED
             /\ ds[k + 1].addr = cs[k].addr + n + CHUNK_INFO_SIZE
             /\ ds[k + 1].size = cs[k].size - Cost(n) /\ ds[k + 1].flag = UNALLOCATED
<1>1. \A a, z, f : Chunk(a, z, f).addr = a /\ Chunk(a, z, f).size = z /\ Chunk(a, z, f).flag = f
  BY DEF Chunk
<1>2. QED
  BY <1>1 DEF Split

\* A region with room stays well formed when a block is carved from it, gains exactly that block,
\* and keeps its chunks from the chunk array if they tiled it before.
LEMMA SplitShaped ==
  ASSUME NEW r, NEW q, NEW n \in Nat, Shaped(r), ~Overrun(r), Fits(r, n),
         q \in RegionRec, q.base = r.base, q.alloc = r.alloc, Split(r.chunks, q.chunks, n)
  PROVE  /\ Shaped(q)
         /\ Blocks(q) = Blocks(r) \cup {[addr |-> Last(r.chunks).addr, size |-> n]}
         /\ Neat(r) => Neat(q) /\ ~Overrun(q)
<1> DEFINE cs == r.chunks
           ds == q.chunks
           k == Len(cs)
<1>1. /\ r.base \in Nat /\ r.alloc \in Nat /\ k \in Nat /\ k >= 3
      /\ \A i \in 1 .. k : cs[i].addr \in Nat /\ cs[i].size \in Nat
  BY ShapedChunks
<1>2. /\ Len(ds) = k + 1 /\ \A i \in 2 .. k - 1 : ds[i] = cs[i]
      /\ ds[k] = Chunk(cs[k].addr, n, RESERVED)
  BY DEF Split
<1>3. /\ ds[1].addr = cs[1].addr - CHUNK_ARR /\ ds[1].size = (k + 1) * CHUNK_ARR /\ ds[1].flag = cs[1].flag
      /\ ds[k].addr = cs[k].addr /\ ds[k].size = n /\ ds[k].flag = RESERVED
      /\ ds[k + 1].addr = cs[k].addr + n + CHUNK_INFO_SIZE
      /\ ds[k + 1].size = cs[k].size - Cost(n) /\ ds[k + 1].flag = UNALLOCATED
  BY SplitFields
<1>4. /\ cs[1].addr + cs[1].size = r.base + r.alloc /\ cs[1].size = k * CHUNK_ARR
      /\ cs[2].addr = r.base + CHUNK_INFO_SIZE /\ cs[2].size = REGION_INFO_SIZE
      /\ cs[1].flag = RESERVED /\ cs[2].flag = RESERVED /\ cs[k].flag = UNALLOCATED /\ r.base >= ALIGN
  BY DEF Shaped, Framed, Flagged, Last
<1>5. /\ (k + 1) * CHUNK_ARR = k * CHUNK_ARR + CHUNK_ARR /\ k * CHUNK_ARR \in Nat
      /\ CHUNK_ARR \in Nat /\ CHUNK_INFO_SIZE \in Nat
  BY <1>1, Slots, Layout
<1>6. Ordered(cs)
  BY DEF Shaped
<1> HIDE DEF cs, ds, k
<1>7. Framed(q)
  <2>1. ds[2] = cs[2] /\ 2 \in 2 .. k - 1
    BY <1>1, <1>2, SMTT(30)
  <2>2. ds[1].addr + ds[1].size = q.base + q.alloc
    BY <1>1, <1>3, <1>4, <1>5
  <2>3. Flagged(q)
    BY <1>2, <1>3, <1>4, <2>1 DEF Flagged, Last, ds
  <2>4. QED
    BY <1>1, <1>2, <1>3, <1>4, <2>1, <2>2, <2>3 DEF Framed, ds
<1>8. Ordered(ds)
  <2> SUFFICES ASSUME NEW i \in 2 .. k + 1, NEW j \in 2 .. k + 1, i < j
               PROVE  /\ ds[i].addr + CHUNK_INFO_SIZE <= ds[j].addr
                      /\ ds[i].flag = RESERVED => ds[i].addr + ds[i].size + CHUNK_INFO_SIZE <= ds[j].addr
    BY <1>2 DEF Ordered
  <2>1. CASE j <= k
    <3>1. i \in 2 .. k /\ j \in 2 .. k /\ i \in 2 .. k - 1 /\ ds[i] = cs[i] /\ ds[j].addr = cs[j].addr
      <4>1. i \in 2 .. k /\ j \in 2 .. k /\ i \in 2 .. k - 1 /\ (j = k \/ j \in 2 .. k - 1)
        BY <1>1, <2>1
      <4>2. QED
        BY <1>2, <1>3, <4>1
    <3>2. QED
      BY <1>6, <3>1 DEF Ordered, k
  <2>2. CASE j = k + 1 /\ i = k
    BY <1>1, <1>3, <1>5, <2>2
  <2>3. CASE j = k + 1 /\ i < k
    <3>0. i \in 2 .. k - 1 /\ i \in 2 .. k /\ k \in 2 .. k
      BY <1>1, <2>3
    <3>1. i \in 2 .. k /\ k \in 2 .. k /\ ds[i] = cs[i]
      BY <1>2, <3>0
    <3>2. /\ cs[i].addr + CHUNK_INFO_SIZE <= cs[k].addr
          /\ cs[i].flag = RESERVED => cs[i].addr + cs[i].size + CHUNK_INFO_SIZE <= cs[k].addr
      BY <1>6, <2>3, <3>1 DEF Ordered, k
    <3>3. cs[i].addr \in Nat /\ cs[i].size \in Nat /\ cs[k].addr \in Nat
      BY <1>1, <3>1
    <3>4. QED
      BY <1>3, <1>5, <2>3, <3>1, <3>2, <3>3
  <2>4. QED
    BY <1>1, <2>1, <2>2, <2>3
<1>9. Shaped(q)
  BY <1>7, <1>8 DEF Shaped, ds
<1>10. Blocks(q) = Blocks(r) \cup {[addr |-> Last(r.chunks).addr, size |-> n]}
  <2> DEFINE b == [addr |-> cs[k].addr, size |-> n]
             B(c) == [addr |-> c.addr, size |-> c.size]
             I == {i \in 3 .. k : cs[i].flag = RESERVED}
             J == {i \in 3 .. k + 1 : ds[i].flag = RESERVED}
  <2>1. Blocks(r) = {B(cs[i]) : i \in I} /\ Blocks(q) = {B(ds[i]) : i \in J}
    BY <1>2 DEF Blocks, cs, ds, k
  <2>2. k \notin I /\ k \in J /\ k + 1 \notin J /\ B(ds[k]) = b
    BY <1>1, <1>3, <1>4 DEF RESERVED, UNALLOCATED
  <2>3. \A i \in 3 .. k - 1 : (i \in I <=> i \in J) /\ B(ds[i]) = B(cs[i])
    BY <1>1, <1>2
  <2>4. I \subseteq 3 .. k - 1 /\ J \subseteq (3 .. k - 1) \cup {k}
    BY <1>1, <2>2
  <2> HIDE DEF B, I, J, b
  <2>5. {B(ds[i]) : i \in J} = {B(cs[i]) : i \in I} \cup {b}
    BY <2>2, <2>3, <2>4
  <2>6. b = [addr |-> Last(r.chunks).addr, size |-> n]
    BY DEF b, cs, k, Last
  <2>7. QED
    BY <2>1, <2>5, <2>6
<1>11. ASSUME Neat(r)
       PROVE  Neat(q) /\ ~Overrun(q)
  <2>1. /\ \A i \in 2 .. (k - 1) : Abuts(cs[i], cs[i + 1])
        /\ cs[1].addr = cs[k].addr + cs[k].size + CHUNK_INFO_SIZE
        /\ Merged(cs)
    BY <1>11 DEF Neat, Tiled, Abuts, cs, k
  <2>2. cs[k].size > Cost(n) /\ Cost(n) = n + CHUNK_INFO_SIZE + CHUNK_ARR
    BY DEF Fits, Last, cs, k, Cost
  <2>3. \A i \in 2 .. k : Abuts(ds[i], ds[i + 1])
    <3>1. ASSUME NEW i \in 2 .. k - 2
          PROVE  Abuts(ds[i], ds[i + 1])
      <4>1. i \in 2 .. k - 1 /\ i + 1 \in 2 .. k - 1
        BY <1>1
      <4>2. QED
        BY <1>2, <2>1, <4>1
    <3>2. ds[k - 1] = cs[k - 1] /\ k - 1 \in 2 .. k - 1 /\ (k - 1) + 1 = k
      BY <1>1, <1>2
    <3>3. Abuts(ds[k - 1], ds[(k - 1) + 1])
      BY <1>3, <2>1, <3>2 DEF Abuts
    <3>4. Abuts(ds[k], ds[k + 1])
      BY <1>3 DEF Abuts
    <3>5. \A i \in 2 .. k : i \in 2 .. k - 2 \/ i = k - 1 \/ i = k
      BY <1>1
    <3>6. QED
      BY <3>1, <3>3, <3>4, <3>5
  <2>4. Abuts(ds[k + 1], ds[1])
    <3>1. cs[k].addr \in Nat /\ cs[k].size \in Nat
      BY <1>1
    <3>2. QED
      BY <1>1, <1>3, <1>5, <2>1, <2>2, <3>1 DEF Abuts
  <2>5. Tiled(q)
    BY <1>1, <1>2, <1>7, <2>3, <2>4 DEF Tiled, Framed, ds
  <2>6. Merged(ds)
    <3> SUFFICES ASSUME NEW j \in 3 .. k
                 PROVE  ~(IsFree(ds[j]) /\ IsFree(ds[j + 1]))
      BY <1>1, <1>2 DEF Merged
    <3>1. CASE j = k
      BY <1>3, <3>1 DEF IsFree, RESERVED, UNALLOCATED, CULLED
    <3>2. CASE j = k - 1
      BY <1>1, <1>3, <3>2 DEF IsFree, RESERVED, UNALLOCATED, CULLED
    <3>3. CASE j < k - 1
      <4>0. j \in 3 .. k - 1 /\ j \in 2 .. k - 1 /\ j + 1 \in 2 .. k - 1
        BY <1>1, <3>3
      <4>1. ds[j] = cs[j] /\ ds[j + 1] = cs[j + 1] /\ j \in 3 .. k - 1
        BY <1>2, <4>0
      <4>2. QED
        BY <2>1, <4>1 DEF Merged, k
    <3>4. QED
      BY <1>1, <3>1, <3>2, <3>3
  <2>7. ~Overrun(q)
    <3>1. cs[k].addr \in Nat /\ cs[k].size \in Nat
      BY <1>1
    <3>2. ds[k + 1].addr <= ds[1].addr - CHUNK_INFO_SIZE
      BY <1>1, <1>3, <1>5, <2>1, <2>2, <3>1
    <3>3. ds[k + 1].addr \in Int /\ ds[1].addr \in Int
      BY <1>1, <1>3, <1>5, <3>1
    <3>4. Last(q.chunks) = ds[k + 1] /\ q.chunks[1] = ds[1]
      BY <1>2 DEF Last, ds
    <3>5. ~(ds[k + 1].addr > ds[1].addr - CHUNK_INFO_SIZE)
      BY <1>5, <3>2, <3>3
    <3>6. QED
      BY <3>4, <3>5 DEF Overrun
  <2>8. QED
    BY <2>5, <2>6, <2>7 DEF Neat, ds
<1>12. QED
  BY <1>9, <1>10, <1>11

\* The chunk that is at i after chunk j was dropped and c put into its place.
After(cs, j, c, i) == IF i = j THEN c ELSE IF i < j THEN cs[i] ELSE cs[i + 1]

\* Chunk array ds is cs without chunk j, with c in its place, a slot smaller, which the last chunk gains.
Dropped(cs, ds, j, c) ==
  LET k == Len(cs) - 1
  IN  /\ ds \in Seq(ChunkRec) /\ Len(ds) = k
      /\ ds[1].addr = cs[1].addr + CHUNK_ARR /\ ds[1].size = cs[1].size - CHUNK_ARR /\ ds[1].flag = cs[1].flag
      /\ \A i \in 2 .. k : /\ ds[i].addr = After(cs, j, c, i).addr
                           /\ ds[i].flag = After(cs, j, c, i).flag
                           /\ i < k => ds[i].size = After(cs, j, c, i).size
      /\ ds[k].size = After(cs, j, c, k).size + CHUNK_ARR

\* An update of the first and the last element is one of each.
LEMMA EndsChanged ==
  ASSUME NEW m, NEW k \in Nat, k # 1, NEW C, DOMAIN m = 1 .. k
  PROVE  [m EXCEPT ![1].addr = @ + C, ![1].size = @ - C, ![k].size = @ + C] =
           [[m EXCEPT ![1] = [m[1] EXCEPT !.addr = @ + C, !.size = @ - C]]
              EXCEPT ![k] = [m[k] EXCEPT !.size = @ + C]]
OBVIOUS

\* What DropSlot does.
LEMMA DropEffect ==
  ASSUME NEW cs \in Seq(ChunkRec), Len(cs) >= 4, NEW j \in 3 .. Len(cs) - 1, NEW c \in ChunkRec,
         cs[1].size - CHUNK_ARR \in Nat
  PROVE  Dropped(cs, DropSlot(cs, j, c), j, c)
<1> DEFINE k == Len(cs) - 1
           merged == [i \in 1 .. k |-> IF i = j THEN c ELSE IF i < j THEN cs[i] ELSE cs[i + 1]]
           c1 == Chunk(cs[1].addr + CHUNK_ARR, cs[1].size - CHUNK_ARR, cs[1].flag)
           z == merged[k].size + CHUNK_ARR
           ck == [merged[k] EXCEPT !.size = z]
           g1 == [merged EXCEPT ![1] = c1]
           ds == [g1 EXCEPT ![k] = ck]
<1>1. Len(cs) \in Nat /\ k \in Nat /\ k >= 3 /\ \A i \in 1 .. Len(cs) : cs[i] \in ChunkRec
  BY ElementOfSeq, LenProperties
<1>2. /\ merged \in [1 .. k -> ChunkRec] /\ merged[1] = cs[1]
      /\ \A i \in 2 .. k : merged[i] = After(cs, j, c, i)
  <2>1. ASSUME NEW i \in 1 .. k
        PROVE  (IF i = j THEN c ELSE IF i < j THEN cs[i] ELSE cs[i + 1]) \in ChunkRec
    <3>1. i \in 1 .. Len(cs) /\ i + 1 \in 1 .. Len(cs)
      BY <1>1
    <3>2. QED
      BY <1>1, <3>1
  <2>2. merged[1] = cs[1]
    BY <1>1
  <2>3. QED
    BY <1>1, <2>1, <2>2 DEF After
<1>3. DropSlot(cs, j, c) = ds
  <2>1. DropSlot(cs, j, c) = [merged EXCEPT ![1].addr = @ + CHUNK_ARR, ![1].size = @ - CHUNK_ARR,
                                             ![k].size = @ + CHUNK_ARR]
    BY DEF DropSlot
  <2>2. [merged[1] EXCEPT !.addr = @ + CHUNK_ARR, !.size = @ - CHUNK_ARR] = c1
    <3>1. cs[1] \in ChunkRec
      BY <1>1
    <3>2. [cs[1] EXCEPT !.addr = @ + CHUNK_ARR, !.size = @ - CHUNK_ARR] = c1
      BY <3>1, ChunkSet
    <3> HIDE DEF merged, c1
    <3>3. QED
      BY <1>2, <3>2
  <2>3. DOMAIN merged = 1 .. k /\ k \in Nat /\ k # 1
    BY <1>1
  <2> HIDE DEF merged, c1
  <2>4. DropSlot(cs, j, c) = [[merged EXCEPT ![1] = [merged[1] EXCEPT !.addr = @ + CHUNK_ARR, !.size = @ - CHUNK_ARR]]
                                EXCEPT ![k] = [merged[k] EXCEPT !.size = @ + CHUNK_ARR]]
    BY <2>1, <2>3, EndsChanged, ZenonT(60)
  <2>5. QED
    BY <2>2, <2>4
<1>4. c1 \in ChunkRec /\ c1.addr = cs[1].addr + CHUNK_ARR /\ c1.size = cs[1].size - CHUNK_ARR /\ c1.flag = cs[1].flag
  <2>1. cs[1].addr \in Nat /\ cs[1].flag \in Flags
    BY <1>1 DEF ChunkRec
  <2>2. cs[1].addr + CHUNK_ARR \in Nat
    BY <2>1, Layout
  <2>3. QED
    BY <2>1, <2>2, SMTT(30) DEF Chunk, ChunkRec
<1> HIDE DEF merged, c1
<1>5. /\ ck \in ChunkRec /\ ck.addr = merged[k].addr /\ ck.flag = merged[k].flag
      /\ ck.size = merged[k].size + CHUNK_ARR
  <2>1. merged[k] \in ChunkRec /\ z \in Nat
    <3>1. merged[k] \in ChunkRec
      BY <1>1, <1>2
    <3>2. merged[k].size \in Nat
      BY <3>1 DEF ChunkRec
    <3>3. z \in Nat
      BY <3>2, Layout
    <3>4. QED
      BY <3>1, <3>3
  <2> HIDE DEF z
  <2>2. ck \in ChunkRec /\ ck.addr = merged[k].addr /\ ck.flag = merged[k].flag /\ ck.size = z
    BY <2>1 DEF ChunkRec
  <2>3. QED
    BY <2>2 DEF z
<1> HIDE DEF ck
<1>6. /\ ds \in [1 .. k -> ChunkRec] /\ ds[1] = c1 /\ ds[k] = ck
      /\ \A i \in 2 .. k : i < k => ds[i] = merged[i]
  <2>1. g1 \in [1 .. k -> ChunkRec] /\ g1[1] = c1 /\ \A i \in 2 .. k : g1[i] = merged[i]
    BY <1>1, <1>2, <1>4
  <2> HIDE DEF g1
  <2>2. QED
    BY <1>1, <1>5, <2>1
<1> HIDE DEF ds
<1>7. ds \in Seq(ChunkRec) /\ Len(ds) = k
  BY <1>1, <1>6, FunIsSeq
<1>8. \A i \in 2 .. k : i < k \/ i = k
  BY <1>1
<1>9. Dropped(cs, ds, j, c)
  BY <1>1, <1>2, <1>4, <1>5, <1>6, <1>7, <1>8 DEF Dropped
<1>10. QED
  BY <1>3, <1>9

\* Two free neighbours j and j + 1 of region r became one chunk c of region q, which starts
\* where one of them did or in between.
Joined(r, q, j, c) ==
  LET cs == r.chunks
  IN  /\ j \in 3 .. Len(cs) - 1 /\ c \in ChunkRec /\ c.flag = UNALLOCATED
      /\ IsFree(cs[j]) /\ IsFree(cs[j + 1])
      /\ cs[j].addr <= c.addr /\ c.addr <= cs[j + 1].addr
      /\ q \in RegionRec /\ q.base = r.base /\ q.alloc = r.alloc
      /\ Dropped(cs, q.chunks, j, c)

\* Chunk c is where chunk j was and as large as both.
Exact(cs, j, c) ==
  c.addr = cs[j].addr /\ c.size = cs[j].size + CHUNK_INFO_SIZE + cs[j + 1].size

\* No two neighbours but j and j + 1 are free.
MergedBut(cs, j) ==
  \A i \in 3 .. (Len(cs) - 1) : i # j => ~(IsFree(cs[i]) /\ IsFree(cs[i + 1]))

\* A region stays well formed when two free neighbours are joined, and has the same blocks;
\* its chunks still tile it if the new chunk starts where the first of them did.
LEMMA JoinShaped ==
  ASSUME NEW r, NEW q, NEW j, NEW c, Shaped(r), Joined(r, q, j, c)
  PROVE  /\ Shaped(q)
         /\ Blocks(q) = Blocks(r)
         /\ ~Overrun(r) => ~Overrun(q)
         /\ Tiled(r) /\ Exact(r.chunks, j, c) => Tiled(q)
         /\ MergedBut(r.chunks, j) => Merged(q.chunks)
<1> DEFINE cs == r.chunks
           ds == q.chunks
           k == Len(cs) - 1
<1>1. /\ r.base \in Nat /\ r.alloc \in Nat /\ k \in Nat /\ Len(cs) = k + 1 /\ Len(ds) = k
      /\ \A i \in 1 .. k + 1 : cs[i].addr \in Nat /\ cs[i].size \in Nat
      /\ j \in 3 .. k /\ k >= 3
  BY ShapedChunks, SMTT(30) DEF Joined, Dropped
<1>2. /\ c.addr \in Nat /\ c.size \in Nat /\ c.flag = UNALLOCATED /\ IsFree(cs[j]) /\ IsFree(cs[j + 1])
      /\ cs[j].addr <= c.addr /\ c.addr <= cs[j + 1].addr
  BY DEF Joined, ChunkRec
<1>3. /\ ds[1].addr = cs[1].addr + CHUNK_ARR /\ ds[1].size = cs[1].size - CHUNK_ARR /\ ds[1].flag = cs[1].flag
      /\ \A i \in 2 .. k : /\ ds[i].addr = After(cs, j, c, i).addr
                           /\ ds[i].flag = After(cs, j, c, i).flag
                           /\ i < k => ds[i].size = After(cs, j, c, i).size
      /\ ds[k].size = After(cs, j, c, k).size + CHUNK_ARR
  BY DEF Joined, Dropped
<1>4. /\ cs[1].addr + cs[1].size = r.base + r.alloc /\ cs[1].size = (k + 1) * CHUNK_ARR
      /\ cs[2].addr = r.base + CHUNK_INFO_SIZE /\ cs[2].size = REGION_INFO_SIZE
      /\ cs[1].flag = RESERVED /\ cs[2].flag = RESERVED /\ cs[k + 1].flag = UNALLOCATED /\ r.base >= ALIGN
  BY <1>1 DEF Shaped, Framed, Flagged, Last
<1>5. /\ (k + 1) * CHUNK_ARR = k * CHUNK_ARR + CHUNK_ARR /\ k * CHUNK_ARR \in Nat
      /\ CHUNK_ARR \in Nat /\ CHUNK_INFO_SIZE \in Nat
  BY <1>1, Slots, Layout
<1>6. \A i, m \in 2 .. k + 1 :
        i < m => /\ cs[i].addr + CHUNK_INFO_SIZE <= cs[m].addr
                 /\ cs[i].flag = RESERVED => cs[i].addr + cs[i].size + CHUNK_INFO_SIZE <= cs[m].addr
  BY <1>1 DEF Shaped, Ordered
<1>7. /\ ~IsFree(cs[2]) /\ cs[j].flag # RESERVED /\ cs[j + 1].flag # RESERVED /\ c.flag # RESERVED
      /\ q \in RegionRec /\ q.base = r.base /\ q.alloc = r.alloc
  BY <1>2, <1>4 DEF IsFree, RESERVED, UNALLOCATED, CULLED, Joined
<1>8. \A i \in 2 .. k : /\ i < j => After(cs, j, c, i) = cs[i] /\ i \in 2 .. k + 1
                        /\ i > j => After(cs, j, c, i) = cs[i + 1] /\ i + 1 \in 2 .. k + 1
                        /\ i = j => After(cs, j, c, i) = c
  BY <1>1 DEF After
<1> HIDE DEF cs, ds, k
<1>9. Framed(q)
  <2>1. 2 \in 2 .. k /\ 2 < j /\ 2 < k /\ k \in 2 .. k
    BY <1>1
  <2>2. ds[2].addr = cs[2].addr /\ ds[2].size = cs[2].size /\ ds[2].flag = cs[2].flag
    BY <1>3, <1>8, <2>1
  <2>3. ds[k].flag = UNALLOCATED
    <3>1. ds[k].flag = After(cs, j, c, k).flag
      BY <1>3, <2>1
    <3>2. After(cs, j, c, k) = c \/ After(cs, j, c, k) = cs[k + 1]
      <4>1. k = j \/ k > j
        BY <1>1
      <4>2. QED
        BY <1>8, <2>1, <4>1
    <3>3. QED
      BY <1>2, <1>4, <3>1, <3>2
  <2>4. ds[1].addr + ds[1].size = q.base + q.alloc /\ ds[1].size = k * CHUNK_ARR
    <3>1. cs[1].addr \in Nat /\ cs[1].size \in Nat
      BY <1>1
    <3>2. QED
      BY <1>1, <1>3, <1>4, <1>5, <1>7, <3>1
  <2>5. Flagged(q)
    BY <1>1, <1>3, <1>4, <2>2, <2>3 DEF Flagged, Last, ds
  <2>6. QED
    BY <1>1, <1>4, <1>7, <2>2, <2>4, <2>5 DEF Framed, ds
<1>10. Ordered(ds)
  <2> SUFFICES ASSUME NEW i \in 2 .. k, NEW m \in 2 .. k, i < m
               PROVE  /\ ds[i].addr + CHUNK_INFO_SIZE <= ds[m].addr
                      /\ ds[i].flag = RESERVED => ds[i].addr + ds[i].size + CHUNK_INFO_SIZE <= ds[m].addr
    BY <1>1 DEF Ordered
  <2> DEFINE a == After(cs, j, c, i)
             b == After(cs, j, c, m)
  <2>0. i < k
    BY <1>1
  <2>1. ds[i].addr = a.addr /\ ds[i].flag = a.flag /\ ds[i].size = a.size /\ ds[m].addr = b.addr
    BY <1>3, <2>0
  <2> HIDE DEF a, b
  <2>2. a.addr + CHUNK_INFO_SIZE <= b.addr /\ (a.flag = RESERVED => a.addr + a.size + CHUNK_INFO_SIZE <= b.addr)
    <3>0. j \in 2 .. k + 1 /\ j + 1 \in 2 .. k + 1
      BY <1>1
    <3>1. CASE i < j /\ m < j
      BY <1>6, <1>8, <3>1 DEF a, b
    <3>2. CASE i < j /\ m = j
      <4>1. a = cs[i] /\ b = c /\ i \in 2 .. k + 1
        BY <1>8, <3>2 DEF a, b
      <4>2. /\ cs[i].addr + CHUNK_INFO_SIZE <= cs[j].addr
            /\ cs[i].flag = RESERVED => cs[i].addr + cs[i].size + CHUNK_INFO_SIZE <= cs[j].addr
        BY <1>6, <3>0, <3>2, <4>1
      <4>3. cs[i].addr \in Nat /\ cs[i].size \in Nat /\ cs[j].addr \in Nat
        BY <1>1, <3>0, <4>1
      <4>4. QED
        BY <1>2, <1>5, <4>1, <4>2, <4>3
    <3>3. CASE i < j /\ m > j
      <4>1. a = cs[i] /\ b = cs[m + 1] /\ i \in 2 .. k + 1 /\ m + 1 \in 2 .. k + 1 /\ i < m + 1
        BY <1>1, <1>8, <3>3 DEF a, b
      <4>2. QED
        BY <1>6, <4>1
    <3>4. CASE i = j
      <4>1. a = c /\ b = cs[m + 1] /\ m + 1 \in 2 .. k + 1 /\ j + 1 < m + 1
        BY <1>1, <1>8, <3>4 DEF a, b
      <4>2. cs[j + 1].addr + CHUNK_INFO_SIZE <= cs[m + 1].addr
        BY <1>6, <3>0, <4>1
      <4>3. cs[j + 1].addr \in Nat /\ cs[m + 1].addr \in Nat
        BY <1>1, <3>0, <4>1
      <4>4. QED
        BY <1>2, <1>5, <1>7, <4>1, <4>2, <4>3
    <3>5. CASE i > j
      <4>1. a = cs[i + 1] /\ b = cs[m + 1] /\ i + 1 \in 2 .. k + 1 /\ m + 1 \in 2 .. k + 1 /\ i + 1 < m + 1
        BY <1>1, <1>8, <3>5 DEF a, b
      <4>2. QED
        BY <1>6, <4>1
    <3>6. QED
      BY <1>1, <3>1, <3>2, <3>3, <3>4, <3>5
  <2>3. QED
    BY <2>1, <2>2
<1>11. Shaped(q)
  BY <1>7, <1>9, <1>10 DEF Shaped, ds
<1>12. Blocks(q) = Blocks(r)
  <2> DEFINE B(x) == [addr |-> x.addr, size |-> x.size]
             I == {i \in 3 .. k + 1 : cs[i].flag = RESERVED}
             J == {i \in 3 .. k : ds[i].flag = RESERVED}
  <2>1. Blocks(r) = {B(cs[i]) : i \in I} /\ Blocks(q) = {B(ds[i]) : i \in J}
    BY <1>1 DEF Blocks, cs, ds
  <2>2. ASSUME NEW i \in J
        PROVE  \E m \in I : B(ds[i]) = B(cs[m])
    <3>1. i \in 2 .. k /\ i # j /\ i < k
      <4>1. i \in 2 .. k /\ ds[i].flag = RESERVED
        BY <1>1
      <4>2. i # j
        BY <1>3, <1>7, <1>8, <4>1
      <4>3. ds[k].flag = UNALLOCATED
        BY <1>1, <1>9 DEF Framed, Flagged, Last, ds
      <4>4. QED
        BY <1>1, <4>1, <4>2, <4>3 DEF RESERVED, UNALLOCATED
    <3>2. CASE i < j
      <4>1. ds[i].addr = cs[i].addr /\ ds[i].flag = cs[i].flag /\ ds[i].size = cs[i].size
        BY <1>3, <1>8, <3>1, <3>2
      <4>2. i \in I
        BY <1>1, <4>1
      <4>3. QED
        BY <4>1, <4>2
    <3>3. CASE i > j
      <4>1. ds[i].addr = cs[i + 1].addr /\ ds[i].flag = cs[i + 1].flag /\ ds[i].size = cs[i + 1].size
        BY <1>3, <1>8, <3>1, <3>3
      <4>2. i + 1 \in I
        BY <1>1, <4>1
      <4>3. QED
        BY <4>1, <4>2
    <3>4. i < j \/ i > j
      BY <1>1, <3>1
    <3> HIDE DEF B, I, J
    <3>5. QED
      BY <3>2, <3>3, <3>4
  <2>3. ASSUME NEW m \in I
        PROVE  \E i \in J : B(ds[i]) = B(cs[m])
    <3>1. m \in 3 .. k + 1 /\ cs[m].flag = RESERVED /\ m # j /\ m # j + 1 /\ m # k + 1
      BY <1>4, <1>7 DEF RESERVED, UNALLOCATED
    <3>2. CASE m < j
      <4>1. m \in 2 .. k /\ m < k /\ m \in 3 .. k
        BY <1>1, <3>1, <3>2
      <4>2. ds[m].addr = cs[m].addr /\ ds[m].flag = cs[m].flag /\ ds[m].size = cs[m].size
        BY <1>3, <1>8, <3>2, <4>1
      <4>3. QED
        BY <3>1, <4>1, <4>2
    <3>3. CASE m > j + 1
      <4>1. m - 1 \in 2 .. k /\ m - 1 < k /\ m - 1 \in 3 .. k /\ m - 1 > j /\ (m - 1) + 1 = m
        BY <1>1, <3>1, <3>3
      <4>2. ds[m - 1].addr = cs[m].addr /\ ds[m - 1].flag = cs[m].flag /\ ds[m - 1].size = cs[m].size
        BY <1>3, <1>8, <4>1
      <4>3. QED
        BY <3>1, <4>1, <4>2
    <3>4. m < j \/ m > j + 1
      BY <1>1, <3>1
    <3> HIDE DEF B, I, J
    <3>5. QED
      BY <3>2, <3>3, <3>4
  <2> HIDE DEF B, I, J
  <2>4. QED
    BY <2>1, <2>2, <2>3
<1>13. \/ j = k /\ ds[k].addr = c.addr /\ ds[k].size = c.size + CHUNK_ARR
       \/ j < k /\ ds[k].addr = cs[k + 1].addr /\ ds[k].size = cs[k + 1].size + CHUNK_ARR
  <2>1. k \in 2 .. k /\ (j = k \/ j < k)
    BY <1>1
  <2>2. QED
    BY <1>3, <1>8, <2>1
<1>14. ASSUME ~Overrun(r)
       PROVE  ~Overrun(q)
  <2>1. ~(cs[k + 1].addr > cs[1].addr - CHUNK_INFO_SIZE)
    BY <1>1, <1>14 DEF Overrun, Last, cs
  <2>2. cs[k + 1].addr \in Nat /\ cs[1].addr \in Nat /\ ds[k].addr \in Nat /\ ds[k].addr <= cs[k + 1].addr
    BY <1>1, <1>2, <1>13
  <2>3. ~(ds[k].addr > ds[1].addr - CHUNK_INFO_SIZE)
    BY <1>3, <1>5, <2>1, <2>2
  <2>4. QED
    BY <1>1, <2>3 DEF Overrun, Last, ds
<1>15. ASSUME Tiled(r), Exact(r.chunks, j, c)
       PROVE  Tiled(q)
  <2>1. (\A i \in 2 .. k : Abuts(cs[i], cs[i + 1])) /\ cs[1].addr = cs[k + 1].addr + cs[k + 1].size + CHUNK_INFO_SIZE
    BY <1>1, <1>15 DEF Tiled, Abuts, cs
  <2>2. c.addr = cs[j].addr /\ c.size = cs[j].size + CHUNK_INFO_SIZE + cs[j + 1].size
    BY <1>15 DEF Exact, cs
  <2>c. j \in 2 .. k
    BY <1>1
  <2>3. cs[j + 1].addr = cs[j].addr + cs[j].size + CHUNK_INFO_SIZE
    BY <2>1, <2>c DEF Abuts
  <2>a. /\ cs[j].addr \in Nat /\ cs[j].size \in Nat /\ cs[j + 1].addr \in Nat /\ cs[j + 1].size \in Nat
        /\ cs[k + 1].addr \in Nat /\ cs[k + 1].size \in Nat
    BY <1>1
  <2>b. c.addr + c.size + CHUNK_INFO_SIZE = cs[j + 1].addr + cs[j + 1].size + CHUNK_INFO_SIZE
    BY <1>5, <2>2, <2>3, <2>a
  <2>4. ASSUME NEW i \in 2 .. k - 1
        PROVE  Abuts(ds[i], ds[i + 1])
    <3>1. /\ i \in 2 .. k /\ i + 1 \in 2 .. k /\ i < k
      BY <1>1
    <3>2. /\ ds[i].addr = After(cs, j, c, i).addr /\ ds[i].size = After(cs, j, c, i).size
          /\ ds[i + 1].addr = After(cs, j, c, i + 1).addr
      BY <1>3, <3>1
    <3>3. CASE i + 1 < j
      <4>1. After(cs, j, c, i) = cs[i] /\ After(cs, j, c, i + 1) = cs[i + 1]
        BY <1>1, <1>8, <3>1, <3>3
      <4>2. QED
        BY <2>1, <3>1, <3>2, <4>1 DEF Abuts
    <3>4. CASE i + 1 = j
      <4>1. After(cs, j, c, i) = cs[i] /\ After(cs, j, c, i + 1) = c
        BY <1>1, <1>8, <3>1, <3>4
      <4>2. QED
        BY <2>1, <2>2, <3>1, <3>2, <3>4, <4>1 DEF Abuts
    <3>5. CASE i = j
      <4>1. After(cs, j, c, i) = c /\ After(cs, j, c, i + 1) = cs[(j + 1) + 1] /\ j + 1 \in 2 .. k
        BY <1>1, <1>8, <3>1, <3>5
      <4>2. QED
        BY <2>1, <2>b, <3>2, <4>1 DEF Abuts
    <3>6. CASE i > j
      <4>1. After(cs, j, c, i) = cs[i + 1] /\ After(cs, j, c, i + 1) = cs[(i + 1) + 1]
        BY <1>1, <1>8, <3>1, <3>6
      <4>2. QED
        BY <2>1, <3>1, <3>2, <4>1 DEF Abuts
    <3>7. QED
      BY <1>1, <3>3, <3>4, <3>5, <3>6
  <2>5. Abuts(ds[k], ds[1])
    <3>1. CASE j = k
      BY <1>2, <1>3, <1>5, <1>13, <2>1, <2>a, <2>b, <3>1 DEF Abuts
    <3>2. CASE j < k
      BY <1>1, <1>3, <1>5, <1>13, <2>1, <2>a, <3>2 DEF Abuts
    <3>3. QED
      BY <1>13, <3>1, <3>2
  <2>6. QED
    BY <1>1, <1>9, <2>4, <2>5 DEF Tiled, Framed, ds
<1>16. ASSUME MergedBut(r.chunks, j)
       PROVE  Merged(q.chunks)
  <2>1. \A i \in 3 .. k : i # j => ~(IsFree(cs[i]) /\ IsFree(cs[i + 1]))
    BY <1>1, <1>16 DEF MergedBut, cs
  <2> SUFFICES ASSUME NEW i \in 3 .. k - 1
               PROVE  ~(IsFree(ds[i]) /\ IsFree(ds[i + 1]))
    BY <1>1 DEF Merged, ds
  <2>2. i \in 2 .. k /\ i + 1 \in 2 .. k /\ i \in 3 .. k /\ i + 1 \in 3 .. k
    BY <1>1
  <2>3. /\ IsFree(ds[i]) <=> IsFree(After(cs, j, c, i))
        /\ IsFree(ds[i + 1]) <=> IsFree(After(cs, j, c, i + 1))
    BY <1>3, <2>2 DEF IsFree
  <2>4. CASE i + 1 < j
    <3>1. After(cs, j, c, i) = cs[i] /\ After(cs, j, c, i + 1) = cs[i + 1] /\ i # j
      BY <1>1, <1>8, <2>2, <2>4
    <3>2. QED
      BY <2>1, <2>2, <2>3, <3>1
  <2>5. CASE i + 1 = j
    <3>1. After(cs, j, c, i) = cs[i] /\ i # j
      BY <1>1, <1>8, <2>2, <2>5
    <3>2. QED
      BY <1>2, <2>1, <2>2, <2>3, <2>5, <3>1
  <2>6. CASE i = j
    <3>1. After(cs, j, c, i + 1) = cs[(j + 1) + 1] /\ j + 1 # j /\ j + 1 \in 3 .. k
      BY <1>1, <1>8, <2>2, <2>6
    <3>2. QED
      BY <1>2, <2>1, <2>3, <3>1
  <2>7. CASE i > j
    <3>1. After(cs, j, c, i) = cs[i + 1] /\ After(cs, j, c, i + 1) = cs[(i + 1) + 1] /\ i + 1 # j
      BY <1>1, <1>8, <2>2, <2>7
    <3>2. QED
      BY <2>1, <2>2, <2>3, <3>1
  <2>8. QED
    BY <1>1, <2>4, <2>5, <2>6, <2>7
<1>17. QED
  BY <1>11, <1>12, <1>14, <1>15, <1>16

-----------------------------------------------------------------------------
(* The account of a region *)

\* What is charged for the chunks after the two bookkeeping ones.
Charge(c) == IF c.flag = RESERVED THEN Cost(c.size) ELSE 0
Charges(cs) == [j \in 3 .. Len(cs) |-> Charge(cs[j])]

\* f is the running sum of the charges v for chunks 3 .. k.
RunningSum(v, f, k) ==
  /\ f \in [2 .. k -> Int] /\ f[2] = 0
  /\ \A j \in 3 .. k : v[j] \in Int /\ f[j] = f[j - 1] + v[j]

\* used_size is the bookkeeping of a new region and what is charged for its blocks.
Billed(r) ==
  LET k == Len(r.chunks)
  IN  \E f : RunningSum(Charges(r.chunks), f, k) /\ r.used = NEW_REGION_SIZE + f[k]

\* How the charges v become w: x is charged for the last chunk and one without charge follows;
\* the charge for chunk m is dropped; chunks m and m + 1, without charge, become one.
Added(v, w, k, x) == v[k] = 0 /\ w[k] = x /\ w[k + 1] = 0 /\ \A j \in 3 .. k - 1 : w[j] = v[j]
Waived(v, w, k, m) == w[m] = 0 /\ \A j \in 3 .. k : j # m => w[j] = v[j]
Closed(v, w, k, m) ==
  /\ v[m] = 0 /\ v[m + 1] = 0 /\ w[m] = 0
  /\ \A j \in 3 .. k : (j < m => w[j] = v[j]) /\ (j > m => w[j] = v[j + 1])

\* Each of the charges of a chunk table.
LEMMA ChargesAt ==
  ASSUME NEW cs, NEW k, k = Len(cs), \A j \in 3 .. k : cs[j].size \in Int
  PROVE  \A j \in 3 .. k : /\ Charges(cs)[j] \in Int /\ Charges(cs)[j] = Charge(cs[j])
                           /\ cs[j].flag # RESERVED => Charges(cs)[j] = 0
                           /\ cs[j].flag = RESERVED => Charges(cs)[j] = Cost(cs[j].size)
<1> SUFFICES ASSUME NEW j \in 3 .. k
             PROVE  /\ Charges(cs)[j] \in Int /\ Charges(cs)[j] = Charge(cs[j])
                    /\ cs[j].flag # RESERVED => Charges(cs)[j] = 0
                    /\ cs[j].flag = RESERVED => Charges(cs)[j] = Cost(cs[j].size)
  OBVIOUS
<1>1. Charges(cs)[j] = Charge(cs[j])
  BY DEF Charges
<1>2. Cost(cs[j].size) \in Int
  BY Layout DEF Cost
<1>3. QED
  BY <1>1, <1>2 DEF Charge

\* The sum when a charge is added.
LEMMA SumAdded ==
  ASSUME NEW k \in Nat, k >= 3, NEW v, NEW w, NEW f, NEW x \in Int, RunningSum(v, f, k), Added(v, w, k, x)
  PROVE  \E g : RunningSum(w, g, k + 1) /\ g[k + 1] = f[k] + x
<1> DEFINE g == [j \in 2 .. k + 1 |-> IF j < k THEN f[j] ELSE f[k] + x]
<1>0. /\ \A j \in 2 .. k : f[j] \in Int
      /\ f[2] = 0 /\ \A j \in 3 .. k : v[j] \in Int /\ f[j] = f[j - 1] + v[j]
  BY DEF RunningSum
<1>1. k \in 2 .. k /\ k - 1 \in 2 .. k /\ f[k] \in Int /\ f[k - 1] \in Int
  BY <1>0
<1>2. f[k] = f[k - 1]
  <2>1. k \in 3 .. k
    OBVIOUS
  <2>2. f[k] = f[k - 1] + v[k] /\ v[k] = 0
    BY <1>0, <2>1 DEF Added
  <2>3. QED
    BY <1>1, <2>2
<1>3. g \in [2 .. k + 1 -> Int]
  BY <1>0, <1>1
<1>4. \A j \in 2 .. k - 1 : g[j] = f[j]
  OBVIOUS
<1>5. g[k] = f[k] + x /\ g[k + 1] = f[k] + x
  OBVIOUS
<1> HIDE DEF g
<1>6. g[2] = 0
  BY <1>0, <1>4
<1>7. ASSUME NEW j \in 3 .. k + 1
      PROVE  w[j] \in Int /\ g[j] = g[j - 1] + w[j]
  <2>1. CASE j < k
    <3>1. j \in 3 .. k /\ j \in 3 .. k - 1 /\ j \in 2 .. k - 1 /\ j - 1 \in 2 .. k - 1
      BY <2>1
    <3>2. w[j] = v[j] /\ g[j] = f[j] /\ g[j - 1] = f[j - 1]
      BY <1>4, <3>1 DEF Added
    <3>3. QED
      BY <1>0, <3>1, <3>2
  <2>2. CASE j = k
    <3>1. k - 1 \in 2 .. k - 1
      OBVIOUS
    <3>2. w[k] = x /\ g[k - 1] = f[k - 1]
      BY <1>4, <3>1 DEF Added
    <3>3. QED
      BY <1>1, <1>2, <1>5, <2>2, <3>2
  <2>3. CASE j = k + 1
    <3>1. k + 1 - 1 = k /\ w[k + 1] = 0
      BY DEF Added
    <3>2. QED
      BY <1>1, <1>5, <2>3, <3>1
  <2>4. QED
    BY <2>1, <2>2, <2>3
<1>8. RunningSum(w, g, k + 1)
  BY <1>3, <1>6, <1>7 DEF RunningSum
<1>9. QED
  BY <1>5, <1>8

\* The sum when one is dropped.
LEMMA SumWaived ==
  ASSUME NEW k \in Nat, NEW m \in 3 .. k, NEW v, NEW w, NEW f, RunningSum(v, f, k), Waived(v, w, k, m)
  PROVE  v[m] \in Int /\ f[k] \in Int /\ \E g : RunningSum(w, g, k) /\ g[k] = f[k] - v[m]
<1>1. PICK x : x = v[m]
  OBVIOUS
<1> DEFINE g == [j \in 2 .. k |-> IF j < m THEN f[j] ELSE f[j] - x]
<1>2. /\ \A j \in 2 .. k : f[j] \in Int
      /\ f[2] = 0 /\ \A j \in 3 .. k : v[j] \in Int /\ f[j] = f[j - 1] + v[j]
  BY DEF RunningSum
<1>3. x \in Int /\ k \in 2 .. k /\ f[k] \in Int
  BY <1>1, <1>2
<1>4. g \in [2 .. k -> Int]
  BY <1>2, <1>3
<1>5. \A j \in 2 .. k : (j < m => g[j] = f[j]) /\ (j >= m => g[j] = f[j] - x)
  OBVIOUS
<1> HIDE DEF g
<1>6. g[2] = 0 /\ g[k] = f[k] - x
  <2>1. 2 \in 2 .. k /\ 2 < m /\ k \in 2 .. k /\ k >= m
    OBVIOUS
  <2>2. QED
    BY <1>2, <1>5, <2>1
<1>7. ASSUME NEW j \in 3 .. k
      PROVE  w[j] \in Int /\ g[j] = g[j - 1] + w[j]
  <2>1. j \in 2 .. k /\ j - 1 \in 2 .. k /\ f[j] = f[j - 1] + v[j] /\ f[j - 1] \in Int /\ v[j] \in Int
    BY <1>2
  <2>2. CASE j < m
    <3>1. j - 1 < m /\ w[j] = v[j]
      BY <2>2 DEF Waived
    <3>2. QED
      BY <1>5, <2>1, <2>2, <3>1
  <2>3. CASE j = m
    <3>1. j - 1 < m /\ j >= m /\ w[j] = 0 /\ v[j] = x
      BY <1>1, <2>3 DEF Waived
    <3>2. QED
      BY <1>3, <1>5, <2>1, <3>1
  <2>4. CASE j > m
    <3>1. j - 1 >= m /\ j >= m /\ w[j] = v[j]
      BY <2>4 DEF Waived
    <3>2. g[j] = f[j] - x /\ g[j - 1] = f[j - 1] - x
      BY <1>5, <2>1, <3>1
    <3>3. QED
      BY <1>3, <2>1, <3>1, <3>2
  <2>5. QED
    BY <2>2, <2>3, <2>4
<1>8. RunningSum(w, g, k)
  BY <1>4, <1>6, <1>7 DEF RunningSum
<1>9. QED
  BY <1>1, <1>3, <1>6, <1>8

\* The sum when two chunks become one.
LEMMA SumClosed ==
  ASSUME NEW k \in Nat, NEW m \in 3 .. k, NEW v, NEW w, NEW f, RunningSum(v, f, k + 1), Closed(v, w, k, m)
  PROVE  \E g : RunningSum(w, g, k) /\ g[k] = f[k + 1]
<1> DEFINE g == [j \in 2 .. k |-> IF j < m THEN f[j] ELSE f[j + 1]]
<1>1. /\ \A j \in 2 .. k + 1 : f[j] \in Int
      /\ f[2] = 0 /\ \A j \in 3 .. k + 1 : v[j] \in Int /\ f[j] = f[j - 1] + v[j]
  BY DEF RunningSum
<1>2. g \in [2 .. k -> Int]
  BY <1>1
<1>3. \A j \in 2 .. k : (j < m => g[j] = f[j]) /\ (j >= m => g[j] = f[j + 1])
  OBVIOUS
<1> HIDE DEF g
<1>4. g[2] = 0 /\ g[k] = f[k + 1]
  <2>1. 2 \in 2 .. k /\ 2 < m /\ k \in 2 .. k /\ k >= m
    OBVIOUS
  <2>2. QED
    BY <1>1, <1>3, <2>1
<1>5. ASSUME NEW j \in 3 .. k
      PROVE  w[j] \in Int /\ g[j] = g[j - 1] + w[j]
  <2>1. /\ j \in 2 .. k /\ j - 1 \in 2 .. k /\ j \in 3 .. k + 1 /\ j + 1 \in 3 .. k + 1 /\ (j + 1) - 1 = j
        /\ j \in 2 .. k + 1 /\ j - 1 \in 2 .. k + 1 /\ (j - 1) + 1 = j
    OBVIOUS
  <2>2. f[j] = f[j - 1] + v[j] /\ f[j + 1] = f[j] + v[j + 1] /\ f[j - 1] \in Int /\ f[j] \in Int
        /\ v[j] \in Int /\ v[j + 1] \in Int
    BY <1>1, <2>1
  <2>3. CASE j < m
    <3>1. j - 1 < m /\ w[j] = v[j]
      BY <2>3 DEF Closed
    <3>2. QED
      BY <1>3, <2>1, <2>2, <2>3, <3>1
  <2>4. CASE j = m
    <3>1. j - 1 < m /\ j >= m /\ w[j] = 0 /\ v[j] = 0 /\ v[j + 1] = 0
      BY <2>4 DEF Closed
    <3>2. g[j] = f[j + 1] /\ g[j - 1] = f[j - 1]
      BY <1>3, <2>1, <3>1
    <3>3. QED
      BY <2>2, <3>1, <3>2
  <2>5. CASE j > m
    <3>1. j - 1 >= m /\ j >= m /\ w[j] = v[j + 1]
      BY <2>5 DEF Closed
    <3>2. g[j] = f[j + 1] /\ g[j - 1] = f[j]
      BY <1>3, <2>1, <3>1
    <3>3. QED
      BY <2>2, <3>1, <3>2
  <2>6. QED
    BY <2>3, <2>4, <2>5
<1>6. RunningSum(w, g, k)
  BY <1>2, <1>4, <1>5 DEF RunningSum
<1>7. QED
  BY <1>4, <1>6

\* The sizes of the chunks and the flag of the last.
LEMMA BillFacts ==
  ASSUME NEW r, Shaped(r)
  PROVE  /\ Len(r.chunks) \in Nat /\ Len(r.chunks) >= 3 /\ \A j \in 3 .. Len(r.chunks) : r.chunks[j].size \in Int
         /\ r.chunks[Len(r.chunks)].flag = UNALLOCATED /\ r.used \in Int /\ NEW_REGION_SIZE \in Int
<1>1. /\ Len(r.chunks) \in Nat /\ Len(r.chunks) >= 3 /\ r.used \in Int
      /\ \A j \in 1 .. Len(r.chunks) : r.chunks[j].size \in Nat
  BY ShapedChunks
<1>2. \A j \in 3 .. Len(r.chunks) : j \in 1 .. Len(r.chunks)
  BY <1>1
<1>3. r.chunks[Len(r.chunks)].flag = UNALLOCATED
  BY DEF Shaped, Framed, Flagged, Last
<1>4. QED
  BY <1>1, <1>2, <1>3, Layout

\* Carving a block of n bytes charges for it.
LEMMA SplitBilled ==
  ASSUME NEW r, NEW q, NEW n \in Nat, Shaped(r), Shaped(q), Billed(r), Split(r.chunks, q.chunks, n),
         q.used = r.used + Cost(n)
  PROVE  Billed(q)
<1> DEFINE cs == r.chunks
           ds == q.chunks
           k == Len(cs)
           v == Charges(cs)
           w == Charges(ds)
<1>1. PICK f : RunningSum(v, f, k) /\ r.used = NEW_REGION_SIZE + f[k]
  BY DEF Billed
<1>2. k \in Nat /\ k >= 3 /\ cs[k].flag = UNALLOCATED /\ \A j \in 3 .. k : cs[j].size \in Int
  BY BillFacts
<1>3. \A j \in 3 .. Len(ds) : ds[j].size \in Int
  BY BillFacts
<1>4. ds[k].size = n /\ ds[k].flag = RESERVED /\ ds[k + 1].flag = UNALLOCATED
  BY SplitFields
<1>5. Len(ds) = k + 1 /\ \A i \in 2 .. k - 1 : ds[i] = cs[i]
  BY DEF Split
<1>6. Cost(n) \in Int /\ NEW_REGION_SIZE \in Int
  BY Layout DEF Cost
<1> HIDE DEF cs, ds, k
<1>7. \A j \in 3 .. k : v[j] = Charge(cs[j]) /\ (cs[j].flag # RESERVED => v[j] = 0)
  BY <1>2, ChargesAt DEF k
<1>8. \A j \in 3 .. k + 1 : /\ w[j] = Charge(ds[j]) /\ (ds[j].flag # RESERVED => w[j] = 0)
                            /\ (ds[j].flag = RESERVED => w[j] = Cost(ds[j].size))
  BY <1>3, <1>5, ChargesAt
<1> HIDE DEF v, w
<1>9. Added(v, w, k, Cost(n))
  <2>1. k \in 3 .. k /\ k \in 3 .. k + 1 /\ k + 1 \in 3 .. k + 1
    BY <1>2
  <2>2. v[k] = 0 /\ w[k] = Cost(n) /\ w[k + 1] = 0
    BY <1>2, <1>4, <1>7, <1>8, <2>1 DEF RESERVED, UNALLOCATED
  <2>3. \A j \in 3 .. k - 1 : j \in 3 .. k /\ j \in 3 .. k + 1 /\ j \in 2 .. k - 1
    BY <1>2
  <2>4. QED
    BY <1>5, <1>7, <1>8, <2>2, <2>3 DEF Added
<1>10. PICK g : RunningSum(w, g, k + 1) /\ g[k + 1] = f[k] + Cost(n)
  <2>1. PICK x \in Int : x = Cost(n)
    BY <1>6
  <2>2. Added(v, w, k, x)
    BY <1>9, <2>1
  <2>3. k \in Nat /\ k >= 3
    BY <1>2
  <2>4. RunningSum(v, f, k)
    BY <1>1
  <2>5. \E g : RunningSum(w, g, k + 1) /\ g[k + 1] = f[k] + x
    BY <2>2, <2>3, <2>4, SumAdded
  <2>6. QED
    BY <2>1, <2>5
<1>11. q.used = NEW_REGION_SIZE + g[k + 1]
  <2>1. k \in 2 .. k /\ f \in [2 .. k -> Int]
    BY <1>1, <1>2 DEF RunningSum
  <2>2. PICK y \in Int : y = f[k]
    BY <2>1
  <2>3. q.used = (NEW_REGION_SIZE + y) + Cost(n) /\ g[k + 1] = y + Cost(n)
    BY <1>1, <1>10, <2>2
  <2>4. QED
    BY <1>6, <2>3
<1>12. QED
  BY <1>5, <1>10, <1>11 DEF Billed, w, ds

\* Marking a block as culled takes its charge back.
LEMMA FlagBilled ==
  ASSUME NEW r, NEW q, NEW m, Shaped(r), Shaped(q), Billed(r), m \in 3 .. Len(r.chunks), r.chunks[m].flag = RESERVED,
         Len(q.chunks) = Len(r.chunks), \A i \in 1 .. Len(r.chunks) : i # m => q.chunks[i] = r.chunks[i],
         q.chunks[m].flag = CULLED, q.used = r.used - Cost(r.chunks[m].size)
  PROVE  Billed(q)
<1> DEFINE cs == r.chunks
           ds == q.chunks
           k == Len(cs)
           v == Charges(cs)
           w == Charges(ds)
<1>1. PICK f : RunningSum(v, f, k) /\ r.used = NEW_REGION_SIZE + f[k]
  BY DEF Billed
<1>2. k \in Nat /\ k >= 3 /\ (\A j \in 3 .. k : cs[j].size \in Int) /\ NEW_REGION_SIZE \in Int
  BY BillFacts
<1>3. \A j \in 3 .. Len(ds) : ds[j].size \in Int
  BY BillFacts
<1>4. /\ Len(ds) = k /\ m \in 3 .. k /\ cs[m].flag = RESERVED /\ ds[m].flag = CULLED
      /\ q.used = r.used - Cost(cs[m].size) /\ \A i \in 1 .. k : i # m => ds[i] = cs[i]
  OBVIOUS
<1> HIDE DEF cs, ds, k
<1>5. \A j \in 3 .. k : v[j] = Charge(cs[j]) /\ (cs[j].flag = RESERVED => v[j] = Cost(cs[j].size))
  BY <1>2, ChargesAt DEF k
<1>6. \A j \in 3 .. k : w[j] = Charge(ds[j]) /\ (ds[j].flag # RESERVED => w[j] = 0)
  BY <1>3, <1>4, ChargesAt
<1> HIDE DEF v, w
<1>7. Waived(v, w, k, m)
  <2>1. w[m] = 0
    BY <1>4, <1>6 DEF RESERVED, CULLED
  <2>2. \A j \in 3 .. k : j \in 1 .. k
    BY <1>2
  <2>3. QED
    BY <1>4, <1>5, <1>6, <2>1, <2>2 DEF Waived
<1>8. v[m] \in Int /\ f[k] \in Int /\ \E g : RunningSum(w, g, k) /\ g[k] = f[k] - v[m]
  BY <1>1, <1>2, <1>4, <1>7, SumWaived
<1>9. PICK g : RunningSum(w, g, k) /\ g[k] = f[k] - v[m]
  BY <1>8
<1>10. q.used = NEW_REGION_SIZE + g[k]
  <2>1. PICK x \in Int, y \in Int : x = v[m] /\ y = f[k]
    BY <1>8
  <2>2. q.used = (NEW_REGION_SIZE + y) - x /\ g[k] = y - x
    BY <1>1, <1>4, <1>5, <1>9, <2>1
  <2>3. QED
    BY <1>2, <2>2
<1>11. QED
  BY <1>4, <1>9, <1>10 DEF Billed, w, ds

\* Joining two free chunks charges nothing.
LEMMA JoinBilled ==
  ASSUME NEW r, NEW q, NEW m, NEW c, Shaped(r), Shaped(q), Billed(r), Joined(r, q, m, c), q.used = r.used
  PROVE  Billed(q)
<1> DEFINE cs == r.chunks
           ds == q.chunks
           k == Len(cs) - 1
           v == Charges(cs)
           w == Charges(ds)
<1>1. PICK f : RunningSum(v, f, Len(cs)) /\ r.used = NEW_REGION_SIZE + f[Len(cs)]
  BY DEF Billed
<1>2. Len(cs) \in Nat /\ Len(cs) >= 3 /\ cs[Len(cs)].flag = UNALLOCATED /\ \A j \in 3 .. Len(cs) : cs[j].size \in Int
  BY BillFacts
<1>3. \A j \in 3 .. Len(ds) : ds[j].size \in Int
  BY BillFacts
<1>4. k \in Nat /\ Len(cs) = k + 1 /\ m \in 3 .. k /\ Len(ds) = k
  BY <1>2 DEF Joined, Dropped
<1>5. /\ \A i \in 2 .. k : /\ ds[i].flag = After(cs, m, c, i).flag
                           /\ i < k => ds[i].size = After(cs, m, c, i).size
      /\ IsFree(cs[m]) /\ IsFree(cs[m + 1]) /\ c.flag = UNALLOCATED
  BY DEF Joined, Dropped
<1> HIDE DEF cs, ds, k
<1>6. \A j \in 3 .. k + 1 : v[j] = Charge(cs[j]) /\ (cs[j].flag # RESERVED => v[j] = 0)
  BY <1>2, <1>4, ChargesAt
<1>7. \A j \in 3 .. k : w[j] = Charge(ds[j]) /\ (ds[j].flag # RESERVED => w[j] = 0)
  BY <1>3, <1>4, ChargesAt
<1> HIDE DEF v, w
<1>8. v[m] = 0 /\ v[m + 1] = 0 /\ w[m] = 0
  <2>1. m \in 3 .. k + 1 /\ m + 1 \in 3 .. k + 1 /\ m \in 2 .. k
    BY <1>4
  <2>2. cs[m].flag # RESERVED /\ cs[m + 1].flag # RESERVED
    BY <1>5 DEF IsFree, RESERVED, UNALLOCATED, CULLED
  <2>3. ds[m].flag # RESERVED
    BY <1>5, <2>1 DEF After, RESERVED, UNALLOCATED
  <2>4. QED
    BY <1>4, <1>6, <1>7, <2>1, <2>2, <2>3
<1>9. ASSUME NEW j \in 3 .. k
      PROVE  (j < m => w[j] = v[j]) /\ (j > m => w[j] = v[j + 1])
  <2>1. j \in 2 .. k /\ j \in 3 .. k + 1 /\ j + 1 \in 3 .. k + 1 /\ w[j] = Charge(ds[j])
    BY <1>4, <1>7
  <2>2. j < m => w[j] = v[j]
    <3> SUFFICES ASSUME j < m PROVE w[j] = v[j]
      OBVIOUS
    <3>1. j < k /\ After(cs, m, c, j) = cs[j]
      BY <1>4 DEF After
    <3>2. ds[j].flag = cs[j].flag /\ ds[j].size = cs[j].size
      BY <1>5, <2>1, <3>1
    <3>3. Charge(ds[j]) = Charge(cs[j])
      BY <3>2 DEF Charge
    <3>4. QED
      BY <1>6, <2>1, <3>3
  <2>3. j > m => w[j] = v[j + 1]
    <3> SUFFICES ASSUME j > m PROVE w[j] = v[j + 1]
      OBVIOUS
    <3>1. After(cs, m, c, j) = cs[j + 1]
      BY <1>4 DEF After
    <3>2. ds[j].flag = cs[j + 1].flag
      BY <1>5, <2>1, <3>1
    <3>3. CASE j < k
      <4>1. ds[j].size = cs[j + 1].size
        BY <1>5, <2>1, <3>1, <3>3
      <4>2. Charge(ds[j]) = Charge(cs[j + 1])
        BY <3>2, <4>1 DEF Charge
      <4>3. QED
        BY <1>6, <2>1, <4>2
    <3>4. CASE j = k
      <4>1. cs[j + 1].flag # RESERVED /\ ds[j].flag # RESERVED
        BY <1>2, <1>4, <3>2, <3>4 DEF RESERVED, UNALLOCATED
      <4>2. w[j] = 0 /\ v[j + 1] = 0
        BY <1>6, <1>7, <2>1, <4>1
      <4>3. QED
        BY <4>2
    <3>5. QED
      BY <1>4, <3>3, <3>4
  <2>4. QED
    BY <2>2, <2>3
<1>10. Closed(v, w, k, m)
  BY <1>8, <1>9 DEF Closed
<1>11. RunningSum(v, f, k + 1)
  BY <1>1, <1>4
<1>12. PICK g : RunningSum(w, g, k) /\ g[k] = f[k + 1]
  BY <1>4, <1>10, <1>11, SumClosed
<1>13. q.used = NEW_REGION_SIZE + g[k]
  BY <1>1, <1>4, <1>12
<1>14. QED
  BY <1>4, <1>12, <1>13 DEF Billed, w, ds

\* A new region is charged for nothing.
LEMMA NewBilled ==
  ASSUME NEW q, Shaped(q), Len(q.chunks) = 3, q.used = NEW_REGION_SIZE
  PROVE  Billed(q)
<1> DEFINE f == [j \in 2 .. 3 |-> 0]
           v == Charges(q.chunks)
<1>1. f \in [2 .. 3 -> Int] /\ f[2] = 0 /\ f[3] = 0
  OBVIOUS
<1>2. v[3] = 0
  <2>1. q.chunks[3].flag # RESERVED /\ \A j \in 3 .. 3 : q.chunks[j].size \in Int
    BY BillFacts DEF RESERVED, UNALLOCATED
  <2>2. 3 \in 3 .. 3
    OBVIOUS
  <2>3. QED
    BY <2>1, <2>2, ChargesAt
<1> HIDE DEF f, v
<1>3. \A j \in 3 .. 3 : v[j] \in Int /\ f[j] = f[j - 1] + v[j]
  <2>1. \A j \in 3 .. 3 : j = 3
    OBVIOUS
  <2>2. 3 - 1 = 2 /\ 0 + 0 = 0
    OBVIOUS
  <2>3. QED
    BY <1>1, <1>2, <2>1, <2>2
<1>4. RunningSum(v, f, 3)
  BY <1>1, <1>3 DEF RunningSum
<1>5. NEW_REGION_SIZE + f[3] = NEW_REGION_SIZE
  BY <1>1, Layout
<1>6. QED
  BY <1>4, <1>5 DEF Billed, v

-----------------------------------------------------------------------------
(* cull and alloc on one region *)

\* Region r with another used_size and other chunks.
With(r, u, cs) == [base |-> r.base, alloc |-> r.alloc, used |-> u, chunks |-> cs]

\* cull first marks the chunk: the region loses that block and no other, because no two chunks
\* have one address.
LEMMA FlagShaped ==
  ASSUME NEW r, NEW q, NEW j, NEW ds, Shaped(r), j \in 3 .. Len(r.chunks) - 1, r.chunks[j].flag = RESERVED,
         q \in RegionRec, q.base = r.base, q.alloc = r.alloc, q.chunks = ds,
         ds \in Seq(ChunkRec), Len(ds) = Len(r.chunks),
         \A i \in 1 .. Len(r.chunks) : i # j => ds[i] = r.chunks[i],
         ds[j] = Chunk(r.chunks[j].addr, r.chunks[j].size, CULLED)
  PROVE  /\ Shaped(q)
         /\ Blocks(q) = Blocks(r) \ {[addr |-> r.chunks[j].addr, size |-> r.chunks[j].size]}
         /\ ~Overrun(r) => ~Overrun(q)
         /\ Tiled(r) => Tiled(q)
<1> DEFINE cs == r.chunks
           k == Len(cs)
<1>1. /\ k \in Nat /\ k >= 4 /\ j \in 3 .. k - 1 /\ j \in 1 .. k /\ 1 \in 1 .. k /\ 2 \in 1 .. k /\ k \in 1 .. k
      /\ \A i \in 1 .. k : cs[i].addr \in Nat /\ cs[i].size \in Nat
  BY ShapedChunks, SMTT(30)
<1>2. ds[j].addr = cs[j].addr /\ ds[j].size = cs[j].size /\ ds[j].flag = CULLED
  BY DEF Chunk
<1>3. ds[1] = cs[1] /\ ds[2] = cs[2] /\ ds[k] = cs[k] /\ Len(ds) = k /\ q.chunks = ds
  BY <1>1
<1>4. \A i \in 1 .. k : ds[i].addr = cs[i].addr /\ ds[i].size = cs[i].size
  BY <1>2
<1>5. \A i \in 1 .. k : ds[i].flag = RESERVED <=> (i # j /\ cs[i].flag = RESERVED)
  BY <1>2 DEF RESERVED, CULLED
<1>6. Framed(r) /\ Ordered(cs) /\ cs[j].flag = RESERVED
  BY DEF Shaped
<1> HIDE DEF cs, k
<1>7. Framed(q)
  BY <1>3, <1>6 DEF Framed, Flagged, Last, cs, k
<1>8. Ordered(ds)
  <2> SUFFICES ASSUME NEW i \in 2 .. k, NEW m \in 2 .. k, i < m
               PROVE  /\ ds[i].addr + CHUNK_INFO_SIZE <= ds[m].addr
                      /\ ds[i].flag = RESERVED => ds[i].addr + ds[i].size + CHUNK_INFO_SIZE <= ds[m].addr
    BY <1>3 DEF Ordered
  <2>1. i \in 1 .. k /\ m \in 1 .. k
    BY <1>1
  <2>2. QED
    BY <1>4, <1>5, <1>6, <2>1 DEF Ordered, k
<1>9. Shaped(q)
  BY <1>3, <1>7, <1>8 DEF Shaped
<1>10. Blocks(q) = Blocks(r) \ {[addr |-> cs[j].addr, size |-> cs[j].size]}
  <2> DEFINE B(x) == [addr |-> x.addr, size |-> x.size]
             I == {i \in 3 .. k : cs[i].flag = RESERVED}
             J == {i \in 3 .. k : ds[i].flag = RESERVED}
  <2>1. Blocks(r) = {B(cs[i]) : i \in I} /\ Blocks(q) = {B(ds[i]) : i \in J}
    BY <1>3 DEF Blocks, cs, k
  <2>2. J = I \ {j} /\ j \in I
    BY <1>1, <1>5, <1>6
  <2>3. \A i \in I : B(ds[i]) = B(cs[i])
    BY <1>1, <1>4
  <2>4. \A i \in I : i # j => B(cs[i]) # B(cs[j])
    <3> SUFFICES ASSUME NEW i \in I, i # j
                 PROVE  cs[i].addr # cs[j].addr
      BY Zenon
    <3>1. i \in 2 .. k /\ j \in 2 .. k /\ i \in 1 .. k /\ (i < j \/ j < i)
      BY <1>1
    <3>2. cs[i].addr + CHUNK_INFO_SIZE <= cs[j].addr \/ cs[j].addr + CHUNK_INFO_SIZE <= cs[i].addr
      BY <1>6, <3>1 DEF Ordered, k
    <3>3. cs[i].addr \in Nat /\ cs[j].addr \in Nat
      BY <1>1, <3>1
    <3>4. QED
      BY <3>2, <3>3, Layout, SMTT(30)
  <2> HIDE DEF B, I, J
  <2>5. Blocks(q) = Blocks(r) \ {B(cs[j])}
    BY <2>1, <2>2, <2>3, <2>4
  <2>6. QED
    BY <2>5 DEF B
<1>11. ~Overrun(r) => ~Overrun(q)
  BY <1>3 DEF Overrun, Last, cs, k
<1>12. Tiled(r) => Tiled(q)
  <2> SUFFICES ASSUME Tiled(r) PROVE Tiled(q)
    OBVIOUS
  <2>1. ASSUME NEW i \in 2 .. k - 1
        PROVE  Abuts(ds[i], ds[i + 1])
    <3>1. i \in 1 .. k /\ i + 1 \in 1 .. k
      BY <1>1
    <3>2. Abuts(cs[i], cs[i + 1])
      BY DEF Tiled, cs, k
    <3>3. QED
      BY <1>4, <3>1, <3>2 DEF Abuts
  <2>2. QED
    BY <1>3, <2>1 DEF Tiled, cs, k
<1>13. QED
  BY <1>9, <1>10, <1>11, <1>12 DEF cs

\* A merge of cull is a join.
LEMMA MergeJoins ==
  ASSUME NEW r, NEW u \in Int, NEW j, NEW c \in ChunkRec, Shaped(r), j \in 3 .. Len(r.chunks) - 1,
         IsFree(r.chunks[j]), IsFree(r.chunks[j + 1]), c.flag = UNALLOCATED,
         r.chunks[j].addr <= c.addr, c.addr <= r.chunks[j + 1].addr
  PROVE  Joined(r, With(r, u, DropSlot(r.chunks, j, c)), j, c)
<1> DEFINE cs == r.chunks
           ds == DropSlot(cs, j, c)
           q == With(r, u, ds)
<1>1. /\ r.base \in Nat /\ r.alloc \in Nat /\ cs \in Seq(ChunkRec) /\ Len(cs) \in Nat /\ Len(cs) >= 4
  BY ShapedChunks
<1>2. cs[1].size - CHUNK_ARR \in Nat
  <2>1. cs[1].size = Len(cs) * CHUNK_ARR
    BY DEF Shaped, Framed
  <2> DEFINE m == Len(cs) - 1
  <2>2. m \in Nat /\ Len(cs) = m + 1
    BY <1>1
  <2>3. (m + 1) * CHUNK_ARR = m * CHUNK_ARR + CHUNK_ARR /\ m * CHUNK_ARR \in Nat /\ CHUNK_ARR \in Nat
    BY <2>2, Slots, Layout
  <2> HIDE DEF m
  <2>4. QED
    BY <2>1, <2>2, <2>3
<1>3. Dropped(cs, ds, j, c)
  BY <1>1, <1>2, DropEffect
<1> HIDE DEF ds
<1>4. q.chunks = ds /\ q.base = r.base /\ q.alloc = r.alloc /\ q \in RegionRec
  BY <1>1, <1>3 DEF With, RegionRec, Dropped
<1> HIDE DEF q
<1>5. Joined(r, q, j, c)
  BY <1>3, <1>4 DEF Joined
<1>6. QED
  BY <1>5 DEF q, ds

\* What cull does to the region the block is in: it stays well formed, loses that block and no
\* other, and its chunks still tile it, all free neighbours merged, unless the block was
\* sandwiched.
LEMMA CullShaped ==
  ASSUME NEW r, NEW j, Shaped(r), j \in 3 .. Len(r.chunks), r.chunks[j].flag = RESERVED
  PROVE  LET q == Cull(r, j, r.chunks[j].addr)
         IN  /\ Shaped(q) /\ q.base = r.base /\ q.alloc = r.alloc
             /\ Blocks(q) = Blocks(r) \ {[addr |-> r.chunks[j].addr, size |-> r.chunks[j].size]}
             /\ ~Overrun(r) => ~Overrun(q)
             /\ Neat(r) /\ ~Sandwiched(r.chunks, j) => Neat(q)
             /\ Billed(r) => Billed(q)
<1> DEFINE cs == r.chunks
           k == Len(cs)
           ptr == cs[j].addr
           b == [addr |-> cs[j].addr, size |-> cs[j].size]
           u == r.used - Cost(cs[j].size)
           ds == [cs EXCEPT ![j].flag = CULLED]
           r1 == With(r, u, ds)
           prev == IsFree(ds[j - 1])
           c1 == Chunk(ds[j - 1].addr, ds[j - 1].size + CHUNK_INFO_SIZE + ds[j].size, UNALLOCATED)
           q == Cull(r, j, ptr)
<1>0. CHUNK_INFO_SIZE \in Nat
  BY Layout
<1>1. /\ r.base \in Nat /\ r.alloc \in Nat /\ r.used \in Int /\ cs \in Seq(ChunkRec)
      /\ k \in Nat /\ k >= 3 /\ DOMAIN cs = 1 .. k
      /\ \A i \in 1 .. k : cs[i] \in ChunkRec /\ cs[i].addr \in Nat /\ cs[i].size \in Nat
  BY ShapedChunks
<1>2. j \in 3 .. k - 1
  <2>1. cs[k].flag = UNALLOCATED
    BY DEF Shaped, Framed, Flagged, Last
  <2>2. QED
    BY <1>1, <2>1 DEF RESERVED, UNALLOCATED
<1>3. u \in Int
  <2>1. cs[j].size \in Nat
    BY <1>1, <1>2
  <2>2. QED
    BY <1>1, <2>1, Layout, SMTT(30) DEF Cost
<1>4. /\ ds \in Seq(ChunkRec) /\ Len(ds) = k /\ ds[j] = Chunk(cs[j].addr, cs[j].size, CULLED)
      /\ \A i \in 1 .. k : i # j => ds[i] = cs[i]
  <2> DEFINE d == [cs[j] EXCEPT !.flag = CULLED]
  <2>1. cs[j] \in ChunkRec /\ j \in 1 .. k
    BY <1>1, <1>2
  <2>2. d = Chunk(cs[j].addr, cs[j].size, CULLED) /\ d \in ChunkRec
    BY <2>1 DEF ChunkRec, Chunk, Flags
  <2>3. ds = [cs EXCEPT ![j] = d]
    OBVIOUS
  <2> HIDE DEF d, ds
  <2>4. ds \in Seq(ChunkRec) /\ Len(ds) = k /\ \A i \in 1 .. k : ds[i] = IF i = j THEN d ELSE cs[i]
    BY <1>1, <2>1, <2>2, <2>3, ExceptSeq
  <2>5. QED
    BY <2>1, <2>2, <2>4
<1>5. /\ Shaped(r1) /\ Blocks(r1) = Blocks(r) \ {b} /\ (~Overrun(r) => ~Overrun(r1)) /\ (Tiled(r) => Tiled(r1))
      /\ r1.chunks = ds /\ r1.base = r.base /\ r1.alloc = r.alloc /\ r1.used = u /\ (Billed(r) => Billed(r1))
  <2>0. u = r.used - Cost(r.chunks[j].size)
    OBVIOUS
  <2> HIDE DEF ds, u
  <2>1. r1 \in RegionRec /\ r1.chunks = ds /\ r1.base = r.base /\ r1.alloc = r.alloc /\ r1.used = u
    BY <1>1, <1>3, <1>4 DEF With, RegionRec
  <2>2. /\ j \in 3 .. Len(r.chunks) - 1
        /\ ds \in Seq(ChunkRec) /\ Len(ds) = Len(r.chunks)
        /\ \A i \in 1 .. Len(r.chunks) : i # j => ds[i] = r.chunks[i]
        /\ ds[j] = Chunk(r.chunks[j].addr, r.chunks[j].size, CULLED)
    BY <1>2, <1>4
  <2> HIDE DEF r1
  <2>3. /\ Shaped(r1)
        /\ Blocks(r1) = Blocks(r) \ {[addr |-> r.chunks[j].addr, size |-> r.chunks[j].size]}
        /\ ~Overrun(r) => ~Overrun(r1)
        /\ Tiled(r) => Tiled(r1)
    BY <2>1, <2>2, FlagShaped
  <2>4. Billed(r) => Billed(r1)
    <3>1. j \in 3 .. Len(r.chunks) /\ Len(r1.chunks) = Len(r.chunks)
      BY <2>1, <2>2
    <3>2. \A i \in 1 .. Len(r.chunks) : i # j => r1.chunks[i] = r.chunks[i]
      BY <2>1, <2>2
    <3>3. r1.chunks[j].flag = CULLED
      BY <2>1, <2>2 DEF Chunk
    <3>4. r1.used = r.used - Cost(r.chunks[j].size)
      BY <2>0, <2>1
    <3>5. QED
      BY <2>3, <3>1, <3>2, <3>3, <3>4, FlagBilled
  <2>5. QED
    BY <2>1, <2>3, <2>4
<1>6. q = With(r, u, LET step1 == IF prev THEN MergePrev(ds, j) ELSE ds
                         m == IF prev THEN j - 1 ELSE j
                     IN  IF IsFree(step1[m + 1]) THEN MergeNext(step1, m, ptr) ELSE step1)
  <2>1. r \in RegionRec
    BY DEF Shaped
  <2> DEFINE final == LET step1 == IF prev THEN MergePrev(ds, j) ELSE ds
                          m == IF prev THEN j - 1 ELSE j
                      IN  IF IsFree(step1[m + 1]) THEN MergeNext(step1, m, ptr) ELSE step1
  <2>2. q = [[r EXCEPT !.used = u] EXCEPT !.chunks = final]
    BY DEF Cull
  <2> HIDE DEF final, u, q
  <2>3. q = With(r, u, final)
    BY <2>1, <2>2 DEF With, RegionRec
  <2>4. QED
    BY <2>3 DEF final
<1>7. /\ IsFree(ds[j]) /\ ds[j].addr = ptr /\ ds[j].size = cs[j].size
      /\ ds[j - 1] = cs[j - 1] /\ ds[j + 1] = cs[j + 1]
      /\ cs[j - 1].addr <= ptr /\ ptr <= cs[j + 1].addr
      /\ cs[j - 1].addr \in Nat /\ cs[j - 1].size \in Nat /\ cs[j + 1].addr \in Nat /\ cs[j + 1].size \in Nat
      /\ ptr \in Nat /\ cs[j].size \in Nat
  <2>1. j - 1 \in 1 .. k /\ j \in 1 .. k /\ j + 1 \in 1 .. k /\ j - 1 # j /\ j + 1 # j
        /\ j - 1 \in 2 .. k /\ j \in 2 .. k /\ j + 1 \in 2 .. k /\ j - 1 < j /\ j < j + 1
    BY <1>1, <1>2, SMTT(30)
  <2>2. cs[j - 1].addr + CHUNK_INFO_SIZE <= cs[j].addr /\ cs[j].addr + CHUNK_INFO_SIZE <= cs[j + 1].addr
    BY <2>1 DEF Shaped, Ordered
  <2>3. /\ cs[j - 1].addr \in Nat /\ cs[j - 1].size \in Nat /\ cs[j + 1].addr \in Nat /\ cs[j + 1].size \in Nat
        /\ ptr \in Nat /\ cs[j].size \in Nat
    BY <1>1, <2>1
  <2> HIDE DEF ds
  <2>4. IsFree(ds[j]) /\ ds[j].addr = ptr /\ ds[j].size = cs[j].size
    BY <1>4 DEF Chunk, IsFree
  <2>5. cs[j - 1].addr <= ptr /\ ptr <= cs[j + 1].addr
    <3> DEFINE x == cs[j - 1].addr
               z == cs[j + 1].addr
               h == CHUNK_INFO_SIZE
    <3>1. x \in Nat /\ ptr \in Nat /\ z \in Nat /\ h \in Nat /\ x + h <= ptr /\ ptr + h <= z
      BY <1>0, <2>2, <2>3
    <3> HIDE DEF x, z, ptr, h
    <3>2. x <= ptr /\ ptr <= z
      BY <3>1
    <3>3. QED
      BY <3>2 DEF x, z
  <2>6. QED
    BY <1>4, <2>1, <2>3, <2>4, <2>5
<1>8. ~IsFree(cs[2])
  BY DEF Shaped, Framed, Flagged, IsFree, RESERVED, UNALLOCATED, CULLED
<1>9. \A i \in 3 .. (k - 1) : Merged(cs) /\ i # j - 1 /\ i # j => ~(IsFree(ds[i]) /\ IsFree(ds[i + 1]))
  <2> SUFFICES ASSUME NEW i \in 3 .. (k - 1), Merged(cs), i # j - 1, i # j
               PROVE  ~(IsFree(ds[i]) /\ IsFree(ds[i + 1]))
    OBVIOUS
  <2>1. i \in 1 .. k /\ i + 1 \in 1 .. k /\ i # j /\ i + 1 # j
    BY <1>1, <1>2
  <2> HIDE DEF ds
  <2>2. QED
    BY <1>4, <2>1 DEF Merged
<1> HIDE DEF ds, u, r1, q, cs, k
<1>10. CASE ~prev
  <2> DEFINE c2 == Chunk(ptr, ds[j + 1].size + CHUNK_INFO_SIZE + ds[j].size, UNALLOCATED)
  <2>1. CASE ~IsFree(ds[j + 1])
    <3>1. q = r1
      BY <1>6, <1>10, <2>1 DEF r1
    <3>2. Merged(cs) => Merged(ds)
      BY <1>4, <1>9, <1>10, <2>1 DEF Merged
    <3>3. QED
      BY <1>5, <3>1, <3>2 DEF Neat, q, b, cs, ptr
  <2>2. CASE IsFree(ds[j + 1])
    <3>1. q = With(r, u, DropSlot(ds, j, c2))
      BY <1>6, <1>10, <2>2 DEF MergeNext
    <3>2. q = With(r1, u, DropSlot(ds, j, c2))
      BY <1>5, <3>1 DEF With
    <3>3. c2 \in ChunkRec /\ c2.flag = UNALLOCATED /\ c2.addr = ptr /\ Exact(ds, j, c2)
      <4>1. ds[j + 1].size + CHUNK_INFO_SIZE + ds[j].size \in Nat
            /\ ds[j + 1].size + CHUNK_INFO_SIZE + ds[j].size = ds[j].size + CHUNK_INFO_SIZE + ds[j + 1].size
        BY <1>0, <1>7, Sums
      <4>2. QED
        BY <1>7, <4>1 DEF Chunk, ChunkRec, Flags, Exact
    <3> HIDE DEF c2, ptr
    <3>4. j \in 3 .. Len(ds) - 1 /\ ds[j].addr <= c2.addr /\ c2.addr <= ds[j + 1].addr
      BY <1>2, <1>4, <1>7, <3>3
    <3>5. Joined(r1, q, j, c2)
      BY <1>3, <1>5, <1>7, <2>2, <3>2, <3>3, <3>4, MergeJoins
    <3>6. /\ Shaped(q) /\ Blocks(q) = Blocks(r1) /\ (~Overrun(r1) => ~Overrun(q))
          /\ (Tiled(r1) => Tiled(q)) /\ (MergedBut(ds, j) => Merged(q.chunks))
      BY <1>5, <3>3, <3>5, JoinShaped
    <3>7. Merged(cs) => MergedBut(ds, j)
      BY <1>4, <1>9, <1>10 DEF MergedBut
    <3>8. q.base = r.base /\ q.alloc = r.alloc
      BY <1>5, <3>5 DEF Joined
    <3>9. Billed(r1) => Billed(q)
      <4>1. q.used = r1.used
        BY <1>5, <3>2 DEF With
      <4>2. QED
        BY <1>5, <3>5, <3>6, <4>1, JoinBilled
    <3>10. QED
      BY <1>5, <3>6, <3>7, <3>8, <3>9 DEF Neat, q, b, cs, ptr
  <2>3. QED
    BY <2>1, <2>2
<1>11. CASE prev
  <2> DEFINE i == j - 1
             es == DropSlot(ds, i, c1)
             r2 == With(r, u, es)
             c2 == Chunk(ptr, es[j].size + CHUNK_INFO_SIZE + es[i].size, UNALLOCATED)
  <2>0. j - 1 # 2
    BY <1>7, <1>8, <1>11
  <2>1. i \in 3 .. Len(ds) - 1 /\ i + 1 = j /\ Len(ds) = k
    BY <1>1, <1>2, <1>4, <2>0
  <2>2. c1 \in ChunkRec /\ c1.flag = UNALLOCATED /\ Exact(ds, i, c1) /\ c1.addr = ds[i].addr
    <3>1. ds[i].size + CHUNK_INFO_SIZE + ds[j].size \in Nat /\ ds[i].addr \in Nat
      BY <1>0, <1>7, Sums
    <3>2. QED
      BY <2>1, <3>1 DEF Chunk, ChunkRec, Flags, Exact
  <2>3. q = With(r, u, IF IsFree(es[j]) THEN DropSlot(es, i, c2) ELSE es)
    BY <1>6, <1>11, <2>1 DEF MergePrev, MergeNext
  <2> HIDE DEF c1, ptr
  <2>4. Joined(r1, r2, i, c1)
    <3>1. ds[i].addr <= c1.addr /\ c1.addr <= ds[i + 1].addr /\ IsFree(ds[i]) /\ IsFree(ds[i + 1])
      BY <1>7, <1>11, <2>1, <2>2
    <3>2. r2 = With(r1, u, es)
      BY <1>5 DEF With
    <3> HIDE DEF i
    <3>3. QED
      BY <1>3, <1>5, <2>1, <2>2, <3>1, <3>2, MergeJoins
  <2>5. /\ Shaped(r2) /\ Blocks(r2) = Blocks(r1) /\ (~Overrun(r1) => ~Overrun(r2))
        /\ (Tiled(r1) => Tiled(r2)) /\ (MergedBut(ds, i) => Merged(r2.chunks))
    BY <1>5, <2>2, <2>4, JoinShaped
  <2>6. Dropped(ds, es, i, c1) /\ r2.base = r.base /\ r2.alloc = r.alloc /\ r2.chunks = es
    BY <1>5, <2>4 DEF Joined, With
  <2>7. /\ es[i].addr = c1.addr /\ es[i].flag = c1.flag /\ es[j].addr = ds[j + 1].addr /\ es[j].flag = ds[j + 1].flag
        /\ es[i].size \in Nat /\ es[j].size \in Nat /\ Len(es) = k - 1
    <3>1. i \in 2 .. k - 1 /\ j \in 2 .. k - 1 /\ i # j /\ ~(j < i) /\ i \in 1 .. k - 1 /\ j \in 1 .. k - 1
      BY <1>1, <1>2, <2>1
    <3>2. Len(ds) - 1 = k - 1 /\ Len(es) = k - 1 /\ es \in Seq(ChunkRec)
      BY <1>4, <2>6 DEF Dropped
    <3>3. es[i].addr = After(ds, i, c1, i).addr /\ es[i].flag = After(ds, i, c1, i).flag
          /\ es[j].addr = After(ds, i, c1, j).addr /\ es[j].flag = After(ds, i, c1, j).flag
      BY <2>6, <3>1, <3>2 DEF Dropped
    <3>4. es[i] \in ChunkRec /\ es[j] \in ChunkRec
      BY <3>1, <3>2, ElementOfSeq
    <3>5. After(ds, i, c1, i) = c1 /\ After(ds, i, c1, j) = ds[j + 1]
      BY <3>1 DEF After
    <3>6. QED
      BY <3>2, <3>3, <3>4, <3>5 DEF ChunkRec
  <2>8. r2.used = u /\ (Billed(r1) => Billed(r2))
    <3>1. r2.used = u
      BY DEF With
    <3> HIDE DEF es, r2, i
    <3>2. QED
      BY <1>5, <2>4, <2>5, <3>1, JoinBilled
  <2> HIDE DEF es, r2
  <2>9. CASE ~IsFree(es[j])
    <3>1. q = r2
      BY <2>3, <2>9 DEF r2
    <3>2. ~IsFree(ds[j + 1])
      BY <2>7, <2>9 DEF IsFree
    <3>3. Merged(cs) => MergedBut(ds, i)
      BY <1>4, <1>9, <2>1, <3>2 DEF MergedBut
    <3>4. QED
      BY <1>5, <2>5, <2>6, <2>8, <3>1, <3>3 DEF Neat, q, b, cs, ptr
  <2>10. CASE IsFree(es[j])
    <3>1. q = With(r2, u, DropSlot(es, i, c2))
      BY <2>3, <2>6, <2>10 DEF With
    <3>2. Sandwiched(cs, j)
      BY <1>7, <1>11, <2>7, <2>10 DEF IsFree, Sandwiched
    <3>3. c2 \in ChunkRec /\ c2.flag = UNALLOCATED /\ c2.addr = ptr
      <4>1. es[j].size + CHUNK_INFO_SIZE + es[i].size \in Nat
        BY <1>0, <2>7, Sums
      <4>2. QED
        BY <1>7, <4>1 DEF Chunk, ChunkRec, Flags
    <3> HIDE DEF c2
    <3>4. /\ i \in 3 .. Len(es) - 1 /\ IsFree(es[i]) /\ IsFree(es[i + 1])
          /\ es[i].addr <= c2.addr /\ c2.addr <= es[i + 1].addr
      <4>1. i \in 3 .. Len(es) - 1
        BY <1>1, <1>2, <2>1, <2>7
      <4>2. IsFree(es[i]) /\ IsFree(es[i + 1])
        BY <2>1, <2>2, <2>7, <2>10 DEF IsFree
      <4>3. QED
        BY <1>7, <2>1, <2>2, <2>7, <3>3, <4>1, <4>2
    <3> HIDE DEF i
    <3>5. Joined(r2, q, i, c2)
      BY <1>3, <2>5, <2>6, <3>1, <3>3, <3>4, MergeJoins
    <3>6. Shaped(q) /\ Blocks(q) = Blocks(r2) /\ (~Overrun(r2) => ~Overrun(q))
      BY <2>5, <3>5, JoinShaped
    <3>7. q.base = r.base /\ q.alloc = r.alloc
      BY <2>6, <3>5 DEF Joined
    <3>8. Billed(r2) => Billed(q)
      <4>1. q.used = r2.used
        BY <2>8, <3>1 DEF With
      <4>2. QED
        BY <2>5, <3>5, <3>6, <4>1, JoinBilled
    <3>9. QED
      BY <1>5, <2>5, <2>8, <3>2, <3>6, <3>7, <3>8 DEF q, b, cs, ptr
  <2>11. QED
    BY <2>9, <2>10
<1>12. QED
  BY <1>10, <1>11

\* A block may be carved wherever alloc's size test passes: what SplitShaped says of Carve.
LEMMA CarveShaped ==
  ASSUME NEW r, NEW n \in Nat, Shaped(r), ~Overrun(r), Fits(r, n)
  PROVE  LET q == Carve(r, n)
         IN  /\ Shaped(q) /\ q.base = r.base /\ q.alloc = r.alloc
             /\ Blocks(q) = Blocks(r) \cup {[addr |-> Last(r.chunks).addr, size |-> n]}
             /\ Neat(r) => Neat(q) /\ ~Overrun(q)
             /\ Split(r.chunks, q.chunks, n)
             /\ Billed(r) => Billed(q)
<1> DEFINE cs == r.chunks
           k == Len(cs)
           q == Carve(r, n)
<1>1. cs[1].addr - CHUNK_ARR \in Nat
  <2> DEFINE x == cs[2].addr
             y == cs[k].addr
             z == cs[1].addr
  <2>1. k \in Nat /\ k >= 3 /\ 2 \in 2 .. k /\ k \in 2 .. k /\ 1 \in 1 .. k /\ 2 \in 1 .. k /\ k \in 1 .. k /\ 2 < k
    BY ShapedChunks
  <2>2. x \in Nat /\ y \in Nat /\ z \in Nat
    BY <2>1, ShapedChunks
  <2>3. x = r.base + CHUNK_INFO_SIZE /\ r.base >= ALIGN /\ r.base \in Nat
    BY ShapedChunks DEF Shaped, Framed
  <2>4. x + CHUNK_INFO_SIZE <= y
    BY <2>1 DEF Shaped, Ordered
  <2>5. ~(y > z - CHUNK_INFO_SIZE)
    BY DEF Overrun, Last
  <2>6. ALIGN \in Nat /\ CHUNK_ARR \in Nat /\ CHUNK_INFO_SIZE \in Nat /\ ALIGN > CHUNK_ARR
    BY Layout
  <2> HIDE DEF x, y, z
  <2>7. z - CHUNK_ARR \in Nat
    BY <2>2, <2>3, <2>4, <2>5, <2>6
  <2>8. QED
    BY <2>7 DEF z
<1>2. /\ q.base = r.base /\ q.alloc = r.alloc /\ q \in RegionRec /\ q.used = r.used + Cost(n)
      /\ Split(r.chunks, q.chunks, n)
  BY <1>1, CarveEffect
<1> HIDE DEF q
<1>3. /\ Shaped(q) /\ Blocks(q) = Blocks(r) \cup {[addr |-> Last(r.chunks).addr, size |-> n]}
      /\ Neat(r) => Neat(q) /\ ~Overrun(q)
  BY <1>2, SplitShaped
<1>4. Billed(r) => Billed(q)
  BY <1>2, <1>3, SplitBilled
<1>5. QED
  BY <1>2, <1>3, <1>4 DEF q

\* A region as create and create_region make it.
LEMMA NewShaped ==
  ASSUME NEW b \in Nat, NEW s \in Nat, b >= ALIGN, s >= ALIGN
  PROVE  LET q == NewRegion(b, s)
         IN  /\ Shaped(q) /\ q.base = b /\ q.alloc = s /\ Blocks(q) = {} /\ Neat(q) /\ ~Overrun(q) /\ Billed(q)
             /\ \A n \in Nat : Fits(q, n) <=> s - NEW_REGION_SIZE > Cost(n)
<1> DEFINE q == NewRegion(b, s)
           c1 == Chunk(b + s - 3 * CHUNK_ARR, 3 * CHUNK_ARR, RESERVED)
           c2 == Chunk(b + CHUNK_INFO_SIZE, REGION_INFO_SIZE, RESERVED)
           c3 == Chunk(b + REGION_INFO_SIZE + 2 * CHUNK_INFO_SIZE, s - NEW_REGION_SIZE, UNALLOCATED)
<1>1. /\ c1.addr = b + s - 3 * CHUNK_ARR /\ c1.size = 3 * CHUNK_ARR /\ c1.flag = RESERVED
      /\ c2.addr = b + CHUNK_INFO_SIZE /\ c2.size = REGION_INFO_SIZE /\ c2.flag = RESERVED
      /\ c3.addr = b + REGION_INFO_SIZE + 2 * CHUNK_INFO_SIZE /\ c3.size = s - NEW_REGION_SIZE
      /\ c3.flag = UNALLOCATED
  BY DEF Chunk
<1>2. c1 \in ChunkRec /\ c2 \in ChunkRec /\ c3 \in ChunkRec
  <2>1. b + s - 3 * CHUNK_ARR \in Nat /\ 3 * CHUNK_ARR \in Nat
    BY Layout
  <2>2. b + CHUNK_INFO_SIZE \in Nat /\ REGION_INFO_SIZE \in Nat
    BY Layout
  <2>3. b + REGION_INFO_SIZE + 2 * CHUNK_INFO_SIZE \in Nat /\ s - NEW_REGION_SIZE \in Nat
    BY Layout
  <2>4. QED
    BY <2>1, <2>2, <2>3 DEF Chunk, ChunkRec, Flags
<1>3. q = [base |-> b, alloc |-> s, used |-> NEW_REGION_SIZE, chunks |-> <<c1, c2, c3>>]
  BY DEF NewRegion
<1> HIDE DEF c1, c2, c3, q
<1>4. q.base = b /\ q.alloc = s /\ q.used = NEW_REGION_SIZE /\ q.chunks = <<c1, c2, c3>>
  BY <1>3
<1> DEFINE cs == <<c1, c2, c3>>
<1>5. cs \in Seq(ChunkRec) /\ Len(cs) = 3 /\ cs[1] = c1 /\ cs[2] = c2 /\ cs[3] = c3
  BY <1>2
<1>6. q \in RegionRec
  <2>1. NEW_REGION_SIZE \in Int
    BY Layout
  <2> HIDE DEF cs
  <2>2. QED
    BY <1>3, <1>5, <2>1 DEF RegionRec, cs
<1> HIDE DEF cs
<1>7. q.chunks = cs
  BY <1>4 DEF cs
<1>8. Framed(q)
  <2>1. Flagged(q)
    BY <1>1, <1>5, <1>7 DEF Flagged, Last
  <2>2. c1.addr + c1.size = b + s
    BY <1>1, Layout
  <2>3. QED
    BY <1>1, <1>4, <1>5, <1>7, <2>1, <2>2 DEF Framed
<1>9. c3.addr = c2.addr + c2.size + CHUNK_INFO_SIZE
  BY <1>1, Layout
<1>10. Ordered(cs)
  <2> SUFFICES ASSUME NEW i \in 2 .. 3, NEW j \in 2 .. 3, i < j
               PROVE  /\ cs[i].addr + CHUNK_INFO_SIZE <= cs[j].addr
                      /\ cs[i].flag = RESERVED => cs[i].addr + cs[i].size + CHUNK_INFO_SIZE <= cs[j].addr
    BY <1>5 DEF Ordered
  <2>1. i = 2 /\ j = 3
    OBVIOUS
  <2>2. c2.addr \in Nat /\ c2.size \in Nat /\ c3.addr \in Nat /\ CHUNK_INFO_SIZE \in Nat
    BY <1>2, Layout DEF ChunkRec
  <2>3. QED
    BY <1>5, <1>9, <2>1, <2>2
<1>11. Tiled(q)
  <2>1. Abuts(c3, c1)
    BY <1>1, Layout DEF Abuts
  <2>2. ASSUME NEW i \in 2 .. (Len(cs) - 1)
        PROVE  Abuts(cs[i], cs[i + 1])
    <3>1. i = 2
      BY <1>5
    <3>2. QED
      BY <1>5, <1>9, <3>1 DEF Abuts
  <2>3. QED
    BY <1>5, <1>7, <1>8, <2>1, <2>2 DEF Tiled, Framed
<1>12. Merged(cs)
  BY <1>5 DEF Merged
<1>13. ~Overrun(q)
  <2>1. ~(c3.addr > c1.addr - CHUNK_INFO_SIZE)
    BY <1>1, Layout
  <2>2. QED
    BY <1>5, <1>7, <2>1 DEF Overrun, Last
<1>14. Blocks(q) = {}
  <2>1. {i \in 3 .. Len(cs) : cs[i].flag = RESERVED} = {}
    BY <1>1, <1>5 DEF RESERVED, UNALLOCATED
  <2>2. QED
    BY <1>7, <2>1 DEF Blocks
<1>15. \A n \in Nat : Fits(q, n) <=> s - NEW_REGION_SIZE > Cost(n)
  BY <1>1, <1>5, <1>7 DEF Fits, Last
<1>16. Shaped(q) /\ Neat(q)
  BY <1>6, <1>7, <1>8, <1>10, <1>11, <1>12 DEF Shaped, Neat
<1>17. Billed(q)
  BY <1>4, <1>5, <1>7, <1>16, NewBilled
<1>18. QED
  BY <1>4, <1>13, <1>14, <1>15, <1>16, <1>17 DEF q

\* create_region's rounding: whole pages, and a region of them serves the request it was
\* made for exactly if Served says so.
LEMMA RegionSizeServes ==
  ASSUME NEW n \in Nat
  PROVE  /\ RegionSize(n) \in Nat /\ RegionSize(n) >= ALIGN
         /\ RegionSize(n) \div ALIGN \in Nat \ {0} /\ RegionSize(n) = (RegionSize(n) \div ALIGN) * ALIGN
         /\ RegionSize(n) - NEW_REGION_SIZE > Cost(n) <=> Served(n)
<1> DEFINE t == n + NEW_REGION_SIZE
           d == t \div ALIGN
           m == t % ALIGN
<1>1. ALIGN \in Nat \ {0} /\ t \in Nat /\ CHUNK_INFO_SIZE \in Nat /\ CHUNK_ARR \in Nat /\ NEW_REGION_SIZE \in Nat
  BY Layout
<1> HIDE DEF t
<1>2. d \in Nat /\ m \in 0 .. (ALIGN - 1) /\ t = d * ALIGN + m
  BY <1>1
<1>3. RegionSize(n) = (d + 1) * ALIGN
  BY DEF RegionSize, t
<1>4. Served(n) <=> m < ALIGN - (CHUNK_INFO_SIZE + CHUNK_ARR)
  BY DEF Served, t
<1>5. Cost(n) = n + CHUNK_INFO_SIZE + CHUNK_ARR
  BY DEF Cost
<1> HIDE DEF d, m
<1>6. (d + 1) * ALIGN = d * ALIGN + ALIGN /\ ((d + 1) * ALIGN) \div ALIGN = d + 1 /\ d * ALIGN \in Nat
  BY <1>1, <1>2
<1>7. (d + 1) * ALIGN - NEW_REGION_SIZE > n + CHUNK_INFO_SIZE + CHUNK_ARR
        <=> m < ALIGN - (CHUNK_INFO_SIZE + CHUNK_ARR)
  <2>1. n + NEW_REGION_SIZE = d * ALIGN + m
    BY <1>2 DEF t
  <2>2. QED
    BY <1>1, <1>2, <1>6, <2>1
<1>8. QED
  BY <1>1, <1>2, <1>3, <1>4, <1>5, <1>6, <1>7

-----------------------------------------------------------------------------
(* The regions in memory *)

\* Two ranges of memory have no byte in common.
Clear(b1, s1, b2, s2) == b1 + s1 <= b2 \/ b2 + s2 <= b1

\* Regions on pages of their own do not overlap.
LEMMA ApartBytes ==
  ASSUME NEW b1, NEW s1, NEW b2, NEW s2, Whole(b1, s1), Whole(b2, s2), Apart(b1, s1, b2, s2)
  PROVE  Clear(b1, s1, b2, s2)
<1>0. ALIGN \in Nat \ {0}
  BY Layout
<1>1. PICK f1 \in Nat, m1 \in Nat \ {0} : b1 = f1 * ALIGN /\ s1 = m1 * ALIGN
  BY DEF Whole
<1>2. PICK f2 \in Nat, m2 \in Nat \ {0} : b2 = f2 * ALIGN /\ s2 = m2 * ALIGN
  BY DEF Whole
<1>3. b1 \div ALIGN = f1 /\ s1 \div ALIGN = m1 /\ b2 \div ALIGN = f2 /\ s2 \div ALIGN = m2
  BY <1>0, <1>1, <1>2
<1>4. (f1 .. (f1 + m1 - 1)) \cap (f2 .. (f2 + m2 - 1)) = {}
  BY <1>3 DEF Apart, PagesOf, Run
<1>5. f1 + m1 <= f2 \/ f2 + m2 <= f1
  <2> SUFFICES ASSUME f2 < f1 + m1, f1 < f2 + m2
               PROVE  FALSE
    OBVIOUS
  <2>1. CASE f1 <= f2
    <3>1. f2 \in f1 .. (f1 + m1 - 1) /\ f2 \in f2 .. (f2 + m2 - 1)
      BY <2>1
    <3>2. QED
      BY <1>4, <3>1
  <2>2. CASE f2 <= f1
    <3>1. f1 \in f1 .. (f1 + m1 - 1) /\ f1 \in f2 .. (f2 + m2 - 1)
      BY <2>2
    <3>2. QED
      BY <1>4, <3>1
  <2>3. QED
    BY <2>1, <2>2
<1>6. \A f, m, g \in Nat : f + m <= g => f * ALIGN + m * ALIGN <= g * ALIGN
  <2> SUFFICES ASSUME NEW f \in Nat, NEW m \in Nat, NEW g \in Nat, f + m <= g
               PROVE  f * ALIGN + m * ALIGN <= g * ALIGN
    OBVIOUS
  <2>1. PICK d \in Nat : g = (f + m) + d
    <3>1. g - (f + m) \in Nat /\ g = (f + m) + (g - (f + m))
      OBVIOUS
    <3>2. QED
      BY <3>1
  <2>2. g * ALIGN = (f * ALIGN + m * ALIGN) + d * ALIGN /\ d * ALIGN \in Nat
    BY <1>0, <2>1
  <2>3. f * ALIGN \in Nat /\ m * ALIGN \in Nat
    BY <1>0
  <2>4. QED
    BY <2>2, <2>3
<1>7. QED
  BY <1>1, <1>2, <1>5, <1>6 DEF Clear

\* The chunks of a region lie in it, and no two have one address.
LEMMA Inside ==
  ASSUME NEW r, Shaped(r), ~Overrun(r)
  PROVE  LET cs == r.chunks
         IN  /\ \A i \in 1 .. Len(cs) :
                  /\ r.base <= cs[i].addr /\ cs[i].addr < r.base + r.alloc
                  /\ \A j \in 1 .. Len(cs) : i # j => cs[i].addr # cs[j].addr
             /\ \A i \in 3 .. Len(cs) : cs[i].flag = RESERVED =>
                  cs[i].addr + cs[i].size < r.base + r.alloc /\ cs[i].addr + cs[i].size <= cs[Len(cs)].addr
<1> DEFINE cs == r.chunks
           k == Len(cs)
<1>1. /\ r.base \in Nat /\ r.alloc \in Nat /\ k \in Nat /\ k >= 3
      /\ \A i \in 1 .. k : cs[i].addr \in Nat /\ cs[i].size \in Nat
  BY ShapedChunks
<1>2. /\ cs[1].addr + cs[1].size = r.base + r.alloc /\ cs[1].size = k * CHUNK_ARR
      /\ cs[2].addr = r.base + CHUNK_INFO_SIZE /\ cs[k].flag = UNALLOCATED
  BY DEF Shaped, Framed, Flagged, Last
<1>3. \A i, j \in 2 .. k :
        i < j => /\ cs[i].addr + CHUNK_INFO_SIZE <= cs[j].addr
                 /\ cs[i].flag = RESERVED => cs[i].addr + cs[i].size + CHUNK_INFO_SIZE <= cs[j].addr
  BY DEF Shaped, Ordered
<1>4. ~(cs[k].addr > cs[1].addr - CHUNK_INFO_SIZE)
  BY DEF Overrun, Last
<1>5. CHUNK_INFO_SIZE \in Nat \ {0} /\ CHUNK_ARR \in Nat \ {0}
  BY Layout
<1> HIDE DEF cs, k
<1>6. cs[1].addr \in Nat /\ cs[2].addr \in Nat /\ cs[k].addr \in Nat /\ cs[1].size \in Nat
  BY <1>1
<1>7. cs[1].size > 0
  BY <1>1, <1>2, <1>5
<1>8. cs[1].addr < r.base + r.alloc /\ cs[k].addr + CHUNK_INFO_SIZE <= cs[1].addr
  BY <1>1, <1>2, <1>4, <1>5, <1>6, <1>7
<1>9. \A i \in 2 .. k : /\ cs[i].addr \in Nat /\ cs[i].size \in Nat
                        /\ cs[2].addr <= cs[i].addr /\ cs[i].addr <= cs[k].addr
  <2> SUFFICES ASSUME NEW i \in 2 .. k
               PROVE  /\ cs[i].addr \in Nat /\ cs[i].size \in Nat
                      /\ cs[2].addr <= cs[i].addr /\ cs[i].addr <= cs[k].addr
    OBVIOUS
  <2> DEFINE x == cs[2].addr
             y == cs[i].addr
             z == cs[k].addr
             h == CHUNK_INFO_SIZE
  <2>1. i \in 1 .. k /\ 2 \in 2 .. k /\ k \in 2 .. k /\ (i = 2 \/ 2 < i) /\ (i = k \/ i < k)
    BY <1>1
  <2>2. y \in Nat /\ cs[i].size \in Nat /\ x \in Nat /\ z \in Nat /\ h \in Nat
    BY <1>1, <1>5, <1>6, <2>1
  <2>3. (x = y \/ x + h <= y) /\ (y = z \/ y + h <= z)
    BY <1>3, <2>1
  <2> HIDE DEF x, y, z, h
  <2>4. x <= y /\ y <= z
    BY <2>2, <2>3
  <2>5. QED
    BY <2>2, <2>4 DEF x, y, z
<1>10. \A i \in 2 .. k : r.base <= cs[i].addr /\ cs[i].addr < cs[1].addr
  <2> SUFFICES ASSUME NEW i \in 2 .. k
               PROVE  r.base <= cs[i].addr /\ cs[i].addr < cs[1].addr
    OBVIOUS
  <2>1. cs[i].addr \in Nat /\ cs[2].addr <= cs[i].addr /\ cs[i].addr <= cs[k].addr
    BY <1>9
  <2>2. QED
    BY <1>1, <1>2, <1>5, <1>6, <1>8, <2>1
<1>11. ASSUME NEW i \in 1 .. k
       PROVE  r.base <= cs[i].addr /\ cs[i].addr < r.base + r.alloc
  <2>1. r.base <= cs[1].addr
    <3>1. 2 \in 2 .. k
      BY <1>1
    <3>2. r.base <= cs[2].addr /\ cs[2].addr < cs[1].addr
      BY <1>10, <3>1
    <3>3. QED
      BY <1>1, <1>6, <3>2
  <2>2. CASE i = 1
    BY <1>8, <2>1, <2>2
  <2>3. CASE i # 1
    <3>1. i \in 2 .. k
      BY <1>1, <2>3
    <3>2. cs[i].addr \in Nat /\ r.base <= cs[i].addr /\ cs[i].addr < cs[1].addr
      BY <1>9, <1>10, <3>1
    <3>3. QED
      BY <1>1, <1>6, <1>8, <3>2
  <2>4. QED
    BY <2>2, <2>3
<1>12. ASSUME NEW i \in 2 .. k, NEW j \in 2 .. k, i < j
       PROVE  cs[i].addr # cs[j].addr
  <2>1. cs[i].addr + CHUNK_INFO_SIZE <= cs[j].addr
    BY <1>3, <1>12
  <2>2. cs[i].addr \in Nat /\ cs[j].addr \in Nat
    BY <1>9
  <2>3. QED
    BY <1>5, <2>1, <2>2
<1>13. ASSUME NEW i \in 1 .. k, NEW j \in 1 .. k, i # j
       PROVE  cs[i].addr # cs[j].addr
  <2>1. CASE i = 1 \/ j = 1
    <3>1. i \in 2 .. k \/ j \in 2 .. k
      BY <1>1, <1>13
    <3>2. \A m \in 2 .. k : cs[m].addr # cs[1].addr
      BY <1>6, <1>9, <1>10
    <3>3. QED
      BY <1>13, <2>1, <3>1, <3>2
  <2>2. CASE i # 1 /\ j # 1
    <3>1. i \in 2 .. k /\ j \in 2 .. k /\ (i < j \/ j < i)
      BY <1>1, <1>13, <2>2
    <3>2. QED
      BY <1>12, <3>1
  <2>3. QED
    BY <2>1, <2>2
<1>14. ASSUME NEW i \in 3 .. k, cs[i].flag = RESERVED
       PROVE  cs[i].addr + cs[i].size < r.base + r.alloc /\ cs[i].addr + cs[i].size <= cs[k].addr
  <2> DEFINE e == cs[i].addr + cs[i].size
  <2>1. i \in 2 .. k /\ k \in 2 .. k /\ i < k
    BY <1>1, <1>2, <1>14 DEF RESERVED, UNALLOCATED
  <2>2. e + CHUNK_INFO_SIZE <= cs[k].addr
    BY <1>3, <1>14, <2>1
  <2>3. e \in Nat
    BY <1>9, <2>1
  <2> HIDE DEF e
  <2>4. e < r.base + r.alloc /\ e <= cs[k].addr
    BY <1>1, <1>5, <1>6, <1>8, <2>2, <2>3
  <2>5. QED
    BY <2>4 DEF e
<1>15. QED
  BY <1>11, <1>13, <1>14 DEF cs, k

\* A list of well-formed regions that do not overlap.
Placed(regs) ==
  /\ regs \in Seq(RegionRec)
  /\ \A i \in DOMAIN regs :
       /\ Shaped(regs[i]) /\ ~Overrun(regs[i])
       /\ \A j \in DOMAIN regs :
            i # j => Clear(regs[i].base, regs[i].alloc, regs[j].base, regs[j].alloc)

BlocksOf(regs) == UNION {Blocks(regs[i]) : i \in DOMAIN regs}

\* Chunk j of region i is block b.
IsBlock(regs, i, j, b) ==
  /\ i \in DOMAIN regs /\ j \in 3 .. Len(regs[i].chunks) /\ regs[i].chunks[j].flag = RESERVED
  /\ b = [addr |-> regs[i].chunks[j].addr, size |-> regs[i].chunks[j].size]

\* No address is that of two chunks, in one region or in two.
LEMMA AddressUnique ==
  ASSUME NEW regs, Placed(regs), NEW i \in DOMAIN regs, NEW m \in DOMAIN regs,
         NEW j \in 1 .. Len(regs[i].chunks), NEW n \in 1 .. Len(regs[m].chunks),
         regs[i].chunks[j].addr = regs[m].chunks[n].addr
  PROVE  i = m /\ j = n
<1> DEFINE r == regs[i]
           q == regs[m]
           a == r.chunks[j].addr
<1>1. Shaped(r) /\ ~Overrun(r) /\ Shaped(q) /\ ~Overrun(q)
  BY DEF Placed
<1>2. /\ r.base \in Nat /\ r.alloc \in Nat /\ q.base \in Nat /\ q.alloc \in Nat /\ a \in Nat
  <2> HIDE DEF r, q
  <2>1. \A x \in 1 .. Len(r.chunks) : r.chunks[x].addr \in Nat
    BY <1>1, ShapedChunks
  <2>2. a \in Nat
    BY <2>1 DEF r
  <2>3. QED
    BY <1>1, <2>2, ShapedChunks
<1>3. r.base <= a /\ a < r.base + r.alloc
  <2> HIDE DEF r, q
  <2>1. \A x \in 1 .. Len(r.chunks) : r.base <= r.chunks[x].addr /\ r.chunks[x].addr < r.base + r.alloc
    BY <1>1, Inside
  <2>2. QED
    BY <2>1 DEF r
<1>4. q.base <= a /\ a < q.base + q.alloc
  <2> HIDE DEF r, q
  <2>1. \A x \in 1 .. Len(q.chunks) : q.base <= q.chunks[x].addr /\ q.chunks[x].addr < q.base + q.alloc
    BY <1>1, Inside
  <2>2. a = q.chunks[n].addr
    BY DEF q, r
  <2>3. n \in 1 .. Len(q.chunks)
    BY DEF q
  <2>4. QED
    BY <2>1, <2>2, <2>3
<1>5. i = m
  <2> SUFFICES ASSUME i # m PROVE FALSE
    OBVIOUS
  <2>1. Clear(r.base, r.alloc, q.base, q.alloc)
    BY DEF Placed
  <2> HIDE DEF r, q, a
  <2>2. QED
    BY <1>2, <1>3, <1>4, <2>1 DEF Clear
<1>6. \A x, y \in 1 .. Len(r.chunks) : x # y => r.chunks[x].addr # r.chunks[y].addr
  <2> HIDE DEF r
  <2>1. QED
    BY <1>1, Inside
<1>7. QED
  BY <1>5, <1>6

\* A block is a chunk of one of the regions, and there is one block at an address.
LEMMA BlockAt ==
  ASSUME NEW regs, Placed(regs)
  PROVE  /\ \A b \in BlocksOf(regs) : \E i, j : IsBlock(regs, i, j, b)
         /\ \A i, j, b : IsBlock(regs, i, j, b) => b \in Blocks(regs[i]) /\ b \in BlocksOf(regs)
         /\ \A b \in BlocksOf(regs) : b.addr \in Nat /\ b.size \in Nat
         /\ \A b, c \in BlocksOf(regs) : b.addr = c.addr => b = c
         /\ \A i, m \in DOMAIN regs : \A b \in Blocks(regs[i]) : b \in Blocks(regs[m]) => i = m
<1>1. ASSUME NEW i \in DOMAIN regs, NEW b \in Blocks(regs[i])
      PROVE  \E j : IsBlock(regs, i, j, b)
  BY DEF Blocks, IsBlock
<1>2. ASSUME NEW b \in BlocksOf(regs)
      PROVE  \E i, j : IsBlock(regs, i, j, b)
  BY <1>1 DEF BlocksOf
<1>3. ASSUME NEW i, NEW j, NEW b, IsBlock(regs, i, j, b)
      PROVE  b \in Blocks(regs[i]) /\ b \in BlocksOf(regs)
  BY <1>3 DEF Blocks, IsBlock, BlocksOf
<1>4. ASSUME NEW i, NEW j, NEW b, IsBlock(regs, i, j, b)
      PROVE  /\ i \in DOMAIN regs /\ j \in 1 .. Len(regs[i].chunks)
             /\ b.addr = regs[i].chunks[j].addr /\ b.size = regs[i].chunks[j].size
             /\ b.addr \in Nat /\ b.size \in Nat
  <2>1. Shaped(regs[i])
    BY <1>4 DEF Placed, IsBlock
  <2>2. Len(regs[i].chunks) \in Nat
        /\ \A x \in 1 .. Len(regs[i].chunks) : regs[i].chunks[x].addr \in Nat /\ regs[i].chunks[x].size \in Nat
    BY <2>1, ShapedChunks
  <2>3. i \in DOMAIN regs /\ j \in 3 .. Len(regs[i].chunks)
        /\ b.addr = regs[i].chunks[j].addr /\ b.size = regs[i].chunks[j].size
    BY <1>4 DEF IsBlock
  <2>4. j \in 1 .. Len(regs[i].chunks)
    BY <2>2, <2>3
  <2>5. QED
    BY <2>2, <2>3, <2>4
<1>5. ASSUME NEW i, NEW j, NEW b, NEW m, NEW n, NEW c, IsBlock(regs, i, j, b), IsBlock(regs, m, n, c), b.addr = c.addr
      PROVE  i = m /\ j = n /\ b = c
  <2>1. i = m /\ j = n
    BY <1>4, <1>5, AddressUnique
  <2>2. QED
    BY <1>5, <2>1 DEF IsBlock
<1>6. \A b \in BlocksOf(regs) : b.addr \in Nat /\ b.size \in Nat
  BY <1>2, <1>4
<1>7. \A b, c \in BlocksOf(regs) : b.addr = c.addr => b = c
  BY <1>2, <1>5
<1>8. \A i, m \in DOMAIN regs : \A b \in Blocks(regs[i]) : b \in Blocks(regs[m]) => i = m
  BY <1>1, <1>5
<1>9. QED
  BY <1>2, <1>3, <1>6, <1>7, <1>8

\* cull's search finds the block.
LEMMA SearchFinds ==
  ASSUME NEW regs, Placed(regs), NEW i, NEW j, NEW b, IsBlock(regs, i, j, b)
  PROVE  Search(regs, b.addr) = <<i, j>>
<1> DEFINE at == UNION {{<<m, n>> : n \in {n \in DOMAIN regs[m].chunks :
                                              regs[m].chunks[n].addr = b.addr}} : m \in DOMAIN regs}
<1>1. \A m \in DOMAIN regs : DOMAIN regs[m].chunks = 1 .. Len(regs[m].chunks) /\ Len(regs[m].chunks) \in Nat
  BY ShapedChunks DEF Placed
<1>2. i \in DOMAIN regs /\ j \in 1 .. Len(regs[i].chunks) /\ b.addr = regs[i].chunks[j].addr
  <2>1. i \in DOMAIN regs /\ j \in 3 .. Len(regs[i].chunks) /\ b.addr = regs[i].chunks[j].addr
    BY DEF IsBlock
  <2>2. QED
    BY <1>1, <2>1
<1>3. ASSUME NEW m \in DOMAIN regs, NEW n \in DOMAIN regs[m].chunks, regs[m].chunks[n].addr = b.addr
      PROVE  m = i /\ n = j
  BY <1>1, <1>2, <1>3, AddressUnique
<1>4. at = {<<i, j>>}
  BY <1>1, <1>2, <1>3
<1>5. i \in Nat /\ j \in Nat
  <2>1. regs \in Seq(RegionRec)
    BY DEF Placed
  <2>2. DOMAIN regs = 1 .. Len(regs) /\ Len(regs) \in Nat
    BY <2>1, LenProperties
  <2>3. QED
    BY <1>2, <2>2
<1> DEFINE P(p) == \A q \in at : p[1] < q[1] \/ (p[1] = q[1] /\ p[2] <= q[2])
<1>6. Search(regs, b.addr) = CHOOSE p \in at : P(p)
  BY DEF Search
<1> HIDE DEF at
<1>7. P(<<i, j>>)
  BY <1>4, <1>5
<1> HIDE DEF P
<1>8. QED
  BY <1>4, <1>6, <1>7

\* The list q of regions is regs with region i changed where it is.
Changed(regs, q, i) ==
  /\ i \in DOMAIN regs /\ q \in Seq(RegionRec) /\ Len(q) = Len(regs) /\ DOMAIN q = DOMAIN regs
  /\ \A m \in DOMAIN regs : m # i => q[m] = regs[m]
  /\ Shaped(q[i]) /\ q[i].base = regs[i].base /\ q[i].alloc = regs[i].alloc

\* A region replaced by one that is well formed and in the same place.
LEMMA Replaced ==
  ASSUME NEW regs \in Seq(RegionRec), NEW i \in DOMAIN regs, NEW r, Shaped(r),
         r.base = regs[i].base, r.alloc = regs[i].alloc
  PROVE  /\ Changed(regs, [regs EXCEPT ![i] = r], i) /\ [regs EXCEPT ![i] = r][i] = r
         /\ Placed(regs) /\ ~Overrun(r) => Placed([regs EXCEPT ![i] = r])
<1> DEFINE q == [regs EXCEPT ![i] = r]
<1>1. DOMAIN regs = 1 .. Len(regs) /\ r \in RegionRec
  BY LenProperties DEF Shaped
<1>2. q \in Seq(RegionRec) /\ Len(q) = Len(regs) /\ \A m \in 1 .. Len(regs) : q[m] = IF m = i THEN r ELSE regs[m]
  BY <1>1, ExceptSeq
<1>3. DOMAIN q = DOMAIN regs
  OBVIOUS
<1> HIDE DEF q
<1>4. q[i] = r /\ \A m \in DOMAIN regs : m # i => q[m] = regs[m]
  BY <1>1, <1>2
<1>5. Changed(regs, q, i)
  BY <1>2, <1>3, <1>4 DEF Changed
<1>6. ASSUME Placed(regs), ~Overrun(r)
      PROVE  Placed(q)
  <2>1. ASSUME NEW m \in DOMAIN regs
        PROVE  Shaped(q[m]) /\ ~Overrun(q[m]) /\ q[m].base = regs[m].base /\ q[m].alloc = regs[m].alloc
    BY <1>4, <1>6 DEF Placed
  <2>2. QED
    BY <1>2, <1>3, <1>6, <2>1 DEF Placed
<1>7. QED
  BY <1>4, <1>5, <1>6 DEF q

\* What lies in ranges that do not overlap does not overlap.
LEMMA ClearParts ==
  ASSUME NEW b1 \in Nat, NEW s1 \in Nat, NEW b2 \in Nat, NEW s2 \in Nat, Clear(b1, s1, b2, s2),
         NEW a1 \in Nat, NEW n1 \in Nat, b1 <= a1, a1 + n1 < b1 + s1,
         NEW a2 \in Nat, NEW n2 \in Nat, b2 <= a2, a2 + n2 < b2 + s2
  PROVE  a1 + n1 <= a2 \/ a2 + n2 <= a1
BY DEF Clear

\* What a change to one region means for the blocks of all.
LEMMA ChangedBlocks ==
  ASSUME NEW regs, NEW q, NEW i, Changed(regs, q, i)
  PROVE  BlocksOf(q) = Blocks(q[i]) \cup UNION {Blocks(regs[m]) : m \in DOMAIN regs \ {i}}
<1>1. \A m \in DOMAIN regs \ {i} : Blocks(q[m]) = Blocks(regs[m])
  BY DEF Changed
<1>2. DOMAIN q = DOMAIN regs /\ i \in DOMAIN regs
  BY DEF Changed
<1>3. QED
  BY <1>1, <1>2 DEF BlocksOf

\* cull of a block: it goes, and nothing else does, from the region it is in.
LEMMA CullBlocks ==
  ASSUME NEW regs, Placed(regs), NEW b \in BlocksOf(regs)
  PROVE  LET q == CullPtr(regs, b.addr)
         IN  /\ Placed(q) /\ BlocksOf(q) = BlocksOf(regs) \ {b}
             /\ \E i : /\ Changed(regs, q, i)
                       /\ Neat(regs[i]) /\ regs[i].base \notin CullSandwich(regs, b.addr) => Neat(q[i])
                       /\ Billed(regs[i]) => Billed(q[i])
<1>1. PICK i, j : IsBlock(regs, i, j, b)
  BY BlockAt
<1> DEFINE r == regs[i]
           c == Cull(r, j, b.addr)
           q == CullPtr(regs, b.addr)
<1>2. Search(regs, b.addr) = <<i, j>>
  BY <1>1, SearchFinds
<1>3. i \in DOMAIN regs /\ j \in 3 .. Len(r.chunks) /\ r.chunks[j].flag = RESERVED /\ b.addr = r.chunks[j].addr
      /\ b = [addr |-> r.chunks[j].addr, size |-> r.chunks[j].size]
  BY <1>1 DEF IsBlock
<1>4. q = [regs EXCEPT ![i] = c]
  BY <1>2 DEF CullPtr
<1>5. CullSandwich(regs, b.addr) = IF Sandwiched(r.chunks, j) THEN {r.base} ELSE {}
  BY <1>2 DEF CullSandwich
<1>6. Shaped(r) /\ ~Overrun(r) /\ regs \in Seq(RegionRec)
  BY <1>3 DEF Placed
<1>7. /\ Shaped(c) /\ c.base = r.base /\ c.alloc = r.alloc /\ Blocks(c) = Blocks(r) \ {b} /\ ~Overrun(c)
      /\ Neat(r) /\ ~Sandwiched(r.chunks, j) => Neat(c)
      /\ Billed(r) => Billed(c)
  <2> HIDE DEF r
  <2>1. QED
    BY <1>3, <1>6, CullShaped
<1> HIDE DEF c, q
<1>8. Changed(regs, q, i) /\ q[i] = c /\ Placed(q)
  BY <1>3, <1>4, <1>6, <1>7, Replaced
<1>9. BlocksOf(q) = BlocksOf(regs) \ {b}
  <2>1. BlocksOf(q) = (Blocks(r) \ {b}) \cup UNION {Blocks(regs[m]) : m \in DOMAIN regs \ {i}}
    BY <1>7, <1>8, ChangedBlocks
  <2>2. b \in Blocks(regs[i])
    BY <1>1, BlockAt
  <2>3. \A m \in DOMAIN regs \ {i} : b \notin Blocks(regs[m])
    BY <1>3, <2>2, BlockAt
  <2>4. BlocksOf(regs) = Blocks(r) \cup UNION {Blocks(regs[m]) : m \in DOMAIN regs \ {i}}
    BY <1>3 DEF BlocksOf
  <2>5. QED
    BY <2>1, <2>3, <2>4
<1>10. Neat(regs[i]) /\ regs[i].base \notin CullSandwich(regs, b.addr) => Neat(q[i])
  BY <1>5, <1>7, <1>8
<1>11. Billed(regs[i]) => Billed(q[i])
  BY <1>7, <1>8
<1>12. QED
  BY <1>8, <1>9, <1>10, <1>11 DEF q

\* alloc's block: it is added to the blocks of the region, and as long as the header after it does
\* not run into the chunk array it overlaps no other.
LEMMA CarveBlocks ==
  ASSUME NEW regs, Placed(regs), NEW i \in DOMAIN regs, NEW n \in Nat, Fits(regs[i], n)
  PROVE  LET q == [regs EXCEPT ![i] = Carve(@, n)]
             block == [addr |-> Last(regs[i].chunks).addr, size |-> n]
         IN  /\ Changed(regs, q, i) /\ BlocksOf(q) = BlocksOf(regs) \cup {block}
             /\ \A c \in BlocksOf(regs) : c.addr # block.addr
             /\ Neat(regs[i]) => Neat(q[i]) /\ ~Overrun(q[i])
             /\ ~Overrun(q[i]) => Placed(q) /\ \A c \in BlocksOf(regs) : Promise!Disjoint(block, c)
             /\ Billed(regs[i]) => Billed(q[i])
<1> DEFINE r == regs[i]
           k == Len(r.chunks)
           d == Carve(r, n)
           q == [regs EXCEPT ![i] = Carve(@, n)]
           block == [addr |-> Last(r.chunks).addr, size |-> n]
<1>1. Shaped(r) /\ ~Overrun(r) /\ regs \in Seq(RegionRec) /\ Fits(r, n)
  BY DEF Placed
<1>2. q = [regs EXCEPT ![i] = d]
  OBVIOUS
<1>3. /\ Shaped(d) /\ d.base = r.base /\ d.alloc = r.alloc /\ Blocks(d) = Blocks(r) \cup {block}
      /\ Neat(r) => Neat(d) /\ ~Overrun(d)
      /\ Split(r.chunks, d.chunks, n)
      /\ Billed(r) => Billed(d)
  <2> HIDE DEF r
  <2>1. QED
    BY <1>1, CarveShaped
<1>4. block.addr = r.chunks[k].addr /\ block.size = n
  BY DEF Last
<1> HIDE DEF d, q
<1>5. Changed(regs, q, i) /\ q[i] = d /\ (~Overrun(d) => Placed(q))
  BY <1>1, <1>2, <1>3, Replaced
<1>6. BlocksOf(q) = BlocksOf(regs) \cup {block}
  <2>1. BlocksOf(q) = (Blocks(r) \cup {block}) \cup UNION {Blocks(regs[m]) : m \in DOMAIN regs \ {i}}
    BY <1>3, <1>5, ChangedBlocks
  <2>2. BlocksOf(regs) = Blocks(r) \cup UNION {Blocks(regs[m]) : m \in DOMAIN regs \ {i}}
    BY DEF BlocksOf
  <2>3. QED
    BY <2>1, <2>2
<1>7. /\ k \in Nat /\ k >= 3 /\ k \in 1 .. k /\ r.chunks[k].flag = UNALLOCATED /\ r.chunks[k].addr \in Nat
      /\ r.base \in Nat /\ r.alloc \in Nat
  <2> HIDE DEF r
  <2>1. k \in Nat /\ k >= 3 /\ k \in 1 .. k /\ r.base \in Nat /\ r.alloc \in Nat
    BY <1>1, ShapedChunks
  <2>2. r.chunks[k].addr \in Nat
    BY <1>1, <2>1, ShapedChunks
  <2>3. QED
    BY <1>1, <2>1, <2>2 DEF Shaped, Framed, Flagged, Last
<1>8. ASSUME NEW c \in BlocksOf(regs)
      PROVE  c.addr # block.addr
  <2> SUFFICES ASSUME c.addr = block.addr PROVE FALSE
    OBVIOUS
  <2>1. PICK m, j : IsBlock(regs, m, j, c)
    BY BlockAt
  <2>2. m \in DOMAIN regs /\ j \in 3 .. Len(regs[m].chunks) /\ c.addr = regs[m].chunks[j].addr
        /\ regs[m].chunks[j].flag = RESERVED
    BY <2>1 DEF IsBlock
  <2>3. j \in 1 .. Len(regs[m].chunks)
    <3>1. Shaped(regs[m])
      BY <2>2 DEF Placed
    <3>2. Len(regs[m].chunks) \in Nat
      BY <3>1, ShapedChunks
    <3>3. QED
      BY <2>2, <3>2
  <2>4. i = m /\ k = j
    BY <1>4, <1>7, <2>2, <2>3, AddressUnique
  <2>5. QED
    BY <1>7, <2>2, <2>4 DEF RESERVED, UNALLOCATED
<1>9. ASSUME ~Overrun(d), NEW c \in BlocksOf(regs)
      PROVE  Promise!Disjoint(block, c)
  <2>1. PICK m, j : IsBlock(regs, m, j, c)
    BY BlockAt
  <2> DEFINE s == regs[m]
  <2>2. /\ m \in DOMAIN regs /\ j \in 3 .. Len(s.chunks) /\ s.chunks[j].flag = RESERVED
        /\ c.addr = s.chunks[j].addr /\ c.size = s.chunks[j].size
    BY <2>1 DEF IsBlock
  <2>3. Shaped(s) /\ ~Overrun(s)
    BY <2>2 DEF Placed
  <2>4. c.addr \in Nat /\ c.size \in Nat
    BY BlockAt
  <2>5. /\ s.base <= c.addr /\ c.addr + c.size < s.base + s.alloc /\ c.addr + c.size <= s.chunks[Len(s.chunks)].addr
        /\ s.base \in Nat /\ s.alloc \in Nat
    <3> HIDE DEF s
    <3>1. Len(s.chunks) \in Nat /\ s.base \in Nat /\ s.alloc \in Nat
      BY <2>3, ShapedChunks
    <3>2. j \in 1 .. Len(s.chunks)
      BY <2>2, <3>1
    <3>3. s.base <= s.chunks[j].addr
      BY <2>3, <3>2, Inside
    <3>4. s.chunks[j].addr + s.chunks[j].size < s.base + s.alloc
          /\ s.chunks[j].addr + s.chunks[j].size <= s.chunks[Len(s.chunks)].addr
      BY <2>2, <2>3, Inside
    <3>5. QED
      BY <2>2, <3>1, <3>3, <3>4
  <2>6. CASE m = i
    <3>1. c.addr + c.size <= block.addr
      BY <1>4, <2>5, <2>6
    <3>2. QED
      BY <3>1 DEF Promise!Disjoint
  <2>7. CASE m # i
    <3>1. Clear(r.base, r.alloc, s.base, s.alloc)
      BY <2>2, <2>7 DEF Placed
    <3>2. r.base <= block.addr /\ block.addr + block.size < r.base + r.alloc
      <4>1. d.chunks[k].addr = r.chunks[k].addr /\ d.chunks[k].size = n /\ d.chunks[k].flag = RESERVED
        BY <1>3, SplitFields
      <4>2. Len(d.chunks) = k + 1
        BY <1>3 DEF Split
      <4>3. k \in 3 .. Len(d.chunks) /\ k \in 1 .. Len(d.chunks)
        BY <1>7, <4>2
      <4>4. d.base <= d.chunks[k].addr
        BY <1>3, <1>9, <4>3, Inside
      <4>5. d.chunks[k].addr + d.chunks[k].size < d.base + d.alloc
        BY <1>3, <1>9, <4>1, <4>3, Inside
      <4>6. QED
        BY <1>3, <1>4, <4>1, <4>4, <4>5
    <3>3. block.addr \in Nat /\ block.size \in Nat
      BY <1>4, <1>7
    <3> HIDE DEF r, s, block
    <3>4. block.addr + block.size <= c.addr \/ c.addr + c.size <= block.addr
      BY <1>7, <2>4, <2>5, <3>1, <3>2, <3>3, ClearParts
    <3>5. QED
      BY <3>4 DEF Promise!Disjoint
  <2>8. QED
    BY <2>6, <2>7
<1>10. QED
  BY <1>3, <1>5, <1>6, <1>8, <1>9 DEF q

-----------------------------------------------------------------------------
(* Pages *)

\* What reserve asks for.
LEMMA RequestAt ==
  /\ pc = "create" => Request[1] = InitPages /\ Request[2] = MEM_K
  /\ pc = "create_user" => Request[1] = InitPages /\ Request[2] = MEM_U
  /\ pc = "region" => Request[1] = RegionSize(call.n) \div ALIGN /\ Request[2] = MEM_U
  /\ pc = "grow" => Request[1] = (kheap.alloc + ALIGN) \div ALIGN /\ Request[2] = MEM_K
BY DEF Request

\* The memory that reserve gives: whole pages, marked before in no way and in the zone asked for.
LEMMA Reserved ==
  ASSUME NEW u \in SUBSET (0 .. (MaxChunk - 1)), NEW c \in Nat \ {0}, NEW type \in MemTypes,
         Found(u, c, type) # -1
  PROVE  LET f == Found(u, c, type)
         IN  /\ f \in Nat /\ Chunks(c) = c /\ c <= MaxChunk
             /\ f * ALIGN \in Nat /\ c * ALIGN \in Nat /\ c * ALIGN >= ALIGN
             /\ (f * ALIGN) \div ALIGN = f /\ (c * ALIGN) \div ALIGN = c
             /\ Whole(f * ALIGN, c * ALIGN) /\ PagesOf(f * ALIGN, c * ALIGN) = Run(f, c)
             /\ Run(f, c) \cap u = {} /\ u \cup Run(f, c) \subseteq 0 .. (MaxChunk - 1)
             /\ type = MEM_K => KernelChunks > 0
             /\ type = MEM_U /\ KernelChunks > 0 => f * ALIGN >= ALIGN
<1> DEFINE f == Found(u, c, type)
<1>0. ALIGN \in Nat \ {0} /\ KernelChunks \in Nat /\ MaxChunk \in Nat /\ KernelChunks <= MaxChunk
  BY Layout, ChunkAssumption
<1>1. f \in Nat /\ f >= ZoneStart(type) /\ f + Chunks(c) < ZoneEnd(type) /\ Run(f, Chunks(c)) \cap u = {}
  BY FoundRun
<1>2. Chunks(c) = c
  BY DEF Chunks
<1> HIDE DEF f
<1>3. f + c < MaxChunk
  BY <1>0, <1>1, <1>2 DEF ZoneEnd
<1>4. f * ALIGN \in Nat /\ c * ALIGN \in Nat /\ c * ALIGN >= ALIGN
  BY <1>0, <1>1
<1>5. (f * ALIGN) \div ALIGN = f /\ (c * ALIGN) \div ALIGN = c
  BY <1>0, <1>1
<1>6. Whole(f * ALIGN, c * ALIGN) /\ PagesOf(f * ALIGN, c * ALIGN) = Run(f, c)
  BY <1>1, <1>5 DEF Whole, PagesOf
<1>7. u \cup Run(f, c) \subseteq 0 .. (MaxChunk - 1)
  BY <1>0, <1>1, <1>3 DEF Run
<1>8. type = MEM_K => KernelChunks > 0
  BY <1>0, <1>1, <1>2 DEF ZoneEnd
<1>9. ASSUME type = MEM_U, KernelChunks > 0
      PROVE  f * ALIGN >= ALIGN
  <2>1. f > 0
    BY <1>0, <1>1, <1>9 DEF ZoneStart, MEM_K, MEM_U
  <2>2. QED
    BY <1>0, <1>1, <2>1
<1>10. c <= MaxChunk
  BY <1>0, <1>1, <1>3
<1>11. QED
  BY <1>1, <1>2, <1>4, <1>5, <1>6, <1>7, <1>8, <1>9, <1>10 DEF f

\* The regions do not overlap.
LEMMA RegionsPlaced ==
  ASSUME HeapInv, status # "corrupt"
  PROVE  Placed(regions)
<1>1. RegionsOK /\ PagesOK
  BY DEF HeapInv
<1>2. regions \in Seq(RegionRec) /\ \A i \in DOMAIN regions : Shaped(regions[i]) /\ ~Overrun(regions[i])
  BY <1>1 DEF RegionsOK
<1>3. ASSUME NEW i \in DOMAIN regions, NEW j \in DOMAIN regions, i # j
      PROVE  Clear(regions[i].base, regions[i].alloc, regions[j].base, regions[j].alloc)
  <2>1. pc # "create"
    BY <1>1 DEF PagesOK
  <2>2. /\ Whole(regions[i].base, regions[i].alloc) /\ Whole(regions[j].base, regions[j].alloc)
        /\ Apart(regions[i].base, regions[i].alloc, regions[j].base, regions[j].alloc)
    BY <1>1, <1>3, <2>1 DEF PagesOK, Held, Owned
  <2>3. QED
    BY <2>2, ApartBytes
<1>4. QED
  BY <1>2, <1>3 DEF Placed

\* Nothing is asked of the pages when no region moves.
LEMMA HeldStays ==
  ASSUME NEW u, NEW kh, NEW regs, NEW pd, Held(u, kh, regs, pd), NEW kg, NEW q,
         kg.base = kh.base, kg.alloc = kh.alloc, DOMAIN q = DOMAIN regs,
         \A i \in DOMAIN regs : q[i].base = regs[i].base /\ q[i].alloc = regs[i].alloc
  PROVE  Held(u, kg, q, pd)
BY DEF Held

\* Pages that were free, once marked, are apart from all that is held.
LEMMA HeldMore ==
  ASSUME NEW u, NEW kh, NEW regs, NEW pd, Held(u, kh, regs, pd), NEW b, NEW s, NEW v,
         Whole(b, s), PagesOf(b, s) \cap u = {}, v = u \cup PagesOf(b, s)
  PROVE  /\ Held(v, kh, regs, pd) /\ Owned(v, b, s)
         /\ Apart(kh.base, kh.alloc, b, s)
         /\ \A i \in DOMAIN regs : Apart(regs[i].base, regs[i].alloc, b, s)
         /\ \A i \in DOMAIN pd : Apart(pd[i].base, pd[i].size, b, s)
<1>1. \A x, y : Owned(u, x, y) => Owned(v, x, y) /\ Apart(x, y, b, s)
  BY DEF Owned, Apart
<1>2. Owned(v, b, s)
  BY DEF Owned
<1>3. QED
  BY <1>1, <1>2 DEF Held

-----------------------------------------------------------------------------
(* The steps *)

\* Nothing is held at first.
LEMMA HeapInit == Init => HeapInv
<1> SUFFICES ASSUME Init PROVE HeapInv
  OBVIOUS
<1>1. used \subseteq 0 .. (MaxChunk - 1)
  BY ChunkAssumption DEF Init, mem_init, Run
<1>2. regions = << >> /\ pend = << >> /\ DOMAIN regions = {} /\ live = {} /\ kheap = NoKheap
  BY DEF Init
<1>3. RegionsOK /\ PagesOK /\ BlocksMatch
  BY <1>2 DEF Init, RegionsOK, PagesOK, BlocksMatch
<1>4. PendOK
  BY <1>2 DEF Init, PendOK
<1>5. CallOK
  <2>1. call.op = "none" /\ call.n = 0 /\ call.ptr = 0
    BY DEF Init, NoCall
  <2>2. QED
    BY <2>1 DEF Init, CallOK
<1>6. QED
  BY <1>1, <1>3, <1>4, <1>5 DEF Init, HeapInv

\* A step that leaves the heap alone and stops the machine otherwise than by an overrun.
LEMMA StopStep ==
  ASSUME HeapInv, status = "ok", status' \in {"exhausted", "stale"},
         UNCHANGED <<used, kheap, regions, handle, pc, call, pend, created, ghosts>>
  PROVE  HeapInv'
<1>1. UNCHANGED <<used, kheap, regions, pc, call, pend, created, live, sandwich>>
  BY DEF ghosts
<1>2. RegionsOK'
  BY <1>1 DEF HeapInv, RegionsOK, Sound
<1>3. PagesOK' /\ PendOK' /\ BlocksMatch'
  BY <1>1 DEF HeapInv, PagesOK, PendOK, BlocksMatch
<1>4. CallOK'
  BY <1>1 DEF HeapInv, CallOK, Roomy
<1>5. QED
  BY <1>1, <1>2, <1>3, <1>4 DEF HeapInv

\* A call begins, or goes on to create_region.
LEMMA CallStep ==
  ASSUME HeapInv, status = "ok", pc' \in {"alloc", "region"}, pc \in {"idle", "alloc"}, CallOK',
         UNCHANGED <<used, kheap, regions, handle, pend, ghosts, status>>
  PROVE  HeapInv'
<1>1. UNCHANGED <<used, kheap, regions, pend, live, sandwich, status>>
  BY DEF ghosts
<1>2. RegionsOK' /\ BlocksMatch'
  BY <1>1 DEF HeapInv, RegionsOK, Sound, BlocksMatch
<1>3. PagesOK'
  BY <1>1 DEF HeapInv, PagesOK
<1>4. PendOK'
  <2>1. pend = << >>
    BY DEF HeapInv, PendOK
  <2>2. QED
    BY <1>1, <2>1 DEF PendOK
<1>5. QED
  BY <1>1, <1>2, <1>3, <1>4 DEF HeapInv

\* new begins: no region was created yet.
LEMMA NewStep ==
  ASSUME HeapInv, NEW n \in Sizes, new(n)
  PROVE  HeapInv'
<1>1. n \in Nat
  BY HeapAssumption
<1>2. CallOK'
  <2>1. call'.op = "new" /\ call'.n = n /\ call'.ptr = 0 /\ created' = 0 /\ pc' = "alloc" /\ status' = "ok"
    BY DEF new, Running
  <2>2. QED
    BY <1>1, <2>1 DEF CallOK
<1>3. QED
  BY <1>2, CallStep DEF new, Running

\* alt begins with the address of a block a client holds.
LEMMA AltStep ==
  ASSUME HeapInv, NEW b \in live, NEW n \in Sizes, alt(b, n)
  PROVE  HeapInv'
<1>1. n \in Nat
  BY HeapAssumption
<1>2. status = "ok"
  BY DEF alt, Running
<1>3. Placed(regions) /\ b \in BlocksOf(regions)
  BY <1>2, RegionsPlaced DEF HeapInv, BlocksMatch, BlocksOf
<1>4. b.addr \in Nat
  BY <1>3, BlockAt
<1>5. CallOK'
  <2>1. call'.op = "alt" /\ call'.n = n /\ call'.ptr = b.addr /\ created' = 0 /\ pc' = "alloc" /\ status' = "ok" /\ live' = live
    BY DEF alt, Running, ghosts
  <2>2. QED
    BY <1>1, <1>4, <2>1 DEF CallOK
<1>6. QED
  BY <1>5, CallStep DEF alt, Running

\* alloc_miss: a served request that finds no room is at its first region.
LEMMA MissStep ==
  ASSUME HeapInv, alloc_miss
  PROVE  HeapInv'
<1>1. /\ pc = "alloc" /\ status = "ok" /\ pc' = "region" /\ status' = status /\ call' = call /\ created' = created
      /\ regions' = regions /\ live' = live /\ Roomy(call.n) = {}
  BY DEF alloc_miss, Running, ghosts
<1>2. CallOK
  BY DEF HeapInv
<1>3. Served(call.n) => created = 0
  BY <1>1, <1>2 DEF CallOK
<1>4. Roomy(call.n)' = {}
  BY <1>1 DEF Roomy
<1>5. CallOK'
  BY <1>1, <1>2, <1>3, <1>4 DEF CallOK
<1>6. QED
  BY <1>1, <1>5, CallStep DEF alloc_miss, Running

\* The kernel region lies where its pages are.
LEMMA NewKheapAt ==
  ASSUME NEW b, NEW s, NEW n
  PROVE  NewKheap(b, s, n).base = b /\ NewKheap(b, s, n).alloc = s
BY DEF NewKheap

\* create: the kernel region's pages are the first ones held.
LEMMA CreateStep ==
  ASSUME HeapInv, create
  PROVE  HeapInv'
<1> DEFINE f == Found(used, InitPages, MEM_K)
           b == f * ALIGN
           s == InitPages * ALIGN
<1>1. /\ status = "ok" /\ pc = "create" /\ pc' = "create_user"
      /\ UNCHANGED <<regions, handle, call, pend, created, live, sandwich, status>>
      /\ kheap' = NewKheap(FoundPages * ALIGN, s, 2) /\ Reserve
  BY DEF create, Running, ghosts
<1>2. FoundPages = f /\ f # -1 /\ used' = used \cup Run(f, Chunks(InitPages))
  BY <1>1, RequestAt DEF Reserve, FoundPages
<1>3. used \in SUBSET (0 .. (MaxChunk - 1)) /\ InitPages \in Nat \ {0} /\ MEM_K \in MemTypes
  BY HeapAssumption DEF HeapInv, MemTypes
<1>4. /\ Chunks(InitPages) = InitPages /\ Whole(b, s) /\ PagesOf(b, s) = Run(f, InitPages)
      /\ used \cup Run(f, InitPages) \subseteq 0 .. (MaxChunk - 1) /\ KernelChunks > 0
  BY <1>2, <1>3, Reserved
<1>5. kheap'.base = b /\ kheap'.alloc = s
  BY <1>1, <1>2, NewKheapAt
<1> HIDE DEF f, b, s
<1>6. used' \subseteq 0 .. (MaxChunk - 1) /\ Owned(used', b, s)
  BY <1>2, <1>4 DEF Owned
<1>7. regions = << >> /\ pend = << >> /\ DOMAIN regions = {} /\ DOMAIN pend = {}
  BY <1>1 DEF HeapInv, PagesOK, PendOK
<1>8. Held(used, kheap, regions, pend)'
  BY <1>1, <1>5, <1>6, <1>7 DEF Held
<1>9. PagesOK'
  BY <1>1, <1>4, <1>7, <1>8 DEF PagesOK
<1>10. RegionsOK' /\ BlocksMatch'
  BY <1>1 DEF HeapInv, RegionsOK, Sound, BlocksMatch
<1>11. PendOK'
  BY <1>1, <1>7 DEF PendOK
<1>12. CallOK'
  BY <1>1 DEF HeapInv, CallOK
<1>13. QED
  BY <1>1, <1>6, <1>9, <1>10, <1>11, <1>12 DEF HeapInv

\* create_user: the first user region, on pages of its own.
LEMMA CreateUserStep ==
  ASSUME HeapInv, create_user
  PROVE  HeapInv'
<1> DEFINE f == Found(used, InitPages, MEM_U)
           b == f * ALIGN
           s == InitPages * ALIGN
           r == NewRegion(b, s)
<1>1. /\ status = "ok" /\ pc = "create_user" /\ pc' = "idle"
      /\ UNCHANGED <<kheap, call, pend, created, live, sandwich, status>>
      /\ regions' = <<NewRegion(FoundPages * ALIGN, s)>> /\ Reserve
  BY DEF create_user, Running, ghosts
<1>2. FoundPages = f /\ f # -1 /\ used' = used \cup Run(f, Chunks(InitPages))
  BY <1>1, RequestAt DEF Reserve, FoundPages
<1>3. used \in SUBSET (0 .. (MaxChunk - 1)) /\ InitPages \in Nat \ {0} /\ MEM_U \in MemTypes
  BY HeapAssumption DEF HeapInv, MemTypes
<1>4. KernelChunks > 0 /\ regions = << >> /\ DOMAIN regions = {} /\ pend = << >> /\ DOMAIN pend = {}
      /\ Held(used, kheap, regions, pend)
  BY <1>1 DEF HeapInv, PagesOK, PendOK
<1>5. /\ Chunks(InitPages) = InitPages /\ Whole(b, s) /\ PagesOf(b, s) = Run(f, InitPages)
      /\ Run(f, InitPages) \cap used = {} /\ used \cup Run(f, InitPages) \subseteq 0 .. (MaxChunk - 1)
      /\ b \in Nat /\ s \in Nat /\ s >= ALIGN /\ b >= ALIGN
  BY <1>2, <1>3, <1>4, Reserved, ZenonT(40)
<1> HIDE DEF f, b, s
<1>6. Shaped(r) /\ r.base = b /\ r.alloc = s /\ Blocks(r) = {} /\ Neat(r) /\ ~Overrun(r)
  BY <1>5, NewShaped
<1>7. regions' = <<r>>
  BY <1>1, <1>2 DEF b
<1> HIDE DEF r
<1>8. used' = used \cup PagesOf(b, s) /\ used' \subseteq 0 .. (MaxChunk - 1)
  BY <1>2, <1>5
<1>9. Held(used', kheap, regions, pend) /\ Owned(used', b, s) /\ Apart(kheap.base, kheap.alloc, b, s)
  BY <1>4, <1>5, <1>8, HeldMore
<1>10. DOMAIN regions' = {1} /\ regions'[1] = r /\ regions' \in Seq(RegionRec)
  BY <1>6, <1>7 DEF Shaped
<1>11. Held(used, kheap, regions, pend)'
  BY <1>1, <1>4, <1>6, <1>9, <1>10 DEF Held
<1>12. PagesOK'
  BY <1>1, <1>4, <1>11 DEF PagesOK
<1>13. RegionsOK'
  BY <1>6, <1>10 DEF RegionsOK
<1>14. BlocksMatch'
  BY <1>1, <1>4, <1>6, <1>10 DEF HeapInv, BlocksMatch
<1>15. PendOK'
  BY <1>1, <1>4 DEF PendOK
<1>16. CallOK'
  BY <1>1 DEF HeapInv, CallOK
<1>17. QED
  BY <1>1, <1>8, <1>12, <1>13, <1>14, <1>15, <1>16 DEF HeapInv

\* The pages that create_region is setting up, as a list of one or two.
LEMMA PendList ==
  ASSUME HeapInv, pc \in {"grow", "swap", "link"}
  PROVE  /\ pend \in Seq([base : Nat, size : Nat]) /\ Len(pend) \in {1, 2} /\ DOMAIN pend = 1 .. Len(pend)
         /\ pend[1].base >= ALIGN /\ pend[1].size = RegionSize(call.n)
         /\ pend[1].base \in Nat /\ pend[1] \in [base : Nat, size : Nat]
         /\ (pc = "swap") <=> (Len(pend) = 2)
         /\ Len(pend) = 2 => pend[2].base \in Nat /\ pend[2].size \in Nat
<1>1. PendOK
  BY DEF HeapInv
<1>2. pend \in Seq([base : Nat, size : Nat]) /\ Len(pend) \in {1, 2} /\ ((pc = "swap") <=> (Len(pend) = 2))
  BY <1>1 DEF PendOK
<1>3. DOMAIN pend = 1 .. Len(pend) /\ \A i \in 1 .. Len(pend) : pend[i] \in [base : Nat, size : Nat]
  BY <1>2, LenProperties, ElementOfSeq
<1>4. 1 \in 1 .. Len(pend) /\ (Len(pend) = 2 => 2 \in 1 .. Len(pend)) /\ pend # << >>
  BY <1>2, SMTT(30)
<1>5. pend[1] \in [base : Nat, size : Nat] /\ (Len(pend) = 2 => pend[2] \in [base : Nat, size : Nat])
  BY <1>3, <1>4
<1>6. QED
  BY <1>1, <1>2, <1>3, <1>4, <1>5 DEF PendOK

\* region_reserve: pages for a new region.
LEMMA RegionReserveStep ==
  ASSUME HeapInv, region_reserve
  PROVE  HeapInv'
<1> DEFINE s == RegionSize(call.n)
           c == s \div ALIGN
           f == Found(used, c, MEM_U)
           b == f * ALIGN
           e == [base |-> b, size |-> s]
<1>1. /\ status = "ok" /\ pc = "region" /\ pc' \in {"grow", "link"}
      /\ UNCHANGED <<kheap, regions, call, created, live, sandwich, status>>
      /\ pend' = <<[base |-> FoundPages * ALIGN, size |-> s]>> /\ Reserve
  BY DEF region_reserve, Running, ghosts
<1>2. FoundPages = f /\ f # -1 /\ used' = used \cup Run(f, Chunks(c))
  BY <1>1, RequestAt DEF Reserve, FoundPages
<1>3. call.n \in Nat
  BY DEF HeapInv, CallOK
<1>4. s \in Nat /\ c \in Nat \ {0} /\ s = c * ALIGN
  BY <1>3, RegionSizeServes
<1> HIDE DEF s, c
<1>5. used \in SUBSET (0 .. (MaxChunk - 1)) /\ MEM_U \in MemTypes
  BY DEF HeapInv, MemTypes
<1>6. KernelChunks > 0 /\ pend = << >> /\ DOMAIN pend = {} /\ Held(used, kheap, regions, pend)
  BY <1>1 DEF HeapInv, PagesOK, PendOK
<1>7. /\ Chunks(c) = c /\ Whole(b, s) /\ PagesOf(b, s) = Run(f, c)
      /\ Run(f, c) \cap used = {} /\ used \cup Run(f, c) \subseteq 0 .. (MaxChunk - 1)
      /\ b \in Nat /\ b >= ALIGN
  BY <1>2, <1>4, <1>5, <1>6, Reserved, ZenonT(40)
<1> HIDE DEF f, b
<1>8. used' = used \cup PagesOf(b, s) /\ used' \subseteq 0 .. (MaxChunk - 1)
  BY <1>2, <1>7
<1>9. /\ Held(used', kheap, regions, pend) /\ Owned(used', b, s) /\ Apart(kheap.base, kheap.alloc, b, s)
      /\ \A i \in DOMAIN regions : Apart(regions[i].base, regions[i].alloc, b, s)
  BY <1>6, <1>7, <1>8, HeldMore
<1>10. pend' = <<e>> /\ e.base = b /\ e.size = s /\ e \in [base : Nat, size : Nat]
  BY <1>1, <1>2, <1>4, <1>7 DEF b
<1> HIDE DEF e
<1>11. DOMAIN pend' = {1} /\ pend'[1] = e /\ pend' \in Seq([base : Nat, size : Nat]) /\ Len(pend') = 1
  BY <1>10
<1>12. Held(used, kheap, regions, pend)'
  BY <1>1, <1>9, <1>10, <1>11 DEF Held
<1>13. PagesOK'
  BY <1>1, <1>6, <1>12 DEF PagesOK
<1>14. RegionsOK' /\ BlocksMatch'
  BY <1>1 DEF HeapInv, RegionsOK, Sound, BlocksMatch
<1>15. PendOK'
  BY <1>1, <1>7, <1>10, <1>11 DEF PendOK, s
<1>16. CallOK'
  BY <1>1 DEF HeapInv, CallOK, Roomy
<1>17. QED
  BY <1>1, <1>8, <1>13, <1>14, <1>15, <1>16 DEF HeapInv

\* grow_reserve: pages for a kernel region one page larger.
LEMMA GrowReserveStep ==
  ASSUME HeapInv, grow_reserve
  PROVE  HeapInv'
<1> DEFINE s == kheap.alloc + ALIGN
           c == s \div ALIGN
           f == Found(used, c, MEM_K)
           b == f * ALIGN
           e == [base |-> b, size |-> s]
<1>1. /\ status = "ok" /\ pc = "grow" /\ pc' = "swap"
      /\ UNCHANGED <<kheap, regions, call, created, live, sandwich, status>>
      /\ pend' = Append(pend, [base |-> FoundPages * ALIGN, size |-> s]) /\ Reserve
  BY DEF grow_reserve, Running, ghosts
<1>2. FoundPages = f /\ f # -1 /\ used' = used \cup Run(f, Chunks(c))
  BY <1>1, RequestAt DEF Reserve, FoundPages
<1>3. KernelChunks > 0 /\ Held(used, kheap, regions, pend)
  BY <1>1 DEF HeapInv, PagesOK
<1>4. s \in Nat /\ c \in Nat \ {0} /\ s = c * ALIGN
  <2>1. PICK m \in Nat \ {0} : kheap.alloc = m * ALIGN
    BY <1>3 DEF Held, Owned, Whole
  <2>2. s = (m + 1) * ALIGN /\ s \in Nat /\ ((m + 1) * ALIGN) \div ALIGN = m + 1
    BY <2>1, Layout
  <2>3. QED
    BY <2>2
<1> HIDE DEF s, c
<1>5. used \in SUBSET (0 .. (MaxChunk - 1)) /\ MEM_K \in MemTypes
  BY DEF HeapInv, MemTypes
<1>6. /\ pend \in Seq([base : Nat, size : Nat]) /\ Len(pend) = 1 /\ DOMAIN pend = {1}
      /\ pend[1].base >= ALIGN /\ pend[1].size = RegionSize(call.n)
  <2>1. /\ pend \in Seq([base : Nat, size : Nat]) /\ Len(pend) = 1 /\ DOMAIN pend = 1 .. Len(pend)
        /\ pend[1].base >= ALIGN /\ pend[1].size = RegionSize(call.n)
    BY <1>1, PendList
  <2>2. QED
    BY <2>1
<1>7. /\ Chunks(c) = c /\ Whole(b, s) /\ PagesOf(b, s) = Run(f, c)
      /\ Run(f, c) \cap used = {} /\ used \cup Run(f, c) \subseteq 0 .. (MaxChunk - 1)
      /\ b \in Nat
  BY <1>2, <1>4, <1>5, Reserved, ZenonT(40)
<1> HIDE DEF f, b
<1>8. used' = used \cup PagesOf(b, s) /\ used' \subseteq 0 .. (MaxChunk - 1)
  BY <1>2, <1>7
<1>9. /\ Held(used', kheap, regions, pend) /\ Owned(used', b, s) /\ Apart(kheap.base, kheap.alloc, b, s)
      /\ \A i \in DOMAIN regions : Apart(regions[i].base, regions[i].alloc, b, s)
      /\ \A i \in DOMAIN pend : Apart(pend[i].base, pend[i].size, b, s)
  BY <1>3, <1>7, <1>8, HeldMore
<1>10. pend' = Append(pend, e) /\ e.base = b /\ e.size = s /\ e \in [base : Nat, size : Nat]
  BY <1>1, <1>2, <1>4, <1>7 DEF b
<1> HIDE DEF e
<1>11. /\ DOMAIN pend' = {1, 2} /\ pend'[1] = pend[1] /\ pend'[2] = e /\ pend' \in Seq([base : Nat, size : Nat])
       /\ Len(pend') = 2
  <2>1. /\ pend' \in Seq([base : Nat, size : Nat]) /\ Len(pend') = Len(pend) + 1
        /\ pend'[Len(pend) + 1] = e /\ \A i \in 1 .. Len(pend) : pend'[i] = pend[i]
    <3> DEFINE S == [base : Nat, size : Nat]
    <3>1. pend \in Seq(S) /\ e \in S
      BY <1>6, <1>10
    <3> HIDE DEF S
    <3>2. /\ pend' \in Seq(S) /\ Len(pend') = Len(pend) + 1
          /\ pend'[Len(pend) + 1] = e /\ \A i \in 1 .. Len(pend) : pend'[i] = pend[i]
      BY <1>10, <3>1, AppendProperties
    <3>3. QED
      BY <3>2 DEF S
  <2>2. DOMAIN pend' = 1 .. 2
    BY <1>6, <2>1, LenProperties
  <2>3. QED
    BY <1>6, <2>1, <2>2
<1>12. \A x, y, z, w : Apart(x, y, z, w) => Apart(z, w, x, y)
  BY DEF Apart
<1>13. Held(used', kheap, regions, pend')
  BY <1>6, <1>9, <1>10, <1>11, <1>12 DEF Held
<1>14. PagesOK'
  BY <1>1, <1>3, <1>13 DEF PagesOK
<1>15. RegionsOK' /\ BlocksMatch'
  BY <1>1 DEF HeapInv, RegionsOK, Sound, BlocksMatch
<1>16. PendOK'
  BY <1>1, <1>6, <1>11 DEF PendOK
<1>17. CallOK'
  BY <1>1 DEF HeapInv, CallOK, Roomy
<1>18. QED
  BY <1>1, <1>8, <1>14, <1>15, <1>16, <1>17 DEF HeapInv

\* grow_swap: the old kernel region's pages are given back, and nobody else's.
LEMMA GrowSwapStep ==
  ASSUME HeapInv, grow_swap
  PROVE  HeapInv'
<1>1. /\ status = "ok" /\ pc = "swap" /\ pc' = "link"
      /\ UNCHANGED <<regions, call, created, live, sandwich, status>>
      /\ used' = used \ PagesOf(kheap.base, kheap.alloc)
      /\ kheap' = NewKheap(pend[2].base, pend[2].size, 1 + Len(regions))
      /\ pend' = SubSeq(pend, 1, 1)
  BY DEF grow_swap, Running, ghosts, PagesOf
<1>2. /\ pend \in Seq([base : Nat, size : Nat]) /\ Len(pend) = 2 /\ DOMAIN pend = 1 .. 2
      /\ pend[1].base >= ALIGN /\ pend[1].size = RegionSize(call.n) /\ pend[1] \in [base : Nat, size : Nat]
  BY <1>1, PendList
<1>4. /\ Len(pend') = 1 /\ DOMAIN pend' = {1} /\ pend'[1] = pend[1] /\ pend' \in Seq([base : Nat, size : Nat])
  <2> DEFINE S == [base : Nat, size : Nat]
  <2>1. \A i \in 1 .. 1 : pend[i] \in S
    BY <1>2
  <2> HIDE DEF S
  <2>2. pend' \in Seq(S) /\ Len(pend') = 1 /\ \A i \in 1 .. 1 : pend'[i] = pend[1 + i - 1]
    BY <1>1, <2>1, SubSeqProperties
  <2>3. 1 \in 1 .. 1 /\ 1 + 1 - 1 = 1
    OBVIOUS
  <2>4. pend'[1] = pend[1]
    BY <2>2, <2>3
  <2>5. DOMAIN pend' = 1 .. 1
    BY <2>2, LenProperties
  <2>6. QED
    BY <2>2, <2>4, <2>5 DEF S
<1>5. KernelChunks > 0 /\ Held(used, kheap, regions, pend)
  BY <1>1 DEF HeapInv, PagesOK
<1>6. kheap'.base = pend[2].base /\ kheap'.alloc = pend[2].size
  BY <1>1, NewKheapAt
<1>7. \A x, y : Owned(used, x, y) /\ Apart(kheap.base, kheap.alloc, x, y) => Owned(used', x, y)
  BY <1>1 DEF Owned, Apart
<1>8. \A x, y, z, w : Apart(x, y, z, w) => Apart(z, w, x, y)
  BY DEF Apart
<1>9. Held(used', kheap', regions, pend')
  <2>1. 1 \in DOMAIN pend /\ 2 \in DOMAIN pend
    BY <1>2
  <2>2. /\ Owned(used', kheap'.base, kheap'.alloc)
        /\ Owned(used', pend[1].base, pend[1].size)
        /\ Apart(kheap'.base, kheap'.alloc, pend[1].base, pend[1].size)
    BY <1>5, <1>6, <1>7, <2>1 DEF Held
  <2>3. \A i \in DOMAIN regions :
          /\ Owned(used', regions[i].base, regions[i].alloc)
          /\ Apart(kheap'.base, kheap'.alloc, regions[i].base, regions[i].alloc)
          /\ Apart(regions[i].base, regions[i].alloc, pend[1].base, pend[1].size)
    BY <1>5, <1>6, <1>7, <1>8, <2>1 DEF Held
  <2>4. QED
    BY <1>4, <1>5, <2>2, <2>3 DEF Held
<1>10. PagesOK'
  BY <1>1, <1>5, <1>9 DEF PagesOK
<1>11. RegionsOK' /\ BlocksMatch'
  BY <1>1 DEF HeapInv, RegionsOK, Sound, BlocksMatch
<1>12. PendOK'
  BY <1>1, <1>2, <1>4 DEF PendOK
<1>13. CallOK'
  BY <1>1 DEF HeapInv, CallOK, Roomy
<1>14. used' \subseteq 0 .. (MaxChunk - 1)
  BY <1>1 DEF HeapInv
<1>15. QED
  BY <1>1, <1>10, <1>11, <1>12, <1>13, <1>14 DEF HeapInv

\* One more region brings its blocks.
LEMMA BlocksGrow ==
  ASSUME NEW regs, NEW q, NEW m, DOMAIN q = DOMAIN regs \cup {m}, \A i \in DOMAIN regs : q[i] = regs[i]
  PROVE  BlocksOf(q) = BlocksOf(regs) \cup Blocks(q[m])
<1>1. \A x : x \in BlocksOf(q) <=> \E i \in DOMAIN q : x \in Blocks(q[i])
  BY DEF BlocksOf
<1>2. \A x : x \in BlocksOf(regs) <=> \E i \in DOMAIN regs : x \in Blocks(regs[i])
  BY DEF BlocksOf
<1>3. \A x : x \in BlocksOf(q) <=> x \in BlocksOf(regs) \cup Blocks(q[m])
  BY <1>1, <1>2
<1>4. QED
  BY <1>3

\* region_link: the new region has room for the request, or no region ever has.
LEMMA RegionLinkStep ==
  ASSUME HeapInv, region_link
  PROVE  HeapInv'
<1> DEFINE b == pend[1].base
           s == pend[1].size
           r == NewRegion(b, s)
           k == Len(regions)
<1>1. /\ status = "ok" /\ pc = "link" /\ pc' = "alloc"
      /\ UNCHANGED <<used, call, live, sandwich, status>>
      /\ regions' = Append(regions, r) /\ pend' = << >> /\ created' = created + 1
  BY DEF region_link, Running, ghosts
<1>2. Len(pend) = 1 /\ DOMAIN pend = 1 .. 1 /\ b >= ALIGN /\ s = RegionSize(call.n) /\ b \in Nat
  BY <1>1, PendList
<1>3. KernelChunks > 0 /\ Held(used, kheap, regions, pend)
  BY <1>1 DEF HeapInv, PagesOK
<1>4. call.n \in Nat /\ created \in Nat
  BY DEF HeapInv, CallOK
<1>5. s \in Nat /\ s >= ALIGN /\ (s - NEW_REGION_SIZE > Cost(call.n) <=> Served(call.n))
  BY <1>2, <1>4, RegionSizeServes
<1>6. kheap'.base = kheap.base /\ kheap'.alloc = kheap.alloc
  BY DEF region_link
<1> HIDE DEF b, s
<1>7. /\ Shaped(r) /\ r.base = b /\ r.alloc = s /\ Blocks(r) = {} /\ Neat(r) /\ ~Overrun(r)
      /\ Fits(r, call.n) <=> Served(call.n)
  BY <1>2, <1>4, <1>5, NewShaped
<1> HIDE DEF r
<1>8. regions \in Seq(RegionRec) /\ k \in Nat /\ DOMAIN regions = 1 .. k
  BY LenProperties DEF HeapInv, RegionsOK
<1>9. /\ regions' \in Seq(RegionRec) /\ regions'[k + 1] = r /\ DOMAIN regions' = 1 .. (k + 1)
      /\ \A i \in 1 .. k : regions'[i] = regions[i]
  <2>1. r \in RegionRec
    BY <1>7 DEF Shaped
  <2>2. /\ regions' \in Seq(RegionRec) /\ Len(regions') = k + 1 /\ regions'[k + 1] = r
        /\ \A i \in 1 .. k : regions'[i] = regions[i]
    BY <1>1, <1>8, <2>1, AppendProperties
  <2>3. DOMAIN regions' = 1 .. (k + 1)
    BY <2>2, LenProperties
  <2>4. QED
    BY <2>2, <2>3
<1> HIDE DEF k
<1>10. DOMAIN regions' = DOMAIN regions \cup {k + 1} /\ k + 1 \notin DOMAIN regions
       /\ \A i \in DOMAIN regions : regions'[i] = regions[i]
  BY <1>8, <1>9
<1>11. RegionsOK'
  <2>1. ASSUME NEW i \in DOMAIN regions'
        PROVE  Shaped(regions'[i]) /\ ~Overrun(regions'[i]) /\ (Sound(regions[i])' => Neat(regions'[i]))
    <3>1. CASE i = k + 1
      BY <1>7, <1>9, <3>1
    <3>2. CASE i \in DOMAIN regions
      BY <1>1, <1>10, <3>2 DEF HeapInv, RegionsOK, Sound
    <3>3. QED
      BY <1>10, <2>1, <3>1, <3>2
  <2>2. QED
    BY <1>9, <2>1 DEF RegionsOK
<1>12. BlocksMatch'
  <2>1. BlocksOf(regions') = BlocksOf(regions) \cup Blocks(r)
    BY <1>9, <1>10, BlocksGrow
  <2>2. live = BlocksOf(regions)
    BY DEF HeapInv, BlocksMatch, BlocksOf
  <2>3. QED
    BY <1>1, <1>7, <2>1, <2>2 DEF BlocksMatch, BlocksOf
<1>13. Held(used, kheap', regions', << >>)
  <2>1. /\ Owned(used, b, s) /\ Apart(kheap.base, kheap.alloc, b, s)
        /\ \A i \in DOMAIN regions : Apart(regions[i].base, regions[i].alloc, b, s)
    <3>1. 1 \in DOMAIN pend
      BY <1>2
    <3>2. QED
      BY <1>3, <3>1 DEF Held, b, s
  <2>2. \A x, y, z, w : Apart(x, y, z, w) => Apart(z, w, x, y)
    BY DEF Apart
  <2>3. ASSUME NEW i \in DOMAIN regions'
        PROVE  /\ Owned(used, regions'[i].base, regions'[i].alloc)
               /\ Apart(kheap'.base, kheap'.alloc, regions'[i].base, regions'[i].alloc)
               /\ \A j \in DOMAIN regions' :
                    i # j => Apart(regions'[i].base, regions'[i].alloc, regions'[j].base, regions'[j].alloc)
    <3>1. CASE i = k + 1
      BY <1>6, <1>7, <1>9, <1>10, <2>1, <2>2, <3>1
    <3>2. CASE i \in DOMAIN regions
      BY <1>3, <1>6, <1>7, <1>9, <1>10, <2>1, <3>2 DEF Held
    <3>3. QED
      BY <1>10, <3>1, <3>2
  <2>4. Owned(used, kheap'.base, kheap'.alloc)
    BY <1>3, <1>6 DEF Held
  <2>5. QED
    BY <2>3, <2>4 DEF Held
<1>14. PagesOK'
  BY <1>1, <1>3, <1>13 DEF PagesOK
<1>15. PendOK'
  BY <1>1 DEF PendOK
<1>16. CallOK'
  <2>1. Roomy(call.n) = {} /\ (Served(call.n) => created = 0)
    BY <1>1 DEF HeapInv, CallOK
  <2>2. IF Served(call.n) THEN Roomy(call.n)' # {} ELSE Roomy(call.n)' = {}
    <3>1. Roomy(call.n)' = {i \in DOMAIN regions' : Fits(regions'[i], call.n)}
      BY <1>1 DEF Roomy
    <3>2. \A i \in DOMAIN regions : ~Fits(regions'[i], call.n)
      BY <1>10, <2>1 DEF Roomy
    <3>3. Fits(regions'[k + 1], call.n) <=> Served(call.n)
      BY <1>7, <1>9
    <3>4. QED
      BY <1>10, <3>1, <3>2, <3>3
  <2>3. created' \in Nat /\ (Served(call.n) => created' = 1)
    BY <1>1, <1>4, <2>1
  <2>4. QED
    BY <1>1, <2>2, <2>3 DEF HeapInv, CallOK
<1>17. QED
  BY <1>1, <1>11, <1>12, <1>14, <1>15, <1>16 DEF HeapInv

\* The regions outside s are tiled and merged.
NeatBut(regs, s) == \A i \in DOMAIN regs : regs[i].base \notin s => Neat(regs[i])

\* Regions that were changed where they are.
SamePlaces(regs, q) ==
  /\ DOMAIN q = DOMAIN regs
  /\ \A i \in DOMAIN regs : q[i].base = regs[i].base /\ q[i].alloc = regs[i].alloc

\* A change of one region moves none.
LEMMA ChangedPlaces ==
  ASSUME NEW regs, NEW q, NEW i, Changed(regs, q, i)
  PROVE  SamePlaces(regs, q)
BY DEF Changed, SamePlaces

\* A cull makes untidy at most the region it takes a sandwiched block from.
LEMMA CullNeat ==
  ASSUME NEW regs, Placed(regs), NEW b \in BlocksOf(regs), NEW s, NeatBut(regs, s)
  PROVE  /\ NeatBut(CullPtr(regs, b.addr), s \cup CullSandwich(regs, b.addr))
         /\ SamePlaces(regs, CullPtr(regs, b.addr))
<1> DEFINE q == CullPtr(regs, b.addr)
           t == CullSandwich(regs, b.addr)
<1>1. PICK i : Changed(regs, q, i) /\ (Neat(regs[i]) /\ regs[i].base \notin t => Neat(q[i]))
  BY CullBlocks
<1> HIDE DEF q, t
<1>2. NeatBut(q, s \cup t)
  BY <1>1 DEF NeatBut, Changed
<1>3. QED
  BY <1>1, <1>2, ChangedPlaces DEF q, t

\* The part of the invariant that speaks of the regions, after a step that moved none.
LEMMA ChangedStep ==
  ASSUME HeapInv, status = "ok", status' = "ok", pc \in {"idle", "alloc"}, pc' = "idle", Placed(regions'),
         SamePlaces(regions, regions'), NeatBut(regions', sandwich'), live' = BlocksOf(regions'), CallOK',
         UNCHANGED <<used, kheap, pend>>
  PROVE  HeapInv'
<1>1. RegionsOK'
  BY DEF RegionsOK, Placed, NeatBut, Sound
<1>2. BlocksMatch'
  BY DEF BlocksMatch, BlocksOf
<1>3. PagesOK'
  <2>1. KernelChunks > 0 /\ Held(used, kheap, regions, pend)
    BY DEF HeapInv, PagesOK
  <2>2. Held(used, kheap, regions', pend)
    BY <2>1, HeldStays DEF SamePlaces
  <2>3. QED
    BY <2>1, <2>2 DEF PagesOK
<1>4. PendOK'
  <2>1. pend = << >>
    BY DEF HeapInv, PendOK
  <2>2. QED
    BY <2>1 DEF PendOK
<1>5. QED
  BY <1>1, <1>2, <1>3, <1>4 DEF HeapInv

\* The regions that are tiled and merged, as NeatBut says it.
LEMMA RegionsNeat == HeapInv => NeatBut(regions, sandwich) /\ live = BlocksOf(regions)
BY DEF HeapInv, RegionsOK, NeatBut, Sound, BlocksMatch, BlocksOf

\* del.
LEMMA DelStep ==
  ASSUME HeapInv, NEW b \in live, del(b)
  PROVE  HeapInv'
<1>1. /\ status = "ok" /\ status' = "ok" /\ pc = "idle" /\ pc' = "idle" /\ regions' = CullPtr(regions, b.addr)
      /\ live' = live \ {b} /\ sandwich' = sandwich \cup CullSandwich(regions, b.addr)
      /\ UNCHANGED <<used, kheap, call, pend, created>>
  BY DEF del, Running
<1>2. Placed(regions) /\ NeatBut(regions, sandwich) /\ live = BlocksOf(regions) /\ b \in BlocksOf(regions)
  BY <1>1, RegionsPlaced, RegionsNeat
<1>3. Placed(regions') /\ BlocksOf(regions') = BlocksOf(regions) \ {b}
  BY <1>1, <1>2, CullBlocks
<1>4. NeatBut(regions', sandwich') /\ SamePlaces(regions, regions')
  BY <1>1, <1>2, CullNeat
<1>5. CallOK'
  BY <1>1 DEF HeapInv, CallOK
<1>6. QED
  BY <1>1, <1>2, <1>3, <1>4, <1>5, ChangedStep

\* alloc takes the first region with room.
LEMMA FirstRoomyFits ==
  ASSUME HeapInv, NEW n \in Nat, Roomy(n) # {}
  PROVE  FirstRoomy(n) \in DOMAIN regions /\ Fits(regions[FirstRoomy(n)], n)
<1>1. regions \in Seq(RegionRec)
  BY DEF HeapInv, RegionsOK
<1>2. Roomy(n) \in SUBSET Nat
  <2>1. DOMAIN regions = 1 .. Len(regions) /\ Len(regions) \in Nat
    BY <1>1, LenProperties
  <2>2. QED
    BY <2>1 DEF Roomy
<1>3. \E i \in Roomy(n) : \A k \in Roomy(n) : i <= k
  BY <1>2, LeastNat
<1>4. FirstRoomy(n) \in Roomy(n)
  BY <1>3 DEF FirstRoomy
<1>5. QED
  BY <1>4 DEF Roomy

\* The block alloc hands out, and the regions after it was carved.
CarvedBlock == [addr |-> Last(regions[FirstRoomy(call.n)].chunks).addr, size |-> call.n]
CarvedRegions == [regions EXCEPT ![FirstRoomy(call.n)] = Carve(@, call.n)]

\* What alloc's carving does, before change culls the old block.
LEMMA CarvedFacts ==
  ASSUME HeapInv, status = "ok", Roomy(call.n) # {}
  PROVE  LET i == FirstRoomy(call.n)
         IN  /\ call.n \in Nat /\ i \in DOMAIN regions /\ Placed(regions)
             /\ live = BlocksOf(regions) /\ NeatBut(regions, sandwich)
             /\ Changed(regions, CarvedRegions, i)
             /\ BlocksOf(CarvedRegions) = live \cup {CarvedBlock}
             /\ \A c \in live : c.addr # CarvedBlock.addr
             /\ NeatBut(CarvedRegions, sandwich)
             /\ Neat(regions[i]) => ~Overrun(CarvedRegions[i])
             /\ ~Overrun(CarvedRegions[i]) =>
                  Placed(CarvedRegions) /\ \A c \in live : Promise!Disjoint(CarvedBlock, c)
             /\ Billed(regions[i]) => Billed(CarvedRegions[i])
<1> DEFINE i == FirstRoomy(call.n)
<1>1. call.n \in Nat
  BY DEF HeapInv, CallOK
<1>2. i \in DOMAIN regions /\ Fits(regions[i], call.n)
  BY <1>1, FirstRoomyFits
<1>3. Placed(regions) /\ NeatBut(regions, sandwich) /\ live = BlocksOf(regions)
  BY RegionsPlaced, RegionsNeat
<1>4. CarvedRegions = [regions EXCEPT ![i] = Carve(@, call.n)]
      /\ CarvedBlock = [addr |-> Last(regions[i].chunks).addr, size |-> call.n]
  BY DEF CarvedRegions, CarvedBlock
<1> HIDE DEF i
<1>5. /\ Changed(regions, CarvedRegions, i) /\ BlocksOf(CarvedRegions) = BlocksOf(regions) \cup {CarvedBlock}
      /\ \A c \in BlocksOf(regions) : c.addr # CarvedBlock.addr
      /\ Neat(regions[i]) => Neat(CarvedRegions[i]) /\ ~Overrun(CarvedRegions[i])
      /\ ~Overrun(CarvedRegions[i]) =>
           Placed(CarvedRegions) /\ \A c \in BlocksOf(regions) : Promise!Disjoint(CarvedBlock, c)
      /\ Billed(regions[i]) => Billed(CarvedRegions[i])
  BY <1>1, <1>2, <1>3, <1>4, CarveBlocks
<1>6. NeatBut(CarvedRegions, sandwich)
  BY <1>3, <1>5 DEF NeatBut, Changed
<1>7. QED
  BY <1>1, <1>2, <1>3, <1>5, <1>6 DEF i

\* alloc_carve overran the chunk array, served new, or served alt.
CarveOverrun ==
  /\ Overrun(CarvedRegions[FirstRoomy(call.n)])
  /\ status' = "corrupt" /\ regions' = CarvedRegions /\ live' = live \cup {CarvedBlock}
  /\ UNCHANGED <<sandwich, pc, call>>

CarveNew ==
  /\ ~Overrun(CarvedRegions[FirstRoomy(call.n)])
  /\ pc' = "idle" /\ call' = NoCall /\ status' = status /\ call.op = "new"
  /\ regions' = CarvedRegions /\ live' = live \cup {CarvedBlock} /\ sandwich' = sandwich

CarveAlt ==
  /\ ~Overrun(CarvedRegions[FirstRoomy(call.n)])
  /\ pc' = "idle" /\ call' = NoCall /\ status' = status /\ call.op = "alt"
  /\ regions' = CullPtr(CarvedRegions, call.ptr)
  /\ live' = {b \in live : b.addr # call.ptr} \cup {CarvedBlock}
  /\ sandwich' = sandwich \cup CullSandwich(CarvedRegions, call.ptr)

\* These are all.
LEMMA CarveCases ==
  ASSUME alloc_carve
  PROVE  /\ status = "ok" /\ pc = "alloc" /\ Roomy(call.n) # {}
         /\ UNCHANGED <<used, kheap, handle, pend, created>>
         /\ CarveOverrun \/ CarveNew \/ CarveAlt
BY DEF alloc_carve, Running, CarvedRegions, CarvedBlock, CarveOverrun, CarveNew, CarveAlt

\* What becomes of the blocks when alt is served: the old one is replaced.
LEMMA AltBlocks ==
  ASSUME HeapInv, status = "ok", pc = "alloc", Roomy(call.n) # {}, CarveAlt
  PROVE  \E b \in live :
           /\ b.addr = call.ptr /\ b # CarvedBlock /\ b \in BlocksOf(CarvedRegions)
           /\ Placed(CarvedRegions) /\ live' = (live \ {b}) \cup {CarvedBlock}
           /\ BlocksOf(regions') = live' /\ Placed(regions')
<1>1. PICK b \in live : b.addr = call.ptr
  BY DEF HeapInv, CallOK, CarveAlt
<1>2. /\ Placed(regions) /\ live = BlocksOf(regions) /\ BlocksOf(CarvedRegions) = live \cup {CarvedBlock}
      /\ Placed(CarvedRegions) /\ \A c \in live : c.addr # CarvedBlock.addr
  BY CarvedFacts DEF CarveAlt
<1>3. \A c \in live : c.addr = b.addr => c = b
  BY <1>2, BlockAt
<1>4. b # CarvedBlock /\ b \in BlocksOf(CarvedRegions)
  BY <1>2
<1>5. live' = (live \ {b}) \cup {CarvedBlock}
  BY <1>1, <1>3 DEF CarveAlt
<1>6. regions' = CullPtr(CarvedRegions, b.addr)
  BY <1>1 DEF CarveAlt
<1>7. Placed(regions') /\ BlocksOf(regions') = BlocksOf(CarvedRegions) \ {b}
  BY <1>2, <1>4, <1>6, CullBlocks
<1>8. BlocksOf(regions') = live'
  BY <1>2, <1>4, <1>5, <1>7
<1>9. QED
  BY <1>1, <1>2, <1>4, <1>5, <1>7, <1>8

\* The call ends: it created no region or one.
LEMMA ReturnCallOK ==
  ASSUME HeapInv, status = "ok", status' = "ok", pc = "alloc", Roomy(call.n) # {}, pc' = "idle",
         call' = NoCall, created' = created
  PROVE  CallOK'
<1>1. created \in Nat /\ created <= 1
  BY DEF HeapInv, CallOK
<1>2. call'.op = "none" /\ call'.n = 0 /\ call'.ptr = 0
  BY DEF NoCall
<1>3. QED
  BY <1>1, <1>2 DEF CallOK

\* alloc_carve.
LEMMA CarveStep ==
  ASSUME HeapInv, alloc_carve
  PROVE  HeapInv'
<1> DEFINE i == FirstRoomy(call.n)
<1>1. /\ status = "ok" /\ pc = "alloc" /\ Roomy(call.n) # {}
      /\ UNCHANGED <<used, kheap, handle, pend, created>>
      /\ CarveOverrun \/ CarveNew \/ CarveAlt
  BY CarveCases
<1>2. /\ call.n \in Nat /\ i \in DOMAIN regions /\ Placed(regions)
      /\ live = BlocksOf(regions) /\ NeatBut(regions, sandwich)
      /\ Changed(regions, CarvedRegions, i)
      /\ BlocksOf(CarvedRegions) = live \cup {CarvedBlock}
      /\ NeatBut(CarvedRegions, sandwich)
      /\ Neat(regions[i]) => ~Overrun(CarvedRegions[i])
      /\ ~Overrun(CarvedRegions[i]) => Placed(CarvedRegions)
  BY <1>1, CarvedFacts
<1> HIDE DEF i
<1>3. SamePlaces(regions, CarvedRegions)
  BY <1>2, ChangedPlaces
<1>4. CASE CarveOverrun
  <2>1. /\ status' = "corrupt" /\ regions' = CarvedRegions /\ live' = live \cup {CarvedBlock}
        /\ UNCHANGED <<sandwich, pc, call>> /\ Overrun(CarvedRegions[i])
    BY <1>4 DEF CarveOverrun, i
  <2>2. RegionsOK'
    <3>1. regions' \in Seq(RegionRec) /\ \A m \in DOMAIN regions' : Shaped(regions'[m])
      BY <1>2, <2>1 DEF Changed, Placed
    <3>2. QED
      BY <1>2, <2>1, <3>1 DEF RegionsOK, NeatBut, Sound
  <2>3. PagesOK'
    <3>1. KernelChunks > 0 /\ Held(used, kheap, regions, pend)
      BY <1>1 DEF HeapInv, PagesOK
    <3>2. Held(used, kheap, regions', pend)
      BY <1>3, <2>1, <3>1, HeldStays DEF SamePlaces
    <3>3. QED
      BY <1>1, <2>1, <3>1, <3>2 DEF PagesOK
  <2>4. PendOK'
    BY <1>1, <2>1 DEF HeapInv, PendOK
  <2>5. CallOK'
    <3>1. created \in Nat /\ created <= 1 /\ CallOK
      BY <1>1 DEF HeapInv, CallOK
    <3>2. QED
      BY <1>1, <2>1, <3>1 DEF CallOK
  <2>6. BlocksMatch'
    BY <1>2, <2>1 DEF BlocksMatch, BlocksOf
  <2>7. sandwich' # {}
    BY <1>2, <2>1 DEF NeatBut
  <2>8. QED
    BY <1>1, <2>1, <2>2, <2>3, <2>4, <2>5, <2>6, <2>7 DEF HeapInv
<1>5. CASE CarveNew
  <2>1. /\ regions' = CarvedRegions /\ live' = live \cup {CarvedBlock} /\ sandwich' = sandwich
        /\ ~Overrun(CarvedRegions[i]) /\ pc' = "idle" /\ status' = "ok" /\ call' = NoCall
    BY <1>1, <1>5 DEF CarveNew, i
  <2>2. CallOK'
    BY <1>1, <2>1, ReturnCallOK
  <2>3. QED
    BY <1>1, <1>2, <1>3, <2>1, <2>2, ChangedStep
<1>6. CASE CarveAlt
  <2>1. /\ regions' = CullPtr(CarvedRegions, call.ptr)
        /\ sandwich' = sandwich \cup CullSandwich(CarvedRegions, call.ptr)
        /\ pc' = "idle" /\ status' = "ok" /\ call' = NoCall
    BY <1>1, <1>6 DEF CarveAlt
  <2>2. PICK b \in live : /\ b.addr = call.ptr /\ b \in BlocksOf(CarvedRegions)
                          /\ Placed(CarvedRegions) /\ BlocksOf(regions') = live' /\ Placed(regions')
    BY <1>1, <1>6, AltBlocks
  <2>3. NeatBut(regions', sandwich') /\ SamePlaces(CarvedRegions, regions')
    BY <1>2, <2>1, <2>2, CullNeat
  <2>4. SamePlaces(regions, regions')
    BY <1>3, <2>3 DEF SamePlaces
  <2>5. CallOK'
    BY <1>1, <2>1, ReturnCallOK
  <2>6. QED
    BY <1>1, <2>1, <2>2, <2>3, <2>4, <2>5, ChangedStep
<1>7. QED
  BY <1>1, <1>4, <1>5, <1>6

\* A step that changes nothing.
LEMMA HeapStutter ==
  ASSUME HeapInv, UNCHANGED vars
  PROVE  HeapInv'
<1>1. UNCHANGED <<used, kheap, regions, handle, pc, call, pend, created, live, sandwich, status>>
  BY DEF vars
<1>2. RegionsOK' /\ BlocksMatch'
  BY <1>1 DEF HeapInv, RegionsOK, Sound, BlocksMatch
<1>3. PagesOK' /\ PendOK'
  BY <1>1 DEF HeapInv, PagesOK, PendOK
<1>4. CallOK'
  BY <1>1 DEF HeapInv, CallOK, Roomy
<1>5. QED
  BY <1>1, <1>2, <1>3, <1>4 DEF HeapInv

\* Every step keeps the invariant.
LEMMA HeapStep ==
  ASSUME HeapInv, [Next]_vars
  PROVE  HeapInv'
<1>1. CASE create
  BY <1>1, CreateStep
<1>2. CASE create_user
  BY <1>2, CreateUserStep
<1>3. CASE exhausted
  BY <1>3, StopStep DEF exhausted
<1>4. CASE \E n \in Sizes : new(n)
  BY <1>4, NewStep
<1>5. CASE \E b \in live, n \in Sizes : alt(b, n)
  BY <1>5, AltStep
<1>6. CASE \E b \in live : del(b)
  BY <1>6, DelStep
<1>7. CASE alloc_carve
  BY <1>7, CarveStep
<1>8. CASE alloc_miss
  BY <1>8, MissStep
<1>9. CASE alloc_stale
  BY <1>9, StopStep DEF alloc_stale, Running
<1>10. CASE region_reserve
  BY <1>10, RegionReserveStep
<1>11. CASE grow_reserve
  BY <1>11, GrowReserveStep
<1>12. CASE grow_swap
  BY <1>12, GrowSwapStep
<1>13. CASE region_link
  BY <1>13, RegionLinkStep
<1>14. CASE UNCHANGED vars
  BY <1>14, HeapStutter
<1>15. QED
  BY <1>1, <1>2, <1>3, <1>4, <1>5, <1>6, <1>7, <1>8, <1>9, <1>10, <1>11, <1>12, <1>13, <1>14 DEF Next

\* The inductive invariant of the kernel heap.
THEOREM HeapInvariant == Spec => []HeapInv
<1>1. HeapInv /\ [Next]_vars => HeapInv'
  BY HeapStep
<1>2. QED
  BY HeapInit, <1>1, PTL DEF Spec

-----------------------------------------------------------------------------
(* What the heap promises *)

\* The chunk tables tile their regions, free chunks are merged unless a sandwiched block was culled
\* there, and the tables list exactly the blocks the clients hold: whatever the sizes of
\* pages, headers and requests, and however many calls were made.
THEOREM HeapExactHolds == Spec => []HeapExact
<1>1. HeapInv => HeapExact
  <2> SUFFICES ASSUME HeapInv PROVE HeapExact
    OBVIOUS
  <2>1. RegionsOK /\ PendOK /\ CallOK /\ BlocksMatch
    BY DEF HeapInv
  <2>2. \A i \in DOMAIN regions : Shaped(regions[i]) /\ (Sound(regions[i]) => Neat(regions[i]))
    BY <2>1 DEF RegionsOK
  <2>3. Len(pend) <= 2
    <3>1. pend = << >> \/ Len(pend) = 1 \/ Len(pend) = 2
      BY <2>1 DEF HeapInv, PendOK
    <3>2. pend = << >> => Len(pend) = 0
      OBVIOUS
    <3>3. Len(pend) \in 0 .. 2
      BY <3>1, <3>2
    <3>4. \A n \in 0 .. 2 : n <= 2
      OBVIOUS
    <3>5. QED
      BY <3>3, <3>4, Zenon
  <2>4. \A i \in DOMAIN regions : \A c \in DOMAIN regions[i].chunks :
          regions[i].chunks[c] \in [addr : Nat, size : Nat, flag : Flags]
    BY <2>2, ShapedChunks DEF ChunkRec
  <2>5. TypeOK
    BY <2>1, <2>3, <2>4 DEF HeapInv, TypeOK, CallOK
  <2>6. RegionsTiled
    BY <2>2 DEF RegionsTiled, Neat, Shaped, Framed
  <2>7. Coalesced
    BY <2>2 DEF Coalesced, Neat, Merged
  <2>8. QED
    BY <2>1, <2>5, <2>6, <2>7 DEF HeapExact
<1>2. QED
  BY <1>1, HeapInvariant, PTL

\* alloc never writes a header over the chunk array as long as no sandwiched block was culled, and
\* creates at most one region for a request that create_region's rounding serves.
THEOREM HeapAllocFits == Spec => []AllocFits
<1>1. HeapInv => AllocFits
  <2> SUFFICES ASSUME HeapInv PROVE AllocFits
    OBVIOUS
  <2>1. NoCorruption
    BY DEF HeapInv, NoCorruption
  <2>2. Served(call.n) => created <= 1
    <3>1. CallOK /\ created \in Nat
      BY DEF HeapInv, CallOK
    <3>2. CASE pc \in {"create", "create_user", "idle"}
      BY <3>1, <3>2 DEF CallOK
    <3>3. CASE pc \in {"region", "grow", "swap", "link"}
      BY <3>1, <3>3 DEF CallOK
    <3>4. CASE pc = "alloc"
      BY <3>1, <3>4 DEF CallOK
    <3>5. QED
      BY <3>2, <3>3, <3>4 DEF HeapInv
  <2>3. QED
    BY <2>1, <2>2 DEF AllocFits, ServedByOneRegion
<1>2. QED
  BY <1>1, HeapInvariant, PTL

\* A step that neither stops the machine nor ends a call leaves the blocks alone.
LEMMA BlocksStay ==
  ASSUME HeapInv, [Next]_vars, status' = status, ~alloc_carve, \A b \in live : ~del(b)
  PROVE  live' = live
<1>1. CASE UNCHANGED vars
  BY <1>1 DEF vars
<1>2. CASE Next
  BY <1>2 DEF Next, create, create_user, exhausted, new, alt, alloc_miss, alloc_stale, region_reserve,
              grow_reserve, grow_swap, region_link, ghosts
<1>3. QED
  BY <1>1, <1>2

\* The kernel heap implements the abstract allocator: until the machine stops, a block handed out
\* overlaps none that is held, and no block appears, disappears or changes otherwise.
THEOREM HeapImplementsAllocator == Spec => ImplementsAllocator
<1> DEFINE blocks == UNION {Blocks(regions[i]) : i \in DOMAIN regions}
<1>1. Init => Promise!Init
  BY DEF Init, Promise!Init
<1>2. ASSUME HeapInv, HeapInv', [Next]_vars
      PROVE  [Promise!Next]_(Promise!vars)
  <2>1. blocks = live /\ blocks' = live'
    BY <1>2 DEF HeapInv, BlocksMatch
  <2>2. CASE status # "ok"
    <3>1. UNCHANGED vars
      BY <1>2, <2>2 DEF Next, Running, create, create_user, exhausted, new, alt, del, alloc_carve, alloc_miss,
                        alloc_stale, region_reserve, grow_reserve, grow_swap, region_link
    <3>2. regions' = regions /\ status' = status
      BY <3>1 DEF vars
    <3>3. QED
      BY <3>2 DEF Promise!vars
  <2>3. CASE status = "ok" /\ status' # "ok"
    BY <2>3 DEF Promise!Next
  <2>4. CASE status = "ok" /\ status' = "ok" /\ ~alloc_carve /\ \A b \in live : ~del(b)
    <3>1. live' = live
      BY <1>2, <2>4, BlocksStay
    <3> HIDE DEF blocks
    <3>2. blocks' = blocks /\ (status # "ok")' = (status # "ok")
      BY <2>1, <2>4, <3>1
    <3>3. QED
      BY <3>2 DEF Promise!vars, blocks
  <2>5. CASE status = "ok" /\ status' = "ok" /\ \E b \in live : del(b)
    <3>1. PICK b \in live : del(b)
      BY <2>5
    <3>2. live' = live \ {b}
      BY <3>1 DEF del
    <3> HIDE DEF blocks
    <3>3. \E c \in blocks : blocks' = blocks \ {c}
      BY <2>1, <3>2
    <3>4. Promise!Del
      BY <3>3 DEF Promise!Del, blocks
    <3>5. QED
      BY <2>5, <3>4 DEF Promise!Next
  <2>6. CASE status = "ok" /\ status' = "ok" /\ alloc_carve
    <3>1. pc = "alloc" /\ Roomy(call.n) # {} /\ (CarveOverrun \/ CarveNew \/ CarveAlt)
      BY <2>6, CarveCases
    <3>2. /\ \A c \in live : c.addr # CarvedBlock.addr
          /\ ~Overrun(CarvedRegions[FirstRoomy(call.n)]) => \A c \in live : Promise!Disjoint(CarvedBlock, c)
      BY <1>2, <2>6, <3>1, CarvedFacts
    <3>3. CarvedBlock \notin live
      BY <3>2
    <3>4. CASE CarveOverrun
      BY <2>6, <3>4 DEF CarveOverrun
    <3>5. CASE CarveNew
      <4>1. live' = live \cup {CarvedBlock} /\ \A c \in live : Promise!Disjoint(CarvedBlock, c)
        BY <3>2, <3>5 DEF CarveNew
      <4> HIDE DEF blocks
      <4>2. \E b \in blocks' \ blocks : blocks' = blocks \cup {b} /\ \A c \in blocks : Promise!Disjoint(b, c)
        BY <2>1, <3>3, <4>1
      <4>3. Promise!New
        BY <4>2 DEF Promise!New, blocks
      <4>4. QED
        BY <2>6, <4>3 DEF Promise!Next
    <3>6. CASE CarveAlt
      <4>1. PICK c \in live : c # CarvedBlock /\ live' = (live \ {c}) \cup {CarvedBlock}
        BY <1>2, <2>6, <3>1, <3>6, AltBlocks
      <4>2. \A d \in live : Promise!Disjoint(CarvedBlock, d)
        BY <3>2, <3>6 DEF CarveAlt
      <4> HIDE DEF blocks
      <4>3. \E b \in blocks' \ blocks, e \in blocks :
              blocks' = (blocks \ {e}) \cup {b} /\ \A d \in blocks : Promise!Disjoint(b, d)
        BY <2>1, <3>3, <4>1, <4>2
      <4>4. Promise!Alt
        BY <4>3 DEF Promise!Alt, blocks
      <4>5. QED
        BY <2>6, <4>4 DEF Promise!Next
    <3>7. QED
      BY <3>1, <3>4, <3>5, <3>6
  <2>7. QED
    BY <2>2, <2>3, <2>4, <2>5, <2>6
<1>3. QED
  BY <1>1, <1>2, HeapInvariant, PTL DEF Spec, ImplementsAllocator, Promise!Spec

\* PageReserve's operators are those of the heap's own page map.
LEMMA SamePageMap ==
  /\ Pages!mem_init = mem_init /\ Pages!MemTypes = MemTypes
  /\ \A f, n : Pages!Run(f, n) = Run(f, n)
  /\ \A n : Pages!Chunks(n) = Chunks(n)
  /\ \A u, n, type : Pages!Found(u, n, type) = Found(u, n, type)
<1>1. \A f, n : Pages!Run(f, n) = Run(f, n)
  BY DEF Pages!Run, Run
<1>2. \A n : Pages!Chunks(n) = Chunks(n)
  BY DEF Pages!Chunks, Chunks
<1>3. Pages!mem_init = mem_init /\ Pages!MemTypes = MemTypes
  BY <1>1 DEF Pages!mem_init, mem_init, Pages!MemTypes, MemTypes, Pages!MEM_K, MEM_K, Pages!MEM_U, MEM_U
<1>4. \A u, n, s, e : Pages!FreeStarts(u, n, s, e) = FreeStarts(u, n, s, e)
  BY <1>1 DEF Pages!FreeStarts, FreeStarts
<1>5. \A u, n, s, e : Pages!find_free(u, n, s, e) = find_free(u, n, s, e)
  <2> SUFFICES ASSUME NEW u, NEW n, NEW s, NEW e
               PROVE  Pages!find_free(u, n, s, e) = find_free(u, n, s, e)
    OBVIOUS
  <2> DEFINE S == FreeStarts(u, n, s, e)
  <2>1. Pages!FreeStarts(u, n, s, e) = S
    BY <1>4
  <2> HIDE DEF S
  <2>2. Pages!find_free(u, n, s, e) = IF S = {} THEN -1 ELSE CHOOSE i \in S : \A k \in S : i <= k
    BY <2>1 DEF Pages!find_free
  <2>3. find_free(u, n, s, e) = IF S = {} THEN -1 ELSE CHOOSE i \in S : \A k \in S : i <= k
    BY DEF find_free, S
  <2>4. QED
    BY <2>2, <2>3
<1>6. \A type : Pages!ZoneStart(type) = ZoneStart(type) /\ Pages!ZoneEnd(type) = ZoneEnd(type)
  BY DEF Pages!ZoneStart, ZoneStart, Pages!ZoneEnd, ZoneEnd, Pages!MEM_K, MEM_K
<1>7. \A u, n, type : Pages!Found(u, n, type) = Found(u, n, type)
  BY <1>2, <1>5, <1>6 DEF Pages!Found, Found
<1>8. QED
  BY <1>1, <1>2, <1>3, <1>7

\* The runs of pages of kernel region kh, regions regs and reserved pages pd.
UserRuns(regs) == {PageRun(regs[i].base, regs[i].alloc, MEM_U) : i \in DOMAIN regs}
PendRuns(pd) == {PageRun(pd[i].base, pd[i].size, IF i = 1 THEN MEM_U ELSE MEM_K) : i \in DOMAIN pd}
RunsOf(kh, regs, pd) == {PageRun(kh.base, kh.alloc, MEM_K)} \cup UserRuns(regs) \cup PendRuns(pd)

\* A kernel region on pages of its own is there.
LEMMA KheapThere ==
  ASSUME NEW kh, Whole(kh.base, kh.alloc)
  PROVE  kh # NoKheap
<1>1. PICK m \in Nat \ {0} : kh.alloc = m * ALIGN
  BY DEF Whole
<1>2. m * ALIGN # 0
  BY <1>1, Layout
<1>3. NoKheap.alloc = 0
  BY DEF NoKheap
<1>4. QED
  BY <1>1, <1>2, <1>3

\* Once create has begun, these are the heap's.
LEMMA ExtentsAre ==
  ASSUME HeapInv
  PROVE  /\ pc = "create" => HeapExtents = {}
         /\ pc # "create" => HeapExtents = RunsOf(kheap, regions, pend)
<1>1. ASSUME pc = "create"
      PROVE  HeapExtents = {}
  <2>1. kheap = NoKheap /\ DOMAIN regions = {} /\ DOMAIN pend = {}
    BY <1>1 DEF HeapInv, PagesOK, PendOK
  <2>2. QED
    BY <2>1 DEF HeapExtents
<1>2. ASSUME pc # "create"
      PROVE  HeapExtents = RunsOf(kheap, regions, pend)
  <2>1. kheap # NoKheap
    BY <1>2, KheapThere DEF HeapInv, PagesOK, Held, Owned
  <2>2. QED
    BY <2>1 DEF HeapExtents, RunsOf, UserRuns, PendRuns
<1>3. QED
  BY <1>1, <1>2

\* And so they are after a step.
LEMMA ExtentsNext ==
  ASSUME HeapInv', pc' # "create"
  PROVE  HeapExtents' = RunsOf(kheap', regions', pend')
<1>1. kheap' # NoKheap
  BY KheapThere DEF HeapInv, PagesOK, Held, Owned
<1>2. QED
  BY <1>1 DEF HeapExtents, RunsOf, UserRuns, PendRuns

\* Regions in the same places have the same runs.
LEMMA SameRuns ==
  ASSUME NEW regs, NEW q, SamePlaces(regs, q)
  PROVE  UserRuns(q) = UserRuns(regs)
BY DEF SamePlaces, UserRuns

\* del and alloc move no region.
LEMMA CallsMoveNothing ==
  ASSUME HeapInv, alloc_carve \/ \E b \in live : del(b)
  PROVE  SamePlaces(regions, regions') /\ UNCHANGED <<used, kheap, pend>> /\ pc # "create" /\ pc' # "create"
         /\ status = "ok" /\ status' # "exhausted"
<1>1. CASE alloc_carve
  <2>1. /\ status = "ok" /\ pc = "alloc" /\ Roomy(call.n) # {} /\ UNCHANGED <<used, kheap, pend>>
        /\ CarveOverrun \/ CarveNew \/ CarveAlt
    BY <1>1, CarveCases
  <2>2. SamePlaces(regions, CarvedRegions) /\ NeatBut(CarvedRegions, sandwich)
    BY <2>1, CarvedFacts, ChangedPlaces
  <2>3. CASE CarveOverrun \/ CarveNew
    BY <2>1, <2>2, <2>3 DEF CarveOverrun, CarveNew
  <2>4. CASE CarveAlt
    <3>1. PICK b \in live : b.addr = call.ptr /\ b \in BlocksOf(CarvedRegions) /\ Placed(CarvedRegions)
      BY <2>1, <2>4, AltBlocks
    <3>2. regions' = CullPtr(CarvedRegions, b.addr) /\ pc' = "idle" /\ status' = status
      BY <2>4, <3>1 DEF CarveAlt
    <3>3. SamePlaces(CarvedRegions, regions')
      BY <2>2, <3>1, <3>2, CullNeat
    <3>4. QED
      BY <2>1, <2>2, <3>2, <3>3 DEF SamePlaces
  <2>5. QED
    BY <2>1, <2>3, <2>4
<1>2. CASE \E b \in live : del(b)
  <2>1. PICK b \in live : del(b)
    BY <1>2
  <2>2. status = "ok" /\ regions' = CullPtr(regions, b.addr) /\ UNCHANGED <<used, kheap, pend, pc, status>> /\ pc = "idle"
    BY <2>1 DEF del, Running
  <2>3. Placed(regions) /\ NeatBut(regions, sandwich) /\ b \in BlocksOf(regions)
    BY <2>2, RegionsPlaced, RegionsNeat
  <2>4. SamePlaces(regions, regions')
    BY <2>2, <2>3, CullNeat
  <2>5. QED
    BY <2>2, <2>4
<1>3. QED
  BY <1>1, <1>2

\* A step that marks the pages reserve found and holds them is a reserve.
LEMMA ReserveIs ==
  ASSUME HeapInv, NEW c \in Nat \ {0}, NEW type \in MemTypes, status = "ok", status' = "ok",
         Found(used, c, type) # -1, used' = used \cup Run(Found(used, c, type), Chunks(c)),
         HeapExtents' = HeapExtents \cup {PageRun(Found(used, c, type) * ALIGN, c * ALIGN, type)}
  PROVE  Pages!Next
<1> DEFINE f == Found(used, c, type)
<1>1. used \in SUBSET (0 .. (MaxChunk - 1))
  BY DEF HeapInv
<1>2. Chunks(c) = c /\ c <= MaxChunk /\ (f * ALIGN) \div ALIGN = f /\ (c * ALIGN) \div ALIGN = c
  BY <1>1, Reserved
<1>3. PageRun(f * ALIGN, c * ALIGN, type) = [first |-> f, n |-> Chunks(c), type |-> type]
  BY <1>2 DEF PageRun
<1>4. Pages!Found(used, c, type) = f /\ Pages!Chunks(c) = Chunks(c) /\ Pages!Run(f, Chunks(c)) = Run(f, Chunks(c))
      /\ Pages!MemTypes = MemTypes
  BY SamePageMap
<1>5. c \in 0 .. MaxChunk
  BY <1>2, ChunkAssumption
<1> HIDE DEF f
<1>6. Pages!reserve(c, type)
  BY <1>3, <1>4 DEF Pages!reserve, f
<1>7. QED
  BY <1>4, <1>5, <1>6 DEF Pages!Next

\* create, create_user, region_reserve and grow_reserve each make one reserve.
LEMMA ReservesOnce ==
  ASSUME HeapInv, HeapInv', create \/ create_user \/ region_reserve \/ grow_reserve
  PROVE  Pages!Next
<1>0. status = "ok" /\ status' = "ok"
  BY DEF create, create_user, region_reserve, grow_reserve, Running
<1>1. MEM_K \in MemTypes /\ MEM_U \in MemTypes /\ InitPages \in Nat \ {0}
  BY HeapAssumption DEF MemTypes
<1>2. CASE create
  <2> DEFINE f == Found(used, InitPages, MEM_K)
             s == InitPages * ALIGN
  <2>1. /\ pc = "create" /\ pc' = "create_user" /\ UNCHANGED <<regions, pend>>
        /\ kheap' = NewKheap(FoundPages * ALIGN, s, 2) /\ Reserve
    BY <1>2 DEF create, Running
  <2>2. FoundPages = f /\ f # -1 /\ used' = used \cup Run(f, Chunks(InitPages))
    BY <2>1, RequestAt DEF Reserve, FoundPages
  <2>3. kheap'.base = f * ALIGN /\ kheap'.alloc = s
    BY <2>1, <2>2, NewKheapAt
  <2>4. DOMAIN regions' = {} /\ DOMAIN pend' = {}
    BY <2>1 DEF HeapInv, PagesOK, PendOK
  <2>5. HeapExtents = {} /\ HeapExtents' = RunsOf(kheap', regions', pend')
    BY <2>1, ExtentsAre, ExtentsNext
  <2>6. HeapExtents' = HeapExtents \cup {PageRun(f * ALIGN, s, MEM_K)}
    BY <2>3, <2>4, <2>5 DEF RunsOf, UserRuns, PendRuns
  <2>7. QED
    BY <1>0, <1>1, <2>2, <2>6, ReserveIs
<1>3. CASE create_user
  <2> DEFINE f == Found(used, InitPages, MEM_U)
             s == InitPages * ALIGN
  <2>1. /\ pc = "create_user" /\ pc' = "idle" /\ UNCHANGED <<kheap, pend>>
        /\ regions' = <<NewRegion(FoundPages * ALIGN, s)>> /\ Reserve
    BY <1>3 DEF create_user, Running
  <2>2. FoundPages = f /\ f # -1 /\ used' = used \cup Run(f, Chunks(InitPages))
    BY <2>1, RequestAt DEF Reserve, FoundPages
  <2>3. DOMAIN regions' = {1} /\ regions'[1].base = f * ALIGN /\ regions'[1].alloc = s
    BY <2>1, <2>2 DEF NewRegion
  <2>4. DOMAIN regions = {}
    BY <2>1 DEF HeapInv, PagesOK
  <2>5. HeapExtents = RunsOf(kheap, regions, pend) /\ HeapExtents' = RunsOf(kheap, regions', pend)
    BY <2>1, ExtentsAre, ExtentsNext
  <2>6. UserRuns(regions) = {} /\ UserRuns(regions') = {PageRun(f * ALIGN, s, MEM_U)}
    BY <2>3, <2>4 DEF UserRuns
  <2>7. HeapExtents' = HeapExtents \cup {PageRun(f * ALIGN, s, MEM_U)}
    BY <2>5, <2>6 DEF RunsOf
  <2>8. QED
    BY <1>0, <1>1, <2>2, <2>7, ReserveIs
<1>4. CASE region_reserve
  <2> DEFINE s == RegionSize(call.n)
             c == s \div ALIGN
             f == Found(used, c, MEM_U)
  <2>1. /\ pc = "region" /\ pc' # "create" /\ UNCHANGED <<kheap, regions>>
        /\ pend' = <<[base |-> FoundPages * ALIGN, size |-> s]>> /\ Reserve
    BY <1>4 DEF region_reserve, Running
  <2>2. FoundPages = f /\ f # -1 /\ used' = used \cup Run(f, Chunks(c))
    BY <2>1, RequestAt DEF Reserve, FoundPages
  <2>3. c \in Nat \ {0} /\ s = c * ALIGN
    <3>1. call.n \in Nat
      BY DEF HeapInv, CallOK
    <3>2. QED
      BY <3>1, RegionSizeServes
  <2> HIDE DEF s, c
  <2>4. DOMAIN pend' = {1} /\ pend'[1].base = f * ALIGN /\ pend'[1].size = s
    BY <2>1, <2>2
  <2>5. DOMAIN pend = {}
    BY <2>1 DEF HeapInv, PendOK
  <2>6. HeapExtents = RunsOf(kheap, regions, pend) /\ HeapExtents' = RunsOf(kheap, regions, pend')
    BY <2>1, ExtentsAre, ExtentsNext
  <2>7. PendRuns(pend) = {} /\ PendRuns(pend') = {PageRun(f * ALIGN, s, MEM_U)}
    BY <2>4, <2>5 DEF PendRuns
  <2>8. HeapExtents' = HeapExtents \cup {PageRun(f * ALIGN, c * ALIGN, MEM_U)}
    BY <2>3, <2>6, <2>7 DEF RunsOf
  <2>9. QED
    BY <1>0, <1>1, <2>2, <2>3, <2>8, ReserveIs
<1>5. CASE grow_reserve
  <2> DEFINE s == kheap.alloc + ALIGN
             c == s \div ALIGN
             f == Found(used, c, MEM_K)
             e == [base |-> f * ALIGN, size |-> s]
  <2>1. /\ pc = "grow" /\ pc' = "swap" /\ UNCHANGED <<kheap, regions>>
        /\ pend' = Append(pend, [base |-> FoundPages * ALIGN, size |-> s]) /\ Reserve
    BY <1>5 DEF grow_reserve, Running
  <2>2. FoundPages = f /\ f # -1 /\ used' = used \cup Run(f, Chunks(c))
    BY <2>1, RequestAt DEF Reserve, FoundPages
  <2>3. c \in Nat \ {0} /\ s = c * ALIGN
    <3>1. PICK m \in Nat \ {0} : kheap.alloc = m * ALIGN
      BY <2>1 DEF HeapInv, PagesOK, Held, Owned, Whole
    <3>2. s = (m + 1) * ALIGN /\ ((m + 1) * ALIGN) \div ALIGN = m + 1
      BY <3>1, Layout
    <3>3. QED
      BY <3>2
  <2> HIDE DEF s, c
  <2>4. /\ pend \in Seq([base : Nat, size : Nat]) /\ Len(pend) = 1 /\ DOMAIN pend = 1 .. 1
        /\ Len(pend') = 2 /\ DOMAIN pend' = 1 .. 2
    <3>1. /\ pend \in Seq([base : Nat, size : Nat]) /\ Len(pend) = 1 /\ DOMAIN pend = 1 .. Len(pend)
      BY <2>1, PendList
    <3>2. Len(pend') = 2 /\ DOMAIN pend' = 1 .. Len(pend')
      <4>1. pc' \in {"grow", "swap", "link"} /\ pc' = "swap"
        BY <2>1
      <4>2. Len(pend') = 2
        BY <4>1 DEF HeapInv, PendOK
      <4>3. pend' \in Seq([base : Nat, size : Nat])
        BY DEF HeapInv, PendOK
      <4>4. QED
        BY <4>2, <4>3, LenProperties
    <3>3. QED
      BY <3>1, <3>2
  <2>5. pend'[1] = pend[1] /\ pend'[2] = e
    <3>1. pend' = Append(pend, e)
      BY <2>1, <2>2
    <3> HIDE DEF e
    <3>2. QED
      BY <2>4, <3>1
  <2>6. e.base = f * ALIGN /\ e.size = s
    OBVIOUS
  <2> HIDE DEF e, f
  <2>7. PendRuns(pend') = PendRuns(pend) \cup {PageRun(f * ALIGN, s, MEM_K)}
    <3>1. PendRuns(pend) = {PageRun(pend[1].base, pend[1].size, MEM_U)}
      BY <2>4 DEF PendRuns
    <3>2. DOMAIN pend' = {1, 2}
      BY <2>4
    <3>3. PendRuns(pend') = {PageRun(pend'[1].base, pend'[1].size, MEM_U), PageRun(pend'[2].base, pend'[2].size, MEM_K)}
      BY <3>2 DEF PendRuns
    <3>4. QED
      BY <2>5, <2>6, <3>1, <3>3
  <2>8. HeapExtents = RunsOf(kheap, regions, pend) /\ HeapExtents' = RunsOf(kheap, regions, pend')
    BY <2>1, ExtentsAre, ExtentsNext
  <2>9. HeapExtents' = HeapExtents \cup {PageRun(f * ALIGN, c * ALIGN, MEM_K)}
    BY <2>3, <2>7, <2>8 DEF RunsOf
  <2>10. QED
    BY <1>0, <1>1, <2>2, <2>3, <2>9, ReserveIs DEF f
<1>6. QED
  BY <1>2, <1>3, <1>4, <1>5

\* exhausted is a reserve with no run left.
LEMMA ExhaustedIs ==
  ASSUME HeapInv, exhausted
  PROVE  Pages!Next
<1>1. /\ status = "ok" /\ status' = "exhausted" /\ Found(used, Request[1], Request[2]) = -1
      /\ UNCHANGED <<used, kheap, regions, pend>> /\ pc \in {"create", "create_user", "region", "grow"}
  BY DEF exhausted, FoundPages
<1>2. Request[1] \in Nat /\ Request[2] \in MemTypes
  <2>1. InitPages \in Nat /\ MEM_K \in MemTypes /\ MEM_U \in MemTypes
    BY HeapAssumption DEF MemTypes
  <2>2. CASE pc \in {"create", "create_user"}
    BY <2>1, <2>2, RequestAt
  <2>3. CASE pc = "region"
    <3>1. call.n \in Nat
      BY DEF HeapInv, CallOK
    <3>2. RegionSize(call.n) \div ALIGN \in Nat
      BY <3>1, RegionSizeServes
    <3>3. QED
      BY <2>1, <2>3, <3>2, RequestAt
  <2>4. CASE pc = "grow"
    <3>1. PICK m \in Nat \ {0} : kheap.alloc = m * ALIGN
      BY <2>4 DEF HeapInv, PagesOK, Held, Owned, Whole
    <3>2. (kheap.alloc + ALIGN) \div ALIGN \in Nat
      <4>1. kheap.alloc + ALIGN = (m + 1) * ALIGN /\ ((m + 1) * ALIGN) \div ALIGN = m + 1
        BY <3>1, Layout
      <4>2. QED
        BY <4>1
    <3>3. QED
      BY <2>1, <2>4, <3>2, RequestAt
  <2>5. QED
    BY <1>1, <2>2, <2>3, <2>4
<1> DEFINE c == Request[1]
           type == Request[2]
<1> HIDE DEF c, type
<1>3. \E n \in 0 .. MaxChunk : Found(used, n, type) = -1
  <2>0. MaxChunk \in Nat /\ c \in Nat /\ type \in MemTypes /\ Found(used, c, type) = -1
    BY <1>1, <1>2, ChunkAssumption DEF c, type
  <2>1. CASE c <= MaxChunk
    BY <2>0, <2>1
  <2>2. CASE c > MaxChunk
    <3>1. Found(used, MaxChunk, type) = -1
      <4> SUFFICES ASSUME Found(used, MaxChunk, type) # -1 PROVE FALSE
        OBVIOUS
      <4>1. Found(used, MaxChunk, type) \in Nat /\ Found(used, MaxChunk, type) + Chunks(MaxChunk) < ZoneEnd(type)
        BY <2>0, FoundRun
      <4>2. ZoneEnd(type) <= MaxChunk /\ ZoneEnd(type) \in Nat
        BY ChunkAssumption DEF ZoneEnd
      <4>3. Chunks(MaxChunk) \in Nat /\ Chunks(MaxChunk) >= MaxChunk
        BY <2>0 DEF Chunks
      <4>4. QED
        BY <2>0, <4>1, <4>2, <4>3
    <3>2. QED
      BY <2>0, <3>1
  <2>3. QED
    BY <2>0, <2>1, <2>2
<1>4. PICK n \in 0 .. MaxChunk : Found(used, n, type) = -1
  BY <1>3
<1>5. HeapExtents' = HeapExtents
  BY <1>1 DEF HeapExtents
<1>6. Pages!Found(used, n, type) = -1 /\ type \in Pages!MemTypes
  BY <1>2, <1>4, SamePageMap DEF type
<1>7. Pages!reserve_exhausted(n, type)
  BY <1>1, <1>5, <1>6 DEF Pages!reserve_exhausted
<1>8. QED
  BY <1>6, <1>7 DEF Pages!Next

\* The runs the heap holds have each pages of their own.
LEMMA KernelRunAlone ==
  ASSUME HeapInv, pc = "swap"
  PROVE  /\ PageRun(kheap.base, kheap.alloc, MEM_K) \notin UserRuns(regions)
         /\ PageRun(kheap.base, kheap.alloc, MEM_K) # PageRun(pend[1].base, pend[1].size, MEM_U)
         /\ PageRun(kheap.base, kheap.alloc, MEM_K) # PageRun(pend[2].base, pend[2].size, MEM_K)
<1>1. \A b1, s1, b2, s2 : PageRun(b1, s1, MEM_K) # PageRun(b2, s2, MEM_U)
  BY DEF PageRun, MEM_K, MEM_U
<1>2. Held(used, kheap, regions, pend) /\ Len(pend) = 2 /\ DOMAIN pend = 1 .. 2
  BY PendList DEF HeapInv, PagesOK
<1>3. /\ Whole(kheap.base, kheap.alloc) /\ Apart(kheap.base, kheap.alloc, pend[2].base, pend[2].size)
  BY <1>2 DEF Held, Owned
<1>4. PagesOf(kheap.base, kheap.alloc) # {}
  <2>1. PICK f \in Nat, m \in Nat \ {0} : kheap.base = f * ALIGN /\ kheap.alloc = m * ALIGN
    BY <1>3 DEF Whole
  <2>2. kheap.base \div ALIGN = f /\ kheap.alloc \div ALIGN = m
    BY <2>1, Layout
  <2>3. f \in f .. (f + m - 1)
    OBVIOUS
  <2>4. QED
    BY <2>2, <2>3 DEF PagesOf, Run
<1>5. PageRun(kheap.base, kheap.alloc, MEM_K) # PageRun(pend[2].base, pend[2].size, MEM_K)
  <2> SUFFICES ASSUME PageRun(kheap.base, kheap.alloc, MEM_K) = PageRun(pend[2].base, pend[2].size, MEM_K)
               PROVE  FALSE
    OBVIOUS
  <2>1. kheap.base \div ALIGN = pend[2].base \div ALIGN /\ kheap.alloc \div ALIGN = pend[2].size \div ALIGN
    BY DEF PageRun
  <2>2. PagesOf(kheap.base, kheap.alloc) = PagesOf(pend[2].base, pend[2].size)
    BY <2>1 DEF PagesOf
  <2>3. QED
    BY <1>3, <1>4, <2>2 DEF Apart
<1>6. QED
  BY <1>1, <1>5 DEF UserRuns

\* grow_swap relinquishes the old kernel region, a run the heap holds.
LEMMA SwapRelinquishes ==
  ASSUME HeapInv, HeapInv', grow_swap
  PROVE  Pages!Next
<1> DEFINE e == PageRun(kheap.base, kheap.alloc, MEM_K)
           p1 == PageRun(pend[1].base, pend[1].size, MEM_U)
           p2 == PageRun(pend[2].base, pend[2].size, MEM_K)
<1>1. /\ status = "ok" /\ status' = "ok" /\ pc = "swap" /\ pc' = "link" /\ regions' = regions
      /\ used' = used \ Run(kheap.base \div ALIGN, kheap.alloc \div ALIGN)
      /\ kheap' = NewKheap(pend[2].base, pend[2].size, 1 + Len(regions)) /\ pend' = SubSeq(pend, 1, 1)
  BY DEF grow_swap, Running
<1>2. kheap'.base = pend[2].base /\ kheap'.alloc = pend[2].size
  BY <1>1, NewKheapAt
<1>3. Len(pend) = 2 /\ DOMAIN pend = 1 .. 2 /\ pend \in Seq([base : Nat, size : Nat])
      /\ pend[1] \in [base : Nat, size : Nat]
  BY <1>1, PendList
<1>4. DOMAIN pend' = 1 .. 1 /\ pend'[1] = pend[1]
  <2>1. pend' \in Seq([base : Nat, size : Nat]) /\ Len(pend') = 1
    BY <1>1 DEF HeapInv, PendOK
  <2>2. DOMAIN pend' = 1 .. 1
    BY <2>1, LenProperties
  <2> DEFINE S == [base : Nat, size : Nat]
  <2>3. pend \in Seq(S) /\ \A i \in 1 .. 1 : pend[i] \in S
    BY <1>3
  <2> HIDE DEF S
  <2>4. \A i \in 1 .. 1 : pend'[i] = pend[1 + i - 1]
    BY <1>1, <1>3, <2>3, SubSeqProperties
  <2>5. 1 \in 1 .. 1 /\ 1 + 1 - 1 = 1
    OBVIOUS
  <2>6. QED
    BY <2>2, <2>4, <2>5
<1>5. HeapExtents = RunsOf(kheap, regions, pend) /\ HeapExtents' = RunsOf(kheap', regions, pend')
  BY <1>1, ExtentsAre, ExtentsNext
<1>6. PendRuns(pend) = {p1, p2} /\ PendRuns(pend') = {p1}
  <2>1. DOMAIN pend = {1, 2} /\ DOMAIN pend' = {1}
    BY <1>3, <1>4
  <2>2. PendRuns(pend) = {p1, p2}
    BY <2>1 DEF PendRuns
  <2>3. PendRuns(pend') = {p1}
    BY <1>4, <2>1 DEF PendRuns
  <2>4. QED
    BY <2>2, <2>3
<1>7. e \notin UserRuns(regions) /\ e # p1 /\ e # p2
  BY <1>1, KernelRunAlone
<1>8. HeapExtents = {e} \cup UserRuns(regions) \cup {p1, p2} /\ HeapExtents' = {p2} \cup UserRuns(regions) \cup {p1}
  BY <1>2, <1>5, <1>6 DEF RunsOf
<1>9. Pages!ChunksOf(e) = Run(kheap.base \div ALIGN, kheap.alloc \div ALIGN)
  <2>1. e.first = kheap.base \div ALIGN /\ e.n = kheap.alloc \div ALIGN
    BY DEF PageRun
  <2> HIDE DEF e
  <2>2. QED
    BY <2>1, SamePageMap DEF Pages!ChunksOf
<1> HIDE DEF e, p1, p2
<1>10. HeapExtents' = HeapExtents \ {e} /\ e \in HeapExtents
  BY <1>7, <1>8
<1>11. Pages!relinquish(e)
  BY <1>1, <1>9, <1>10 DEF Pages!relinquish
<1>12. QED
  BY <1>10, <1>11 DEF Pages!Next

\* region_link turns reserved pages into a region: nothing changes for the page allocator.
LEMMA LinkKeepsPages ==
  ASSUME HeapInv, HeapInv', region_link
  PROVE  used' = used /\ HeapExtents' = HeapExtents /\ status' = "ok" /\ status = "ok"
<1> DEFINE r == NewRegion(pend[1].base, pend[1].size)
           k == Len(regions)
           p == PageRun(pend[1].base, pend[1].size, MEM_U)
<1>1. /\ status = "ok" /\ status' = "ok" /\ pc = "link" /\ pc' = "alloc" /\ used' = used
      /\ regions' = Append(regions, r) /\ pend' = << >>
      /\ kheap'.base = kheap.base /\ kheap'.alloc = kheap.alloc
  BY DEF region_link, Running
<1>2. DOMAIN pend = 1 .. 1 /\ Len(pend) = 1
  BY <1>1, PendList
<1>3. HeapExtents = RunsOf(kheap, regions, pend) /\ HeapExtents' = RunsOf(kheap', regions', pend')
  BY <1>1, ExtentsAre, ExtentsNext
<1>4. PendRuns(pend) = {p} /\ PendRuns(pend') = {}
  <2>1. DOMAIN pend = {1} /\ DOMAIN pend' = {}
    BY <1>1, <1>2
  <2>2. QED
    BY <2>1 DEF PendRuns
<1>5. r.base = pend[1].base /\ r.alloc = pend[1].size
  BY DEF NewRegion
<1>6. regions \in Seq(RegionRec) /\ k \in Nat /\ DOMAIN regions = 1 .. k /\ regions' \in Seq(RegionRec)
  BY LenProperties DEF HeapInv, RegionsOK
<1> HIDE DEF r
<1>7. /\ DOMAIN regions' = DOMAIN regions \cup {k + 1} /\ regions'[k + 1] = r
      /\ \A i \in DOMAIN regions : regions'[i] = regions[i]
  <2>1. Len(regions') = k + 1 /\ regions'[k + 1] = r /\ \A i \in 1 .. k : regions'[i] = regions[i]
    BY <1>1, <1>6
  <2>2. DOMAIN regions' = 1 .. (k + 1)
    BY <1>6, <2>1, LenProperties
  <2>3. QED
    BY <1>6, <2>1, <2>2
<1> HIDE DEF k
<1>8. UserRuns(regions') = UserRuns(regions) \cup {p}
  <2>1. p = PageRun(regions'[k + 1].base, regions'[k + 1].alloc, MEM_U)
    BY <1>5, <1>7
  <2> HIDE DEF p
  <2>2. \A x : x \in UserRuns(regions') <=> \E i \in DOMAIN regions' : x = PageRun(regions'[i].base, regions'[i].alloc, MEM_U)
    BY DEF UserRuns
  <2>3. \A x : x \in UserRuns(regions) <=> \E i \in DOMAIN regions : x = PageRun(regions[i].base, regions[i].alloc, MEM_U)
    BY DEF UserRuns
  <2>4. \A x : x \in UserRuns(regions') <=> x \in UserRuns(regions) \cup {p}
    BY <1>7, <2>1, <2>2, <2>3
  <2>5. QED
    BY <2>4
<1>9. HeapExtents' = HeapExtents
  BY <1>1, <1>3, <1>4, <1>8 DEF RunsOf
<1>10. QED
  BY <1>1, <1>9

\* The kernel heap uses the page allocator as PageReserve allows: every step is one reserve, one
\* relinquish of a run the heap holds, or none, so pages are neither leaked nor given back twice.
THEOREM HeapUsesPages == Spec => UsesPagesRight
<1>1. Init => Pages!Init
  <2> SUFFICES ASSUME Init PROVE Pages!Init
    OBVIOUS
  <2>1. HeapExtents = {}
    BY DEF Init, HeapExtents
  <2>2. used = Pages!mem_init /\ (status = "exhausted") = FALSE
    BY SamePageMap DEF Init
  <2>3. QED
    BY <2>1, <2>2 DEF Pages!Init
<1>2. ASSUME HeapInv, HeapInv', [Next]_vars
      PROVE  [Pages!Next]_(Pages!vars)
  <2>1. ASSUME used' = used, HeapExtents' = HeapExtents, (status = "exhausted")' = (status = "exhausted")
        PROVE  [Pages!Next]_(Pages!vars)
    BY <2>1 DEF Pages!vars
  <2>2. CASE create \/ create_user \/ region_reserve \/ grow_reserve
    BY <1>2, <2>2, ReservesOnce
  <2>3. CASE exhausted
    BY <1>2, <2>3, ExhaustedIs
  <2>4. CASE grow_swap
    BY <1>2, <2>4, SwapRelinquishes
  <2>5. CASE region_link
    BY <1>2, <2>1, <2>5, LinkKeepsPages
  <2>6. CASE alloc_carve \/ \E b \in live : del(b)
    <3>1. SamePlaces(regions, regions') /\ UNCHANGED <<used, kheap, pend>> /\ pc # "create" /\ pc' # "create"
          /\ status = "ok" /\ status' # "exhausted"
      BY <1>2, <2>6, CallsMoveNothing
    <3>2. UserRuns(regions') = UserRuns(regions)
      BY <3>1, SameRuns
    <3>3. HeapExtents = RunsOf(kheap, regions, pend) /\ HeapExtents' = RunsOf(kheap, regions', pend)
      BY <1>2, <3>1, ExtentsAre, ExtentsNext
    <3>4. HeapExtents' = HeapExtents
      BY <3>2, <3>3 DEF RunsOf
    <3>5. QED
      BY <2>1, <3>1, <3>4
  <2>7. CASE (\E n \in Sizes : new(n)) \/ (\E b \in live, n \in Sizes : alt(b, n)) \/ alloc_miss \/ alloc_stale
    <3>1. UNCHANGED <<used, kheap, regions, pend>> /\ status = "ok" /\ status' # "exhausted"
      BY <2>7 DEF new, alt, alloc_miss, alloc_stale, Running
    <3>2. HeapExtents' = HeapExtents
      BY <3>1 DEF HeapExtents
    <3>3. QED
      BY <2>1, <3>1, <3>2
  <2>8. CASE UNCHANGED vars
    <3>1. UNCHANGED <<used, kheap, regions, pend, status>>
      BY <2>8 DEF vars
    <3>2. HeapExtents' = HeapExtents
      BY <3>1 DEF HeapExtents
    <3>3. QED
      BY <2>1, <3>1, <3>2
  <2>9. QED
    BY <1>2, <2>2, <2>3, <2>4, <2>5, <2>6, <2>7, <2>8 DEF Next
<1>3. QED
  BY <1>1, <1>2, HeapInvariant, PTL DEF Spec, UsesPagesRight, Pages!Spec

-----------------------------------------------------------------------------
(* The accounts of the heap *)

\* What the bookkeeping of a kernel region takes that lists n regions.
Taken(n) == REGION_INFO_SIZE + HEAP_INFO_SIZE + 5 * CHUNK_INFO_SIZE + n * REGION_ARR + 5 * CHUNK_ARR

\* The account of kernel region kh, which lists n regions.
KernelBilled(kh, n) ==
  /\ kh \in [base : Nat, alloc : Nat, used : Nat, arr : Nat, free : [addr : Nat, size : Int, flag : Flags]]
  /\ kh.arr = n * REGION_ARR
  /\ kh.used = Taken(n) /\ kh.used <= kh.alloc
  /\ kh.free.addr = kh.base + 4 * CHUNK_INFO_SIZE + REGION_INFO_SIZE + HEAP_INFO_SIZE + n * REGION_ARR
  /\ kh.free.size = kh.alloc - kh.used

\* The accounts, and what create_region has made sure of when it enters a region in the array:
\* there is room for the entry.
AccountInv ==
  /\ \A i \in DOMAIN regions : Billed(regions[i])
  /\ pc # "create" => KernelBilled(kheap, IF pc = "create_user" THEN 2 ELSE 1 + Len(regions))
  /\ pc = "swap" => pend[2].size = kheap.alloc + ALIGN
  /\ pc = "link" => kheap.alloc - kheap.used >= REGION_ARR

\* The sizes of the kernel region's parts.
LEMMA KernelSizes ==
  /\ HEAP_INFO_SIZE \in Nat /\ REGION_ARR \in Nat /\ ALIGN >= Taken(2) /\ ALIGN >= REGION_ARR
  /\ \A n \in Nat : n * REGION_ARR \in Nat /\ (n + 1) * REGION_ARR = n * REGION_ARR + REGION_ARR
  /\ \A n \in Nat : Taken(n) \in Nat /\ Taken(n + 1) = Taken(n) + REGION_ARR
<1>1. HEAP_INFO_SIZE \in Nat /\ REGION_ARR \in Nat
  BY LayoutAssumption
<1>2. \A n \in Nat : n * REGION_ARR \in Nat /\ (n + 1) * REGION_ARR = n * REGION_ARR + REGION_ARR
  BY <1>1
<1>3. ALIGN >= Taken(2)
  BY HeapAssumption DEF Taken
<1>4. ALIGN >= REGION_ARR
  BY <1>1, HeapAssumption, Layout
<1>5. ASSUME NEW n \in Nat
      PROVE  Taken(n) \in Nat /\ Taken(n + 1) = Taken(n) + REGION_ARR
  <2>1. PICK x, y : x \in Nat /\ x = n * REGION_ARR /\ y = (n + 1) * REGION_ARR /\ y = x + REGION_ARR
    BY <1>2
  <2>2. QED
    BY <1>1, <2>1, Layout DEF Taken
<1>6. QED
  BY <1>1, <1>2, <1>3, <1>4, <1>5

\* The kernel region as create and grow_kheap lay it out.
LEMMA NewKernelBilled ==
  ASSUME NEW b \in Nat, NEW s \in Nat, NEW n \in Nat, s >= Taken(n)
  PROVE  KernelBilled(NewKheap(b, s, n), n)
<1> DEFINE kh == NewKheap(b, s, n)
           x == n * REGION_ARR
           a == b + 4 * CHUNK_INFO_SIZE + REGION_INFO_SIZE + HEAP_INFO_SIZE + x
           t == Taken(n)
           z == s - t
<1>1. kh = [base |-> b, alloc |-> s, used |-> t, arr |-> x, free |-> [addr |-> a, size |-> z, flag |-> UNALLOCATED]]
  BY DEF NewKheap, Taken, Chunk
<1>2. x \in Nat /\ t \in Nat /\ HEAP_INFO_SIZE \in Nat
  BY KernelSizes
<1> HIDE DEF x, t
<1>3. a \in Nat /\ z \in Int
  BY <1>2, Layout
<1>4. t <= s
  BY <1>2 DEF t
<1>5. a = b + 4 * CHUNK_INFO_SIZE + REGION_INFO_SIZE + HEAP_INFO_SIZE + x /\ z = s - t
  OBVIOUS
<1> HIDE DEF a, z, kh
<1>6. /\ kh.base = b /\ kh.alloc = s /\ kh.used = t /\ kh.arr = x /\ kh.free.addr = a /\ kh.free.size = z
      /\ kh \in [base : Nat, alloc : Nat, used : Nat, arr : Nat, free : [addr : Nat, size : Int, flag : Flags]]
  BY <1>1, <1>2, <1>3 DEF Flags
<1>7. KernelBilled(kh, n)
  BY <1>4, <1>5, <1>6 DEF KernelBilled, x, t
<1>8. QED
  BY <1>7 DEF kh

\* The kernel region after one more entry was taken from its free chunk.
Linked(kh) ==
  [kh EXCEPT !.arr = @ + REGION_ARR, !.used = @ + REGION_ARR,
             !.free.addr = @ + REGION_ARR, !.free.size = @ - REGION_ARR]

\* Its account is that of one more region.
LEMMA LinkedBilled ==
  ASSUME NEW kh, NEW n \in Nat, KernelBilled(kh, n), kh.alloc - kh.used >= REGION_ARR
  PROVE  KernelBilled(Linked(kh), n + 1)
<1>1. PICK b, s, t, x, a, z, f :
        /\ b \in Nat /\ s \in Nat /\ t \in Nat /\ x \in Nat /\ a \in Nat /\ z \in Int /\ f \in Flags
        /\ kh = [base |-> b, alloc |-> s, used |-> t, arr |-> x, free |-> [addr |-> a, size |-> z, flag |-> f]]
  <2>1. kh \in [base : Nat, alloc : Nat, used : Nat, arr : Nat, free : [addr : Nat, size : Int, flag : Flags]]
    BY DEF KernelBilled
  <2>2. kh.free = [addr |-> kh.free.addr, size |-> kh.free.size, flag |-> kh.free.flag]
    BY <2>1
  <2>3. QED
    BY <2>1, <2>2
<1>2. /\ x = n * REGION_ARR /\ t = Taken(n) /\ t <= s /\ s - t >= REGION_ARR /\ z = s - t
      /\ a = b + 4 * CHUNK_INFO_SIZE + REGION_INFO_SIZE + HEAP_INFO_SIZE + n * REGION_ARR
  BY <1>1 DEF KernelBilled
<1>3. PICK x1, t1, a1, z1 : x1 = x + REGION_ARR /\ t1 = t + REGION_ARR /\ a1 = a + REGION_ARR /\ z1 = z - REGION_ARR
  OBVIOUS
<1> DEFINE q == Linked(kh)
<1>4. q = [base |-> b, alloc |-> s, used |-> t1, arr |-> x1, free |-> [addr |-> a1, size |-> z1, flag |-> f]]
  <2> DEFINE k1 == [kh EXCEPT !.arr = @ + REGION_ARR]
             k2 == [k1 EXCEPT !.used = @ + REGION_ARR]
             k3 == [k2 EXCEPT !.free.addr = @ + REGION_ARR]
             k4 == [k3 EXCEPT !.free.size = @ - REGION_ARR]
  <2>1. q = k4
    BY DEF Linked
  <2> HIDE DEF q, k4
  <2>2. k1 = [base |-> b, alloc |-> s, used |-> t, arr |-> x1, free |-> [addr |-> a, size |-> z, flag |-> f]]
    BY <1>1, <1>3
  <2> HIDE DEF k1
  <2>3. k2 = [base |-> b, alloc |-> s, used |-> t1, arr |-> x1, free |-> [addr |-> a, size |-> z, flag |-> f]]
    BY <1>3, <2>2
  <2> HIDE DEF k2
  <2>4. k3 = [base |-> b, alloc |-> s, used |-> t1, arr |-> x1, free |-> [addr |-> a1, size |-> z, flag |-> f]]
    BY <1>3, <2>3
  <2> HIDE DEF k3
  <2>5. k4 = [base |-> b, alloc |-> s, used |-> t1, arr |-> x1, free |-> [addr |-> a1, size |-> z1, flag |-> f]]
    BY <1>3, <2>4 DEF k4
  <2>6. QED
    BY <2>1, <2>5
<1>5. x1 = (n + 1) * REGION_ARR /\ t1 = Taken(n + 1) /\ x1 \in Nat /\ t1 \in Nat /\ REGION_ARR \in Nat
  BY <1>2, <1>3, KernelSizes
<1>6. /\ t1 <= s /\ z1 = s - t1 /\ z1 \in Int /\ a1 \in Nat
      /\ a1 = b + 4 * CHUNK_INFO_SIZE + REGION_INFO_SIZE + HEAP_INFO_SIZE + x1
  BY <1>1, <1>2, <1>3, <1>5, Layout, KernelSizes
<1> HIDE DEF q
<1>7. /\ q.base = b /\ q.alloc = s /\ q.used = t1 /\ q.arr = x1 /\ q.free.addr = a1 /\ q.free.size = z1
      /\ q \in [base : Nat, alloc : Nat, used : Nat, arr : Nat, free : [addr : Nat, size : Int, flag : Flags]]
  BY <1>1, <1>4, <1>5, <1>6
<1>8. KernelBilled(q, n + 1)
  BY <1>5, <1>6, <1>7 DEF KernelBilled
<1>9. QED
  BY <1>8 DEF q

\* A step that leaves the heap as it is.
LEMMA AccountKept ==
  ASSUME AccountInv, UNCHANGED <<kheap, regions, pend>>,
         pc' = pc \/ (pc \in {"idle", "alloc"} /\ pc' \in {"idle", "alloc", "region"})
  PROVE  AccountInv'
BY DEF AccountInv

\* create: two entries fit in the first kernel region.
LEMMA AccountCreate ==
  ASSUME HeapInv, AccountInv, create
  PROVE  AccountInv'
<1> DEFINE f == Found(used, InitPages, MEM_K)
           s == InitPages * ALIGN
<1>1. /\ pc = "create" /\ pc' = "create_user" /\ regions' = regions
      /\ kheap' = NewKheap(FoundPages * ALIGN, s, 2) /\ Reserve
  BY DEF create, Running
<1>2. FoundPages = f /\ f # -1
  BY <1>1, RequestAt DEF Reserve, FoundPages
<1>3. used \in SUBSET (0 .. (MaxChunk - 1)) /\ InitPages \in Nat \ {0} /\ MEM_K \in MemTypes
  BY HeapAssumption DEF HeapInv, MemTypes
<1>4. f * ALIGN \in Nat /\ s \in Nat /\ s >= ALIGN
  BY <1>2, <1>3, Reserved
<1> HIDE DEF f, s
<1>5. s >= Taken(2)
  BY <1>4, KernelSizes, Layout
<1>6. KernelBilled(kheap', 2)
  BY <1>1, <1>2, <1>4, <1>5, NewKernelBilled
<1>7. QED
  BY <1>1, <1>6 DEF AccountInv

\* create_user: the first region has an entry already.
LEMMA AccountCreateUser ==
  ASSUME HeapInv, AccountInv, create_user
  PROVE  AccountInv'
<1> DEFINE f == Found(used, InitPages, MEM_U)
           s == InitPages * ALIGN
           r == NewRegion(f * ALIGN, s)
<1>1. /\ pc = "create_user" /\ pc' = "idle" /\ kheap' = kheap
      /\ regions' = <<NewRegion(FoundPages * ALIGN, s)>> /\ Reserve
  BY DEF create_user, Running
<1>2. FoundPages = f /\ f # -1
  BY <1>1, RequestAt DEF Reserve, FoundPages
<1>3. used \in SUBSET (0 .. (MaxChunk - 1)) /\ InitPages \in Nat \ {0} /\ MEM_U \in MemTypes /\ KernelChunks > 0
  BY <1>1, HeapAssumption DEF HeapInv, MemTypes, PagesOK
<1>4. f * ALIGN \in Nat /\ s \in Nat /\ s >= ALIGN /\ f * ALIGN >= ALIGN
  BY <1>2, <1>3, Reserved
<1>5. Billed(r)
  BY <1>4, NewShaped
<1>6. regions' = <<r>>
  BY <1>1, <1>2
<1> HIDE DEF f, s, r
<1>7. Len(regions') = 1 /\ DOMAIN regions' = {1} /\ regions'[1] = r /\ 1 + 1 = 2
  BY <1>6
<1>8. QED
  BY <1>1, <1>5, <1>7 DEF AccountInv

\* create_region enters a region only where an entry is left, and grow_kheap asks for a page more.
LEMMA AccountReserve ==
  ASSUME HeapInv, AccountInv, region_reserve \/ grow_reserve
  PROVE  AccountInv'
<1>1. CASE region_reserve
  <2>1. /\ pc = "region" /\ UNCHANGED <<kheap, regions>> /\ pc' \in {"grow", "link"}
        /\ pc' = "link" => ~(kheap.alloc - kheap.used < REGION_ARR)
    BY <1>1 DEF region_reserve, Running
  <2>2. KernelBilled(kheap, 1 + Len(regions)) /\ \A i \in DOMAIN regions : Billed(regions[i])
    BY <2>1 DEF AccountInv
  <2>3. kheap.alloc \in Int /\ kheap.used \in Int /\ REGION_ARR \in Int
    BY <2>2, KernelSizes DEF KernelBilled
  <2>4. pc' = "link" => kheap.alloc - kheap.used >= REGION_ARR
    BY <2>1, <2>3
  <2>5. QED
    BY <2>1, <2>2, <2>4 DEF AccountInv
<1>2. CASE grow_reserve
  <2>1. /\ pc = "grow" /\ UNCHANGED <<kheap, regions>> /\ pc' = "swap"
        /\ pend' = Append(pend, [base |-> FoundPages * ALIGN, size |-> kheap.alloc + ALIGN])
    BY <1>2 DEF grow_reserve, Running
  <2>2. pend \in Seq([base : Nat, size : Nat]) /\ Len(pend) = 1
    BY <2>1, PendList
  <2>3. pend'[2].size = kheap.alloc + ALIGN
    <3>1. PICK e : e.size = kheap.alloc + ALIGN /\ pend' = Append(pend, e)
      BY <2>1
    <3> DEFINE S == [base : Nat, size : Nat] \cup {e}
    <3>2. pend \in Seq(S) /\ e \in S
      <4>1. \A i \in 1 .. Len(pend) : pend[i] \in S
        BY <2>2, ElementOfSeq
      <4>2. Len(pend) \in Nat /\ pend \in [1 .. Len(pend) -> S]
        BY <2>2, <4>1, LenProperties
      <4> HIDE DEF S
      <4>3. pend \in Seq(S)
        BY <4>2, SeqDef
      <4>4. QED
        BY <4>3 DEF S
    <3> HIDE DEF S
    <3>3. pend'[Len(pend) + 1] = e
      BY <3>1, <3>2, AppendProperties
    <3>4. QED
      BY <2>2, <3>1, <3>3
  <2>4. QED
    BY <2>1, <2>3 DEF AccountInv
<1>3. QED
  BY <1>1, <1>2

\* grow_kheap: the larger kernel region has room for one more entry.
LEMMA AccountSwap ==
  ASSUME HeapInv, AccountInv, grow_swap
  PROVE  AccountInv'
<1> DEFINE n == 1 + Len(regions)
           b == pend[2].base
           s == pend[2].size
<1>1. /\ pc = "swap" /\ pc' = "link" /\ regions' = regions /\ kheap' = NewKheap(b, s, n)
  BY DEF grow_swap, Running
<1>2. b \in Nat /\ s \in Nat
  BY <1>1, PendList
<1>3. n \in Nat
  <2>1. regions \in Seq(RegionRec)
    BY DEF HeapInv, RegionsOK
  <2>2. QED
    BY <2>1, LenProperties
<1>4. KernelBilled(kheap, n) /\ s = kheap.alloc + ALIGN
  BY <1>1 DEF AccountInv
<1> HIDE DEF n, b, s
<1>5. kheap.alloc \in Nat /\ kheap.used = Taken(n) /\ kheap.used \in Nat /\ kheap.used <= kheap.alloc
  BY <1>4 DEF KernelBilled
<1>6. ALIGN >= REGION_ARR /\ REGION_ARR \in Nat /\ ALIGN \in Nat
  BY KernelSizes, Layout
<1>7. s >= Taken(n) /\ s - Taken(n) >= REGION_ARR
  BY <1>4, <1>5, <1>6
<1>8. KernelBilled(kheap', n)
  BY <1>1, <1>2, <1>3, <1>7, NewKernelBilled
<1>9. kheap'.alloc = s /\ kheap'.used = Taken(n)
  BY <1>1, <1>8, NewKheapAt DEF KernelBilled
<1>10. QED
  BY <1>1, <1>7, <1>8, <1>9 DEF AccountInv, n

\* create_region: the entry comes from the free chunk.
LEMMA AccountLink ==
  ASSUME HeapInv, AccountInv, region_link
  PROVE  AccountInv'
<1> DEFINE b == pend[1].base
           s == pend[1].size
           r == NewRegion(b, s)
           k == Len(regions)
<1>1. pc = "link" /\ pc' = "alloc" /\ regions' = Append(regions, r) /\ kheap' = Linked(kheap)
  BY DEF region_link, Running, Linked
<1>2. b >= ALIGN /\ s = RegionSize(call.n) /\ b \in Nat /\ call.n \in Nat
  BY <1>1, PendList DEF HeapInv, CallOK
<1>3. s \in Nat /\ s >= ALIGN
  BY <1>2, RegionSizeServes
<1> HIDE DEF b, s
<1>4. Billed(r) /\ r \in RegionRec
  BY <1>2, <1>3, NewShaped DEF Shaped
<1> HIDE DEF r
<1>5. regions \in Seq(RegionRec) /\ k \in Nat /\ DOMAIN regions = 1 .. k
  BY LenProperties DEF HeapInv, RegionsOK
<1>6. /\ regions' \in Seq(RegionRec) /\ Len(regions') = k + 1 /\ regions'[k + 1] = r
      /\ \A i \in 1 .. k : regions'[i] = regions[i]
  BY <1>1, <1>4, <1>5, AppendProperties
<1>7. DOMAIN regions' = 1 .. (k + 1)
  BY <1>6, LenProperties
<1>8. KernelBilled(kheap, 1 + k) /\ kheap.alloc - kheap.used >= REGION_ARR
  BY <1>1 DEF AccountInv
<1> HIDE DEF k
<1>9. KernelBilled(kheap', (1 + k) + 1)
  BY <1>1, <1>5, <1>8, LinkedBilled
<1>10. (1 + k) + 1 = 1 + (k + 1)
  BY <1>5
<1>11. \A i \in DOMAIN regions' : Billed(regions'[i])
  <2>1. \A i \in 1 .. k : Billed(regions'[i])
    BY <1>5, <1>6 DEF AccountInv
  <2>2. \A i \in 1 .. (k + 1) : i \in 1 .. k \/ i = k + 1
    BY <1>5
  <2>3. QED
    BY <1>4, <1>6, <1>7, <2>1, <2>2
<1>12. KernelBilled(kheap', 1 + Len(regions'))
  BY <1>6, <1>9, <1>10
<1>13. QED
  BY <1>1, <1>11, <1>12 DEF AccountInv

\* The regions after one was changed and its account with it.
LEMMA BilledChange ==
  ASSUME NEW regs, NEW q, NEW i, Changed(regs, q, i), \A m \in DOMAIN regs : Billed(regs[m]),
         Billed(regs[i]) => Billed(q[i])
  PROVE  Len(q) = Len(regs) /\ \A m \in DOMAIN q : Billed(q[m])
BY DEF Changed

\* del and alloc change the account of one region, or of two, by what they change in it.
LEMMA AccountCalls ==
  ASSUME HeapInv, AccountInv, alloc_carve \/ \E b \in live : del(b)
  PROVE  AccountInv'
<1>1. CASE alloc_carve
  <2>1. /\ status = "ok" /\ pc = "alloc" /\ Roomy(call.n) # {} /\ UNCHANGED <<kheap, pend>>
        /\ CarveOverrun \/ CarveNew \/ CarveAlt
    BY <1>1, CarveCases
  <2>2. PICK i : Changed(regions, CarvedRegions, i) /\ (Billed(regions[i]) => Billed(CarvedRegions[i]))
    BY <2>1, CarvedFacts
  <2>3. \A m \in DOMAIN regions : Billed(regions[m])
    BY DEF AccountInv
  <2>4. Len(CarvedRegions) = Len(regions) /\ \A m \in DOMAIN CarvedRegions : Billed(CarvedRegions[m])
    BY <2>2, <2>3, BilledChange
  <2>5. CASE CarveOverrun \/ CarveNew
    <3>1. regions' = CarvedRegions /\ pc' \in {"idle", "alloc"}
      BY <2>1, <2>5 DEF CarveOverrun, CarveNew
    <3>2. QED
      BY <2>1, <2>4, <3>1 DEF AccountInv
  <2>6. CASE CarveAlt
    <3>1. PICK b \in live : b.addr = call.ptr /\ b \in BlocksOf(CarvedRegions) /\ Placed(CarvedRegions)
      BY <2>1, <2>6, AltBlocks
    <3>2. regions' = CullPtr(CarvedRegions, b.addr) /\ pc' = "idle"
      BY <2>6, <3>1 DEF CarveAlt
    <3>3. PICK j : Changed(CarvedRegions, regions', j) /\ (Billed(CarvedRegions[j]) => Billed(regions'[j]))
      BY <3>1, <3>2, CullBlocks
    <3>4. Len(regions') = Len(regions) /\ \A m \in DOMAIN regions' : Billed(regions'[m])
      BY <2>4, <3>3, BilledChange
    <3>5. QED
      BY <2>1, <3>2, <3>4 DEF AccountInv
  <2>7. QED
    BY <2>1, <2>5, <2>6
<1>2. CASE \E b \in live : del(b)
  <2>1. PICK b \in live : del(b)
    BY <1>2
  <2>2. status = "ok" /\ regions' = CullPtr(regions, b.addr) /\ UNCHANGED <<kheap, pend, pc>> /\ pc = "idle"
    BY <2>1 DEF del, Running
  <2>3. Placed(regions) /\ b \in BlocksOf(regions)
    BY <2>2, RegionsPlaced, RegionsNeat
  <2>4. PICK j : Changed(regions, regions', j) /\ (Billed(regions[j]) => Billed(regions'[j]))
    BY <2>2, <2>3, CullBlocks
  <2>5. \A m \in DOMAIN regions : Billed(regions[m])
    BY DEF AccountInv
  <2>6. Len(regions') = Len(regions) /\ \A m \in DOMAIN regions' : Billed(regions'[m])
    BY <2>4, <2>5, BilledChange
  <2>7. QED
    BY <2>2, <2>6 DEF AccountInv
<1>3. QED
  BY <1>1, <1>2

\* Every step keeps the accounts.
LEMMA AccountStep ==
  ASSUME HeapInv, AccountInv, [Next]_vars
  PROVE  AccountInv'
<1>1. CASE create
  BY <1>1, AccountCreate
<1>2. CASE create_user
  BY <1>2, AccountCreateUser
<1>3. CASE region_reserve \/ grow_reserve
  BY <1>3, AccountReserve
<1>4. CASE grow_swap
  BY <1>4, AccountSwap
<1>5. CASE region_link
  BY <1>5, AccountLink
<1>6. CASE alloc_carve \/ \E b \in live : del(b)
  BY <1>6, AccountCalls
<1>7. CASE (\E n \in Sizes : new(n)) \/ (\E b \in live, n \in Sizes : alt(b, n)) \/ alloc_miss
  <2>1. UNCHANGED <<kheap, regions, pend>> /\ pc \in {"idle", "alloc"} /\ pc' \in {"idle", "alloc", "region"}
    BY <1>7 DEF new, alt, alloc_miss, Running
  <2>2. QED
    BY <2>1, AccountKept
<1>8. CASE exhausted \/ alloc_stale \/ UNCHANGED vars
  <2>1. UNCHANGED <<kheap, regions, pend, pc>>
    BY <1>8 DEF exhausted, alloc_stale, vars
  <2>2. QED
    BY <2>1, AccountKept
<1>9. QED
  BY <1>1, <1>2, <1>3, <1>4, <1>5, <1>6, <1>7, <1>8 DEF Next

\* The sum that UsedSizeExact adds up over chunks 2 .. k, from the charges v.
SumOf(f, v, k) == f = [j \in 2 .. k |-> IF j = 2 THEN 0 ELSE f[j - 1] + v[j]]

\* It is the running sum, for no other function fits its definition.
LEMMA SumUnique ==
  ASSUME NEW v, NEW k \in Nat, k >= 3, NEW f, RunningSum(v, f, k), NEW g, SumOf(g, v, k)
  PROVE  g[k] = f[k]
<1> DEFINE D == {j \in 2 .. k : g[j] # f[j]}
<1>1. \A j \in 2 .. k : g[j] = IF j = 2 THEN 0 ELSE g[j - 1] + v[j]
  BY DEF SumOf
<1>2. f[2] = 0 /\ \A j \in 3 .. k : f[j] = f[j - 1] + v[j]
  BY DEF RunningSum
<1>3. ASSUME D # {}
      PROVE  FALSE
  <2>1. D \in SUBSET Nat
    OBVIOUS
  <2>2. PICK m \in D : \A j \in D : m <= j
    BY <1>3, <2>1, LeastNat
  <2>3. m # 2
    BY <1>1, <1>2, <2>2
  <2>4. m \in 3 .. k /\ m - 1 \in 2 .. k /\ m - 1 < m
    BY <2>2, <2>3
  <2>5. g[m - 1] = f[m - 1]
    BY <2>2, <2>4
  <2>6. g[m] = f[m]
    BY <1>1, <1>2, <2>4, <2>5
  <2>7. QED
    BY <2>2, <2>6
<1>4. k \in 2 .. k
  OBVIOUS
<1>5. QED
  BY <1>3, <1>4

\* The accounts of the client regions are exact.
LEMMA BilledExact ==
  ASSUME HeapInv, AccountInv
  PROVE  UsedSizeExact
<1> SUFFICES ASSUME NEW i \in DOMAIN regions
             PROVE  LET r == regions[i]
                        sum[j \in 2 .. Len(r.chunks)] ==
                          IF j = 2 THEN 0
                          ELSE sum[j - 1] + (IF r.chunks[j].flag = RESERVED THEN Cost(r.chunks[j].size) ELSE 0)
                    IN  r.used = NEW_REGION_SIZE + sum[Len(r.chunks)]
  BY DEF UsedSizeExact
<1> DEFINE r == regions[i]
           k == Len(r.chunks)
           v == Charges(r.chunks)
           Sum(g) == g = [j \in 2 .. k |-> IF j = 2 THEN 0
                            ELSE g[j - 1] + (IF r.chunks[j].flag = RESERVED THEN Cost(r.chunks[j].size) ELSE 0)]
           sum == CHOOSE g : Sum(g)
<1>1. PICK f : RunningSum(v, f, k) /\ r.used = NEW_REGION_SIZE + f[k]
  BY DEF AccountInv, Billed
<1>2. Shaped(r) /\ k \in Nat /\ k >= 3
  <2>1. Shaped(r)
    BY DEF HeapInv, RegionsOK
  <2>2. QED
    BY <2>1, LenProperties DEF Shaped, Framed, RegionRec
<1>3. \A j \in 3 .. k : v[j] = IF r.chunks[j].flag = RESERVED THEN Cost(r.chunks[j].size) ELSE 0
  BY DEF Charges, Charge
<1> HIDE DEF v, k, r
<1>4. ASSUME NEW j \in 2 .. k, j # 2 PROVE j \in 3 .. k
  BY <1>2, <1>4
<1>5. \A g : Sum(g) <=> SumOf(g, v, k)
  <2>1. SUFFICES ASSUME NEW g PROVE Sum(g) <=> SumOf(g, v, k)
    OBVIOUS
  <2>2. [j \in 2 .. k |-> IF j = 2 THEN 0
          ELSE g[j - 1] + (IF r.chunks[j].flag = RESERVED THEN Cost(r.chunks[j].size) ELSE 0)]
        = [j \in 2 .. k |-> IF j = 2 THEN 0 ELSE g[j - 1] + v[j]]
    BY <1>3, <1>4
  <2>3. QED
    BY <2>2, Zenon DEF SumOf
<1>6. SumOf(f, v, k)
  <2>1. f \in [2 .. k -> Int] /\ f[2] = 0 /\ \A j \in 3 .. k : f[j] = f[j - 1] + v[j]
    BY <1>1 DEF RunningSum
  <2>2. QED
    BY <1>4, <2>1 DEF SumOf
<1>7. Sum(f)
  BY <1>5, <1>6
<1> HIDE DEF Sum
<1>8. Sum(sum)
  BY <1>7, Zenon
<1> HIDE DEF sum
<1>9. sum[k] = f[k]
  BY <1>1, <1>2, <1>5, <1>8, SumUnique
<1>10. r.used = NEW_REGION_SIZE + sum[k]
  BY <1>1, <1>9
<1>11. QED
  BY <1>10, Zenon DEF sum, Sum, k, r

\* The account of the kernel region is exact.
LEMMA KernelExact ==
  ASSUME HeapInv, AccountInv
  PROVE  KheapExact
<1> SUFFICES ASSUME regions # << >> PROVE KheapExact
  BY DEF KheapExact
<1> DEFINE n == 1 + Len(regions)
<1>1. pc \notin {"create", "create_user"}
  BY DEF HeapInv, PagesOK
<1>2. KernelBilled(kheap, n) /\ n \in Nat
  <2>1. regions \in Seq(RegionRec)
    BY DEF HeapInv, RegionsOK
  <2>2. QED
    BY <1>1, <2>1, LenProperties DEF AccountInv
<1> HIDE DEF n
<1>3. PICK b, s, t, a, z, x :
        /\ b = kheap.base /\ s = kheap.alloc /\ t = kheap.used /\ a = kheap.free.addr /\ z = kheap.free.size
        /\ x = n * REGION_ARR
  OBVIOUS
<1>4. /\ b \in Nat /\ s \in Nat /\ t \in Nat /\ kheap.arr = x /\ t = Taken(n) /\ t <= s /\ z = s - t
      /\ a = b + 4 * CHUNK_INFO_SIZE + REGION_INFO_SIZE + HEAP_INFO_SIZE + x
  BY <1>2, <1>3 DEF KernelBilled
<1>5. t = REGION_INFO_SIZE + HEAP_INFO_SIZE + 5 * CHUNK_INFO_SIZE + x + 5 * CHUNK_ARR /\ x \in Nat /\ HEAP_INFO_SIZE \in Nat
  BY <1>2, <1>3, <1>4, KernelSizes DEF Taken
<1>6. z >= 0 /\ a + z + CHUNK_INFO_SIZE + 5 * CHUNK_ARR = b + s
  BY <1>4, <1>5, Layout
<1>7. QED
  BY <1>3, <1>4, <1>6 DEF KheapExact, n

\* The accounts that the usage command reads are exact in every state: a region's used_size is its
\* bookkeeping and the cost of the blocks in it through every split, merge and move of the chunk
\* array, and the kernel region's free chunk is what its own account says, through every region
\* that create_region enters and every growth of the kernel region.
THEOREM HeapAccountsExact == Spec => []AccountsExact
<1>1. Init => AccountInv
  BY DEF Init, AccountInv
<1>2. HeapInv /\ AccountInv /\ [Next]_vars => AccountInv'
  BY AccountStep
<1>3. HeapInv /\ AccountInv => AccountsExact
  BY BilledExact, KernelExact DEF AccountsExact
<1>4. QED
  BY <1>1, <1>2, <1>3, HeapInvariant, PTL DEF Spec
=============================================================================
