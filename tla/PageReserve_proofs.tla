------------------------ MODULE PageReserve_proofs -------------------------
(***************************************************************************)
(* Proofs about the page allocator, for every size of the zones, of the    *)
(* kernel image and of the requests.                                       *)
(*                                                                         *)
(* None of MapExact, ExtentsDisjoint and InZone is inductive alone: that   *)
(* a run just found is disjoint from the runs handed out follows from its  *)
(* being unmarked only because MapExact says every run handed out is       *)
(* marked; and that relinquish unmarks nothing another caller or the image *)
(* needs is ExtentsDisjoint.  PageInv is their conjunction.                *)
(***************************************************************************)
EXTENDS PageReserve, PageMap_proofs

\* The inductive invariant.
PageInv == TypeOK /\ MapExact /\ ExtentsDisjoint /\ InZone

\* Nothing is handed out at first, and the kernel image lies inside the memory.
LEMMA InitPageInv == Init => PageInv
<1> SUFFICES ASSUME Init PROVE PageInv
  OBVIOUS
<1>1. used \subseteq 0 .. (MaxChunk - 1)
  BY ChunkAssumption DEF Init, mem_init, Run
<1>2. QED
  BY <1>1 DEF Init, PageInv, TypeOK, MapExact, ExtentsDisjoint, InZone

\* reserve preserves the invariant.
LEMMA ReserveStep ==
  ASSUME PageInv, NEW n \in Nat, NEW type \in MemTypes, reserve(n, type)
  PROVE  PageInv'
<1> DEFINE first == Found(used, n, type)
           e == [first |-> first, n |-> Chunks(n), type |-> type]
<1>1. /\ first \in Nat
      /\ Chunks(n) \in Nat /\ Chunks(n) > 0
      /\ first >= ZoneStart(type)
      /\ first + Chunks(n) < ZoneEnd(type)
      /\ Run(first, Chunks(n)) \cap used = {}
  BY FoundRun DEF reserve
<1>2. /\ used' = used \cup Run(first, Chunks(n))
      /\ extents' = extents \cup {e}
      /\ halted' = halted
  BY DEF reserve
<1>3. ChunksOf(e) = Run(first, Chunks(n))
  BY DEF ChunksOf
<1>4. TypeOK'
  <2>1. ZoneEnd(type) <= MaxChunk /\ ZoneEnd(type) \in Nat
    BY ChunkAssumption DEF ZoneEnd
  <2>2. Run(first, Chunks(n)) \subseteq 0 .. (MaxChunk - 1)
    BY <1>1, <2>1, ChunkAssumption DEF Run
  <2>3. e \in Extent
    BY <1>1 DEF Extent
  <2>4. QED
    BY <1>2, <2>2, <2>3 DEF PageInv, TypeOK
<1>5. MapExact'
  <2>1. used = mem_init \cup UNION {ChunksOf(f) : f \in extents}
    BY DEF PageInv, MapExact
  <2>2. UNION {ChunksOf(f) : f \in extents'} =
          Run(first, Chunks(n)) \cup UNION {ChunksOf(f) : f \in extents}
    BY <1>2, <1>3
  <2>3. QED
    BY <1>2, <2>1, <2>2 DEF MapExact
<1>6. ExtentsDisjoint'
  <2>1. \A f \in extents : ChunksOf(f) \subseteq used
    BY DEF PageInv, MapExact
  <2>2. mem_init \subseteq used
    BY DEF PageInv, MapExact
  <2>3. \A f \in extents : ChunksOf(e) \cap ChunksOf(f) = {}
    BY <1>1, <1>3, <2>1
  <2>4. ChunksOf(e) \cap mem_init = {}
    BY <1>1, <1>3, <2>2
  <2>5. ExtentsDisjoint
    BY DEF PageInv
  <2>6. QED
    BY <1>2, <2>3, <2>4, <2>5 DEF ExtentsDisjoint
<1>7. InZone'
  <2>1. InZone
    BY DEF PageInv
  <2>2. e.first = first /\ e.n = Chunks(n) /\ e.type = type
    OBVIOUS
  <2>3. QED
    BY <1>1, <1>2, <2>1, <2>2 DEF InZone
<1>8. QED
  BY <1>4, <1>5, <1>6, <1>7 DEF PageInv

\* relinquish preserves the invariant.
LEMMA RelinquishStep ==
  ASSUME PageInv, NEW e \in extents, relinquish(e)
  PROVE  PageInv'
<1>1. /\ used' = used \ ChunksOf(e)
      /\ extents' = extents \ {e}
      /\ halted' = halted
  BY DEF relinquish
<1>2. TypeOK'
  BY <1>1 DEF PageInv, TypeOK
<1>3. MapExact'
  <2>1. used = mem_init \cup UNION {ChunksOf(f) : f \in extents}
    BY DEF PageInv, MapExact
  <2>2. mem_init \cap ChunksOf(e) = {}
    BY DEF PageInv, ExtentsDisjoint
  <2>3. \A f \in extents \ {e} : ChunksOf(f) \cap ChunksOf(e) = {}
    BY DEF PageInv, ExtentsDisjoint
  <2>4. used \ ChunksOf(e) = mem_init \cup UNION {ChunksOf(f) : f \in extents \ {e}}
    BY <2>1, <2>2, <2>3
  <2>5. QED
    BY <1>1, <2>4 DEF MapExact
<1>4. ExtentsDisjoint' /\ InZone'
  BY <1>1 DEF PageInv, ExtentsDisjoint, InZone
<1>5. QED
  BY <1>2, <1>3, <1>4 DEF PageInv

\* PageInv holds in every reachable state.
THEOREM PageInvariant == Spec => []PageInv
<1>1. Init => PageInv
  BY InitPageInv
<1>2. PageInv /\ [Next]_vars => PageInv'
  <2> SUFFICES ASSUME PageInv, [Next]_vars PROVE PageInv'
    OBVIOUS
  <2>1. CASE \E n \in 0 .. MaxRequest, type \in MemTypes : reserve(n, type)
    <3>1. PICK n \in 0 .. MaxRequest, type \in MemTypes : reserve(n, type)
      BY <2>1
    <3>2. n \in Nat
      BY RequestAssumption
    <3>3. QED
      BY <3>1, <3>2, ReserveStep
  <2>2. CASE \E n \in 0 .. MaxRequest, type \in MemTypes : reserve_exhausted(n, type)
    BY <2>2 DEF reserve_exhausted, PageInv, TypeOK, MapExact, ExtentsDisjoint, InZone
  <2>3. CASE \E e \in extents : relinquish(e)
    BY <2>3, RelinquishStep
  <2>4. CASE UNCHANGED vars
    BY <2>4 DEF vars, PageInv, TypeOK, MapExact, ExtentsDisjoint, InZone
  <2>5. QED
    BY <2>1, <2>2, <2>3, <2>4 DEF Next
<1>3. QED
  BY <1>1, <1>2, PTL DEF Spec

\* Type correctness of the page allocator.
THEOREM PageTypes == Spec => []TypeOK
<1>1. PageInv => TypeOK
  BY DEF PageInv
<1>2. QED
  BY <1>1, PageInvariant, PTL

\* The bitmap is exactly the kernel image and the runs callers hold.
THEOREM PageMapExact == Spec => []MapExact
<1>1. PageInv => MapExact
  BY DEF PageInv
<1>2. QED
  BY <1>1, PageInvariant, PTL

\* No chunk is ever handed to two callers, or taken from the kernel image.
THEOREM PageExtentsDisjoint == Spec => []ExtentsDisjoint
<1>1. PageInv => ExtentsDisjoint
  BY DEF PageInv
<1>2. QED
  BY <1>1, PageInvariant, PTL

\* The three together: the bitmap and the callers agree on who owns which chunk.
THEOREM PageOwned == Spec => []PagesOwned
<1>1. PageInv => PagesOwned
  BY DEF PageInv, PagesOwned
<1>2. QED
  BY <1>1, PageInvariant, PTL

\* Runs stay in their zone and off its last chunk.
THEOREM PageInZone == Spec => []InZone
<1>1. PageInv => InZone
  BY DEF PageInv
<1>2. QED
  BY <1>1, PageInvariant, PTL

\* A reserve that faults met a kernel image and callers that leave no gap: by MapExact the
\* bitmap that find_free searched is theirs.
THEOREM PageRefusedOnlyWhenFull == Spec => RefusedOnlyWhenFull
<1>1. ASSUME PageInv, NEW n \in 0 .. MaxRequest, NEW type \in MemTypes,
             reserve_exhausted(n, type)
      PROVE  NoGap(Chunks(n), type)
  <2>1. n \in Nat /\ Chunks(n) \in Nat
    BY RequestAssumption DEF Chunks
  <2>2. ZoneStart(type) \in Nat /\ ZoneEnd(type) \in Nat
    BY ChunkAssumption DEF ZoneStart, ZoneEnd
  <2>3. FreeStarts(used, Chunks(n), ZoneStart(type), ZoneEnd(type)) = {}
    BY <1>1, <2>1, <2>2, FindFree DEF reserve_exhausted, Found
  <2> SUFFICES ASSUME NEW i \in ZoneStart(type) .. (ZoneEnd(type) - 1),
                      i + Chunks(n) < ZoneEnd(type)
               PROVE  \/ Run(i, Chunks(n)) \cap mem_init # {}
                      \/ \E e \in extents : Run(i, Chunks(n)) \cap ChunksOf(e) # {}
    BY DEF NoGap
  <2>4. Run(i, Chunks(n)) \cap used # {}
    BY <2>3 DEF FreeStarts
  <2>5. used = mem_init \cup UNION {ChunksOf(e) : e \in extents}
    BY <1>1 DEF PageInv, MapExact
  <2>6. QED
    BY <2>4, <2>5
<1>2. PageInv /\ [Next]_vars =>
        [\A n \in 0 .. MaxRequest, type \in MemTypes :
            reserve_exhausted(n, type) => NoGap(Chunks(n), type)]_vars
  BY <1>1
<1>3. QED
  BY <1>2, PageInvariant, PTL DEF Spec, RefusedOnlyWhenFull
=============================================================================
