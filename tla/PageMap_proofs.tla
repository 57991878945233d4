--------------------------- MODULE PageMap_proofs ---------------------------
(***************************************************************************)
(* What find_free returns, for every map and every size of the zones: the  *)
(* facts that the proofs about the page allocator and about the kernel     *)
(* heap on top of it share.                                                *)
(***************************************************************************)
EXTENDS PageMap, WellFoundedInduction, TLAPS

\* Every non-empty set of naturals has a least element.
LEMMA LeastNat ==
  ASSUME NEW S \in SUBSET Nat, S # {}
  PROVE  \E i \in S : \A k \in S : i <= k
<1>1. \E x \in S : \A y \in S : ~(<<y, x>> \in OpToRel(<, Nat))
  BY NatLessThanWellFounded, WFMin
<1>2. PICK x \in S : \A y \in S : ~(<<y, x>> \in OpToRel(<, Nat))
  BY <1>1
<1>3. \A y \in S : x <= y
  <2>1. TAKE y \in S
  <2>2. ~(<<y, x>> \in OpToRel(<, Nat))
    BY <1>2, <2>1
  <2>3. ~(y < x)
    BY <2>2 DEF OpToRel
  <2>4. QED
    BY <2>3
<1>4. QED
  BY <1>3

\* What find_free returns: -1 exactly when no start passes its test, and otherwise
\* the least start that does.
LEMMA FindFree ==
  ASSUME NEW u, NEW n \in Nat, NEW start \in Nat, NEW end \in Nat
  PROVE  LET starts == FreeStarts(u, n, start, end)
             r == find_free(u, n, start, end)
         IN  /\ (r = -1) <=> (starts = {})
             /\ r # -1 => r \in starts /\ \A k \in starts : r <= k
<1> DEFINE starts == FreeStarts(u, n, start, end)
<1>1. starts \in SUBSET Nat
  BY DEF FreeStarts
<1>2. CASE starts = {}
  BY <1>2 DEF find_free
<1>3. CASE starts # {}
  <2>1. \E i \in starts : \A k \in starts : i <= k
    BY <1>1, <1>3, LeastNat
  <2>2. find_free(u, n, start, end) = CHOOSE i \in starts : \A k \in starts : i <= k
    BY <1>3 DEF find_free
  <2>3. /\ find_free(u, n, start, end) \in starts
        /\ \A k \in starts : find_free(u, n, start, end) <= k
    BY <2>1, <2>2
  <2>4. QED
    BY <1>1, <1>3, <2>3
<1>4. QED
  BY <1>2, <1>3

\* What a successful reserve is given: at least one chunk, unmarked ones only, inside
\* the zone of the type and short of its last chunk.
LEMMA FoundRun ==
  ASSUME NEW u, NEW n \in Nat, NEW type \in MemTypes, Found(u, n, type) # -1
  PROVE  /\ Found(u, n, type) \in Nat
         /\ Chunks(n) \in Nat /\ Chunks(n) > 0
         /\ Found(u, n, type) >= ZoneStart(type)
         /\ Found(u, n, type) + Chunks(n) < ZoneEnd(type)
         /\ Run(Found(u, n, type), Chunks(n)) \cap u = {}
<1>1. Chunks(n) \in Nat /\ Chunks(n) > 0
  BY DEF Chunks
<1>2. ZoneStart(type) \in Nat /\ ZoneEnd(type) \in Nat
  BY ChunkAssumption DEF ZoneStart, ZoneEnd
<1>3. Found(u, n, type) \in FreeStarts(u, Chunks(n), ZoneStart(type), ZoneEnd(type))
  BY <1>1, <1>2, FindFree DEF Found
<1>4. QED
  BY <1>1, <1>2, <1>3 DEF FreeStarts
=============================================================================
