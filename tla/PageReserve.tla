---------------------------- MODULE PageReserve ----------------------------
(***************************************************************************)
(* The page allocator of hardware_reserve.c: reserve and relinquish over   *)
(* the page map.                                                           *)
(*                                                                         *)
(* used is MEMORY_MAP.  extents is a history variable, the runs of chunks  *)
(* handed out and not given back yet: the code keeps no such record, and   *)
(* everything that makes it correct relates its bitmap to that history.    *)
(*                                                                         *)
(* When find_free fails it returns -1 as an unsigned long, so that         *)
(* reserve's test first_chunk < 0 never holds: reserve goes on to mark     *)
(* chunk 2^64-1 as used, an access outside every mapping, and the fault    *)
(* handler never returns.  halted records that outcome.                    *)
(*                                                                         *)
(* A type other than MEM_K and MEM_U makes reserve return 0 at once and    *)
(* changes nothing; no caller passes one.  What the two memsets write is   *)
(* left out: no property here depends on the contents of a chunk.          *)
(***************************************************************************)
EXTENDS PageMap

CONSTANT MaxRequest   \* bound: the largest n_chunks a caller asks for

ASSUME RequestAssumption == MaxRequest \in Nat

VARIABLES
  used,      \* MEMORY_MAP, as a set of chunks
  extents,   \* history: the runs reserved and not relinquished
  halted     \* the machine took the fault of an exhausted zone

vars == <<used, extents, halted>>

Extent == [first : Nat, n : Nat, type : MemTypes]
ChunksOf(e) == Run(e.first, e.n)

Init ==
  /\ used = mem_init
  /\ extents = {}
  /\ halted = FALSE

\* Mutant: the loop that marks the run goes one chunk too far.
reserve_Long(n, type) ==
  /\ ~halted
  /\ Found(used, n, type) # -1
  /\ used' = used \cup Run(Found(used, n, type), Chunks(n) + 1)
  /\ extents' = extents \cup
       {[first |-> Found(used, n, type), n |-> Chunks(n), type |-> type]}
  /\ UNCHANGED halted

\* reserve with a run found.
reserve(n, type) ==
  /\ ~halted
  /\ Found(used, n, type) # -1
  /\ used' = used \cup Run(Found(used, n, type), Chunks(n))
  /\ extents' = extents \cup
       {[first |-> Found(used, n, type), n |-> Chunks(n), type |-> type]}
  /\ UNCHANGED halted

\* reserve with none: the error branch is dead and the marking faults.
reserve_exhausted(n, type) ==
  /\ ~halted
  /\ Found(used, n, type) = -1
  /\ halted' = TRUE
  /\ UNCHANGED <<used, extents>>

\* Mutant: one chunk too few is marked free.
relinquish_Short(e) ==
  /\ ~halted
  /\ used' = used \ Run(e.first, e.n - 1)
  /\ extents' = extents \ {e}
  /\ UNCHANGED halted

\* relinquish of a run obtained from reserve.
relinquish(e) ==
  /\ ~halted
  /\ used' = used \ ChunksOf(e)
  /\ extents' = extents \ {e}
  /\ UNCHANGED halted

Next ==
  \/ \E n \in 0 .. MaxRequest, type \in MemTypes :
        reserve(n, type) \/ reserve_exhausted(n, type)
  \/ \E e \in extents : relinquish(e)

Spec == Init /\ [][Next]_vars

-----------------------------------------------------------------------------
\* Types of the three variables.
TypeOK ==
  /\ used \subseteq 0 .. (MaxChunk - 1)
  /\ extents \subseteq Extent
  /\ halted \in BOOLEAN

\* The bitmap says exactly what was handed out: a chunk is marked if and only if
\* it belongs to the kernel image or to a run some caller still holds.  A chunk
\* marked and not held is lost for ever; one held and not marked is given twice.
MapExact == used = mem_init \cup UNION {ChunksOf(e) : e \in extents}

\* No chunk belongs to two callers, and none of the kernel image to any.
ExtentsDisjoint ==
  \A e \in extents :
    /\ ChunksOf(e) \cap mem_init = {}
    /\ \A f \in extents : e # f => ChunksOf(e) \cap ChunksOf(f) = {}

\* A run lies in the zone of its type and never reaches the last chunk of it:
\* find_free's test i+j < end keeps the last chunk of each zone unused.
InZone ==
  \A e \in extents :
    e.n > 0 /\ e.first >= ZoneStart(e.type) /\ e.first + e.n < ZoneEnd(e.type)

\* The bitmap and the callers agree on who owns which chunk, whatever sequence of
\* reserve and relinquish led here (hardware_reserve.c 95-160).
PagesOwned == TypeOK /\ MapExact /\ ExtentsDisjoint

\* Every run of n chunks that lies in the zone and off its last chunk meets the kernel
\* image or a run some caller still holds, whatever the bitmap says.
NoGap(n, type) ==
  \A i \in ZoneStart(type) .. (ZoneEnd(type) - 1) :
    i + n < ZoneEnd(type) =>
      \/ Run(i, n) \cap mem_init # {}
      \/ \E e \in extents : Run(i, n) \cap ChunksOf(e) # {}

\* A reserve takes the fault of an exhausted zone only when those who hold chunks leave
\* no gap long enough: what was relinquished, in whatever order, can be reserved again,
\* alone or joined with its neighbours (hardware_reserve.c 48-66, 104-117, 143-148).
RefusedOnlyWhenFull ==
  [][\A n \in 0 .. MaxRequest, type \in MemTypes :
        reserve_exhausted(n, type) => NoGap(Chunks(n), type)]_vars

\* reserve's failure branch ("Failed to allocate %d chunks", return 0) and its callers'
\* VALID(base, E_NOPAGE) promise that running out of chunks is reported to the caller.
ExhaustionReported == ~halted
=============================================================================
