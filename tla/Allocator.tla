----------------------------- MODULE Allocator -----------------------------
(***************************************************************************)
(* What the kernel heap promises its clients, without regions, chunks or   *)
(* pages (modules/memory/README.md: new, alt and del).  A client is given  *)
(* blocks of memory that overlap no block it or another client holds; alt  *)
(* exchanges a block for a new one, and both exist while the contents are  *)
(* copied, so the new one overlaps neither the old nor the others.         *)
(*                                                                         *)
(* After failed the machine has stopped and nothing is promised.           *)
(***************************************************************************)
EXTENDS Integers

VARIABLES blocks, failed

vars == <<blocks, failed>>

Disjoint(b, c) == b.addr + b.size <= c.addr \/ c.addr + c.size <= b.addr

Init == blocks = {} /\ failed = FALSE

\* A block is handed out.
New == \E b \in blocks' \ blocks :
         /\ blocks' = blocks \cup {b}
         /\ \A c \in blocks : Disjoint(b, c)

\* A block is given back.
Del == \E c \in blocks : blocks' = blocks \ {c}

\* A block is exchanged for another.
Alt == \E b \in blocks' \ blocks, c \in blocks :
         /\ blocks' = (blocks \ {c}) \cup {b}
         /\ \A d \in blocks : Disjoint(b, d)

Next ==
  \/ ~failed /\ ~failed' /\ (New \/ Del \/ Alt)
  \/ ~failed /\ failed'

Spec == Init /\ [][Next]_vars
=============================================================================
