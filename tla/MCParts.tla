------------------------------- MODULE MCParts ------------------------------
(* Tables to sort: every one of up to 6 entries over 3 hashes, and longer   *)
(* ones, beyond the threshold at which quicksort splits partitions.         *)
EXTENDS Parts

MCNodes == 1..8

MCTables == UNION {[1..n -> 1..3] : n \in 0..6}
      \cup {[i \in 1..n |-> (k * i) % 31] : k \in 1..30, n \in {13, 20, 30}}
      \cup {[i \in 1..n |-> (i * i * k) % 31] : k \in 1..10, n \in {13, 20, 30}}

\* Base clocks in Hz: multiples of 400 kHz up to the limit of the divider, with
\* and without a remainder, and multiples of 1 MHz.
MCBases == {100000, 399999, 41666666}
      \cup {400000 * k : k \in 1..1030} \cup {400000 * k + 7 : k \in 1..100}
      \cup {1000000 * k : k \in 1..420}
=============================================================================
