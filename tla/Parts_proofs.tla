---------------------------- MODULE Parts_proofs ----------------------------
(***************************************************************************)
(* Two of the parts that Parts puts beside each other, each by itself: the *)
(* shell with its profiling sessions, and the clock of the SD card.        *)
(*                                                                         *)
(* Sessions count what they print and own the names they print it under,   *)
(* for every length of the arrays of perf.c and any number of sessions.    *)
(* The properties speak of the end of a session; what they rest on is      *)
(* built up over its steps.  ShellInv says what has been chosen so far     *)
(* (Choosing), that a session which came through get_events has all its    *)
(* names (Complete), that the names are distinct blocks (Distinct), and,   *)
(* as long as no profiled command failed, that no other name is live       *)
(* (Owned).                                                                *)
(*                                                                         *)
(* The clock runs within its limits for every base clock.  The arithmetic  *)
(* is that of powers of two up to 2 ^ 30, which is why they stand in a     *)
(* table (Powers) behind an operator of their own (Two).                   *)
(***************************************************************************)
EXTENDS Shell, SdClock, WellFoundedInduction, SequenceTheorems, TLAPS

\* Types. The blocks handed out so far are 1 .. blocks.
ShellType ==
  /\ mode \in {"prompt", "number", "pick", "command", "end", "print", "off"}
  /\ events \in [INDEX -> Nat \cup {-1}]
  /\ names \in [INDEX -> 0 .. blocks]
  /\ n_events \in 0 .. SIZE - 1
  /\ picked \in 0 .. n_events
  /\ blocks \in Nat
  /\ DOMAIN heap \subseteq 1 .. blocks
  /\ misused \subseteq {"twice", "lost"}
  /\ aborted \in BOOLEAN /\ failed \in BOOLEAN

\* The walk over events ends at the last entry, which get_events never sets; and outside the
\* profiled command nothing counts.
Bounded ==
  /\ events[SIZE] = -1
  /\ active \in Seq(Nat \cup {-1}) /\ Len(active) < SIZE
  /\ mode \in {"prompt", "number", "pick", "print", "off"} => counting = {} /\ ~enabled

\* A block is the name of one index.
Distinct ==
  \A i, j \in INDEX : i # j /\ names[i] # 0 => names[i] # names[j]

\* The events chosen so far have their names.
Choosing ==
  mode = "pick" =>
    \A i \in 1 .. picked : /\ names[i] \in DOMAIN heap
                           /\ events[i] = heap[names[i]] /\ events[i] # -1

\* A session that came through get_events has all its names, until they are freed.
Complete ==
  ~aborted /\ mode \in {"command", "end", "print"} => Freed \subseteq DOMAIN heap

\* Nobody but the session has names, unless a command failed.
Owned ==
  ~failed =>
    /\ mode \in {"prompt", "number"} => DOMAIN heap = {}
    /\ mode = "pick" => DOMAIN heap \subseteq {names[i] : i \in 1 .. picked}
    /\ mode \in {"command", "end", "print"} => DOMAIN heap \subseteq Freed

\* The names are freed twice or lost only for the known reasons.
Blamed ==
  /\ "twice" \in misused => aborted
  /\ "lost" \in misused => failed

\* The inductive invariant.
ShellInv ==
  ShellType /\ Bounded /\ Distinct /\ Choosing /\ LabelsMatch /\ Complete /\ Owned /\ Blamed

-----------------------------------------------------------------------------
(* The loops over events *)

\* Every non-empty set of naturals has a least element.
LEMMA LeastNat ==
  ASSUME NEW S \in SUBSET Nat, S # {}
  PROVE  \E i \in S : \A k \in S : i <= k
<1>1. PICK x \in S : \A y \in S : ~(<<y, x>> \in OpToRel(<, Nat))
  BY NatLessThanWellFounded, WFMin
<1>2. \A y \in S : ~(y < x)
  BY <1>1 DEF OpToRel
<1>3. QED
  BY <1>2

\* The walk over events stops at the first -1, which is there, and takes what comes before it.
LEMMA WalkStops ==
  ASSUME ShellType, Bounded
  PROVE  /\ Chosen \in Seq(Nat \cup {-1}) /\ Len(Chosen) < SIZE
         /\ \A n \in 0 .. SIZE - 1 :
              (\A i \in 1 .. n : events[i] # -1) =>
                n <= Len(Chosen) /\ \A i \in 1 .. n : Chosen[i] = events[i]
<1> DEFINE First(i) == events[i] = -1 /\ \A j \in 1 .. i - 1 : events[j] # -1
           stop == CHOOSE i \in INDEX : First(i)
           minus == {i \in INDEX : events[i] = -1}
<1>0. SIZE \in Nat /\ SIZE > 1
  BY ShellAssumption
<1>1. minus \in SUBSET Nat /\ SIZE \in minus
  BY <1>0 DEF Bounded, INDEX
<1>2. PICK i \in minus : \A k \in minus : i <= k
  BY <1>1, LeastNat
<1>3. First(i) /\ i \in INDEX
  BY <1>0, <1>2 DEF INDEX
<1>4. stop \in INDEX /\ First(stop)
  BY <1>3
<1>5. Chosen = SubSeq(events, 1, stop - 1)
  BY DEF Chosen
<1> HIDE DEF stop
<1>6. /\ stop \in 1 .. SIZE /\ events[stop] = -1 /\ \A j \in 1 .. stop - 1 : events[j] # -1
      /\ \A j \in 1 .. stop - 1 : events[j] \in Nat \cup {-1}
  BY <1>0, <1>4 DEF INDEX, ShellType
<1>7. /\ Chosen \in Seq(Nat \cup {-1}) /\ Len(Chosen) = stop - 1
      /\ \A k \in 1 .. stop - 1 : Chosen[k] = events[k]
  <2>1. /\ SubSeq(events, 1, stop - 1) \in Seq(Nat \cup {-1})
        /\ Len(SubSeq(events, 1, stop - 1)) = IF 1 <= stop - 1 THEN stop - 1 - 1 + 1 ELSE 0
        /\ \A k \in 1 .. stop - 1 - 1 + 1 : SubSeq(events, 1, stop - 1)[k] = events[1 + k - 1]
    BY <1>0, <1>6, SubSeqProperties
  <2>2. stop - 1 - 1 + 1 = stop - 1 /\ \A k \in Nat : 1 + k - 1 = k
    BY <1>6
  <2>3. QED
    BY <1>5, <1>6, <2>1, <2>2
<1>8. ASSUME NEW n \in 0 .. SIZE - 1, \A k \in 1 .. n : events[k] # -1
      PROVE  n <= Len(Chosen) /\ \A k \in 1 .. n : Chosen[k] = events[k]
  <2>1. ~(stop \in 1 .. n)
    BY <1>6, <1>8
  <2>2. n <= stop - 1
    BY <1>0, <1>6, <2>1
  <2>3. QED
    BY <1>6, <1>7, <2>2
<1>9. QED
  BY <1>0, <1>6, <1>7, <1>8

\* disable_counter stops every counter, whatever it is handed.
LEMMA AllStopped == Stopped = {}
<1>1. \A on, idx : Disabled(on, idx) = {}
  BY DEF Disabled
<1>2. QED
  BY <1>1 DEF Stopped

-----------------------------------------------------------------------------
(* The steps *)

\* A step that leaves the arrays alone and goes to a place where less is claimed of them.
LEMMA PlainStep ==
  ASSUME ShellInv, shell_line \/ shell_nothing \/ shell_perf \/ run_command \/ UNCHANGED shellvars
  PROVE  ShellInv'
<1>1. /\ UNCHANGED <<events, names, n_events, picked, active, counting, enabled, heap, blocks, aborted,
                     failed, misused>>
  BY DEF shell_line, shell_nothing, shell_perf, run_command, shellvars
<1>2. \/ mode' = mode
      \/ mode = "prompt" /\ mode' \in {"prompt", "off", "number"}
      \/ mode = "command" /\ mode' = "end"
  BY DEF shell_line, shell_nothing, shell_perf, run_command, shellvars
<1>3. Freed' = Freed
  BY <1>1 DEF Freed
<1>4. ShellType' /\ Bounded' /\ Distinct'
  BY <1>1, <1>2 DEF ShellInv, ShellType, Bounded, Distinct
<1>5. Choosing' /\ LabelsMatch' /\ Blamed'
  BY <1>1, <1>2 DEF ShellInv, Choosing, LabelsMatch, Blamed, Bounded
<1>6. Complete' /\ Owned'
  BY <1>1, <1>2, <1>3 DEF ShellInv, Complete, Owned
<1>7. QED
  BY <1>4, <1>5, <1>6 DEF ShellInv

\* An invalid number leaves the arrays of the session before, with nothing counting.
LEMMA NumberStep ==
  ASSUME ShellInv, choose_number
  PROVE  ShellInv'
<1>0. SIZE \in Nat /\ SIZE > 1 /\ mode = "number"
  BY ShellAssumption DEF choose_number
<1>1. UNCHANGED <<events, names, active, counting, enabled, heap, blocks, failed, misused>>
  BY DEF choose_number
<1>2. CASE \E n \in 1 .. SIZE - 1 : n_events' = n /\ picked' = 0 /\ mode' = "pick" /\ aborted' = aborted
  <2>1. ShellType' /\ Bounded' /\ Distinct' /\ Blamed'
    BY <1>0, <1>1, <1>2 DEF ShellInv, ShellType, Bounded, Distinct, Blamed
  <2>2. Choosing' /\ LabelsMatch' /\ Complete' /\ Owned'
    BY <1>0, <1>1, <1>2 DEF ShellInv, Choosing, LabelsMatch, Complete, Owned
  <2>3. QED
    BY <2>1, <2>2 DEF ShellInv
<1>3. CASE mode' = "command" /\ aborted' = TRUE /\ UNCHANGED <<n_events, picked>>
  <2>1. ShellType' /\ Bounded' /\ Distinct' /\ Blamed'
    BY <1>0, <1>1, <1>3 DEF ShellInv, ShellType, Bounded, Distinct, Blamed
  <2>2. Choosing' /\ LabelsMatch' /\ Complete' /\ Owned'
    BY <1>0, <1>1, <1>3 DEF ShellInv, Bounded, Choosing, LabelsMatch, Complete, Owned
  <2>3. QED
    BY <2>1, <2>2 DEF ShellInv
<1>4. QED
  BY <1>2, <1>3 DEF choose_number

\* A name is stored in a block of its own; unless a command failed, the index had none.
LEMMA PickStep ==
  ASSUME ShellInv, pick_event
  PROVE  ShellInv'
<1>0. /\ SIZE \in Nat /\ SIZE > 1 /\ EVENTS \subseteq Nat /\ mode = "pick"
      /\ picked \in Nat /\ n_events \in Nat /\ picked < n_events /\ n_events <= SIZE - 1 /\ blocks \in Nat
  BY ShellAssumption DEF pick_event, ShellInv, ShellType
<1> DEFINE i == picked + 1
           b == blocks + 1
<1>1. PICK e \in EVENTS :
        /\ events' = [events EXCEPT ![i] = e]
        /\ misused' = IF names[i] \in DOMAIN heap THEN misused \cup {"lost"} ELSE misused
        /\ names' = [names EXCEPT ![i] = b]
        /\ heap' = [k \in DOMAIN heap \cup {b} |-> IF k = b THEN e ELSE heap[k]]
        /\ blocks' = b
        /\ picked' = i
  BY DEF pick_event
<1>2. UNCHANGED <<mode, n_events, active, counting, enabled, aborted, failed>>
  BY DEF pick_event
<1>3. /\ i \in 1 .. n_events /\ i \in INDEX /\ i # SIZE /\ b \in Nat /\ b = blocks + 1
      /\ \A k \in 1 .. i : k = i \/ k \in 1 .. picked
      /\ 1 .. picked \subseteq INDEX /\ i \notin 1 .. picked
  BY <1>0 DEF INDEX
<1> HIDE DEF i, b
<1>4. b \notin DOMAIN heap /\ b # 0 /\ (\A j \in INDEX : names[j] # b /\ names[j] \in 0 .. b)
  BY <1>0, <1>3 DEF ShellInv, ShellType
<1>5. /\ events'[i] = e /\ names'[i] = b
      /\ \A j \in INDEX : j # i => events'[j] = events[j] /\ names'[j] = names[j]
      /\ events' \in [INDEX -> Nat \cup {-1}] /\ names' \in [INDEX -> 0 .. b]
      /\ DOMAIN heap' = DOMAIN heap \cup {b} /\ heap'[b] = e
      /\ \A k \in DOMAIN heap : heap'[k] = heap[k]
  <2>1. events \in [INDEX -> Nat \cup {-1}] /\ names \in [INDEX -> 0 .. blocks] /\ e \in Nat
    BY <1>0 DEF ShellInv, ShellType
  <2>2. names \in [INDEX -> 0 .. b]
    BY <1>4, <2>1
  <2>3. QED
    BY <1>1, <1>3, <1>4, <2>1, <2>2
<1>6. ShellType'
  <2>1. DOMAIN heap' \subseteq 1 .. b
    BY <1>0, <1>3, <1>5 DEF ShellInv, ShellType
  <2>2. misused' \subseteq {"twice", "lost"}
    BY <1>1 DEF ShellInv, ShellType
  <2>3. picked' \in 0 .. n_events
    BY <1>0, <1>1, <1>3
  <2>4. QED
    BY <1>1, <1>2, <1>3, <1>5, <2>1, <2>2, <2>3 DEF ShellInv, ShellType
<1>7. Bounded'
  <2>1. SIZE \in INDEX
    BY <1>0 DEF INDEX
  <2>2. QED
    BY <1>2, <1>3, <1>5, <2>1 DEF ShellInv, Bounded
<1>8. Distinct'
  BY <1>4, <1>5 DEF ShellInv, Distinct
<1>9. Choosing'
  <2> SUFFICES ASSUME NEW k \in 1 .. i
               PROVE  /\ names'[k] \in DOMAIN heap'
                      /\ events'[k] = heap'[names'[k]] /\ events'[k] # -1
    BY <1>1 DEF Choosing
  <2>1. CASE k = i
    BY <1>0, <1>5, <2>1
  <2>2. CASE k \in 1 .. picked
    BY <1>0, <1>3, <1>5, <2>2 DEF ShellInv, Choosing
  <2>3. QED
    BY <1>3, <2>1, <2>2
<1>10. LabelsMatch' /\ Complete'
  BY <1>0, <1>2 DEF LabelsMatch, Complete
<1>11. ASSUME ~failed PROVE DOMAIN heap \subseteq {names[k] : k \in 1 .. picked}
  BY <1>0, <1>11 DEF ShellInv, Owned
<1>12. Owned'
  <2> SUFFICES ASSUME ~failed PROVE DOMAIN heap' \subseteq {names'[k] : k \in 1 .. picked'}
    BY <1>0, <1>2 DEF Owned
  <2>1. \A k \in 1 .. picked : k \in 1 .. i /\ names'[k] = names[k]
    BY <1>0, <1>3, <1>5 DEF i
  <2>2. i \in 1 .. i
    BY <1>0, <1>3
  <2>3. QED
    BY <1>1, <1>5, <1>11, <2>1, <2>2
<1>13. Blamed'
  <2> SUFFICES ASSUME ~failed PROVE names[i] \notin DOMAIN heap
    BY <1>1, <1>2 DEF ShellInv, Blamed
  <2>1. ASSUME names[i] \in DOMAIN heap PROVE FALSE
    <3>1. names[i] # 0
      BY <2>1 DEF ShellInv, ShellType
    <3>2. PICK k \in 1 .. picked : names[i] = names[k]
      BY <1>11, <2>1
    <3>3. QED
      BY <1>3, <3>1, <3>2 DEF ShellInv, Distinct
  <2>2. QED
    BY <2>1
<1>14. QED
  BY <1>6, <1>7, <1>8, <1>9, <1>10, <1>12, <1>13 DEF ShellInv

\* begin_profiling gives each chosen event the counter of its index.
LEMMA BeginStep ==
  ASSUME ShellInv, begin_profiling
  PROVE  ShellInv'
<1>0. /\ mode = "pick" /\ picked = n_events /\ mode' = "command" /\ active' = init_pmu \o Chosen
      /\ UNCHANGED <<events, names, n_events, picked, heap, blocks, aborted, failed, misused>>
  BY DEF begin_profiling
<1>1. Chosen \in Seq(Nat \cup {-1}) /\ Len(Chosen) < SIZE
  BY WalkStops DEF ShellInv
<1>2. active' = Chosen
  BY <1>0, <1>1, ConcatEmptySeq DEF init_pmu
<1>3. \A i \in 1 .. n_events : /\ names[i] \in DOMAIN heap
                               /\ events[i] = heap[names[i]] /\ events[i] # -1
  BY <1>0 DEF ShellInv, Choosing
<1>4. n_events <= Len(Chosen) /\ \A i \in 1 .. n_events : Chosen[i] = events[i]
  BY <1>3, WalkStops DEF ShellInv, ShellType
<1>5. Freed' = Freed /\ Freed \subseteq DOMAIN heap /\ Freed = {names[i] : i \in 1 .. picked}
  BY <1>0, <1>3 DEF Freed
<1>6. ShellType' /\ Distinct' /\ Blamed'
  BY <1>0 DEF ShellInv, ShellType, Distinct, Blamed
<1>7. Bounded'
  BY <1>0, <1>1, <1>2 DEF ShellInv, Bounded
<1>8. LabelsMatch'
  <2> SUFFICES ASSUME NEW i \in 1 .. n_events
               PROVE  i <= Len(active') /\ names[i] \in DOMAIN heap /\ active'[i] = heap[names[i]]
    BY <1>0 DEF LabelsMatch
  <2>1. n_events \in Nat /\ Len(Chosen) \in Nat
    BY <1>1 DEF ShellInv, ShellType
  <2>2. i <= Len(Chosen)
    BY <1>4, <2>1
  <2>3. QED
    BY <1>2, <1>3, <1>4, <2>2
<1>9. Choosing' /\ Complete' /\ Owned'
  BY <1>0, <1>5 DEF ShellInv, Choosing, Complete, Owned
<1>10. QED
  BY <1>6, <1>7, <1>8, <1>9 DEF ShellInv

\* end_profiling stops every counter; a failure skips the cleanup and is remembered.
LEMMA EndStep ==
  ASSUME ShellInv, end_profiling
  PROVE  ShellInv'
<1>0. /\ mode = "end" /\ enabled' = FALSE /\ counting' = {}
      /\ mode' \in {"off", "prompt", "print"}
      /\ UNCHANGED <<events, names, n_events, picked, active, heap, blocks, aborted, misused>>
  BY AllStopped DEF end_profiling
<1>a. /\ failed' = (failed \/ ret # 0)
      /\ mode' = "print" \/ ret # 0
  BY DEF end_profiling
<1>b. /\ failed' \in BOOLEAN
      /\ failed => failed'
      /\ mode' = "print" \/ failed'
  BY <1>a, Zenon
<1>1. Freed' = Freed
  BY <1>0 DEF Freed
<1>2. ShellType' /\ Bounded' /\ Distinct' /\ Blamed'
  BY <1>0, <1>b DEF ShellInv, ShellType, Bounded, Distinct, Blamed
<1>3. Choosing' /\ LabelsMatch' /\ Complete' /\ Owned'
  BY <1>0, <1>1, <1>b DEF ShellInv, Choosing, LabelsMatch, Complete, Owned
<1>4. QED
  BY <1>2, <1>3 DEF ShellInv

\* perf_cleanup frees the names of the session, all of which are live unless an invalid number
\* was given.
LEMMA CleanupStep ==
  ASSUME ShellInv, perf_print
  PROVE  ShellInv'
<1>0. /\ mode = "print" /\ mode' = "prompt" /\ perf_cleanup
      /\ UNCHANGED <<names, n_events, picked, active, counting, enabled, blocks, aborted, failed>>
  BY DEF perf_print
<1>1. /\ events' = [i \in INDEX |-> IF i <= n_events THEN -1 ELSE events[i]]
      /\ DOMAIN heap' = DOMAIN heap \ Freed
      /\ misused' = IF Freed \subseteq DOMAIN heap THEN misused ELSE misused \cup {"twice"}
  BY <1>0 DEF perf_cleanup
<1>2. events' \in [INDEX -> Nat \cup {-1}] /\ events'[SIZE] = -1
  BY <1>1, ShellAssumption DEF ShellInv, ShellType, Bounded, INDEX
<1>3. ShellType' /\ Bounded' /\ Distinct'
  BY <1>0, <1>1, <1>2 DEF ShellInv, ShellType, Bounded, Distinct
<1>4. Blamed'
  BY <1>0, <1>1 DEF ShellInv, Blamed, Complete
<1>5. Choosing' /\ LabelsMatch' /\ Complete' /\ Owned'
  BY <1>0, <1>1 DEF ShellInv, Choosing, LabelsMatch, Complete, Owned
<1>6. QED
  BY <1>3, <1>4, <1>5 DEF ShellInv

-----------------------------------------------------------------------------
(* The theorems *)

\* ShellInv holds in every reachable state.
THEOREM ShellInvariant == ShellSpec => []ShellInv
<1>1. ShellInit => ShellInv
  <2> SUFFICES ASSUME ShellInit PROVE ShellInv
    OBVIOUS
  <2>0. SIZE \in Nat /\ SIZE > 1 /\ SIZE \in INDEX
    BY ShellAssumption DEF INDEX
  <2>1. DOMAIN heap = {} /\ Len(active) = 0 /\ active \in Seq(Nat \cup {-1})
    BY DEF ShellInit
  <2>a. events \in [INDEX -> Nat \cup {-1}] /\ events[SIZE] = -1
    BY <2>0 DEF ShellInit
  <2>b. names \in [INDEX -> 0 .. blocks] /\ (\A i \in INDEX : names[i] = 0) /\ blocks = 0
    BY DEF ShellInit
  <2>c. n_events \in 0 .. SIZE - 1 /\ picked \in 0 .. n_events
    <3>1. n_events = 0 /\ picked = 0
      BY DEF ShellInit
    <3>2. QED
      BY <2>0, <3>1
  <2>2. ShellType /\ Bounded /\ Distinct
    <3>1. /\ mode = "prompt" /\ misused = {} /\ aborted = FALSE /\ failed = FALSE
          /\ counting = {} /\ enabled = FALSE
      BY DEF ShellInit
    <3>2. Distinct
      BY <2>b DEF Distinct
    <3>3. Bounded
      BY <2>0, <2>1, <2>a, <3>1 DEF Bounded
    <3>4. blocks \in Nat /\ DOMAIN heap \subseteq 1 .. blocks
      BY <2>1, <2>b
    <3>5. ShellType
      BY <2>a, <2>b, <2>c, <3>1, <3>4 DEF ShellType
    <3>6. QED
      BY <3>2, <3>3, <3>5
  <2>3. Choosing /\ LabelsMatch /\ Complete /\ Owned /\ Blamed
    BY <2>1 DEF ShellInit, Choosing, LabelsMatch, Complete, Owned, Blamed
  <2>4. QED
    BY <2>2, <2>3 DEF ShellInv
<1>2. ShellInv /\ [ShellNext]_shellvars => ShellInv'
  BY PlainStep, NumberStep, PickStep, BeginStep, EndStep, CleanupStep DEF ShellNext
<1>3. QED
  BY <1>1, <1>2, PTL DEF ShellSpec

\* A profiled session counts what it says, whatever sessions before left in the arrays.
THEOREM ShellProfilesExact == ShellSpec => []ProfilesExact
<1>1. ShellInv => ProfilesExact
  BY DEF ShellInv, Bounded, ProfilesExact, CountersBounded
<1>2. QED
  BY <1>1, ShellInvariant, PTL

\* The names are freed once and none is lost, but for the two known ways out of a session.
THEOREM ShellNamesOwned == ShellSpec => []NamesOwned
<1>1. ShellInv => NamesOwned
  BY DEF ShellInv, Blamed, Owned, NamesOwned
<1>2. QED
  BY <1>1, ShellInvariant, PTL

-----------------------------------------------------------------------------
(* The clock *)

\* What a setting leaves: the divider of the rate last asked for.
ClockInv ==
  /\ setter \in {"sd_clk", "sd_switch_clock_rate"}
  /\ base \in Nat
  /\ hv \in {HOST_SPEC_V2, HOST_SPEC_V3}
  /\ turn \in 0 .. 2
  /\ ticking = "stopped" => turn < 2
  /\ turn > 0 /\ ticking = "on" =>
       divider = IF setter = "sd_clk" THEN sd_clk_field(base, hv, RATES[turn])
                 ELSE sd_get_clock_divider(base, RATES[turn])

\* The powers of two.
Two(k) == 2 ^ k

\* Their values, as far as First_bit looks.
LEMMA Powers ==
  /\ Two(0) = 1 /\ Two(1) = 2 /\ Two(2) = 4 /\ Two(3) = 8
  /\ Two(4) = 16 /\ Two(5) = 32 /\ Two(6) = 64 /\ Two(7) = 128
  /\ Two(8) = 256 /\ Two(9) = 512 /\ Two(10) = 1024 /\ Two(11) = 2048
  /\ Two(12) = 4096 /\ Two(13) = 8192 /\ Two(14) = 16384 /\ Two(15) = 32768
  /\ Two(16) = 65536 /\ Two(17) = 131072 /\ Two(18) = 262144 /\ Two(19) = 524288
  /\ Two(20) = 1048576 /\ Two(21) = 2097152 /\ Two(22) = 4194304 /\ Two(23) = 8388608
  /\ Two(24) = 16777216 /\ Two(25) = 33554432 /\ Two(26) = 67108864 /\ Two(27) = 134217728
  /\ Two(28) = 268435456 /\ Two(29) = 536870912 /\ Two(30) = 1073741824
BY SMT DEF Two

\* First_bit and Power in terms of them.
LEMMA PowerTerms ==
  ASSUME NEW n
  PROVE  /\ First_bit(n) = CHOOSE k \in 0 .. 30 : n >= Two(k) /\ (k = 30 \/ n < Two(k + 1))
         /\ Power(n) = IF n = 0 THEN 31
                       ELSE IF n = Two(First_bit(n)) THEN First_bit(n) ELSE First_bit(n) + 1
BY Zenon DEF Two, First_bit, Power

\* When a quotient rounded down is at least g.
LEMMA AtLeast ==
  ASSUME NEW b \in Nat, NEW o \in Nat \ {0}, NEW g \in Nat, o * g <= b
  PROVE  b \div o >= g
<1> DEFINE q == b \div o
<1>1. q \in Int /\ b < o * (q + 1)
  OBVIOUS
<1> HIDE DEF q
<1>2. SUFFICES ASSUME q + 1 <= g PROVE FALSE
  BY <1>1 DEF q
<1>3. o * (q + 1) <= o * g
  BY <1>1, <1>2
<1>4. QED
  BY <1>1, <1>3

\* When a quotient rounded up is at most g.
LEMMA AtMost ==
  ASSUME NEW b \in Nat, NEW o \in Nat \ {0}, NEW g \in Nat, b <= o * g
  PROVE  (b + o - 1) \div o <= g
<1> DEFINE q == (b + o - 1) \div o
<1>1. q \in Int /\ o * q <= b + o - 1
  OBVIOUS
<1> HIDE DEF q
<1>2. SUFFICES ASSUME q >= g + 1 PROVE FALSE
  BY <1>1 DEF q
<1>3. o * q >= o * (g + 1)
  BY <1>1, <1>2
<1>4. o * (g + 1) = o * g + o
  OBVIOUS
<1>5. QED
  BY <1>1, <1>3, <1>4

\* The quotients of ClockSafe, and those for which the clock is divided at all.
Wide == 1 .. 1024
Quotients == 2 .. 1024

\* d is at least half the quotient and less than it.
Halves(n, d) == d \in 1 .. 512 /\ 2 * d >= n /\ d < n

\* The place of the highest bit of a quotient.
LEMMA HighestBit ==
  ASSUME NEW n \in Wide
  PROVE  /\ First_bit(n) \in 0 .. 10
         /\ Two(First_bit(n)) <= n /\ n < Two(First_bit(n) + 1)
<1> DEFINE P(k) == n >= Two(k) /\ (k = 30 \/ n < Two(k + 1))
<1>0. n \in 1 .. 1024
  BY DEF Wide
<1>1. \E k \in 0 .. 30 : P(k)
  <2>1. CASE n < 32
    <3>1. P(0) \/ P(1) \/ P(2) \/ P(3) \/ P(4)
      BY <1>0, <2>1, Powers, SMT
    <3>2. QED
      BY <3>1
  <2>2. CASE n >= 32 /\ n < 512
    <3>1. P(5) \/ P(6) \/ P(7) \/ P(8)
      BY <1>0, <2>2, Powers, SMT
    <3>2. QED
      BY <3>1
  <2>3. CASE n >= 512
    <3>1. P(9) \/ P(10)
      BY <1>0, <2>3, Powers, SMT
    <3>2. QED
      BY <3>1
  <2>4. QED
    BY <1>0, <2>1, <2>2, <2>3, SMT
<1> DEFINE j == First_bit(n)
<1>2. j \in 0 .. 30 /\ P(j)
  BY <1>1, PowerTerms
<1> HIDE DEF j
<1>3. j \in 0 .. 10
  BY <1>0, <1>2, Powers, SMT
<1>4. QED
  BY <1>2, <1>3, SMT DEF j

\* Half the next power of two.
LEMMA PowerDivider ==
  ASSUME NEW n \in Quotients
  PROVE  Power(n) \in 1 .. 10 /\ Halves(n, Two(Power(n) - 1))
<1> DEFINE j == First_bit(n)
           p == Power(n)
<1>0. n \in 2 .. 1024 /\ n \in Wide
  BY DEF Quotients, Wide
<1>1. j \in 0 .. 10 /\ Two(j) <= n /\ n < Two(j + 1)
  BY <1>0, HighestBit, SMT
<1>2. p = IF n = Two(j) THEN j ELSE j + 1
  BY <1>0, PowerTerms, SMT
<1> HIDE DEF j, p
<1>3. p \in 1 .. 10 /\ Halves(n, Two(p - 1))
  <2>1. CASE j \in 0 .. 4
    BY <1>0, <1>1, <1>2, <2>1, Powers, SMT DEF Halves
  <2>2. CASE j \in 5 .. 10
    BY <1>0, <1>1, <1>2, <2>2, Powers, SMT DEF Halves
  <2>3. QED
    BY <1>1, <2>1, <2>2, SMT
<1>4. QED
  BY <1>3 DEF p

\* What sd_get_clock_divider makes of a quotient n.
Divider(n) ==
  IF Power(n) = 0 THEN 0 ELSE IF Power(n) - 1 >= 10 THEN 1023 ELSE Two(Power(n) - 1)

\* It halves the quotient, rounding to a power of two.
LEMMA DividerHalves ==
  ASSUME NEW n \in Quotients
  PROVE  Halves(n, Divider(n))
<1>1. Power(n) \in 1 .. 10 /\ Halves(n, Two(Power(n) - 1))
  BY PowerDivider
<1>2. Divider(n) = Two(Power(n) - 1)
  BY <1>1, SMT DEF Divider
<1>3. QED
  BY <1>1, <1>2

\* The rates the drivers ask for, in any order.
Asked == {400000, 25000000}

\* sd_clk: twice its divider is above the quotient, and at most four times it.
LEMMA SdClkDivides ==
  ASSUME NEW f \in Asked, NEW b \in Nat, f <= b, b \div f <= 1024
  PROVE  LET o == 2 * sd_clk_field(b, HOST_SPEC_V3, f)
         IN  o \in Nat \ {0} /\ b <= o * f /\ o * (f \div 4) <= b
<1> DEFINE q == b \div f
           d == sd_clk_field(b, HOST_SPEC_V3, f)
<1>1. q \in 1 .. 1024 /\ f * q <= b /\ b < f * (q + 1)
  <2>1. CASE f = 400000
    BY <2>1, SMT
  <2>2. CASE f = 25000000
    BY <2>2, SMT
  <2>3. QED
    BY <2>1, <2>2, SMT DEF Asked
<1>2. q % f = q
  <2>1. CASE f = 400000
    BY <1>1, <2>1, SMT
  <2>2. CASE f = 25000000
    BY <1>1, <2>2, SMT
  <2>3. QED
    BY <2>1, <2>2, SMT DEF Asked
<1>3. sd_clk_divisor(b, HOST_SPEC_V3, f) = IF q - 1 <= 2 THEN 2 ELSE q - 1
  BY <1>1, <1>2, SMT DEF sd_clk_divisor, HOST_SPEC_V2, HOST_SPEC_V3
<1>4. d = IF q - 1 <= 2 THEN 2 ELSE q - 1
  BY <1>1, <1>3, SMT DEF sd_clk_field
<1> HIDE DEF q, d
<1>5. QED
  <2>1. CASE f = 400000
    BY <1>1, <1>4, <2>1, SMT DEF d
  <2>2. CASE f = 25000000
    BY <1>1, <1>4, <2>2, SMT DEF d
  <2>3. QED
    BY <2>1, <2>2, SMT DEF Asked

\* sd_get_clock_divider, of a base that is a multiple of the rate.
LEMMA SwitchDivides ==
  ASSUME NEW f \in Asked, NEW b \in Nat, f <= b, b \div f <= 1024, b % f = 0
  PROVE  LET d == sd_get_clock_divider(b, f)
             o == IF d = 0 THEN 1 ELSE 2 * d
         IN  o \in Nat \ {0} /\ b <= o * f /\ o * (f \div 4) <= b
<1> DEFINE q == b \div f
           w == sd_get_clock_divider(b, f)
<1>1. q \in 1 .. 1024 /\ f * q = b
  <2>1. CASE f = 400000
    BY <2>1, SMT
  <2>2. CASE f = 25000000
    BY <2>2, SMT
  <2>3. QED
    BY <2>1, <2>2, SMT DEF Asked
<1>2. w = Divider(q)
  <2>1. ~(f > b) /\ ~(b % f # 0)
    <3>1. CASE f = 400000
      BY <3>1, SMT
    <3>2. CASE f = 25000000
      BY <3>2, SMT
    <3>3. QED
      BY <3>1, <3>2, SMT DEF Asked
  <2>2. QED
    BY <2>1, SMT DEF sd_get_clock_divider, Divider, Two
<1> HIDE DEF q
<1>3. CASE q = 1
  <2>1. First_bit(q) \in 0 .. 10 /\ Two(First_bit(q)) <= 1
    <3>1. q \in Wide
      BY <1>3, SMT DEF Wide
    <3>2. QED
      BY <1>3, <3>1, HighestBit, SMT
  <2>2. First_bit(q) = 0
    <3> DEFINE j == First_bit(q)
    <3>1. j \in 0 .. 10 /\ Two(j) <= 1
      BY <2>1
    <3> HIDE DEF j
    <3>2. j = 0
      BY <3>1, Powers, SMT
    <3>3. QED
      BY <3>2 DEF j
  <2>3. Power(q) = 0
    BY <1>3, <2>2, Powers, PowerTerms, SMT
  <2>4. w = 0
    BY <1>2, <2>3, SMT DEF Divider
  <2>5. b = f
    BY <1>1, <1>3, SMT DEF Asked
  <2>6. QED
    <3>1. CASE f = 400000
      BY <2>4, <2>5, <3>1, SMT
    <3>2. CASE f = 25000000
      BY <2>4, <2>5, <3>2, SMT
    <3>3. QED
      BY <3>1, <3>2, SMT DEF Asked
<1>4. CASE q \in 2 .. 1024
  <2>1. w \in 1 .. 512 /\ 2 * w >= q /\ w < q
    <3> HIDE DEF w
    <3>1. q \in Quotients
      BY <1>4, SMT DEF Quotients
    <3>2. Halves(q, w)
      BY <1>2, <3>1, DividerHalves
    <3>3. QED
      BY <3>2, SMT DEF Halves
  <2> HIDE DEF w
  <2>2. CASE f = 400000
    <3>1. 2 * w \in Nat \ {0} /\ b <= 2 * w * f /\ 2 * w * (f \div 4) <= b /\ w # 0
      BY <1>1, <2>1, <2>2, SMT
    <3>2. QED
      BY <3>1, SMT DEF w
  <2>3. CASE f = 25000000
    <3>1. 2 * w \in Nat \ {0} /\ b <= 2 * w * f /\ 2 * w * (f \div 4) <= b /\ w # 0
      BY <1>1, <2>1, <2>3, SMT
    <3>2. QED
      BY <3>1, SMT DEF w
  <2>4. QED
    BY <2>2, <2>3, SMT DEF Asked
<1>5. QED
  BY <1>1, <1>3, <1>4, SMT

\* ClockInv holds in every reachable state.
LEMMA ClockInvariant == ClockSpec => []ClockInv
<1>1. ClockInit => ClockInv
  BY ClockAssumption, SMT DEF ClockInit, ClockInv
<1>2. ClockInv /\ [ClockNext]_clkvars => ClockInv'
  <2> SUFFICES ASSUME ClockInv, [ClockNext]_clkvars PROVE ClockInv'
    BY SMT
  <2>1. CASE clock_stop
    BY <2>1, SMT DEF ClockInv, clock_stop, RATES
  <2>2. CASE clock_start
    BY <2>2, SMT DEF ClockInv, clock_start, Target
  <2>3. CASE UNCHANGED clkvars
    BY <2>3, SMT DEF ClockInv, clkvars
  <2>4. QED
    BY <2>1, <2>2, <2>3, SMT DEF ClockNext
<1>3. QED
  BY <1>1, <1>2, PTL DEF ClockSpec

\* The card's clock is never faster than promised nor slower than a quarter of it, whatever
\* base clock the firmware reports.
THEOREM ClockIsSafe == ClockSpec => []ClockSafe
<1>1. ClockInv => ClockSafe
  <2> DEFINE f == RATES[turn]
  <2>1. SUFFICES ASSUME ClockInv, turn > 0, ticking = "on", hv = HOST_SPEC_V3,
                        f <= base, base \div f <= 1024,
                        setter = "sd_switch_clock_rate" => base % f = 0
                 PROVE  /\ (base + Over - 1) \div Over <= f
                        /\ base \div Over >= f \div 4
    BY SMT DEF ClockSafe
  <2>2. f \in Asked /\ base \in Nat
    BY <2>1, SMT DEF ClockInv, RATES, Asked
  <2> HIDE DEF f
  <2>3. Over \in Nat \ {0} /\ base <= Over * f /\ Over * (f \div 4) <= base
    <3>1. CASE setter = "sd_clk"
      <4>1. divider = sd_clk_field(base, HOST_SPEC_V3, f)
        BY <2>1, <3>1, SMT DEF ClockInv, f
      <4>2. 2 * divider \in Nat \ {0} /\ base <= 2 * divider * f
            /\ 2 * divider * (f \div 4) <= base
        BY <2>1, <2>2, <4>1, SdClkDivides, SMT
      <4>3. Over = 2 * divider
        BY <4>2, SMT DEF Over
      <4>4. QED
        BY <4>2, <4>3, SMT
    <3>2. CASE setter = "sd_switch_clock_rate"
      <4>1. divider = sd_get_clock_divider(base, f) /\ base % f = 0
        BY <2>1, <3>2, SMT DEF ClockInv, f
      <4>2. LET o == IF divider = 0 THEN 1 ELSE 2 * divider
            IN  o \in Nat \ {0} /\ base <= o * f /\ o * (f \div 4) <= base
        BY <2>1, <2>2, <4>1, SwitchDivides
      <4>3. QED
        BY <4>2 DEF Over
    <3>3. QED
      BY <2>1, <3>1, <3>2, SMT DEF ClockInv
  <2>4. f \in Nat /\ f \div 4 \in Nat
    BY <2>2, SMT DEF Asked
  <2>5. QED
    BY <2>2, <2>3, <2>4, AtLeast, AtMost, SMT
<1>2. QED
  BY <1>1, ClockInvariant, PTL
=============================================================================
