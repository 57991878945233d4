------------------------------- MODULE Shell -------------------------------
(***************************************************************************)
(* stdlib/shell.c with perf/perf.c and drivers/performance/counters.c: the *)
(* command loop and the profiling session that "perf <command>" runs       *)
(* around a command.  A session spans several functions that keep their    *)
(* state in global arrays - the chosen events, their names, the counters - *)
(* and two ways out of it (an invalid number of events, a command that     *)
(* fails) leave before the function that clears them.                      *)
(*                                                                         *)
(* A line is the command it names; event numbers and names are one model   *)
(* value, a name being a heap block that holds it.  Lines are assumed to   *)
(* be shorter than the buffer of the shell, whose index is not tested.     *)
(***************************************************************************)
EXTENDS Integers, Sequences, FiniteSets

CONSTANTS
  EVENTS,        \* event numbers that perf_lookup finds
  SIZE,          \* the length of events and names (10 in the code)
  MaxSessions,   \* bound: "perf" lines
  MaxBlocks      \* bound: names allocated

ASSUME ShellAssumption == SIZE \in Nat \ {0, 1} /\ EVENTS \subseteq Nat

CYCLES == 31     \* MAX_COUNTERS, the index of the cycle counter

VARIABLES
  mode,          \* "prompt", "number", "pick", "command", "end", "print", "off"
  events,        \* index -> event or -1
  names,         \* index -> heap block or 0
  n_events,
  picked,        \* how many events of this session are stored
  active,        \* active_counters up to n_active_counters
  counting,      \* PMCNTENSET
  enabled,       \* the E bit of PMCR
  command,       \* what the line named
  ret,           \* the result of the last command
  heap,          \* live name blocks: block -> the event it names
  blocks, sessions,
  aborted,       \* an invalid number of events has been given
  failed,        \* a profiled command has failed
  misused        \* a name block was freed twice or lost

shellvars == <<mode, events, names, n_events, picked, active, counting, enabled, command,
          ret, heap, blocks, sessions, aborted, failed, misused>>

INDEX == 1 .. SIZE

\* commands.c: what each command can return.  The tests of memory return
\* E_BADARG for a wrong line; ls and cat what the file system says.
Results(c) ==
  CASE c \in {"print", "clear", "time", "listperf", "usage"} -> {0}
    [] c \in {"memset_test", "memcpy_test"} -> {0, 1}
    [] c \in {"ls", "cat"} -> {0, 1}
    [] c = "shutdown" -> {2}

\* interpret: the command a line names, or none.
interpret == {"print", "clear", "time", "listperf", "ls", "cat", "shutdown", "usage",
              "memcpy_test", "memset_test"}

ShellInit ==
  /\ mode = "prompt"
  /\ events = [i \in INDEX |-> -1]
  /\ names = [i \in INDEX |-> 0]
  /\ n_events = 0
  /\ picked = 0
  /\ active = <<>>
  /\ counting = {}
  /\ enabled = FALSE
  /\ command = "none"
  /\ ret = 0
  /\ heap = << >>
  /\ blocks = 0
  /\ sessions = 0
  /\ aborted = FALSE
  /\ failed = FALSE
  /\ misused = {}

-----------------------------------------------------------------------------
(***************************************************************************)
(* shell and run.                                                          *)
(***************************************************************************)
\* A line without "perf": the command runs and its result stays in ret.
shell_line ==
  /\ mode = "prompt"
  /\ \E c \in interpret, r \in 0 .. 2 :
       /\ r \in Results(c)
       /\ ret' = r
       /\ mode' = IF r = 2 THEN "off" ELSE "prompt"
       /\ command' = c
  /\ UNCHANGED <<events, names, n_events, picked, active, counting, enabled, heap,
                 blocks, sessions, aborted, failed, misused>>

\* An empty or unknown line after "perf" starts nothing; ret is set to 0.
shell_nothing ==
  /\ mode = "prompt"
  /\ ret' = 0
  /\ command' = "none"
  /\ UNCHANGED <<mode, events, names, n_events, picked, active, counting, enabled, heap,
                 blocks, sessions, aborted, failed, misused>>

shell_perf ==
  /\ mode = "prompt"
  /\ sessions < MaxSessions
  /\ sessions' = sessions + 1
  /\ \E c \in interpret : command' = c
  /\ mode' = "number"
  /\ UNCHANGED <<events, names, n_events, picked, active, counting, enabled, ret, heap,
                 blocks, aborted, failed, misused>>

-----------------------------------------------------------------------------
(***************************************************************************)
(* get_events.  A number that is not valid ends it, and begin_profiling,   *)
(* with the state of the session before.                                   *)
(***************************************************************************)
choose_number ==
  /\ mode = "number"
  /\ \/ \E n \in 1 .. SIZE - 1 :
          /\ n_events' = n
          /\ picked' = 0
          /\ mode' = "pick"
          /\ UNCHANGED aborted
     \/ /\ mode' = "command"
        /\ aborted' = TRUE
        /\ UNCHANGED <<n_events, picked>>
  /\ UNCHANGED <<events, names, active, counting, enabled, command, ret, heap, blocks,
                 sessions, failed, misused>>

\* The block that names[i] held is lost if it is still live.
pick_event ==
  /\ mode = "pick"
  /\ picked < n_events
  /\ blocks < MaxBlocks
  /\ \E e \in EVENTS :
       LET i == picked + 1
           b == blocks + 1
       IN /\ events' = [events EXCEPT ![i] = e]
          /\ misused' = IF names[i] \in DOMAIN heap THEN misused \cup {"lost"} ELSE misused
          /\ names' = [names EXCEPT ![i] = b]
          /\ heap' = [k \in DOMAIN heap \cup {b} |-> IF k = b THEN e ELSE heap[k]]
          /\ blocks' = b
          /\ picked' = i
  /\ UNCHANGED <<mode, n_events, active, counting, enabled, command, ret, sessions,
                 aborted, failed>>

\* enable_counter for each event up to the first -1.
Chosen == LET stop == CHOOSE i \in INDEX : events[i] = -1 /\ \A j \in 1 .. i - 1 : events[j] # -1
          IN SubSeq(events, 1, stop - 1)

init_pmu == <<>>

\* begin_profiling after get_events: init_pmu, enable_counter for each
\* event, the cycle counter, profile_start, the E bit.
begin_profiling ==
  /\ mode = "pick"
  /\ picked = n_events
  /\ active' = init_pmu \o Chosen
  /\ counting' = counting \cup 0 .. Len(active') - 1 \cup {CYCLES}
  /\ enabled' = TRUE
  /\ mode' = "command"
  /\ UNCHANGED <<events, names, n_events, picked, command, ret, heap, blocks, sessions,
                 aborted, failed, misused>>

run_command ==
  /\ mode = "command"
  /\ ret' \in Results(command)
  /\ mode' = "end"
  /\ UNCHANGED <<events, names, n_events, picked, active, counting, enabled, command,
                 heap, blocks, sessions, aborted, failed, misused>>

\* PMCNTENCLR reads as the counters that count and clears those written back:
\* whatever index is added, every counter stops.
Disabled_Index(on, idx) == on \ {idx}

Disabled(on, idx) == on \ (on \cup {idx})

\* disable_counter is handed event numbers, then the cycle counter's index.
Stopped ==
  LET stop[i \in 0 .. Len(Chosen)] ==
        IF i = 0 THEN counting ELSE Disabled(stop[i - 1], Chosen[i])
  IN Disabled(stop[Len(Chosen)], CYCLES)

\* end_profiling always runs; a result other than 0 returns before the
\* print and the cleanup.
end_profiling ==
  /\ mode = "end"
  /\ enabled' = FALSE
  /\ counting' = Stopped
  /\ mode' = IF ret = 2 THEN "off" ELSE IF ret # 0 THEN "prompt" ELSE "print"
  /\ failed' = (failed \/ ret # 0)
  /\ UNCHANGED <<events, names, n_events, picked, active, command, ret, heap, blocks,
                 sessions, aborted, misused>>

\* perf_print, then perf_cleanup: names stay set to what was freed.
Freed == {names[i] : i \in 1 .. n_events}

perf_cleanup_One ==
  /\ events' = [i \in INDEX |-> IF i <= n_events THEN -1 ELSE events[i]]
  /\ heap' = [b \in DOMAIN heap \ {names[1]} |-> heap[b]]
  /\ misused' = misused

perf_cleanup ==
  /\ events' = [i \in INDEX |-> IF i <= n_events THEN -1 ELSE events[i]]
  /\ heap' = [b \in DOMAIN heap \ Freed |-> heap[b]]
  /\ misused' = IF Freed \subseteq DOMAIN heap THEN misused ELSE misused \cup {"twice"}

perf_print ==
  /\ mode = "print"
  /\ perf_cleanup
  /\ ret' = 0
  /\ mode' = "prompt"
  /\ UNCHANGED <<names, n_events, picked, active, counting, enabled, command, blocks,
                 sessions, aborted, failed>>

ShellNext ==
  \/ shell_line \/ shell_nothing \/ shell_perf \/ choose_number \/ pick_event
  \/ begin_profiling \/ run_command \/ end_profiling \/ perf_print

ShellSpec == ShellInit /\ [][ShellNext]_shellvars

-----------------------------------------------------------------------------
(***************************************************************************)
(* The loop of begin_profiling that walks events to the first -1 stops     *)
(* inside the array whatever sessions before left there, and uses no more  *)
(* counters than events can be chosen; and at the prompt nothing counts,   *)
(* although disable_counter is handed event numbers for indices (perf.c    *)
(* 118, 137; counters.c 65).                                               *)
(***************************************************************************)
CountersBounded ==
  /\ events[SIZE] = -1
  /\ Len(active) < SIZE
  /\ mode \in {"prompt", "print", "off"} => counting = {} /\ ~enabled

(***************************************************************************)
(* What perf_print shows under a name was counted for that event: after a  *)
(* completed choice, the i-th counter counts what the i-th name says, for  *)
(* all events of the session, even when a session before failed and left   *)
(* its events behind (perf.c 161, shell.c 69).                             *)
(***************************************************************************)
LabelsMatch ==
  mode \in {"command", "end"} /\ enabled =>
    \A i \in 1 .. n_events : /\ i <= Len(active)
                             /\ names[i] \in DOMAIN heap
                             /\ active[i] = heap[names[i]]

(***************************************************************************)
(* The names are freed once and none is lost, as long as every number of   *)
(* events was valid and no profiled command failed: a failure loses the    *)
(* names of its session, an invalid number frees those of the session      *)
(* before a second time (shell.c 69, perf.c 178).                          *)
(***************************************************************************)
NamesOwned ==
  /\ "twice" \in misused => aborted
  /\ "lost" \in misused => failed
  /\ ~failed /\ mode = "prompt" => DOMAIN heap = {}

\* A profiled session counts what it says: the counters stay within bounds and
\* every one is printed under the name of its event (perf.c 118-161).
ProfilesExact == CountersBounded /\ LabelsMatch
=============================================================================
