-------------------------------- MODULE Parts -------------------------------
(***************************************************************************)
(* The parts of the system that share no state with one another, checked   *)
(* together: the red-black tree (rbtree.c, rbtree.h), the sorting and the  *)
(* bisection that perf_lookup does on the event table (qsort.c,            *)
(* bsearch.c), formatted output (printk.c), strings (string.c), the shell  *)
(* with its profiling (shell.c, perf.c, counters.c) and the earlier SD     *)
(* driver (sd_old.c), the clock both SD drivers set, and lists and trees   *)
(* (list.c, tree.c).  A behaviour follows one subject while the others     *)
(* rest in a fixed state, so that the state spaces add and do not          *)
(* multiply.                                                               *)
(***************************************************************************)
EXTENDS RBTree, Sort, Printk, Strings, Shell, SdOld, SdClock, Lists

VARIABLE subject

partvars == <<subject, rbvars, sortvars, printvars, strvars, shellvars, oldvars,
              clkvars, listvars>>

\* A fixed initial state of each subject that has several.
SortIdle == quicksort(<<>>)
PrintIdle == PrintInit /\ sink = "uart" /\ u = 0
OldIdle == OldInit /\ slot.hc
ClockIdle == /\ setter = "sd_clk" /\ base = 0 /\ hv = HOST_SPEC_V3
             /\ turn = 0 /\ divider = 0 /\ ticking = "off" /\ clkerr = FALSE
ListIdle == ListInit /\ use = "tree"

Init ==
  /\ RBInit /\ ShellInit
  /\ subject \in {"tree", "sort", "format", "string", "shell", "card", "clock",
                 "list"}
  /\ IF subject = "sort"   THEN SortInit  ELSE SortIdle
  /\ IF subject = "format" THEN PrintInit ELSE PrintIdle
  /\ IF subject = "string" THEN StrInit   ELSE StrIdle
  /\ IF subject = "card"   THEN OldInit   ELSE OldIdle
  /\ IF subject = "clock"  THEN ClockInit ELSE ClockIdle
  /\ IF subject = "list"   THEN ListInit  ELSE ListIdle

Next ==
  /\ UNCHANGED subject
  /\ \/ /\ subject = "tree" /\ RBNext
        /\ UNCHANGED <<sortvars, printvars, strvars, shellvars, oldvars, clkvars,
                       listvars>>
     \/ /\ subject = "sort" /\ SortNext
        /\ UNCHANGED <<rbvars, printvars, strvars, shellvars, oldvars, clkvars,
                       listvars>>
     \/ /\ subject = "format" /\ PrintNext
        /\ UNCHANGED <<rbvars, sortvars, strvars, shellvars, oldvars, clkvars,
                       listvars>>
     \/ /\ subject = "string" /\ StrNext
        /\ UNCHANGED <<rbvars, sortvars, printvars, shellvars, oldvars, clkvars,
                       listvars>>
     \/ /\ subject = "shell" /\ ShellNext
        /\ UNCHANGED <<rbvars, sortvars, printvars, strvars, oldvars, clkvars, listvars>>
     \/ /\ subject = "card" /\ OldNext
        /\ UNCHANGED <<rbvars, sortvars, printvars, strvars, shellvars, clkvars, listvars>>
     \/ /\ subject = "clock" /\ ClockNext
        /\ UNCHANGED <<rbvars, sortvars, printvars, strvars, shellvars, oldvars, listvars>>
     \/ /\ subject = "list" /\ ListNext
        /\ UNCHANGED <<rbvars, sortvars, printvars, strvars, shellvars, oldvars, clkvars>>

Spec == Init /\ [][Next]_partvars
=============================================================================
