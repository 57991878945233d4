-------------------------------- MODULE Sort --------------------------------
(***************************************************************************)
(* Sorting and searching as the profiler uses them (qsort.c, bsearch.c,    *)
(* perf.h, perf.c): init_events sorts the table of events by hash once,    *)
(* and perf_lookup finds an event by bisecting it.                         *)
(*                                                                         *)
(* quicksort leaves every run of at most MAX_THRESH + 1 entries unsorted   *)
(* and finishes with one insertion sort whose inner loop has no bound: it  *)
(* stops at the smallest entry, which was first moved to the front.  Every *)
(* comparison is a step here, because the question is which entries it     *)
(* reads.  Entries are numbered from 1 and stand for their hashes; the     *)
(* byte-wise SWAP is an exchange of two entries.                           *)
(***************************************************************************)
EXTENDS Integers, Sequences, FiniteSets

CONSTANT TABLES          \* The tables handed to quicksort (sequences of hashes).

\* qsort.c, MAX_THRESH.
MAX_THRESH == 4

VARIABLES
    given,    \* the table as it was when quicksort was called
    tab,      \* the table
    at,       \* what quicksort or bsearch does next
    plo, phi, \* the partition being split
    pmid,     \* the entry it is split by
    lp, rp,   \* the two scans; the run and insertion pointers; the bisection
    stack,    \* partitions put aside (the bottom one is PUSH (NULL, NULL))
    key,      \* the hash perf_lookup was asked for
    found     \* the index it returned, 0 for NULL

sortvars == <<given, tab, at, plo, phi, pmid, lp, rp, stack, key, found>>

Swap(t, i, j) == [t EXCEPT ![i] = t[j], ![j] = t[i]]

\* perf_cmp: (int)(a->hash - b->hash); hashes are below INT_MAX (perf_hash),
\* so the difference fits.
perf_cmp(i, j) == tab[i] - tab[j]

-----------------------------------------------------------------------------
(* quicksort: partitions of more than MAX_THRESH entries.                  *)

\* A table of no entry returns at once, a small one is only insertion-sorted.
quicksort(t) ==
    /\ given = t /\ tab = t /\ plo = 1 /\ phi = Len(t) /\ pmid = 0
    /\ stack = <<>> /\ key = 0 /\ found = 0
    /\ rp = 1 /\ lp = 2
    /\ at = IF t = <<>> THEN "sorted"
            ELSE IF Len(t) > MAX_THRESH THEN "median" ELSE "smallest"

\* The middle entry becomes the median of three; a[lo] <= a[mid] <= a[hi]
\* then stops both scans.
Median(t, m) ==
    LET t1 == IF t[m] < t[plo] THEN Swap(t, m, plo) ELSE t
        t2 == IF t1[phi] < t1[m] THEN Swap(t1, m, phi) ELSE t1
    IN  IF t1[phi] < t1[m] /\ t2[m] < t2[plo] THEN Swap(t2, m, plo) ELSE t2

median ==
    /\ at = "median"
    /\ pmid' = plo + (phi - plo) \div 2
    /\ tab' = Median(tab, pmid')
    /\ lp' = plo + 1 /\ rp' = phi - 1
    /\ at' = "left"
    /\ UNCHANGED <<given, plo, phi, stack, key, found>>

scan_left ==
    /\ at = "left"
    /\ IF perf_cmp(lp, pmid) < 0 THEN lp' = lp + 1 /\ at' = at
                               ELSE lp' = lp /\ at' = "right"
    /\ UNCHANGED <<given, tab, plo, phi, pmid, rp, stack, key, found>>

scan_right ==
    /\ at = "right"
    /\ IF perf_cmp(pmid, rp) < 0 THEN rp' = rp - 1 /\ at' = at
                               ELSE rp' = rp /\ at' = "meet"
    /\ UNCHANGED <<given, tab, plo, phi, pmid, lp, stack, key, found>>

\* Where the splitting entry is after a[l] and a[r] are exchanged.
MidAfter == CASE pmid = lp -> rp [] pmid = rp -> lp [] OTHER -> pmid

meet ==
    /\ at = "meet"
    /\ IF lp < rp
       THEN tab' = Swap(tab, lp, rp) /\ pmid' = MidAfter
       ELSE UNCHANGED <<tab, pmid>>
    /\ IF lp <= rp THEN lp' = lp + 1 /\ rp' = rp - 1 ELSE UNCHANGED <<lp, rp>>
    /\ at' = IF lp # rp /\ lp' <= rp' THEN "left" ELSE "split"
    /\ UNCHANGED <<given, plo, phi, stack, key, found>>

\* The partition left for later and the one split next, out of [lo, r] and
\* [l, hi]: the longer one is put aside.
Aside == IF rp - plo > phi - lp THEN <<[lo |-> plo, hi |-> rp], [lo |-> lp, hi |-> phi]>>
                            ELSE <<[lo |-> lp, hi |-> phi], [lo |-> plo, hi |-> rp]>>

\* The loop ends when the bottom of the stack is popped: lo and hi are NULL,
\* and the insertion sort starts with its search of the smallest entry.
split ==
    LET smallL == rp - plo <= MAX_THRESH
        smallR == phi - lp <= MAX_THRESH
        Go(p, s) == /\ plo' = p.lo /\ phi' = p.hi /\ stack' = s
                    /\ at' = "median" /\ UNCHANGED <<lp, rp>>
    IN  /\ at = "split"
        /\ \/ /\ smallL /\ smallR /\ stack # <<>>
              /\ Go(stack[Len(stack)], SubSeq(stack, 1, Len(stack) - 1))
           \/ /\ smallL /\ smallR /\ stack = <<>>
              /\ at' = "smallest" /\ rp' = 1 /\ lp' = 2
              /\ UNCHANGED <<plo, phi, stack>>
           \/ smallL /\ ~smallR /\ Go([lo |-> lp, hi |-> phi], stack)
           \/ ~smallL /\ smallR /\ Go([lo |-> plo, hi |-> rp], stack)
           \/ ~smallL /\ ~smallR /\ Go(Aside[2], Append(stack, Aside[1]))
        /\ UNCHANGED <<given, tab, pmid, key, found>>

-----------------------------------------------------------------------------
(* The insertion sort: l is run_ptr and r is tmp_ptr.                      *)

\* One entry too few.
Thresh_Short == IF Len(tab) < MAX_THRESH THEN Len(tab) ELSE MAX_THRESH

\* thresh: the smallest entry is looked for among the first MAX_THRESH + 1.
Thresh == IF Len(tab) < 1 + MAX_THRESH THEN Len(tab) ELSE 1 + MAX_THRESH

\* The sentinel is put in front; run_ptr then starts at the third entry.
smallest ==
    /\ at = "smallest"
    /\ IF lp <= Thresh
       THEN /\ rp' = IF perf_cmp(lp, rp) < 0 THEN lp ELSE rp
            /\ lp' = lp + 1
            /\ UNCHANGED <<tab, at>>
       ELSE /\ tab' = Swap(tab, rp, 1)
            /\ lp' = 2 /\ rp' = rp /\ at' = "run"
    /\ UNCHANGED <<given, plo, phi, pmid, stack, key, found>>

run_on ==
    /\ at = "run"
    /\ lp' = lp + 1
    /\ IF lp' <= Len(tab) THEN rp' = lp' - 1 /\ at' = "insert"
                       ELSE rp' = rp /\ at' = "sorted"
    /\ UNCHANGED <<given, tab, plo, phi, pmid, stack, key, found>>

\* The entry at l is moved in front of those greater than it.
Inserted(t, i, j) ==
    [k \in DOMAIN t |-> IF k = i THEN t[j]
                        ELSE IF k \in (i + 1)..j THEN t[k - 1] ELSE t[k]]

insert ==
    /\ at = "insert"
    /\ IF perf_cmp(lp, rp) < 0
       THEN rp' = rp - 1 /\ UNCHANGED <<tab, at>>
       ELSE tab' = Inserted(tab, rp + 1, lp) /\ at' = "run" /\ rp' = rp
    /\ UNCHANGED <<given, plo, phi, pmid, lp, stack, key, found>>

-----------------------------------------------------------------------------
(* perf_lookup: bsearch over [l, r), counted from 0 as in the code.        *)

perf_lookup(h) ==
    /\ at = "sorted"
    /\ key' = h /\ lp' = 0 /\ rp' = Len(tab) /\ at' = "bisect"
    /\ UNCHANGED <<given, tab, plo, phi, pmid, stack, found>>

\* bsearch's probe of the entry in the middle.
Probe == (lp + rp) \div 2

bsearch ==
    /\ at = "bisect"
    /\ IF lp >= rp
       THEN found' = 0 /\ at' = "answer" /\ UNCHANGED <<lp, rp>>
       ELSE LET c == key - tab[Probe + 1] IN
            \/ c < 0 /\ rp' = Probe     /\ UNCHANGED <<lp, at, found>>
            \/ c > 0 /\ lp' = Probe + 1 /\ UNCHANGED <<rp, at, found>>
            \/ c = 0 /\ found' = Probe + 1 /\ at' = "answer" /\ UNCHANGED <<lp, rp>>
    /\ UNCHANGED <<given, tab, plo, phi, pmid, stack, key>>

SortInit == \E t \in TABLES : quicksort(t)

SortNext ==
    \/ median \/ scan_left \/ scan_right \/ meet \/ split
    \/ smallest \/ run_on \/ insert
    \/ \E h \in 0..9 : perf_lookup(h)
    \/ bsearch

-----------------------------------------------------------------------------
(* Properties.                                                             *)

Touched ==
    CASE at = "left"   -> {lp, pmid}
      [] at = "right"  -> {pmid, rp}
      [] at = "insert" -> {lp, rp}
      [] at = "bisect" /\ lp < rp -> {Probe + 1}
      [] OTHER -> {}

Span(p) == p.hi - p.lo

\* No scan of quicksort leaves the table although none of its loops tests a
\* bound: the median of three stops both scans, the smallest entry stops the
\* insertions (qsort.c 63-68, 118), and of the two partitions the longer one
\* is put aside, so the fixed stack of 64 nodes is deep enough for any table.
ScansInside ==
    /\ Touched \subseteq 1..Len(tab)
    /\ \A k \in DOMAIN stack :
           /\ at = "median" => phi - plo <= Span(stack[k])
           /\ k > 1 => Span(stack[k]) <= Span(stack[k - 1])

\* The finished table is the given one in ascending order, no entry lost or
\* doubled by the exchanges, and perf_lookup answers with an entry of the
\* hash it was asked for exactly when the given table has one.
LookupFinds ==
    at \in {"sorted", "bisect", "answer"} =>
        /\ \A k \in 1..(Len(tab) - 1) : tab[k] <= tab[k + 1]
        /\ \A k \in DOMAIN tab :
               Cardinality({j \in DOMAIN tab : tab[j] = tab[k]})
                 = Cardinality({j \in DOMAIN tab : given[j] = tab[k]})
        /\ at = "answer" => IF \E k \in DOMAIN given : given[k] = key
                            THEN found > 0 /\ tab[found] = key
                            ELSE found = 0

\* perf_lookup on the table quicksort made (qsort.c 36-137, bsearch.c 5-29).
SearchExact == ScansInside /\ LookupFinds
=============================================================================
