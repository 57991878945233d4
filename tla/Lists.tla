-------------------------------- MODULE Lists -------------------------------
(***************************************************************************)
(* The doubly linked list of stdlib/list.c and the tree of stdlib/tree.c,  *)
(* whose nodes keep their children in such lists.                          *)
(*                                                                         *)
(* A node of a list is named by the value it holds.  new clears nothing,   *)
(* nor do list_create and the insertions set every word of what they       *)
(* allocate: a word they leave alone is zero, in memory of a region that   *)
(* was never used, or LEFT, what an earlier owner of the block left there  *)
(* (malloc.c 558: cull does not clear it either).                          *)
(* Address 0 is mapped, so the write through a null head that              *)
(* list_insert_front makes lands in the fields of "node 0".                *)
(***************************************************************************)
EXTENDS Integers, Sequences, FiniteSets, SequencesExt

CONSTANT LISTED       \* bound: how many nodes are allocated in all

VARIABLES
  use,       \* "tree", or "bare" for a list without a tree
  kids,      \* the list of children of each tree node; 0: the bare list
  ref,       \* ghost: what each list should hold, in order
  taken,      \* nodes allocated so far; the first is the root
  spoiled    \* ghost: "header": a list was created with a head or a count left
             \* over; "end": a left-over or dangling end of a list was used

listvars == <<use, kids, ref, taken, spoiled>>

NULL == 0
LEFT == -1
Memory == {NULL, LEFT}
ADDRESSES == 0 .. LISTED
ROOT == 1

-----------------------------------------------------------------------------
(***************************************************************************)
(* list.c                                                                  *)
(***************************************************************************)
\* Nothing of the header is set.
list_create(h, t, n) ==
  [head |-> h, tail |-> t, size |-> n, freed |-> {},
   prev |-> [a \in ADDRESSES |-> NULL], next |-> [a \in ADDRESSES |-> NULL]]

Empty == list_create(NULL, NULL, 0)

\* The new node t keeps the prev that its memory held.
list_insert_front(l, t, was) ==
  [l EXCEPT !.prev = [@ EXCEPT ![l.head] = t, ![t] = was], !.next[t] = l.head,
            !.head = t, !.size = @ + 1, !.tail = IF l.head = NULL THEN t ELSE @]

\* The new node t keeps the next that its memory held.
list_insert_back(l, t, was) ==
  [l EXCEPT !.prev[t] = l.tail, !.tail = t, !.size = @ + 1,
            !.next = IF l.tail # NULL THEN [@ EXCEPT ![l.tail] = t, ![t] = was]
                                      ELSE [@ EXCEPT ![t] = was],
            !.head = IF @ = NULL THEN t ELSE @]

list_remove_front(l) ==
  LET h == l.next[l.head]
  IN  IF l.head = NULL THEN l
      ELSE [l EXCEPT !.head = h, !.size = @ - 1, !.freed = @ \cup {l.head},
                     !.prev = IF h # NULL THEN [@ EXCEPT ![h] = NULL] ELSE @]


\* The node that is popped is left to the caller.
list_pop(l) ==
  LET b == l.prev[l.tail]
  IN  IF l.head = NULL THEN l
      ELSE [l EXCEPT !.tail = b, !.size = @ - 1,
                     !.next = IF b # NULL THEN [@ EXCEPT ![b] = NULL] ELSE @]

list_remove_back(l) ==
  IF l.head = NULL THEN l ELSE [list_pop(l) EXCEPT !.freed = @ \cup {l.tail}]

list_remove_node(l, n) ==
  IF l.head = n THEN list_remove_front(l)
  ELSE IF l.tail = n THEN list_remove_back(l)
  ELSE [l EXCEPT !.prev[l.next[n]] = l.prev[n], !.next[l.prev[n]] = l.next[n],
                 !.size = @ - 1, !.freed = @ \cup {n}]

\* The nodes from a on along the links, up to the first that leads to none.
Chain(link, a) ==
  LET p[i \in 1 .. LISTED + 1] ==
        IF i = 1 THEN a ELSE IF p[i - 1] \in Memory THEN p[i - 1] ELSE link[p[i - 1]]
      ends == {i \in DOMAIN p : p[i] \in Memory}
      n == IF ends = {} THEN LISTED + 1 ELSE (CHOOSE i \in ends : \A j \in ends : i <= j) - 1
  IN  [i \in 1 .. n |-> p[i]]

\* foreach: it goes on through a link left over, and ends only at a null one.
Each(l) == Chain(l.next, l.head)
Closed(l) == IF Each(l) = << >> THEN l.head = NULL ELSE l.next[Last(Each(l))] = NULL

\* The index of a value, or -1.
list_contain(l, v) ==
  LET is == {i \in DOMAIN Each(l) : Each(l)[i] = v}
  IN  IF is = {} THEN -1 ELSE (CHOOSE i \in is : \A j \in is : i <= j) - 1

list_get_node_by_index(l, i) ==
  IF i < 0 \/ i >= l.size \/ i >= Len(Each(l)) THEN NULL ELSE Each(l)[i + 1]

list_remove_by_index(l, i) == list_remove_node(l, list_get_node_by_index(l, i))

-----------------------------------------------------------------------------
(***************************************************************************)
(* tree.c                                                                  *)
(***************************************************************************)
NoParent == [node |-> NULL, index |-> -1]

RECURSIVE tree_find_parent_recur(_, _)
tree_find_parent_recur(n, sub) ==
  LET i == list_contain(kids[sub], n)
      below == [c \in DOMAIN Each(kids[sub]) |-> tree_find_parent_recur(n, Each(kids[sub])[c])]
      hits == {c \in DOMAIN below : below[c] # NoParent}
  IN  IF i # -1 THEN [node |-> sub, index |-> i]
      ELSE IF hits = {} THEN NoParent
      ELSE below[CHOOSE c \in hits : \A d \in hits : c <= d]

tree_find_parent(n) == IF n = ROOT THEN NoParent ELSE tree_find_parent_recur(n, ROOT)

RECURSIVE tree2array_recur(_)
tree2array_recur(sub) ==
  <<sub>> \o FlattenSeq([c \in DOMAIN Each(kids[sub]) |-> tree2array_recur(Each(kids[sub])[c])])

tree2array == IF taken = 0 THEN << >> ELSE tree2array_recur(ROOT)

RECURSIVE tree2list_recur(_, _)
tree2list_recur(sub, list) ==
  FoldLeft(LAMBDA l, c : tree2list_recur(c, list_insert_back(l, c, LEFT)), list,
           Each(kids[sub]))

\* Into a list that its caller created in clear memory.
tree2list == IF taken = 0 THEN Empty ELSE tree2list_recur(ROOT, Empty)

\* The nodes of the tree as it should be, each before its descendants.
RECURSIVE Under(_)
Under(n) == <<n>> \o FlattenSeq([c \in DOMAIN ref[n] |-> Under(ref[n][c])])
Preorder == IF taken = 0 THEN << >> ELSE Under(ROOT)
InTree == ToSet(Preorder)

Fresh == taken < LISTED /\ taken' = taken + 1

\* An operation that comes to use a loose end stops there.
Step(bad, node, l, s) ==
  IF bad THEN spoiled' = "end" /\ UNCHANGED <<kids, ref>>
         ELSE /\ kids' = [kids EXCEPT ![node] = l]
              /\ ref' = [ref EXCEPT ![node] = s]
              /\ UNCHANGED spoiled

\* The ends an operation on l relies on: an empty list with an end that is not
\* null, the first or last node, about to leave, with a link left over.
LooseIn(l) == l.size = 0 /\ l.head # NULL
LooseFront(l) == l.head # NULL /\ (l.size = 0 \/ l.next[l.head] = LEFT)
LooseBack(l) == l.head # NULL /\ (l.size = 0 \/ l.prev[l.tail] = LEFT)

\* A tree node, its list of children and, but for the root, the node of the
\* parent's list.
tree_insert ==
  /\ use = "tree" /\ spoiled = "none"
  /\ Fresh
  /\ \E h, t, n, was \in Memory :
       IF h = LEFT \/ n = LEFT
       THEN spoiled' = "header" /\ UNCHANGED <<kids, ref>>
       ELSE LET born == [kids EXCEPT ![taken'] = list_create(h, t, n)]
            IN  IF taken = 0 THEN kids' = born /\ UNCHANGED <<ref, spoiled>>
                ELSE \E sub \in InTree :
                       IF LooseIn(kids[sub])
                       THEN spoiled' = "end" /\ UNCHANGED <<kids, ref>>
                       ELSE /\ kids' = [born EXCEPT ![sub] = list_insert_front(@, taken', was)]
                            /\ ref' = [ref EXCEPT ![sub] = <<taken'>> \o @]
                            /\ UNCHANGED spoiled
  /\ UNCHANGED use

\* The node leaves its parent's list, with everything under it; for the root
\* there is no parent and nothing is done.
tree_remove ==
  /\ use = "tree" /\ spoiled = "none"
  /\ \E m \in InTree \ {ROOT} :
       LET p == tree_find_parent(m)
           l == kids[p.node]
       IN  /\ p # NoParent
           /\ Step(IF l.head = m THEN LooseFront(l) ELSE l.tail = m /\ LooseBack(l),
                   p.node, list_remove_by_index(l, p.index), Remove(ref[p.node], m))
  /\ UNCHANGED <<use, taken>>

-----------------------------------------------------------------------------
(***************************************************************************)
(* A list without a tree, with the operations at both ends.                *)
(***************************************************************************)
Bare == kids[0]

insert_front ==
  /\ Fresh
  /\ \E was \in Memory :
       Step(LooseIn(Bare), 0, list_insert_front(Bare, taken', was), <<taken'>> \o ref[0])

insert_back ==
  /\ Fresh
  /\ \E was \in Memory :
       Step(Bare.size = 0 /\ (Bare.head # NULL \/ Bare.tail # NULL), 0,
            list_insert_back(Bare, taken', was), Append(ref[0], taken'))

remove_front ==
  /\ Step(LooseFront(Bare), 0, list_remove_front(Bare),
          IF ref[0] = << >> THEN << >> ELSE Tail(ref[0]))
  /\ UNCHANGED taken

remove_back ==
  /\ \E l \in {list_remove_back(Bare), list_pop(Bare)} :
       Step(LooseBack(Bare), 0, l, IF ref[0] = << >> THEN << >> ELSE Front(ref[0]))
  /\ UNCHANGED taken

remove_by_index ==
  /\ \E i \in DOMAIN ref[0] :
       Step(Bare.size = 1 /\ LooseFront(Bare), 0,
            list_remove_by_index(Bare, i - 1), RemoveAt(ref[0], i))
  /\ UNCHANGED taken

bare_list ==
  /\ use = "bare" /\ spoiled = "none"
  /\ insert_front \/ insert_back \/ remove_front \/ remove_back \/ remove_by_index
  /\ UNCHANGED use

ListInit ==
  /\ use \in {"tree", "bare"}
  /\ \E h, t, n \in IF use = "bare" THEN Memory ELSE {NULL} :
       /\ kids = [a \in ADDRESSES |-> IF a = 0 THEN list_create(h, t, n) ELSE Empty]
       /\ spoiled = IF h = LEFT \/ n = LEFT THEN "header" ELSE "none"
  /\ ref = [n \in ADDRESSES |-> << >>]
  /\ taken = 0

ListNext == tree_insert \/ tree_remove \/ bare_list

-----------------------------------------------------------------------------
\* A list holds s: read from either end, and by its count, and no node of it
\* was given back.  The ends of an empty list may point to a node that is gone.
Holds(l, s) ==
  /\ l.size = Len(s)
  /\ s # << >> => /\ Each(l) = s
                  /\ Chain(l.prev, l.tail) = Reverse(s)
                  /\ ToSet(s) \cap l.freed = {}

=============================================================================
