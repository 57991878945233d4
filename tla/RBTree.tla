------------------------------- MODULE RBTree -------------------------------
(***************************************************************************)
(* stdlib/rbtree.c and rbtree.h: red-black trees over nodes the caller     *)
(* owns.  A node has its children, its parent and its colour; 0 is NULL.   *)
(* The two halves of every rebalancing loop are mirror images and are one  *)
(* definition here, with the side as a parameter.  One turn of a loop is   *)
(* one step, so that the loop invariants the code's comments state can be  *)
(* checked between turns.                                                  *)
(***************************************************************************)
EXTENDS Integers, Sequences, FiniteSets

CONSTANT NODES      \* 1 .. n; two neighbours share a key

VARIABLES
  tree,      \* [root, at]: at[n] = [l, r, p, c]
  inside,    \* the nodes the tree holds
  loop,      \* "idle", or the rebalancing loop: "insert" or "erase"
  node,      \* the variables of the loop
  parent

rbvars == <<tree, inside, loop, node, parent>>

RB_RED == "red"
RB_BLACK == "black"
Key(n) == n \div 2
SIDES == {"l", "r"}
Other(s) == IF s = "l" THEN "r" ELSE "l"
Free == [l |-> 0, r |-> 0, p |-> 0, c |-> RB_RED]

IsRed(t, n) == n # 0 /\ t.at[n].c = RB_RED
SetChild(t, n, s, child) == [t EXCEPT !.at[n][s] = child]

rb_set_parent(t, n, p) == [t EXCEPT !.at[n].p = p]
rb_set_parent_color(t, n, p, c) == [t EXCEPT !.at[n].p = p, !.at[n].c = c]
Adopt(t, n, p, c) == IF n = 0 THEN t ELSE rb_set_parent_color(t, n, p, c)

rb_change_child(t, old, new, p) ==
  IF p = 0 THEN [t EXCEPT !.root = new]
  ELSE IF t.at[p].l = old THEN SetChild(t, p, "l", new) ELSE SetChild(t, p, "r", new)

\* __rb_rotate_set_parents: new takes old's place and colour.
rb_rotate_set_parents(t, old, new, c) ==
  LET p == t.at[old].p
      t1 == rb_set_parent_color(t, new, p, t.at[old].c)
      t2 == rb_set_parent_color(t1, old, new, c)
  IN rb_change_child(t2, old, new, p)

\* A child of p on side s moves up over p, whose child on that side it was.
Lift(t, p, n, s) == SetChild(SetChild(t, p, s, t.at[n][Other(s)]), n, Other(s), p)

-----------------------------------------------------------------------------
(***************************************************************************)
(* Insertion: rb_add and rb_find_add link a red leaf, then __rb_insert     *)
(* loops.                                                                  *)
(***************************************************************************)
\* The place a new key goes to: <<parent, side>>; equal keys go right.
Place(t, k) ==
  LET down[n \in NODES] ==
        LET s == IF k < Key(n) THEN "l" ELSE "r"
        IN IF t.at[n][s] = 0 THEN <<n, s>> ELSE down[t.at[n][s]]
  IN IF t.root = 0 THEN <<0, "l">> ELSE down[t.root]

rb_find(t, k) ==
  LET down[n \in NODES \cup {0}] ==
        IF n = 0 \/ Key(n) = k THEN n
        ELSE down[IF k < Key(n) THEN t.at[n].l ELSE t.at[n].r]
  IN down[t.root]

rb_link_node(t, n, place) ==
  LET t1 == [t EXCEPT !.at[n] = [Free EXCEPT !.p = place[1]]]
  IN IF place[1] = 0 THEN [t1 EXCEPT !.root = n] ELSE SetChild(t1, place[1], place[2], n)

rb_add(n, only) ==
  /\ loop = "idle"
  /\ n \notin inside
  /\ only => rb_find(tree, Key(n)) = 0
  /\ tree' = rb_link_node(tree, n, Place(tree, Key(n)))
  /\ inside' = inside \cup {n}
  /\ loop' = "insert"
  /\ node' = n
  /\ parent' = Place(tree, Key(n))[1]

\* Case 3 alone, or case 2 and then case 3: rotate at the grandparent.
InsertRotate(t, n, p, g, s) ==
  LET o == Other(s)
      inner == n = t.at[p][o]
      t1 == IF inner THEN Lift(t, p, n, o) ELSE t
      t2 == IF inner
              THEN rb_set_parent_color(Adopt(t1, t.at[n][s], p, RB_BLACK), p, n, RB_RED)
              ELSE t
      up == IF inner THEN n ELSE p
      t3 == SetChild(SetChild(t2, g, s, t2.at[up][o]), up, o, g)
  IN rb_rotate_set_parents(Adopt(t3, t2.at[up][o], g, RB_BLACK), g, up, RB_RED)

rb_insert ==
  /\ loop = "insert"
  /\ IF parent = 0 \/ ~IsRed(tree, parent)
       THEN /\ tree' = IF parent = 0 THEN rb_set_parent_color(tree, node, 0, RB_BLACK)
                                      ELSE tree
            /\ loop' = "idle"
            /\ UNCHANGED <<node, parent>>
       ELSE LET g == tree.at[parent].p
                s == IF parent # tree.at[g].r THEN "l" ELSE "r"
                uncle == tree.at[g][Other(s)]
            IN IF IsRed(tree, uncle)
                 THEN /\ tree' = [tree EXCEPT !.at[uncle].c = RB_BLACK,
                                              !.at[parent].c = RB_BLACK,
                                              !.at[g].c = RB_RED]
                      /\ node' = g
                      /\ parent' = tree.at[g].p
                      /\ UNCHANGED loop
                 ELSE /\ tree' = InsertRotate(tree, node, parent, g, s)
                      /\ loop' = "idle"
                      /\ UNCHANGED <<node, parent>>
  /\ UNCHANGED inside

-----------------------------------------------------------------------------
(***************************************************************************)
(* Removal: __rb_erase_augmented unlinks the node and gives the parent     *)
(* below which a black node is missing, from which ____rb_erase_color      *)
(* loops.                                                                  *)
(***************************************************************************)
Bottom(t, n, s) ==
  LET down[k \in NODES] == IF t.at[k][s] = 0 THEN k ELSE down[t.at[k][s]] IN down[n]

\* No more than one child, which takes the place and the colour of n.
EraseEasy(t, n) ==
  LET child == IF t.at[n].l = 0 THEN t.at[n].r ELSE t.at[n].l
      p == t.at[n].p
      t1 == rb_change_child(t, n, child, p)
  IN [tree |-> Adopt(t1, child, p, t.at[n].c),
      rebalance |-> IF child = 0 /\ ~IsRed(t, n) THEN p ELSE 0]

\* The successor takes the place and the colour of n.
EraseSuccessor(t, n) ==
  LET right == t.at[n].r
      suc == Bottom(t, right, "l")
      near == suc = right
      p == IF near THEN suc ELSE t.at[suc].p
      child2 == t.at[suc].r
      t1 == IF near THEN t
            ELSE rb_set_parent(SetChild(SetChild(t, p, "l", child2), suc, "r", right),
                               right, suc)
      t2 == rb_set_parent(SetChild(t1, suc, "l", t.at[n].l), t.at[n].l, suc)
      t3 == rb_change_child(t2, n, suc, t.at[n].p)
      t4 == Adopt(t3, child2, p, RB_BLACK)
  IN [tree |-> rb_set_parent_color(t4, suc, t.at[n].p, t.at[n].c),
      rebalance |-> IF child2 = 0 /\ ~IsRed(t, suc) THEN p ELSE 0]

rb_erase_augmented(t, n) ==
  IF t.at[n].l = 0 \/ t.at[n].r = 0 THEN EraseEasy(t, n) ELSE EraseSuccessor(t, n)

rb_erase(n) ==
  /\ loop = "idle"
  /\ n \in inside
  /\ LET e == rb_erase_augmented(tree, n)
     IN /\ tree' = [e.tree EXCEPT !.at[n] = Free]
        /\ loop' = IF e.rebalance = 0 THEN "idle" ELSE "erase"
        /\ parent' = e.rebalance
  /\ node' = 0
  /\ inside' = inside \ {n}

\* Case 1: a red sibling is rotated above the parent.
LiftSibling_KeepColor(t, p, s) ==
  LET sib == t.at[p][s]
      inner == t.at[sib][Other(s)]
  IN rb_rotate_set_parents(Adopt(Lift(t, p, sib, s), inner, p, RB_BLACK), p, sib, RB_BLACK)

LiftSibling(t, p, s) ==
  LET sib == t.at[p][s]
      inner == t.at[sib][Other(s)]
  IN rb_rotate_set_parents(Adopt(Lift(t, p, sib, s), inner, p, RB_BLACK), p, sib, RB_RED)

\* Case 3: the sibling's inner child, which is red, is rotated above it.
LiftNephew(t, p, sib, s) ==
  LET inner == t.at[sib][Other(s)]
      t1 == SetChild(Lift(t, sib, inner, Other(s)), p, s, inner)
  IN Adopt(t1, t.at[inner][s], sib, RB_BLACK)

\* Case 4: rotate at the parent; outer becomes black.
EraseRotate(t, p, sib, outer, s) ==
  LET inner == t.at[sib][Other(s)]
      t1 == rb_set_parent_color(Lift(t, p, sib, s), outer, sib, RB_BLACK)
      t2 == IF inner = 0 THEN t1 ELSE rb_set_parent(t1, inner, p)
  IN rb_rotate_set_parents(t2, p, sib, RB_BLACK)

\* s is the side of the sibling; each test reads the tree after case 1.
rb_erase_color ==
  /\ loop = "erase"
  /\ LET s == IF node # tree.at[parent].r THEN "r" ELSE "l"
         t == IF IsRed(tree, tree.at[parent][s]) THEN LiftSibling(tree, parent, s) ELSE tree
         sib == t.at[parent][s]
         outer == t.at[sib][s]
         inner == t.at[sib][Other(s)]
     IN IF ~IsRed(t, outer) /\ ~IsRed(t, inner)
          THEN LET flip == [t EXCEPT !.at[sib].c = RB_RED]
               IN IF IsRed(t, parent)
                    THEN /\ tree' = [flip EXCEPT !.at[parent].c = RB_BLACK]
                         /\ loop' = "idle"
                         /\ UNCHANGED <<node, parent>>
                    ELSE /\ tree' = flip
                         /\ node' = parent
                         /\ parent' = t.at[parent].p
                         /\ loop' = IF t.at[parent].p = 0 THEN "idle" ELSE "erase"
          ELSE /\ tree' = IF IsRed(t, outer) THEN EraseRotate(t, parent, sib, outer, s)
                          ELSE EraseRotate(LiftNephew(t, parent, sib, s), parent, inner,
                                           sib, s)
               /\ loop' = "idle"
               /\ UNCHANGED <<node, parent>>
  /\ UNCHANGED inside

\* rb_replace_node: a node outside takes the place of one of the same key.
rb_replace_node(victim, new) ==
  /\ loop = "idle"
  /\ victim \in inside /\ new \notin inside /\ Key(new) = Key(victim)
  /\ LET t1 == [tree EXCEPT !.at[new] = tree.at[victim]]
         t2 == IF t1.at[new].l = 0 THEN t1 ELSE rb_set_parent(t1, t1.at[new].l, new)
         t3 == IF t1.at[new].r = 0 THEN t2 ELSE rb_set_parent(t2, t1.at[new].r, new)
         t4 == rb_change_child(t3, victim, new, tree.at[victim].p)
     IN tree' = [t4 EXCEPT !.at[victim] = Free]
  /\ inside' = (inside \ {victim}) \cup {new}
  /\ UNCHANGED <<loop, node, parent>>

RBInit ==
  /\ tree = [root |-> 0, at |-> [n \in NODES |-> Free]]
  /\ inside = {}
  /\ loop = "idle"
  /\ node = 0
  /\ parent = 0

RBNext ==
  \/ \E n \in NODES : rb_add(n, TRUE) \/ rb_add(n, FALSE) \/ rb_erase(n)
  \/ \E m, n \in NODES : rb_replace_node(m, n)
  \/ rb_insert
  \/ rb_erase_color

-----------------------------------------------------------------------------
(***************************************************************************)
(* Walks.                                                                  *)
(***************************************************************************)
rb_first(t) == IF t.root = 0 THEN 0 ELSE Bottom(t, t.root, "l")
rb_last(t) == IF t.root = 0 THEN 0 ELSE Bottom(t, t.root, "r")

\* Up while n is the child on side s; the parent reached otherwise.
Up(t, n, s) ==
  LET up[k \in NODES] == LET p == t.at[k].p
                         IN IF p # 0 /\ k = t.at[p][s] THEN up[p] ELSE p
  IN up[n]

Beside(t, n, s) ==
  IF t.at[n][s] # 0 THEN Bottom(t, t.at[n][s], Other(s)) ELSE Up(t, n, s)

rb_next(t, n) == Beside(t, n, "r")
rb_prev(t, n) == Beside(t, n, "l")

rb_left_deepest_node(t, n) ==
  LET down[k \in NODES] == IF t.at[k].l # 0 THEN down[t.at[k].l]
                           ELSE IF t.at[k].r # 0 THEN down[t.at[k].r] ELSE k
  IN down[n]

rb_first_postorder(t) == IF t.root = 0 THEN 0 ELSE rb_left_deepest_node(t, t.root)

rb_next_postorder(t, n) ==
  LET p == t.at[n].p
  IN IF p # 0 /\ n = t.at[p].l /\ t.at[p].r # 0 THEN rb_left_deepest_node(t, t.at[p].r)
     ELSE p

rb_find_first_Any(t, k) == rb_find(t, k)

rb_find_first(t, k) ==
  LET down[n \in NODES \cup {0}] ==
        IF n = 0 THEN 0
        ELSE IF k <= Key(n)
               THEN LET m == down[t.at[n].l] IN IF m = 0 /\ k = Key(n) THEN n ELSE m
               ELSE down[t.at[n].r]
  IN down[t.root]

rb_next_match(t, k, n) == LET m == rb_next(t, n) IN IF m # 0 /\ Key(m) # k THEN 0 ELSE m

\* The sequence a walk gives, at most one longer than the tree can be.
Walk(t, first, next(_, _)) ==
  LET from[n \in NODES \cup {0}, k \in 0 .. Cardinality(NODES) + 1] ==
        IF n = 0 \/ k = 0 THEN <<>> ELSE <<n>> \o from[next(t, n), k - 1]
  IN from[first, Cardinality(NODES) + 1]

-----------------------------------------------------------------------------
\* The nodes below n, in key order; black nodes on the way to each leaf.
InOrder(t) ==
  LET walk[n \in NODES \cup {0}] ==
        IF n = 0 THEN <<>> ELSE walk[t.at[n].l] \o <<n>> \o walk[t.at[n].r]
  IN walk[t.root]

Heights(t) ==
  LET h[n \in NODES \cup {0}] ==
        IF n = 0 THEN {0}
        ELSE {b + (IF IsRed(t, n) THEN 0 ELSE 1) : b \in h[t.at[n].l] \cup h[t.at[n].r]}
  IN h

Linked(t) ==
  /\ t.root # 0 => t.at[t.root].p = 0
  /\ \A n \in inside, s \in SIDES : t.at[n][s] # 0 => t.at[t.at[n][s]].p = n

Ordered(seq) == \A i, j \in 1 .. Len(seq) : i < j => Key(seq[i]) <= Key(seq[j])

RedPairs(t) == {n \in inside : IsRed(t, n) /\ IsRed(t, t.at[n].p)}

(***************************************************************************)
(* After every insertion, removal and replacement the tree holds exactly   *)
(* the nodes put into it, in key order, well linked, with a black root, no *)
(* red child of a red node and one black height; and between the turns of  *)
(* the loops, what their comments claim: while inserting, node is red and  *)
(* only its own edge may break the rule on colours; while erasing, the     *)
(* parent's paths through node are exactly one black node short            *)
(* (rbtree.c 43, 168).                                                     *)
(***************************************************************************)
Balanced ==
  LET seq == InOrder(tree)
  IN /\ Linked(tree)
     /\ Ordered(seq) /\ Len(seq) = Cardinality(inside)
     /\ {seq[i] : i \in 1 .. Len(seq)} = inside
     /\ loop = "idle" => /\ RedPairs(tree) = {} /\ ~IsRed(tree, tree.root)
                         /\ Cardinality(Heights(tree)[tree.root]) = 1
     /\ loop = "insert" => /\ IsRed(tree, node)
                           /\ RedPairs(tree) \subseteq {node}
                           /\ Cardinality(Heights(tree)[tree.root]) = 1
     /\ loop = "erase" =>
          LET s == IF node # tree.at[parent].r THEN "l" ELSE "r"
              short == Heights(tree)[tree.at[parent][s]]
              full == Heights(tree)[tree.at[parent][Other(s)]]
          IN /\ parent # 0 /\ RedPairs(tree) = {}
             /\ \E h \in 0 .. Cardinality(NODES) : short = {h} /\ full = {h + 1}

(***************************************************************************)
(* rb_first and rb_next visit every node once in order, rb_last and        *)
(* rb_prev the same backwards, the postorder walk every node after its     *)
(* children, and rb_find_first with rb_next_match exactly the nodes of a   *)
(* key, whatever rotations put duplicates on both sides of one another.    *)
(***************************************************************************)
Walks ==
  loop = "idle" =>
    LET seq == InOrder(tree)
        back == Walk(tree, rb_last(tree), rb_prev)
        post == Walk(tree, rb_first_postorder(tree), rb_next_postorder)
    IN /\ Walk(tree, rb_first(tree), rb_next) = seq
       /\ back = [i \in 1 .. Len(seq) |-> seq[Len(seq) + 1 - i]]
       /\ Len(post) = Len(seq)
       /\ \A i, j \in 1 .. Len(post) : tree.at[post[i]].p = post[j] => i < j
       /\ \A k \in {Key(n) : n \in NODES} :
            LET next(t, n) == rb_next_match(t, k, n)
            IN Walk(tree, rb_find_first(tree, k), next)
                 = SelectSeq(seq, LAMBDA n : Key(n) = k)
=============================================================================
