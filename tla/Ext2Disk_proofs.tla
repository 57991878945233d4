-------------------------- MODULE Ext2Disk_proofs --------------------------
(***************************************************************************)
(* That the ext2 driver gives out no block and no inode that is in use,    *)
(* and refuses none while one is free, for every size of the disk and any  *)
(* number of calls and restarts; that a file reads back as it was written; *)
(* and that the block map gives back the block numbers that were set.      *)
(*                                                                         *)
(* Neither property of the bitmaps is inductive.  That a clear bit is not  *)
(* in use needs that everything in use is marked (Marked).  That the count *)
(* read again from the disk after a restart, where it was never updated,   *)
(* is large enough needs that in every group the clear bits and what is in *)
(* use are together no more than the bits that were clear after mkfs       *)
(* (Budget): each allocation moves one from the first to the second, each  *)
(* free one back, even if it clears the wrong bit.                         *)
(*                                                                         *)
(* That the map gives back what was set needs that the tables are a tree:  *)
(* there is a chart (Charted) of which block is the table at which place,  *)
(* in which no block is two tables, or a table and a data block, and all   *)
(* of them are marked.  A block that is taken was not marked, so it is     *)
(* none of the others; and as it has no entries, nothing appears below it. *)
(***************************************************************************)
EXTENDS Ext2Disk, FiniteSetTheorems, WellFoundedInduction, TLAPS

Tables == [0 .. P - 1 -> Int]
Bytes == [0 .. BLOCK - 1 -> Int]
Inodes == [blocks : [0 .. DIRECT + 2 -> Int], size : Nat]

\* The states of disk and memory.
States ==
  [bits : [Kinds -> [Groups -> SUBSET (0 .. BITS - 1)]], ptr : [Blocks -> Tables],
   data : [Blocks -> Bytes], slot : [0 .. NSlots - 1 -> Inodes],
   count : [Kinds -> [Groups -> Nat]], inode : Inodes,
   held : [Kinds -> SUBSET Blocks], twice : BOOLEAN, taint : SUBSET Flaws]

\* What is in use is marked.
Marked(s) ==
  "misfree" \notin s.taint =>
    /\ ~s.twice
    /\ \A kind \in Kinds : \A b \in s.held[kind] : b % BITS \in s.bits[kind][b \div BITS]

\* What is in use in group g.
HeldIn(s, kind, g) == {b \in s.held[kind] : b \div BITS = g}

\* No group has more clear bits and blocks in use than it had clear bits after mkfs.
Budget(s) ==
  "unheld" \notin s.taint =>
    \A kind \in Kinds, g \in Groups :
      /\ Cardinality(Clear(s, kind, g)) + Cardinality(HeldIn(s, kind, g)) <= Cardinality(FreshBits[g])
      /\ s.count[kind][g] >= Cardinality(Clear(s, kind, g))

\* What every operator below keeps.
Sound(s) == s \in States /\ Marked(s) /\ Budget(s)

-----------------------------------------------------------------------------
(* Numbers *)

\* Every non-empty set of naturals has a least element, which Min finds.
LEMMA LeastNat ==
  ASSUME NEW S \in SUBSET Nat, S # {}
  PROVE  Min(S) \in S /\ \A k \in S : Min(S) <= k
<1>1. PICK x \in S : \A y \in S : ~(<<y, x>> \in OpToRel(<, Nat))
  BY NatLessThanWellFounded, WFMin
<1>2. \A y \in S : ~(y < x)
  BY <1>1 DEF OpToRel
<1>3. \A y \in S : x <= y
  BY <1>2
<1>4. QED
  BY <1>3 DEF Min

\* Quotient and remainder.
LEMMA DivMod ==
  ASSUME NEW n \in Nat \ {0}, NEW b \in Nat
  PROVE  /\ b \div n \in Nat /\ b % n \in 0 .. n - 1 /\ b = (b \div n) * n + (b % n)
OBVIOUS

\* The group and the bit of a number.
LEMMA DivModUnique ==
  ASSUME NEW n \in Nat \ {0}, NEW g \in Nat, NEW k \in 0 .. n - 1
  PROVE  (g * n + k) \div n = g /\ (g * n + k) % n = k
OBVIOUS

\* The sizes are positive.
LEMMA Positive ==
  /\ BITS \in Nat \ {0} /\ BLOCK \in Nat \ {0} /\ NGroups \in Nat \ {0}
  /\ Groups = 0 .. NGroups - 1 /\ Groups \subseteq Nat /\ Blocks \subseteq Nat
BY Ext2Assumption DEF BITS, WORD, BLOCK, Groups, Blocks

\* Bits of groups are blocks, and blocks are bits of groups.
LEMMA BlockOf ==
  /\ \A g \in Groups, k \in 0 .. BITS - 1 : g * BITS + k \in Blocks
  /\ \A b \in Blocks : b \div BITS \in Groups /\ b % BITS \in 0 .. BITS - 1
<1>0. BITS \in Nat \ {0} /\ NGroups \in Nat \ {0}
  BY Positive
<1>1. ASSUME NEW g \in Groups, NEW k \in 0 .. BITS - 1
      PROVE  g * BITS + k \in Blocks
  <2>1. g \in Nat /\ g <= NGroups - 1
    BY <1>0 DEF Groups
  <2>2. g * BITS <= (NGroups - 1) * BITS /\ (NGroups - 1) * BITS = NGroups * BITS - BITS
    BY <1>0, <2>1
  <2>3. g * BITS \in Nat /\ NGroups * BITS \in Nat
    BY <1>0, <2>1
  <2>4. QED
    BY <1>0, <2>2, <2>3 DEF Blocks
<1>2. ASSUME NEW b \in Blocks
      PROVE  b \div BITS \in Groups /\ b % BITS \in 0 .. BITS - 1
  <2>1. b \in Nat /\ b < NGroups * BITS
    BY <1>0 DEF Blocks
  <2>2. /\ b \div BITS \in Nat /\ b % BITS \in 0 .. BITS - 1 /\ b = (b \div BITS) * BITS + (b % BITS)
    BY <1>0, <2>1, DivMod
  <2>3. b \div BITS < NGroups
    BY <1>0, <2>1, <2>2
  <2>4. QED
    BY <1>0, <2>2, <2>3 DEF Groups
<1>3. QED
  BY <1>1, <1>2

-----------------------------------------------------------------------------
(* Bitmaps and counts *)

\* The file's inode on the disk and the data are as before, and no flaw is forgotten.
SameFile(s, t) == t.data = s.data /\ t.slot[FILE - 1] = s.slot[FILE - 1] /\ s.taint \subseteq t.taint

\* Everything but bitmaps, counts and ghosts is as before.
SameData(s, t) ==
  t.ptr = s.ptr /\ t.data = s.data /\ t.slot = s.slot /\ t.inode = s.inode /\ s.taint \subseteq t.taint

\* The bitmaps, the counts and what is given out are as before.
SameBits(s, t) ==
  t.bits = s.bits /\ t.count = s.count /\ t.held = s.held /\ t.twice = s.twice /\ s.taint \subseteq t.taint

\* A step that leaves bitmaps and counts alone keeps what is said of them.
LEMMA SoundSame ==
  ASSUME NEW s, NEW t, Sound(s), t \in States, SameBits(s, t)
  PROVE  Sound(t)
<1>1. \A kind \in Kinds, g \in Groups : /\ Clear(t, kind, g) = Clear(s, kind, g)
                                        /\ HeldIn(t, kind, g) = HeldIn(s, kind, g)
  BY DEF SameBits, Clear, HeldIn
<1>2. Marked(t)
  BY DEF Sound, Marked, SameBits
<1>3. Budget(t)
  BY <1>1 DEF Sound, Budget, SameBits
<1>4. QED
  BY <1>2, <1>3 DEF Sound

\* One group's bitmap and count change, and what is given out of that kind.
Changed(s, t, kind, g) ==
  /\ t \in States /\ SameData(s, t) /\ s.taint \subseteq t.taint
  /\ \A kd \in Kinds, gr \in Groups :
       kd # kind \/ gr # g => t.bits[kd][gr] = s.bits[kd][gr] /\ t.count[kd][gr] = s.count[kd][gr]
  /\ \A kd \in Kinds : kd # kind => t.held[kd] = s.held[kd]

\* Block number b, of bit k of group g, is taken.
Took(s, t, kind, g, k, b) ==
  /\ Changed(s, t, kind, g)
  /\ t.bits[kind][g] = s.bits[kind][g] \cup {k}
  /\ t.count[kind][g] = s.count[kind][g] - 1
  /\ t.held[kind] = s.held[kind] \cup {b}
  /\ b \notin s.held[kind] => t.twice = s.twice

\* What TakeBit does: it marks a clear bit of a group whose count is not zero, or finds none.
LEMMA TakeBitEffect ==
  ASSUME NEW s \in States, NEW kind \in Kinds
  PROVE  \/ /\ TakeBit(s, kind).s = [s EXCEPT !.taint = @ \cup {"full"}]
            /\ TakeBit(s, kind).no = NONE
         \/ \E g \in Groups, k \in 0 .. BITS - 1 :
              /\ k \in Clear(s, kind, g) /\ s.count[kind][g] # 0
              /\ TakeBit(s, kind).no = g * BITS + k
              /\ Took(s, TakeBit(s, kind).s, kind, g, k, g * BITS + k)
<1> DEFINE able == {g \in Groups : s.count[kind][g] # 0 /\ Clear(s, kind, g) # {}}
           g == Min(able)
           k == Min(Clear(s, kind, g))
           no == g * BITS + k
<1>1. CASE able = {}
  BY <1>1 DEF TakeBit
<1>2. CASE able # {}
  <2>1. g \in able /\ g \in Groups
    <3>1. able \in SUBSET Nat
      BY Positive
    <3>2. QED
      BY <1>2, <3>1, LeastNat
  <2>2. k \in Clear(s, kind, g) /\ k \in 0 .. BITS - 1
    <3>1. Clear(s, kind, g) # {}
      BY <2>1
    <3>a. Clear(s, kind, g) \in SUBSET Nat
      BY Positive DEF Clear
    <3>2. k \in Clear(s, kind, g)
      BY <3>1, <3>a, LeastNat
    <3>3. QED
      BY <3>2 DEF Clear
  <2>3. no \in Blocks
    BY <2>1, <2>2, BlockOf
  <2> DEFINE was == no \in s.held[kind]
             u == [Mark(s, kind, g, k) EXCEPT !.held[kind] = @ \cup {no}, !.twice = @ \/ was]
  <2>4. TakeBit(s, kind) = [s |-> u, no |-> no]
    BY <1>2 DEF TakeBit
  <2>5. s.count[kind][g] # 0
    BY <2>1
  <2>6. was \in BOOLEAN /\ (no \notin s.held[kind] => ~was)
    OBVIOUS
  <2> HIDE DEF g, k, no, was
  <2>7. s.count[kind][g] - 1 \in Nat
    BY <2>1, <2>5 DEF States
  <2>8. Took(s, u, kind, g, k, no)
    <3> DEFINE B == [s.bits EXCEPT ![kind][g] = @ \cup {k}]
               C == [s.count EXCEPT ![kind][g] = @ - 1]
               H == [s.held EXCEPT ![kind] = @ \cup {no}]
               W == s.twice \/ was
    <3>a. B \in [Kinds -> [Groups -> SUBSET (0 .. BITS - 1)]]
      BY <2>1, <2>2 DEF States
    <3>b. C \in [Kinds -> [Groups -> Nat]]
      BY <2>1, <2>7 DEF States
    <3>c. H \in [Kinds -> SUBSET Blocks] /\ W \in BOOLEAN
      BY <2>3 DEF States
    <3>d. u = [s EXCEPT !.bits = B, !.count = C, !.held = H, !.twice = W]
      BY DEF Mark, States
    <3>1. u \in States
      <4> HIDE DEF B, C, H, W, u
      <4>1. QED
        BY <3>a, <3>b, <3>c, <3>d DEF States
    <3>2. SameData(s, u) /\ u.taint = s.taint
      BY <2>1 DEF Mark, States, SameData
    <3>3. \A kd \in Kinds, gr \in Groups :
            kd # kind \/ gr # g => u.bits[kd][gr] = s.bits[kd][gr] /\ u.count[kd][gr] = s.count[kd][gr]
      BY <2>1 DEF Mark, States
    <3>4. u.bits[kind][g] = s.bits[kind][g] \cup {k} /\ u.count[kind][g] = s.count[kind][g] - 1
      BY <2>1 DEF Mark, States
    <3>5. u.held[kind] = s.held[kind] \cup {no} /\ \A kd \in Kinds : kd # kind => u.held[kd] = s.held[kd]
      BY <2>1 DEF Mark, States
    <3>6. no \notin s.held[kind] => u.twice = s.twice
      BY <2>6 DEF Mark, States
    <3>7. QED
      BY <3>1, <3>2, <3>3, <3>4, <3>5, <3>6 DEF Took, Changed
  <2>9. QED
    BY <2>1, <2>2, <2>4, <2>5, <2>8 DEF no
<1>3. QED
  BY <1>1, <1>2

\* The sets that are counted are finite.
LEMMA Finite ==
  ASSUME NEW s \in States, NEW kind \in Kinds, NEW g \in Groups
  PROVE  /\ IsFiniteSet(Clear(s, kind, g)) /\ IsFiniteSet(HeldIn(s, kind, g)) /\ IsFiniteSet(FreshBits[g])
         /\ Cardinality(Clear(s, kind, g)) \in Nat /\ Cardinality(HeldIn(s, kind, g)) \in Nat
         /\ Cardinality(FreshBits[g]) \in Nat
<1>1. IsFiniteSet(0 .. BITS - 1) /\ IsFiniteSet(Blocks)
  BY Positive, FS_Interval DEF Blocks
<1>2. Clear(s, kind, g) \subseteq 0 .. BITS - 1 /\ HeldIn(s, kind, g) \subseteq Blocks
  BY DEF Clear, HeldIn, States
<1>3. FreshBits[g] \subseteq 0 .. BITS - 1
  BY Ext2Assumption
<1>4. IsFiniteSet(Clear(s, kind, g)) /\ IsFiniteSet(HeldIn(s, kind, g)) /\ IsFiniteSet(FreshBits[g])
  BY <1>1, <1>2, <1>3, FS_Subset
<1>5. QED
  BY <1>4, FS_CardinalityType

\* The bits that are clear after mkfs can be counted.
LEMMA FreshCount == \A g \in Groups : Cardinality(FreshBits[g]) \in Nat
<1>1. \A g \in Groups : FreshBits[g] \subseteq 0 .. BITS - 1
  BY Ext2Assumption
<1>2. IsFiniteSet(0 .. BITS - 1)
  BY Positive, FS_Interval
<1>3. QED
  BY <1>1, <1>2, FS_Subset, FS_CardinalityType

\* Adding an element to a set and taking one away.
LEMMA CountOne ==
  ASSUME NEW S, NEW x, IsFiniteSet(S)
  PROVE  /\ \A T : T \subseteq S \cup {x} =>
              IsFiniteSet(T) /\ Cardinality(T) \in Nat /\ Cardinality(T) <= Cardinality(S) + 1
         /\ x \in S => Cardinality(S \ {x}) = Cardinality(S) - 1
<1>1. /\ IsFiniteSet(S \cup {x}) /\ Cardinality(S \cup {x}) <= Cardinality(S) + 1
      /\ Cardinality(S) \in Nat /\ Cardinality(S \cup {x}) \in Nat
  BY FS_AddElement, FS_CardinalityType
<1>2. ASSUME NEW T, T \subseteq S \cup {x}
      PROVE  IsFiniteSet(T) /\ Cardinality(T) \in Nat /\ Cardinality(T) <= Cardinality(S) + 1
  BY <1>1, <1>2, FS_Subset, FS_CardinalityType
<1>3. x \in S => Cardinality(S \ {x}) = Cardinality(S) - 1
  BY FS_RemoveElement
<1>4. QED
  BY <1>2, <1>3

\* Taking a clear bit is sound: it is not in use, and moves from the clear ones to those in use.
LEMMA TookSound ==
  ASSUME NEW s, NEW t, Sound(s), NEW kind \in Kinds, NEW g \in Groups, NEW k \in Clear(s, kind, g),
         s.count[kind][g] # 0, Took(s, t, kind, g, k, g * BITS + k)
  PROVE  Sound(t)
<1> DEFINE no == g * BITS + k
<1>0. s \in States /\ t \in States /\ Changed(s, t, kind, g) /\ s.taint \subseteq t.taint
  BY DEF Sound, Took, Changed
<1>1. k \in 0 .. BITS - 1 /\ no \div BITS = g /\ no % BITS = k
  <2>1. k \in 0 .. BITS - 1 /\ g \in Nat
    BY Positive DEF Clear
  <2>2. QED
    BY <2>1, Positive, DivModUnique
<1>2. /\ t.bits[kind][g] = s.bits[kind][g] \cup {k}
      /\ t.count[kind][g] = s.count[kind][g] - 1
      /\ t.held[kind] = s.held[kind] \cup {no}
      /\ no \notin s.held[kind] => t.twice = s.twice
  BY DEF Took
<1>3. \A kd \in Kinds, gr \in Groups :
        kd # kind \/ gr # g => t.bits[kd][gr] = s.bits[kd][gr] /\ t.count[kd][gr] = s.count[kd][gr]
  BY <1>0 DEF Changed
<1>4. \A kd \in Kinds : kd # kind => t.held[kd] = s.held[kd]
  BY <1>0 DEF Changed
<1> HIDE DEF no
<1>5. Marked(t)
  <2> SUFFICES ASSUME "misfree" \notin s.taint
               PROVE  /\ ~t.twice
                      /\ \A kd \in Kinds : \A b \in t.held[kd] : b % BITS \in t.bits[kd][b \div BITS]
    BY <1>0 DEF Marked
  <2>1. ~s.twice /\ \A kd \in Kinds : \A b \in s.held[kd] : b % BITS \in s.bits[kd][b \div BITS]
    BY DEF Sound, Marked
  <2>2. no \notin s.held[kind]
    BY <1>1, <2>1 DEF Clear
  <2>3. ASSUME NEW kd \in Kinds, NEW b \in t.held[kd]
        PROVE  b % BITS \in t.bits[kd][b \div BITS]
    <3>1. CASE kd = kind /\ b = no
      BY <1>1, <1>2, <3>1
    <3>2. CASE b \in s.held[kd]
      <4>1. b % BITS \in s.bits[kd][b \div BITS] /\ b \div BITS \in Groups
        BY <1>0, <2>1, <3>2, BlockOf DEF States
      <4>2. QED
        BY <1>2, <1>3, <4>1
    <3>3. QED
      BY <1>2, <1>4, <3>1, <3>2
  <2>4. QED
    BY <1>2, <2>1, <2>2, <2>3
<1>6. Budget(t)
  <2> SUFFICES ASSUME "unheld" \notin s.taint, NEW kd \in Kinds, NEW gr \in Groups
               PROVE  /\ Cardinality(Clear(t, kd, gr)) + Cardinality(HeldIn(t, kd, gr))
                           <= Cardinality(FreshBits[gr])
                      /\ t.count[kd][gr] >= Cardinality(Clear(t, kd, gr))
    BY <1>0 DEF Budget
  <2>1. /\ Cardinality(Clear(s, kd, gr)) + Cardinality(HeldIn(s, kd, gr)) <= Cardinality(FreshBits[gr])
        /\ s.count[kd][gr] >= Cardinality(Clear(s, kd, gr))
    BY DEF Sound, Budget
  <2>2. CASE kd # kind \/ gr # g
    <3>1. t.bits[kd][gr] = s.bits[kd][gr] /\ t.count[kd][gr] = s.count[kd][gr]
      BY <1>3, <2>2
    <3>2. HeldIn(t, kd, gr) = HeldIn(s, kd, gr)
      BY <1>1, <1>2, <1>4, <2>2 DEF HeldIn
    <3>3. Clear(t, kd, gr) = Clear(s, kd, gr)
      BY <3>1 DEF Clear
    <3>4. QED
      BY <2>1, <3>1, <3>2, <3>3
  <2>3. CASE kd = kind /\ gr = g
    <3>1. Clear(t, kind, g) = Clear(s, kind, g) \ {k}
      BY <1>2 DEF Clear
    <3>2. HeldIn(t, kind, g) \subseteq HeldIn(s, kind, g) \cup {no}
      BY <1>2 DEF HeldIn
    <3>3. /\ IsFiniteSet(Clear(s, kind, g)) /\ IsFiniteSet(HeldIn(s, kind, g))
          /\ Cardinality(Clear(s, kind, g)) \in Nat /\ Cardinality(HeldIn(s, kind, g)) \in Nat
          /\ Cardinality(FreshBits[g]) \in Nat
      BY <1>0, Finite
    <3>4. Cardinality(Clear(t, kind, g)) = Cardinality(Clear(s, kind, g)) - 1
      BY <3>1, <3>3, CountOne
    <3>5. Cardinality(HeldIn(t, kind, g)) \in Nat /\ Cardinality(HeldIn(t, kind, g)) <= Cardinality(HeldIn(s, kind, g)) + 1
      BY <3>2, <3>3, CountOne
    <3>6. s.count[kind][g] \in Nat
      BY <1>0 DEF States
    <3>7. QED
      BY <1>2, <2>1, <2>3, <3>3, <3>4, <3>5, <3>6
  <2>4. QED
    BY <2>2, <2>3
<1>7. QED
  BY <1>0, <1>5, <1>6 DEF Sound

\* ext2_alloc_block and alloc_inode are sound.
LEMMA TakeBitSound ==
  ASSUME NEW s, Sound(s), NEW kind \in Kinds
  PROVE  /\ Sound(TakeBit(s, kind).s) /\ SameData(s, TakeBit(s, kind).s)
         /\ TakeBit(s, kind).no \in Int
<1>0. s \in States
  BY DEF Sound
<1>1. CASE /\ TakeBit(s, kind).s = [s EXCEPT !.taint = @ \cup {"full"}]
           /\ TakeBit(s, kind).no = NONE
  <2>1. s.taint \cup {"full"} \in SUBSET Flaws
    BY <1>0 DEF States, Flaws
  <2>2. /\ TakeBit(s, kind).s \in States /\ SameBits(s, TakeBit(s, kind).s)
        /\ SameData(s, TakeBit(s, kind).s)
    BY <1>0, <1>1, <2>1 DEF States, SameBits, SameData
  <2>3. QED
    BY <1>1, <2>2, SoundSame DEF NONE
<1>2. CASE \E g \in Groups, k \in 0 .. BITS - 1 :
             /\ k \in Clear(s, kind, g) /\ s.count[kind][g] # 0
             /\ TakeBit(s, kind).no = g * BITS + k
             /\ Took(s, TakeBit(s, kind).s, kind, g, k, g * BITS + k)
  <2>1. PICK g \in Groups, k \in 0 .. BITS - 1 :
             /\ k \in Clear(s, kind, g) /\ s.count[kind][g] # 0
             /\ TakeBit(s, kind).no = g * BITS + k
             /\ Took(s, TakeBit(s, kind).s, kind, g, k, g * BITS + k)
    BY <1>2
  <2>2. Sound(TakeBit(s, kind).s)
    BY <2>1, TookSound
  <2>3. SameData(s, TakeBit(s, kind).s)
    BY <2>1 DEF Took, Changed
  <2>4. g * BITS + k \in Int
    BY Positive
  <2>5. QED
    BY <2>1, <2>2, <2>3, <2>4
<1>3. QED
  BY <1>0, <1>1, <1>2, TakeBitEffect

\* Block b is freed, and bit k of its group cleared.
Returned(s, t, kind, b, k) ==
  /\ Changed(s, t, kind, b \div BITS)
  /\ t.bits[kind][b \div BITS] = s.bits[kind][b \div BITS] \ {k}
  /\ t.count[kind][b \div BITS] = s.count[kind][b \div BITS] + 1
  /\ t.held[kind] = s.held[kind] \ {b}
  /\ t.twice = s.twice
  /\ "misfree" \notin t.taint => k = b % BITS
  /\ "unheld" \notin t.taint => b \in s.held[kind]

\* What FreeBit does.
LEMMA FreeBitEffect ==
  ASSUME NEW s \in States, NEW kind \in Kinds, NEW b \in Blocks
  PROVE  \E k : Returned(s, FreeBit(s, kind, b), kind, b, k)
<1> DEFINE g == b \div BITS
           k == FreedBit(b % BITS)
           known == (IF k = b % BITS THEN {} ELSE {"misfree"})
                      \cup (IF b \in s.held[kind] THEN {} ELSE {"unheld"})
           B == [s.bits EXCEPT ![kind][g] = @ \ {k}]
           C == [s.count EXCEPT ![kind][g] = @ + 1]
           H == [s.held EXCEPT ![kind] = @ \ {b}]
           T == s.taint \cup known
           t == FreeBit(s, kind, b)
<1>1. /\ known \subseteq Flaws
      /\ "misfree" \notin known => k = b % BITS
      /\ "unheld" \notin known => b \in s.held[kind]
  BY DEF Flaws
<1>2. t = [s EXCEPT !.bits = B, !.count = C, !.held = H, !.taint = T]
  BY DEF FreeBit, States
<1>3. g \in Groups
  BY BlockOf
<1> HIDE DEF g, k, known
<1>4. B \in [Kinds -> [Groups -> SUBSET (0 .. BITS - 1)]]
  BY <1>3 DEF States
<1>5. C \in [Kinds -> [Groups -> Nat]]
  <2>1. s.count[kind][g] + 1 \in Nat
    BY <1>3 DEF States
  <2>2. QED
    BY <1>3, <2>1 DEF States
<1>6. H \in [Kinds -> SUBSET Blocks] /\ T \in SUBSET Flaws
  BY <1>1 DEF States
<1>7. /\ B[kind][g] = s.bits[kind][g] \ {k} /\ C[kind][g] = s.count[kind][g] + 1
      /\ H[kind] = s.held[kind] \ {b}
      /\ \A kd \in Kinds : kd # kind => H[kd] = s.held[kd]
      /\ \A kd \in Kinds, gr \in Groups :
           kd # kind \/ gr # g => B[kd][gr] = s.bits[kd][gr] /\ C[kd][gr] = s.count[kd][gr]
  BY <1>3 DEF States
<1>8. s.taint \subseteq T /\ known \subseteq T
  OBVIOUS
<1> HIDE DEF B, C, H, T, t
<1>9. /\ t \in States /\ t.bits = B /\ t.count = C /\ t.held = H /\ t.taint = T /\ t.twice = s.twice
      /\ SameData(s, t)
  BY <1>2, <1>4, <1>5, <1>6, <1>8 DEF States, SameData
<1>10. Changed(s, t, kind, g)
  BY <1>7, <1>8, <1>9 DEF Changed
<1>11. Returned(s, t, kind, b, k)
  BY <1>1, <1>7, <1>8, <1>9, <1>10 DEF Returned, g
<1>12. QED
  BY <1>11 DEF t

\* Freeing is sound: what stays in use stays marked unless the wrong bit is cleared, and at most
\* one bit becomes clear for the one that is no longer in use.
LEMMA ReturnedSound ==
  ASSUME NEW s, NEW t, Sound(s), NEW kind \in Kinds, NEW b \in Blocks, NEW k, Returned(s, t, kind, b, k)
  PROVE  Sound(t)
<1> DEFINE g == b \div BITS
<1>0. /\ s \in States /\ t \in States /\ Changed(s, t, kind, g) /\ s.taint \subseteq t.taint
      /\ g \in Groups
  BY BlockOf DEF Sound, Returned, Changed
<1>1. /\ t.bits[kind][g] = s.bits[kind][g] \ {k}
      /\ t.count[kind][g] = s.count[kind][g] + 1
      /\ t.held[kind] = s.held[kind] \ {b}
      /\ t.twice = s.twice
      /\ "misfree" \notin t.taint => k = b % BITS
      /\ "unheld" \notin t.taint => b \in s.held[kind]
  BY DEF Returned
<1>2. \A kd \in Kinds, gr \in Groups :
        kd # kind \/ gr # g => t.bits[kd][gr] = s.bits[kd][gr] /\ t.count[kd][gr] = s.count[kd][gr]
  BY <1>0 DEF Changed
<1>3. \A kd \in Kinds : kd # kind => t.held[kd] = s.held[kd]
  BY <1>0 DEF Changed
<1>4. Marked(t)
  <2> SUFFICES ASSUME "misfree" \notin t.taint
               PROVE  /\ ~t.twice
                      /\ \A kd \in Kinds : \A a \in t.held[kd] : a % BITS \in t.bits[kd][a \div BITS]
    BY DEF Marked
  <2>1. ~s.twice /\ \A kd \in Kinds : \A a \in s.held[kd] : a % BITS \in s.bits[kd][a \div BITS]
    BY <1>0 DEF Sound, Marked
  <2>2. ASSUME NEW kd \in Kinds, NEW a \in t.held[kd]
        PROVE  a % BITS \in t.bits[kd][a \div BITS]
    <3>1. a \in s.held[kd] /\ a \in Blocks /\ (kd = kind => a # b)
      BY <1>0, <1>1, <1>3 DEF States
    <3>2. a % BITS \in s.bits[kd][a \div BITS] /\ a \div BITS \in Groups
      BY <2>1, <3>1, BlockOf
    <3>3. CASE kd = kind /\ a \div BITS = g
      <4>1. /\ a = (a \div BITS) * BITS + (a % BITS)
            /\ b = (b \div BITS) * BITS + (b % BITS)
        BY <3>1, DivMod, Positive
      <4>2. a % BITS # b % BITS
        BY <3>1, <3>3, <4>1
      <4>3. QED
        BY <1>1, <3>2, <3>3, <4>2
    <3>4. CASE kd # kind \/ a \div BITS # g
      BY <1>2, <3>2, <3>4
    <3>5. QED
      BY <3>3, <3>4
  <2>3. QED
    BY <1>1, <2>1, <2>2
<1> HIDE DEF g
<1>5. Budget(t)
  <2> SUFFICES ASSUME "unheld" \notin t.taint, NEW kd \in Kinds, NEW gr \in Groups
               PROVE  /\ Cardinality(Clear(t, kd, gr)) + Cardinality(HeldIn(t, kd, gr))
                           <= Cardinality(FreshBits[gr])
                      /\ t.count[kd][gr] >= Cardinality(Clear(t, kd, gr))
    BY DEF Budget
  <2>1. /\ Cardinality(Clear(s, kd, gr)) + Cardinality(HeldIn(s, kd, gr)) <= Cardinality(FreshBits[gr])
        /\ s.count[kd][gr] >= Cardinality(Clear(s, kd, gr))
    BY <1>0 DEF Sound, Budget
  <2>2. CASE kd # kind \/ gr # g
    <3>1. t.bits[kd][gr] = s.bits[kd][gr] /\ t.count[kd][gr] = s.count[kd][gr]
      BY <1>2, <2>2
    <3>2. HeldIn(t, kd, gr) = HeldIn(s, kd, gr)
      BY <1>1, <1>3, <2>2 DEF HeldIn, g
    <3>3. Clear(t, kd, gr) = Clear(s, kd, gr)
      BY <3>1 DEF Clear
    <3>4. QED
      BY <2>1, <3>1, <3>2, <3>3
  <2>3. CASE kd = kind /\ gr = g
    <3>1. Clear(t, kind, g) \subseteq Clear(s, kind, g) \cup {k}
      BY <1>1 DEF Clear
    <3>2. HeldIn(t, kind, g) = HeldIn(s, kind, g) \ {b} /\ b \in HeldIn(s, kind, g)
      BY <1>1 DEF HeldIn, g
    <3>3. /\ IsFiniteSet(Clear(s, kind, g)) /\ IsFiniteSet(HeldIn(s, kind, g))
          /\ Cardinality(Clear(s, kind, g)) \in Nat /\ Cardinality(HeldIn(s, kind, g)) \in Nat
          /\ Cardinality(FreshBits[g]) \in Nat
      BY <1>0, Finite
    <3>4. /\ Cardinality(Clear(t, kind, g)) \in Nat
          /\ Cardinality(Clear(t, kind, g)) <= Cardinality(Clear(s, kind, g)) + 1
      BY <3>1, <3>3, CountOne
    <3>5. Cardinality(HeldIn(t, kind, g)) = Cardinality(HeldIn(s, kind, g)) - 1
      BY <3>2, <3>3, CountOne
    <3>6. s.count[kind][g] \in Nat
      BY <1>0 DEF States
    <3>7. QED
      BY <1>1, <2>1, <2>3, <3>3, <3>4, <3>5, <3>6
  <2>4. QED
    BY <2>2, <2>3
<1>6. QED
  BY <1>0, <1>4, <1>5 DEF Sound

\* ext2_free_block and free_inode are sound.
LEMMA FreeBitSound ==
  ASSUME NEW s, Sound(s), NEW kind \in Kinds, NEW b \in Blocks
  PROVE  Sound(FreeBit(s, kind, b)) /\ SameData(s, FreeBit(s, kind, b))
<1> DEFINE t == FreeBit(s, kind, b)
<1>1. PICK k : Returned(s, t, kind, b, k)
  BY FreeBitEffect DEF Sound
<1> HIDE DEF t
<1>2. Sound(t)
  BY <1>1, ReturnedSound
<1>3. SameData(s, t)
  BY <1>1, Zenon DEF Returned, Changed
<1>4. QED
  BY <1>2, <1>3 DEF t

-----------------------------------------------------------------------------
(* The inode table and the block map *)

\* The step from s to t is sound and leaves the file on the disk as it was.
Kept(s, t) == Sound(t) /\ SameFile(s, t)

\* Steps follow one another.
LEMMA KeptTwice ==
  ASSUME NEW s, NEW t, NEW u, Kept(s, t), Kept(t, u)
  PROVE  Kept(s, u)
BY DEF Kept, SameFile

\* A block for a table is taken.
LEMMA NewTableKept ==
  ASSUME NEW s, Sound(s)
  PROVE  Kept(s, NewTable(s).s) /\ NewTable(s).no \in Int
<1> DEFINE t == ext2_alloc_block(s)
           u == [t.s EXCEPT !.taint = @ \cup {"stale"}]
<1>0. "block" \in Kinds
  BY DEF Kinds
<1>1. Sound(t.s) /\ SameData(s, t.s) /\ t.no \in Int
  BY <1>0, TakeBitSound DEF ext2_alloc_block
<1>a. \A x, no : [s |-> x, no |-> no].s = x /\ [s |-> x, no |-> no].no = no
  OBVIOUS
<1>2. t = [s |-> t.s, no |-> t.no]
  <2>1. PICK x, no : t = [s |-> x, no |-> no]
    <3>1. t = TakeBit(s, "block")
      BY DEF ext2_alloc_block
    <3>2. QED
      BY <3>1 DEF TakeBit
  <2>2. QED
    BY <2>1
<1> HIDE DEF t
<1>3. Sound(u) /\ SameData(t.s, u)
  <2>1. u \in States /\ SameBits(t.s, u) /\ SameData(t.s, u)
    <3>1. t.s.taint \cup {"stale"} \in SUBSET Flaws /\ t.s \in States
      BY <1>1 DEF Sound, States, Flaws
    <3>2. QED
      BY <3>1 DEF States, SameBits, SameData
  <2>2. QED
    BY <1>1, <2>1, SoundSame
<1>4. NewTable(s) = t \/ NewTable(s) = [s |-> u, no |-> t.no]
  <2>1. NewTable(s) = t \/ NewTable(s) = [t EXCEPT !.s.taint = @ \cup {"stale"}]
    BY DEF NewTable, t
  <2>2. [t EXCEPT !.s.taint = @ \cup {"stale"}] = [s |-> u, no |-> t.no]
    BY <1>2
  <2>3. QED
    BY <2>1, <2>2
<1>5. Kept(s, t.s) /\ Kept(s, u)
  BY <1>1, <1>3 DEF Kept, SameData, SameFile
<1> HIDE DEF u
<1>6. CASE NewTable(s) = t
  BY <1>1, <1>5, <1>6
<1>7. CASE NewTable(s) = [s |-> u, no |-> t.no]
  BY <1>1, <1>5, <1>7
<1>8. QED
  BY <1>4, <1>6, <1>7

\* The write of the inode to the slot behind its own.
LEMMA WriteInodeKept ==
  ASSUME NEW s, Sound(s)
  PROVE  Kept(s, write_inode_metadata(s, FILE))
<1>0. s \in States
  BY DEF Sound
<1>1. CASE write_inode_metadata(s, FILE) = s
  BY <1>1 DEF Kept, SameFile
<1>2. CASE write_inode_metadata(s, FILE) = [s EXCEPT !.slot[FILE] = s.inode]
  <2> DEFINE S == [s.slot EXCEPT ![FILE] = s.inode]
             u == [s EXCEPT !.slot = S]
  <2>1. S \in [0 .. NSlots - 1 -> Inodes]
    BY <1>0 DEF States
  <2>2. S[FILE - 1] = s.slot[FILE - 1]
    BY <1>0, Ext2Assumption DEF FILE, States
  <2>3. write_inode_metadata(s, FILE) = u
    BY <1>2
  <2> HIDE DEF S
  <2>4. u \in States /\ SameBits(s, u) /\ u.data = s.data /\ u.slot = S
    BY <1>0, <2>1 DEF States, SameBits
  <2>5. QED
    BY <2>2, <2>3, <2>4, SoundSame DEF Kept, SameFile, SameBits
<1>3. QED
  BY <1>1, <1>2 DEF write_inode_metadata

\* A change of the inode in memory.
LEMMA InodeKept ==
  ASSUME NEW s, Sound(s), NEW i \in Inodes
  PROVE  Kept(s, [s EXCEPT !.inode = i])
<1> DEFINE u == [s EXCEPT !.inode = i]
<1>1. u \in States /\ SameBits(s, u) /\ u.data = s.data /\ u.slot = s.slot
  BY DEF Sound, States, SameBits
<1>2. QED
  BY <1>1, SoundSame DEF Kept, SameFile, SameBits

\* A change of one entry of the inode in memory.
LEMMA EntryKept ==
  ASSUME NEW s, Sound(s), NEW e, NEW d \in Int
  PROVE  Kept(s, [s EXCEPT !.inode.blocks[e] = d])
<1> DEFINE m == [s.inode.blocks EXCEPT ![e] = d]
           i == [s.inode EXCEPT !.blocks = m]
<1>1. s.inode \in Inodes
  BY DEF Sound, States
<1>2. m \in [0 .. DIRECT + 2 -> Int]
  BY <1>1 DEF Inodes
<1>3. [s EXCEPT !.inode.blocks[e] = d] = [s EXCEPT !.inode = i]
  OBVIOUS
<1> HIDE DEF m
<1>4. i \in Inodes
  BY <1>1, <1>2 DEF Inodes
<1>5. QED
  BY <1>3, <1>4, InodeKept

\* A change of one entry of a table.
LEMMA TableKept ==
  ASSUME NEW s, Sound(s), NEW b \in Blocks, NEW k, NEW d \in Int
  PROVE  Kept(s, [s EXCEPT !.ptr[b][k] = d])
<1> DEFINE r == [s.ptr[b] EXCEPT ![k] = d]
           t == [s.ptr EXCEPT ![b] = r]
           u == [s EXCEPT !.ptr = t]
<1>0. s \in States /\ s.ptr[b] \in Tables
  BY DEF Sound, States
<1>1. r \in Tables
  BY <1>0 DEF Tables
<1>2. t \in [Blocks -> Tables]
  BY <1>0, <1>1 DEF States
<1>3. [s EXCEPT !.ptr[b][k] = d] = u
  OBVIOUS
<1> HIDE DEF t
<1>4. u \in States /\ SameBits(s, u) /\ u.data = s.data /\ u.slot = s.slot
  BY <1>0, <1>2 DEF States, SameBits
<1>5. QED
  BY <1>3, <1>4, SoundSame DEF Kept, SameFile, SameBits

\* alloc_inode_metadata_block on an entry of the inode.
LEMMA InodeTableKept ==
  ASSUME NEW s, Sound(s), NEW e
  PROVE  Kept(s, InodeTable(s, FILE, e))
<1>1. CASE s.inode.blocks[e] # 0
  BY <1>1 DEF InodeTable, Kept, SameFile
<1>2. CASE s.inode.blocks[e] = 0
  <2> DEFINE t == NewTable(s)
             u == [t.s EXCEPT !.inode.blocks[e] = t.no]
  <2>1. Kept(s, t.s) /\ t.no \in Int
    BY NewTableKept
  <2>2. InodeTable(s, FILE, e) = write_inode_metadata(u, FILE)
    BY <1>2 DEF InodeTable
  <2> HIDE DEF t
  <2>3. Kept(t.s, u)
    BY <2>1, EntryKept DEF Kept
  <2> HIDE DEF u
  <2>4. Kept(u, write_inode_metadata(u, FILE))
    BY <2>3, WriteInodeKept DEF Kept
  <2>5. QED
    BY <2>1, <2>2, <2>3, <2>4, KeptTwice
<1>3. QED
  BY <1>1, <1>2

\* The same on an entry of a block.
LEMMA SubTableKept ==
  ASSUME NEW s, Sound(s), NEW b, NEW k
  PROVE  Kept(s, SubTable(s, b, k))
<1> DEFINE t == NewTable(s)
           u == [t.s EXCEPT !.ptr[b][k] = t.no]
<1>1. Kept(s, t.s) /\ t.no \in Int
  BY NewTableKept
<1>2. \/ SubTable(s, b, k) = s
      \/ SubTable(s, b, k) = t.s
      \/ b \in Blocks /\ SubTable(s, b, k) = u
  BY DEF SubTable
<1> HIDE DEF t
<1>3. CASE SubTable(s, b, k) = s
  BY <1>3 DEF Kept, SameFile
<1>4. CASE SubTable(s, b, k) = t.s
  BY <1>1, <1>4
<1>5. CASE b \in Blocks /\ SubTable(s, b, k) = u
  <2>1. Kept(t.s, u)
    BY <1>1, <1>5, TableKept DEF Kept
  <2>2. QED
    BY <1>1, <1>5, <2>1, KeptTwice
<1>6. QED
  BY <1>2, <1>3, <1>4, <1>5

\* The last table gets the number.
LEMMA SetEntryKept ==
  ASSUME NEW s, Sound(s), NEW b, NEW k, NEW d \in Int
  PROVE  Kept(s, SetEntry(s, b, k, d))
<1>1. CASE SetEntry(s, b, k, d) = s
  BY <1>1 DEF Kept, SameFile
<1>2. CASE b \in Blocks /\ SetEntry(s, b, k, d) = [s EXCEPT !.ptr[b][k] = d]
  BY <1>2, TableKept
<1>3. QED
  BY <1>1, <1>2 DEF SetEntry

\* A flaw is noted.
LEMMA TaintKept ==
  ASSUME NEW s, Sound(s), NEW known \in SUBSET Flaws
  PROVE  Kept(s, [s EXCEPT !.taint = @ \cup known])
<1> DEFINE u == [s EXCEPT !.taint = @ \cup known]
<1>1. u \in States /\ SameBits(s, u) /\ u.data = s.data /\ u.slot = s.slot
  <2>1. s \in States /\ s.taint \cup known \in SUBSET Flaws
    BY DEF Sound, States
  <2>2. QED
    BY <2>1 DEF States, SameBits
<1> HIDE DEF u
<1>2. Kept(s, u)
  BY <1>1, SoundSame DEF Kept, SameFile, SameBits
<1>3. QED
  BY <1>2 DEF u

\* set_disk_block_number, whatever level the number is on.
LEMMA SetBlockKept ==
  ASSUME NEW s, Sound(s), NEW i, NEW d \in Int
  PROVE  Kept(s, set_disk_block_number(s, FILE, i, d))
<1> DEFINE a == i - DIRECT
           b == a - P
           c == b - P * P
           at == IF Boundary(i) THEN [s EXCEPT !.taint = @ \cup {"boundary"}] ELSE s
           one == InodeTable(at, FILE, DIRECT)
           two == InodeTable(at, FILE, DIRECT + 1)
           twoB == two.inode.blocks[DIRECT + 1]
           twoS == SubTable(two, twoB, b \div P)
           three == InodeTable(at, FILE, DIRECT + 2)
           threeB == three.inode.blocks[DIRECT + 2]
           threeS == SubTable(three, threeB, Hi(c))
           midB == Table(threeS, threeB)[Hi(c)]
           threeT == SubTable(threeS, midB, Mid(c))
           u1 == [at EXCEPT !.inode.blocks[i] = d]
           u2 == SetEntry(one, one.inode.blocks[DIRECT], a, d)
           u3 == SetEntry(twoS, Table(twoS, twoB)[b \div P], Lo(b), d)
           u4 == SetEntry(threeT, Table(threeT, midB)[Mid(c)], Lo(c), d)
<1>1. set_disk_block_number(s, FILE, i, d) \in {u1, u2, u3, u4, at}
  BY DEF set_disk_block_number
<1>2. Kept(s, at)
  <2>1. {"boundary"} \in SUBSET Flaws /\ Kept(s, s)
    BY DEF Flaws, Kept, SameFile
  <2>2. QED
    BY <2>1, TaintKept
<1> HIDE DEF a, b, c, at
<1>3. Kept(s, one) /\ Kept(s, two) /\ Kept(s, three)
  BY <1>2, InodeTableKept, KeptTwice DEF Kept
<1> HIDE DEF one, two, three
<1>4. Kept(s, twoS) /\ Kept(s, threeS)
  BY <1>3, SubTableKept, KeptTwice DEF Kept
<1> HIDE DEF twoS, threeS
<1>5. Kept(s, threeT)
  BY <1>4, SubTableKept, KeptTwice DEF Kept
<1> HIDE DEF threeT
<1>6. Kept(s, u1)
  <2>1. Kept(at, u1)
    BY <1>2, EntryKept DEF Kept
  <2>2. QED
    BY <1>2, <2>1, KeptTwice
<1>7. Kept(s, u2)
  BY <1>3, SetEntryKept, KeptTwice DEF Kept
<1>8. Kept(s, u3)
  BY <1>4, SetEntryKept, KeptTwice DEF Kept
<1>9. Kept(s, u4)
  BY <1>5, SetEntryKept, KeptTwice DEF Kept
<1> HIDE DEF u1, u2, u3, u4
<1>10. QED
  BY <1>1, <1>2, <1>6, <1>7, <1>8, <1>9

\* A block is taken and put into the map.
LEMMA AllocBlockKept ==
  ASSUME NEW s, Sound(s), NEW i
  PROVE  Kept(s, alloc_inode_block(s, FILE, i))
<1> DEFINE t == ext2_alloc_block(s)
           u == set_disk_block_number(t.s, FILE, i, t.no)
<1>1. Kept(s, t.s) /\ t.no \in Int
  <2>1. "block" \in Kinds
    BY DEF Kinds
  <2>2. QED
    BY <2>1, TakeBitSound DEF ext2_alloc_block, Kept, SameData, SameFile
<1>2. alloc_inode_block(s, FILE, i) = write_inode_metadata(u, FILE)
  BY DEF alloc_inode_block
<1> HIDE DEF t
<1>3. Kept(s, u)
  <2>1. Kept(t.s, u)
    BY <1>1, SetBlockKept DEF Kept
  <2>2. QED
    BY <1>1, <2>1, KeptTwice
<1> HIDE DEF u
<1>4. Kept(u, write_inode_metadata(u, FILE))
  BY <1>3, WriteInodeKept DEF Kept
<1>5. QED
  BY <1>2, <1>3, <1>4, KeptTwice

\* A block is freed and an entry of the map cleared.
LEMMA FreeBlockKept ==
  ASSUME NEW s, Sound(s), NEW i, get_disk_block_number(s, i) \in Blocks
  PROVE  Kept(s, free_inode_block(s, FILE, i))
<1> DEFINE d == get_disk_block_number(s, i)
           t == ext2_free_block(s, d)
           u == set_disk_block_number(t, FILE, d, 0)
<1>1. Kept(s, t)
  <2>1. "block" \in Kinds
    BY DEF Kinds
  <2>2. QED
    BY <2>1, FreeBitSound DEF ext2_free_block, Kept, SameData, SameFile
<1>2. free_inode_block(s, FILE, i) = write_inode_metadata(u, FILE)
  BY DEF free_inode_block
<1> HIDE DEF d, t
<1>3. Kept(s, u)
  <2>1. Kept(t, u)
    <3>1. 0 \in Int /\ Sound(t)
      BY <1>1 DEF Kept
    <3>2. QED
      BY <3>1, SetBlockKept
  <2>2. QED
    BY <1>1, <2>1, KeptTwice
<1> HIDE DEF u
<1>4. Kept(u, write_inode_metadata(u, FILE))
  BY <1>3, WriteInodeKept DEF Kept
<1>5. QED
  BY <1>2, <1>3, <1>4, KeptTwice

-----------------------------------------------------------------------------
(* The data of a file *)

\* The two blocks of the file are on the disk.
LEMMA FileBlocks ==
  /\ {FirstBlock, FirstBlock + 1} \subseteq Blocks /\ FirstBlock \in Nat
  /\ \A j \in 0 .. 1 : FirstBlock + j \in Blocks
<1>1. FirstBlock \in 0 .. BITS - 1 /\ FirstBlock + 1 \in 0 .. BITS - 1 /\ 0 \in Groups
  BY Ext2Assumption, Positive
<1>2. 0 * BITS + FirstBlock \in Blocks /\ 0 * BITS + (FirstBlock + 1) \in Blocks
  BY <1>1, BlockOf
<1>3. {FirstBlock, FirstBlock + 1} \subseteq Blocks /\ FirstBlock \in Nat
  BY <1>1, <1>2, Positive
<1>4. QED
  BY <1>3

\* The largest element of a finite set of integers, which Max finds.
LEMMA GreatestInt ==
  ASSUME NEW m \in Int, NEW n \in Int, NEW S \in SUBSET (m .. n), S # {}
  PROVE  Max(S) \in S
<1> DEFINE T == {n - x : x \in S}
<1>1. T \in SUBSET Nat /\ T # {}
  OBVIOUS
<1>2. PICK y \in T : \A z \in T : y <= z
  BY <1>1, LeastNat
<1>3. PICK x \in S : y = n - x
  BY <1>2
<1>4. \A z \in S : n - x <= n - z
  BY <1>2, <1>3
<1>5. \A z \in S : x >= z
  BY <1>4
<1>6. QED
  BY <1>5 DEF Max

\* The state after a write: an inode that may have grown, and other bytes D.
Wrote(s, t, D) ==
  /\ D \in [Blocks -> Bytes] /\ Sound(t) /\ t.data = D /\ t.slot[FILE - 1] = s.slot[FILE - 1]
  /\ s.taint \subseteq t.taint

\* The bytes of the file, whose first block of two is base, after a write of size bytes at offset.
Merged(s, D, base, offset, size, n) ==
  \A j \in 0 .. 1, k \in 0 .. BLOCK - 1 :
    D[base + j][k] = IF offset <= j * BLOCK + k /\ j * BLOCK + k < offset + size
                     THEN Byte(n, (j * BLOCK + k) - offset, size) ELSE s.data[base + j][k]

\* One byte of it.
LEMMA MergedAt ==
  ASSUME NEW s, NEW D, NEW base, NEW offset, NEW size, NEW n, Merged(s, D, base, offset, size, n),
         NEW j \in 0 .. 1, NEW k \in 0 .. BLOCK - 1
  PROVE  D[base + j][k] = IF offset <= j * BLOCK + k /\ j * BLOCK + k < offset + size
                          THEN Byte(n, (j * BLOCK + k) - offset, size) ELSE s.data[base + j][k]
BY DEF Merged

\* What write_inode_filedata does to the whole disk, and to the file if it stays in one block.
LEMMA WriteDataEffect ==
  ASSUME NEW s, Sound(s), NEW offset \in Nat, NEW size \in Nat \ {0}, NEW n \in Nat
  PROVE  \E D : /\ Wrote(s, write_inode_filedata(s, FILE, offset, size, n), D)
                /\ /\ s.inode = Formatted
                   /\ (offset + size - 1) \div BLOCK = offset \div BLOCK
                   /\ offset \div BLOCK <= 1
                   => Merged(s, D, FirstBlock, offset, size, n)
<1> DEFINE end == offset + size
           wide == [s EXCEPT !.inode.size = end]
           grown == IF end <= s.inode.size THEN s ELSE write_inode_metadata(wide, FILE)
           b0 == offset \div BLOCK
           b1 == end \div BLOCK
           disk == [i \in b0 .. b1 |-> get_disk_block_number(grown, i)]
           Right(i) == IF i = b1 THEN (end % BLOCK) - 1 ELSE BLOCK
           Cur(i) == IF i = b0 THEN 0 ELSE Taken * (i - b0) - (offset % BLOCK)
           Copied(b, k) == {i \in b0 .. b1 : /\ disk[i] = b
                                             /\ Left(i, b0, offset) <= k /\ k <= Right(i)}
           Written(b, k, old) ==
             IF Copied(b, k) = {} THEN old
             ELSE LET i == Max(Copied(b, k)) IN Byte(n, Cur(i) + k - Left(i, b0, offset), size)
           D == [b \in Blocks |-> IF \E i \in b0 .. b1 : disk[i] = b
                                  THEN [k \in 0 .. BLOCK - 1 |-> Written(b, k, grown.data[b][k])]
                                  ELSE grown.data[b]]
           t == write_inode_filedata(s, FILE, offset, size, n)
<1>0. s \in States /\ BLOCK \in Nat \ {0} /\ end \in Nat /\ offset % BLOCK \in 0 .. BLOCK - 1
  BY Positive, DivMod DEF Sound
<1>1. t = [grown EXCEPT !.data = D]
  BY DEF write_inode_filedata
<1>2. b0 \in Nat /\ b1 \in Nat
  BY <1>0, DivMod
<1>3. Kept(s, grown) /\ grown.inode.blocks = s.inode.blocks
  <2>1. CASE end <= s.inode.size
    BY <2>1 DEF Kept, SameFile
  <2>2. CASE ~(end <= s.inode.size)
    <3>1. Kept(s, wide) /\ wide.inode.blocks = s.inode.blocks
      <4> DEFINE i == [s.inode EXCEPT !.size = end]
      <4>1. i \in Inodes /\ i.blocks = s.inode.blocks
        BY <1>0 DEF States, Inodes
      <4>2. wide = [s EXCEPT !.inode = i]
        OBVIOUS
      <4> HIDE DEF i
      <4>3. QED
        BY <1>0, <4>1, <4>2, InodeKept DEF States
    <3> HIDE DEF wide
    <3>2. Kept(wide, write_inode_metadata(wide, FILE))
      BY <3>1, WriteInodeKept DEF Kept
    <3>3. write_inode_metadata(wide, FILE).inode = wide.inode
      <4>1. wide \in States
        BY <3>1 DEF Kept, Sound
      <4>2. QED
        BY <4>1 DEF write_inode_metadata, States
    <3>4. QED
      BY <2>2, <3>1, <3>2, <3>3, KeptTwice
  <2>3. QED
    BY <2>1, <2>2
<1> HIDE DEF t
<1>4. D \in [Blocks -> Bytes]
  <2>1. grown.data \in [Blocks -> Bytes]
    BY <1>3 DEF Kept, Sound, States
  <2>2. ASSUME NEW b, NEW k \in 0 .. BLOCK - 1, NEW old \in Int
        PROVE  Written(b, k, old) \in Int
    <3>1. Copied(b, k) \in SUBSET (b0 .. b1)
      OBVIOUS
    <3>2. ASSUME NEW i \in b0 .. b1
          PROVE  Byte(n, Cur(i) + k - Left(i, b0, offset), size) \in Int
      <4>1. Cur(i) \in Int
        BY <1>0, <1>2 DEF Taken
      <4>2. Left(i, b0, offset) \in Int
        BY <1>0 DEF Left
      <4>3. k \in Int
        BY <1>0
      <4> HIDE DEF Cur
      <4>4. QED
        BY <4>1, <4>2, <4>3 DEF Byte, NONE
    <3> HIDE DEF Copied, Cur, b0, b1
    <3>3. ASSUME Copied(b, k) # {}
          PROVE  Max(Copied(b, k)) \in b0 .. b1
      <4>1. b0 \in Int /\ b1 \in Int
        BY <1>2
      <4>2. Max(Copied(b, k)) \in Copied(b, k)
        BY <3>1, <3>3, <4>1, GreatestInt
      <4>3. QED
        BY <3>1, <4>2
    <3>4. QED
      BY <3>2, <3>3
  <2> HIDE DEF Written, grown, disk, b0, b1
  <2>3. QED
    BY <2>1, <2>2 DEF Bytes
<1>5. Wrote(s, t, D)
  <2> HIDE DEF D, grown
  <2>1. grown \in States
    BY <1>3 DEF Kept, Sound
  <2>2. t \in States /\ SameBits(grown, t) /\ t.data = D /\ t.slot = grown.slot
    BY <1>1, <1>4, <2>1 DEF States, SameBits
  <2>3. QED
    BY <1>3, <1>4, <2>2, SoundSame DEF Wrote, Kept, SameFile, SameBits
<1>6. ASSUME s.inode = Formatted, (end - 1) \div BLOCK = b0, b0 <= 1
      PROVE  Merged(s, D, FirstBlock, offset, size, n)
  <2> DEFINE first == offset % BLOCK
  <2>1. /\ offset = b0 * BLOCK + first /\ end = b1 * BLOCK + (end % BLOCK)
        /\ end % BLOCK \in 0 .. BLOCK - 1
    BY <1>0, DivMod
  <2>2. end - 1 = b0 * BLOCK + ((end - 1) % BLOCK) /\ (end - 1) % BLOCK \in 0 .. BLOCK - 1
    <3>1. end - 1 \in Nat
      OBVIOUS
    <3>2. QED
      BY <1>0, <1>6, <3>1, DivMod
  <2>3. \/ b1 = b0 /\ end = b0 * BLOCK + (end % BLOCK)
        \/ b1 = b0 + 1 /\ end % BLOCK = 0 /\ end = b0 * BLOCK + BLOCK
    <3>1. CASE (end - 1) % BLOCK = BLOCK - 1
      <4>1. end = (b0 + 1) * BLOCK + 0
        BY <1>0, <1>2, <2>2, <3>1
      <4>2. end \div BLOCK = b0 + 1 /\ end % BLOCK = 0
        <5>1. b0 + 1 \in Nat /\ 0 \in 0 .. BLOCK - 1
          BY <1>0, <1>2
        <5>2. ((b0 + 1) * BLOCK + 0) \div BLOCK = b0 + 1 /\ ((b0 + 1) * BLOCK + 0) % BLOCK = 0
          BY <1>0, <5>1, DivModUnique
        <5>3. QED
          BY <4>1, <5>2
      <4>3. QED
        BY <1>0, <1>2, <2>2, <3>1, <4>2
    <3>2. CASE (end - 1) % BLOCK # BLOCK - 1
      <4>1. end = b0 * BLOCK + (((end - 1) % BLOCK) + 1) /\ ((end - 1) % BLOCK) + 1 \in 0 .. BLOCK - 1
        BY <1>0, <1>2, <2>2, <3>2
      <4>2. end \div BLOCK = b0
        BY <1>0, <1>2, <4>1, DivModUnique
      <4>3. QED
        BY <2>1, <4>2
    <3>3. QED
      BY <3>1, <3>2
  <2>4. \A i \in b0 .. b1 : i \in 0 .. 1 => disk[i] = FirstBlock + i
    <3>1. ASSUME NEW i \in 0 .. 1
          PROVE  get_disk_block_number(grown, i) = FirstBlock + i
      <4>1. i - DIRECT < 0 /\ i \in 0 .. DIRECT + 2 /\ i < 2
        BY Ext2Assumption
      <4>2. get_disk_block_number(grown, i) = grown.inode.blocks[i]
        BY <4>1 DEF get_disk_block_number
      <4>3. grown.inode.blocks[i] = FirstBlock + i
        <5>1. Formatted.blocks = [e \in 0 .. DIRECT + 2 |-> IF e < 2 THEN FileBlock(e) ELSE 0]
          BY DEF Formatted, NoInode
        <5>2. QED
          BY <1>3, <1>6, <4>1, <5>1 DEF FileBlock
      <4>4. QED
        BY <4>2, <4>3
    <3>2. QED
      BY <3>1
  <2>5. grown.data = s.data /\ s.data \in [Blocks -> Bytes]
    BY <1>0, <1>3 DEF Kept, SameFile, States
  <2>6. {FirstBlock, FirstBlock + 1} \subseteq Blocks /\ FirstBlock \in Nat
    BY FileBlocks
  <2>7. SUFFICES ASSUME NEW j \in 0 .. 1, NEW k \in 0 .. BLOCK - 1
                 PROVE  D[FirstBlock + j][k] =
                          IF offset <= j * BLOCK + k /\ j * BLOCK + k < end
                          THEN Byte(n, (j * BLOCK + k) - offset, size) ELSE s.data[FirstBlock + j][k]
    BY DEF Merged
  <2> DEFINE hit == j = b0 /\ first <= k /\ k <= Right(b0)
  <2>a. first \in 0 .. BLOCK - 1 /\ b0 \in 0 .. 1 /\ end \in Nat /\ offset < end
    BY <1>0, <1>2, <1>6
  <2>b. \/ b1 = b0 /\ Right(b0) = (end % BLOCK) - 1
        \/ b1 = b0 + 1 /\ Right(b0) = BLOCK /\ Right(b1) = -1
    BY <2>3, <2>a
  <2>c. Left(b0, b0, offset) = first /\ Left(b0 + 1, b0, offset) = 0 /\ Cur(b0) = 0
    BY <2>a DEF Left
  <2> HIDE DEF Right, Cur, disk, first, end, b0, b1, grown
  <2>d. FirstBlock + j \in Blocks /\ b0 \in b0 .. b1 /\ disk[b0] = FirstBlock + b0
    BY <2>4, <2>6, <2>a, <2>b
  <2>8. hit <=> offset <= j * BLOCK + k /\ j * BLOCK + k < end
    <3>1. j \in {0, 1} /\ b0 \in {0, 1} /\ 0 * BLOCK = 0 /\ 1 * BLOCK = BLOCK
      BY <1>0, <2>a
    <3>2. CASE b1 = b0 /\ Right(b0) = (end % BLOCK) - 1
      BY <1>0, <2>1, <2>a, <3>1, <3>2
    <3>3. CASE b1 = b0 + 1 /\ Right(b0) = BLOCK
      BY <1>0, <2>1, <2>3, <2>a, <3>1, <3>3
    <3>4. QED
      BY <2>b, <3>2, <3>3
  <2>9. Copied(FirstBlock + j, k) = IF hit THEN {b0} ELSE {}
    <3>1. ASSUME NEW i \in Copied(FirstBlock + j, k)
          PROVE  hit /\ i = b0
      <4>1. i \in b0 .. b1 /\ disk[i] = FirstBlock + j /\ Left(i, b0, offset) <= k /\ k <= Right(i)
        OBVIOUS
      <4>2. i = b0
        BY <2>a, <2>b, <4>1
      <4>3. QED
        BY <2>6, <2>a, <2>c, <2>d, <4>1, <4>2
    <3>2. hit => b0 \in Copied(FirstBlock + j, k)
      BY <2>c, <2>d
    <3> HIDE DEF Copied, hit
    <3>3. QED
      BY <3>1, <3>2
  <2>10. Max({b0}) = b0
    BY <2>a DEF Max
  <2>11. Written(FirstBlock + j, k, s.data[FirstBlock + j][k]) =
           IF hit THEN Byte(n, k - first, size) ELSE s.data[FirstBlock + j][k]
    <3>1. 0 + k - first = k - first
      BY <2>a
    <3> HIDE DEF Copied, hit
    <3>2. QED
      BY <2>9, <2>10, <2>c, <3>1
  <2>12. D[FirstBlock + j][k] = IF hit THEN Byte(n, k - first, size) ELSE s.data[FirstBlock + j][k]
    <3>1. hit => \E i \in b0 .. b1 : disk[i] = FirstBlock + j
      BY <2>d
    <3> HIDE DEF Written, hit
    <3>2. QED
      BY <2>5, <2>d, <2>11, <3>1
  <2>13. hit => (j * BLOCK + k) - offset = k - first
    BY <1>0, <2>1, <2>a
  <2>14. QED
    BY <2>8, <2>12, <2>13
<1> HIDE DEF D
<1>7. QED
  BY <1>5, <1>6 DEF t

-----------------------------------------------------------------------------
(* The invariant *)

\* The file holds what was written to it, unless a write went over the end of a block or of the
\* blocks the file has. Its inode on the disk is that of mkfs: it is never written, only the one
\* behind it.
FileKept ==
  /\ slot[FILE - 1] = Formatted
  /\ want \in [0 .. FileSize - 1 -> Int]
  /\ taint \cap {"span", "hole"} = {} =>
       \A j \in 0 .. 1, k \in 0 .. BLOCK - 1 :
         j * BLOCK + k < FileSize => data[FirstBlock + j][k] = want[j * BLOCK + k]

DiskInv ==
  /\ Sound(State)
  /\ status \in {"ok", "wild block"} /\ calls \in 0 .. MaxCalls
  /\ FileKept

\* State is made of the variables.
LEMMA StateIs ==
  /\ State.bits = bits /\ State.ptr = ptr /\ State.data = data /\ State.slot = slot
  /\ State.count = count /\ State.inode = inode /\ State.held = held /\ State.twice = twice
  /\ State.taint = taint
BY DEF State

\* Becomes(s) makes s the state.
LEMMA BecomesIs ==
  ASSUME NEW s \in States, Becomes(s)
  PROVE  State' = s
BY DEF Becomes, State, States

\* A step that is Kept, for everything but the number of calls and what the machine is up to.
LEMMA StepKept ==
  ASSUME Sound(State), FileKept, NEW s, Kept(State, s), Becomes(s), want' = want
  PROVE  Sound(State)' /\ FileKept'
<1>1. s \in States /\ State' = s
  BY BecomesIs DEF Kept, Sound
<1>2. Sound(State')
  BY <1>1 DEF Kept
<1>3. data' = data /\ slot'[FILE - 1] = slot[FILE - 1] /\ taint \subseteq taint'
  BY StateIs DEF Kept, SameFile, Becomes
<1>4. FileKept'
  BY <1>3 DEF FileKept
<1>5. QED
  BY <1>2, <1>4 DEF Sound, Marked, Budget, Clear, HeldIn, States

\* The file has two blocks, the last one not quite full.
LEMMA FileSizes ==
  BLOCK \in Nat \ {0} /\ BLOCK >= 8 /\ FileSize \in Nat /\ FileSize = 2 * BLOCK - 2
BY Ext2Assumption DEF FileSize, BLOCK

\* The initial state.
LEMMA InitInv == Init => DiskInv
<1> SUFFICES ASSUME Init PROVE DiskInv
  OBVIOUS
<1>1. Formatted \in Inodes /\ NoInode \in Inodes
  <2>1. NoInode \in Inodes
    BY DEF NoInode, Inodes
  <2> DEFINE B == [e \in 0 .. DIRECT + 2 |-> IF e < 2 THEN FileBlock(e) ELSE 0]
  <2>2. B \in [0 .. DIRECT + 2 -> Int]
    <3>1. FirstBlock \in Int
      BY Ext2Assumption
    <3>2. \A e \in 0 .. DIRECT + 2 : FileBlock(e) \in Int
      BY <3>1 DEF FileBlock
    <3>3. QED
      BY <3>2
  <2>3. Formatted = [blocks |-> B, size |-> FileSize]
    <3>1. DOMAIN NoInode.blocks = 0 .. DIRECT + 2
      BY DEF NoInode
    <3>2. Formatted = [NoInode EXCEPT !.blocks = B, !.size = FileSize]
      BY <3>1, Zenon DEF Formatted
    <3> HIDE DEF B
    <3>3. QED
      BY <3>2 DEF NoInode
  <2> HIDE DEF B
  <2>4. QED
    BY <2>1, <2>2, <2>3, FileSizes DEF Inodes
<1>2. State \in States
  <2>1. bits \in [Kinds -> [Groups -> SUBSET (0 .. BITS - 1)]]
    BY DEF Init
  <2>2. ptr \in [Blocks -> Tables]
    <3>1. PICK stale : ptr = [b \in Blocks |-> IF b \in stale THEN [k \in 0 .. P - 1 |-> FileBlock(0)] ELSE NoBlock]
      BY DEF Init
    <3>2. FileBlock(0) \in Int
      BY Ext2Assumption DEF FileBlock
    <3>3. [k \in 0 .. P - 1 |-> FileBlock(0)] \in Tables /\ NoBlock \in Tables
      BY <3>2 DEF Tables, NoBlock
    <3>4. QED
      BY <3>1, <3>3
  <2>3. data \in [Blocks -> Bytes]
    BY DEF Init, Bytes
  <2>4. slot \in [0 .. NSlots - 1 -> Inodes]
    <3>1. slot = [i \in 0 .. NSlots - 1 |-> IF i = FILE - 1 THEN Formatted ELSE NoInode]
      BY DEF Init
    <3>2. QED
      BY <1>1, <3>1
  <2>5. count \in [Kinds -> [Groups -> Nat]]
    <3>1. count = [kind \in Kinds |-> [g \in Groups |-> Cardinality(FreshBits[g])]]
      BY DEF Init, read_BGD
    <3>2. \A g \in Groups : Cardinality(FreshBits[g]) \in Nat
      BY FreshCount
    <3>3. QED
      BY <3>1, <3>2
  <2>6. inode \in Inodes /\ held \in [Kinds -> SUBSET Blocks] /\ twice \in BOOLEAN /\ taint \in SUBSET Flaws
    BY <1>1 DEF Init
  <2>7. QED
    BY <2>1, <2>2, <2>3, <2>4, <2>5, <2>6 DEF State, States
<1>3. Marked(State)
  <2>1. ~twice /\ \A kind \in Kinds : held[kind] = {}
    BY DEF Init
  <2>2. QED
    BY <2>1, StateIs DEF Marked
<1>4. Budget(State)
  <2> SUFFICES ASSUME NEW kind \in Kinds, NEW g \in Groups
               PROVE  /\ Cardinality(Clear(State, kind, g)) + Cardinality(HeldIn(State, kind, g))
                           <= Cardinality(FreshBits[g])
                      /\ State.count[kind][g] >= Cardinality(Clear(State, kind, g))
    BY DEF Budget
  <2>1. bits[kind][g] = (0 .. BITS - 1) \ FreshBits[g] /\ held[kind] = {}
        /\ count[kind][g] = Cardinality(FreshBits[g])
    BY DEF Init, read_BGD
  <2>2. FreshBits[g] \subseteq 0 .. BITS - 1
    BY Ext2Assumption
  <2>3. Clear(State, kind, g) = FreshBits[g]
    BY <2>1, <2>2, StateIs DEF Clear
  <2>4. HeldIn(State, kind, g) = {}
    BY <2>1, StateIs DEF HeldIn
  <2>5. Cardinality({}) = 0 /\ Cardinality(FreshBits[g]) \in Nat
    BY FS_EmptySet, FreshCount
  <2>6. QED
    BY <2>1, <2>3, <2>4, <2>5, StateIs
<1>5. status \in {"ok", "wild block"} /\ calls \in 0 .. MaxCalls
  BY Ext2Assumption DEF Init
<1>6. FileKept
  <2>1. slot[FILE - 1] = Formatted
    <3>1. FILE - 1 \in 0 .. NSlots - 1
      BY Ext2Assumption DEF FILE
    <3>2. QED
      BY <3>1 DEF Init
  <2>2. want = [k \in 0 .. FileSize - 1 |-> 0] /\ data = [b \in Blocks |-> [k \in 0 .. BLOCK - 1 |-> 0]]
    BY DEF Init
  <2>3. want \in [0 .. FileSize - 1 -> Int]
    BY <2>2
  <2>4. ASSUME NEW j \in 0 .. 1, NEW k \in 0 .. BLOCK - 1, j * BLOCK + k < FileSize
        PROVE  data[FirstBlock + j][k] = want[j * BLOCK + k]
    <3>1. FirstBlock + j \in Blocks
      BY FileBlocks
    <3>2. j * BLOCK + k \in 0 .. FileSize - 1
      BY <2>4, FileSizes
    <3>3. QED
      BY <2>2, <3>1, <3>2
  <2>5. QED
    BY <2>1, <2>3, <2>4 DEF FileKept
<1>7. QED
  BY <1>2, <1>3, <1>4, <1>5, <1>6 DEF DiskInv, Sound

\* Each action.
LEMMA NewInodeInv ==
  ASSUME DiskInv, new_inode
  PROVE  DiskInv'
<1>1. Kept(State, alloc_inode(State).s)
  <2>1. "inode" \in Kinds
    BY DEF Kinds
  <2>2. QED
    BY <2>1, TakeBitSound DEF DiskInv, alloc_inode, Kept, SameData, SameFile
<1>2. Sound(State)' /\ FileKept'
  BY <1>1, StepKept DEF DiskInv, new_inode
<1>3. QED
  BY <1>2, Ext2Assumption DEF DiskInv, new_inode, Calling

LEMMA DropInodeInv ==
  ASSUME DiskInv, NEW i \in Frees, drop_inode(i)
  PROVE  DiskInv'
<1>1. Kept(State, free_inode(State, i))
  <2>1. "inode" \in Kinds /\ i \in Blocks
    BY Ext2Assumption DEF Kinds
  <2>2. QED
    BY <2>1, FreeBitSound DEF DiskInv, free_inode, Kept, SameData, SameFile
<1>2. Sound(State)' /\ FileKept'
  BY <1>1, StepKept DEF DiskInv, drop_inode
<1>3. QED
  BY <1>2, Ext2Assumption DEF DiskInv, drop_inode, Calling

\* The machine that follows a wild block number changes nothing the invariant speaks of.
LEMMA WildInv ==
  ASSUME DiskInv, Wild, Calling, want' = want
  PROVE  DiskInv'
<1>1. State' = State /\ data' = data /\ slot' = slot /\ taint' = taint
  BY DEF Wild, State
<1>2. Sound(State)'
  <2>1. Sound(State')
    BY <1>1 DEF DiskInv
  <2>2. QED
    BY <2>1 DEF Sound, Marked, Budget, Clear, HeldIn, States
<1>3. FileKept'
  BY <1>1 DEF DiskInv, FileKept
<1>4. status' \in {"ok", "wild block"}
  BY DEF Wild
<1>5. calls' \in 0 .. MaxCalls
  BY Ext2Assumption DEF DiskInv, Calling
<1>6. QED
  BY <1>2, <1>3, <1>4, <1>5 DEF DiskInv

LEMMA GrowInv ==
  ASSUME DiskInv, NEW i, grow(i)
  PROVE  DiskInv'
<1>1. CASE Strays(i)
  BY <1>1, WildInv DEF grow
<1>2. CASE ~Strays(i)
  <2>1. Kept(State, alloc_inode_block(State, FILE, i))
    BY AllocBlockKept DEF DiskInv
  <2>2. Sound(State)' /\ FileKept'
    BY <1>2, <2>1, StepKept DEF DiskInv, grow
  <2>3. QED
    BY <1>2, <2>2, Ext2Assumption DEF DiskInv, grow, Calling
<1>3. QED
  BY <1>1, <1>2

LEMMA ShrinkInv ==
  ASSUME DiskInv, NEW i, shrink(i)
  PROVE  DiskInv'
<1> DEFINE d == get_disk_block_number(State, i)
           known == IF d <= MaxBlock THEN {"misclear"} ELSE {}
           t == free_inode_block(State, FILE, i)
           u == [t EXCEPT !.taint = @ \cup known]
<1>1. CASE Strays(d)
  BY <1>1, WildInv DEF shrink
<1>2. CASE ~Strays(d)
  <2>1. d \in Blocks /\ Becomes(u) /\ status' = status /\ want' = want /\ Calling
    BY <1>2 DEF shrink
  <2>2. Kept(State, t)
    BY <2>1, FreeBlockKept DEF DiskInv
  <2>3. known \in SUBSET Flaws
    BY DEF Flaws
  <2> HIDE DEF d, known, t
  <2>4. Kept(t, u)
    BY <2>2, <2>3, TaintKept DEF Kept
  <2> HIDE DEF u
  <2>5. Kept(State, u)
    BY <2>2, <2>4, KeptTwice
  <2>6. Sound(State)' /\ FileKept'
    BY <2>1, <2>5, StepKept DEF DiskInv
  <2>7. QED
    BY <2>1, <2>6, Ext2Assumption DEF DiskInv, Calling
<1>3. QED
  BY <1>1, <1>2

LEMMA WriteInv ==
  ASSUME DiskInv, NEW offset \in Offsets, NEW size \in Sizes, ext2_write(offset, size)
  PROVE  DiskInv'
<1> DEFINE s == read_inode_metadata(State, FILE)
           n == calls + 1
           last == (offset + size - 1) \div BLOCK
           known == (IF last > offset \div BLOCK THEN {"span"} ELSE {})
                      \cup (IF last > 1 THEN {"hole"} ELSE {})
           t == write_inode_filedata(s, FILE, offset, size, n)
           u == [t EXCEPT !.taint = @ \cup known]
<1>1. /\ Calling /\ Becomes(u) /\ status' = status
      /\ want' = [k \in DOMAIN want |->
                    IF offset <= k /\ k < offset + size THEN Byte(n, k - offset, size) ELSE want[k]]
  BY DEF ext2_write
<1>2. offset \in Nat /\ size \in Nat \ {0} /\ n \in Nat
  <2>1. calls \in Nat
    <3>1. MaxCalls \in Nat
      BY Ext2Assumption
    <3>2. calls \in 0 .. MaxCalls
      BY DEF DiskInv
    <3>3. QED
      BY <3>1, <3>2
  <2>2. QED
    BY <2>1, Ext2Assumption
<1>3. Kept(State, s) /\ s.inode = Formatted
  <2>1. State \in States /\ State.slot[FILE - 1] = Formatted /\ FILE - 1 \in 0 .. NSlots - 1
    <3>1. FILE - 1 \in 0 .. NSlots - 1
      BY Ext2Assumption DEF FILE
    <3>2. State.slot[FILE - 1] = Formatted
      BY StateIs DEF DiskInv, FileKept
    <3>3. QED
      BY <3>1, <3>2 DEF DiskInv, Sound
  <2>2. Formatted \in Inodes
    BY <2>1 DEF States
  <2>3. s = [State EXCEPT !.inode = Formatted]
    BY <2>1 DEF read_inode_metadata
  <2>4. s.inode = Formatted
    BY <2>1, <2>3 DEF States
  <2>5. QED
    BY <2>2, <2>3, <2>4, InodeKept, ZenonT(40) DEF DiskInv
<1> HIDE DEF s, n
<1>4. PICK D : /\ Wrote(s, t, D)
               /\ last = offset \div BLOCK /\ offset \div BLOCK <= 1 =>
                    Merged(s, D, FirstBlock, offset, size, n)
  <2>1. Sound(s)
    BY <1>3 DEF Kept
  <2>2. QED
    BY <1>2, <1>3, <2>1, WriteDataEffect
<1>5. known \in SUBSET Flaws
  BY DEF Flaws
<1>6. known \cap {"span", "hole"} = {} => last = offset \div BLOCK /\ offset \div BLOCK <= 1
  <2>1. last \in Nat /\ offset \div BLOCK \in Nat /\ last >= offset \div BLOCK
    <3>1. /\ offset = (offset \div BLOCK) * BLOCK + (offset % BLOCK)
          /\ offset + size - 1 = last * BLOCK + ((offset + size - 1) % BLOCK)
          /\ offset % BLOCK \in 0 .. BLOCK - 1 /\ (offset + size - 1) % BLOCK \in 0 .. BLOCK - 1
          /\ last \in Nat /\ offset \div BLOCK \in Nat /\ BLOCK \in Nat \ {0}
      <4>1. offset + size - 1 \in Nat
        BY <1>2
      <4>2. QED
        BY <1>2, <4>1, DivMod, Positive
    <3> DEFINE q == offset \div BLOCK
               r == offset % BLOCK
               v == (offset + size - 1) % BLOCK
    <3> HIDE DEF q, r, v, last
    <3>2. q * BLOCK <= last * BLOCK + BLOCK - 1
      BY <1>2, <3>1 DEF q, r, v
    <3>3. q * BLOCK < (last + 1) * BLOCK
      <4>1. (last + 1) * BLOCK = last * BLOCK + BLOCK /\ last * BLOCK \in Nat /\ q * BLOCK \in Nat
        BY <3>1 DEF q
      <4>2. QED
        BY <3>1, <3>2, <4>1
    <3>4. q < last + 1
      BY <3>1, <3>3 DEF q
    <3>5. QED
      BY <3>1, <3>4 DEF q
  <2>2. last > offset \div BLOCK => "span" \in known
    OBVIOUS
  <2>3. last > 1 => "hole" \in known
    OBVIOUS
  <2> HIDE DEF known, last
  <2>4. QED
    BY <2>1, <2>2, <2>3
<1> HIDE DEF t, known, last
<1>7. Kept(t, u)
  BY <1>4, <1>5, TaintKept DEF Wrote
<1>a. u.taint = t.taint \cup known
  BY <1>4 DEF Wrote, Sound, States
<1> HIDE DEF u
<1>8. Sound(State)'
  <2>1. u \in States /\ State' = u
    BY <1>1, <1>7, BecomesIs DEF Kept, Sound
  <2>2. Sound(State')
    BY <1>7, <2>1 DEF Kept
  <2>3. QED
    BY <2>2 DEF Sound, Marked, Budget, Clear, HeldIn, States
<1>9. data' = D /\ slot'[FILE - 1] = Formatted /\ taint \subseteq taint' /\ known \subseteq taint' /\ s.data = data
  BY <1>1, <1>3, <1>4, <1>7, <1>a, StateIs DEF DiskInv, FileKept, Kept, SameFile, Wrote, Becomes
<1>10. want' \in [0 .. FileSize - 1 -> Int]
  <2>1. want \in [0 .. FileSize - 1 -> Int]
    BY DEF DiskInv, FileKept
  <2>2. ASSUME NEW k \in 0 .. FileSize - 1
        PROVE  Byte(n, k - offset, size) \in Int
    BY <1>2, FileSizes DEF Byte, NONE
  <2>3. QED
    BY <1>1, <2>1, <2>2
<1>11. ASSUME taint' \cap {"span", "hole"} = {}, NEW j \in 0 .. 1, NEW k \in 0 .. BLOCK - 1,
              j * BLOCK + k < FileSize
       PROVE  data'[FirstBlock + j][k] = want'[j * BLOCK + k]
  <2> DEFINE m == j * BLOCK + k
  <2>1. m \in 0 .. FileSize - 1
    BY <1>11, FileSizes
  <2>2. data[FirstBlock + j][k] = want[m]
    BY <1>9, <1>11 DEF DiskInv, FileKept
  <2>3. D[FirstBlock + j][k] = IF offset <= m /\ m < offset + size
                               THEN Byte(n, m - offset, size) ELSE s.data[FirstBlock + j][k]
    <3>1. Merged(s, D, FirstBlock, offset, size, n)
      BY <1>4, <1>6, <1>9, <1>11
    <3>2. QED
      BY <3>1, MergedAt
  <2> HIDE DEF m
  <2>4. want'[m] = IF offset <= m /\ m < offset + size THEN Byte(n, m - offset, size) ELSE want[m]
    BY <1>1, <2>1 DEF DiskInv, FileKept
  <2>5. QED
    BY <1>9, <2>2, <2>3, <2>4 DEF m
<1>12. FileKept'
  BY <1>9, <1>10, <1>11 DEF FileKept
<1>13. QED
  BY <1>1, <1>8, <1>12, Ext2Assumption DEF DiskInv, Calling

LEMMA RestartInv ==
  ASSUME DiskInv, NEW kind \in Kinds, NEW midway \in BOOLEAN, restart(kind, midway)
  PROVE  DiskInv'
<1>0. /\ Sound(State) /\ State \in States /\ Calling
      /\ count' = read_BGD /\ inode' = slot[FILE - 1]
      /\ UNCHANGED <<ptr, data, slot, status, held, twice, want, taint>>
  BY DEF DiskInv, Sound, restart
<1>1. /\ bits' \in [Kinds -> [Groups -> SUBSET (0 .. BITS - 1)]]
      /\ \A kd \in Kinds, g \in Groups : bits[kd][g] \subseteq bits'[kd][g]
  <2>1. CASE bits' = bits
    BY <1>0, <2>1, StateIs DEF States
  <2>2. CASE bits' = TakeBit(State, kind).s.bits
    <3>1. CASE TakeBit(State, kind).s = [State EXCEPT !.taint = @ \cup {"full"}]
      <4>1. TakeBit(State, kind).s.bits = bits
        BY <1>0, <3>1, StateIs DEF States
      <4>2. QED
        BY <2>1, <2>2, <4>1
    <3>2. CASE \E g \in Groups, k \in 0 .. BITS - 1 : Took(State, TakeBit(State, kind).s, kind, g, k, g * BITS + k)
      <4> DEFINE t == TakeBit(State, kind).s
      <4>1. PICK g \in Groups, k \in 0 .. BITS - 1 : Took(State, t, kind, g, k, g * BITS + k)
        BY <3>2
      <4> HIDE DEF t
      <4>2. t \in States /\ t.bits[kind][g] = State.bits[kind][g] \cup {k}
        BY <4>1 DEF Took, Changed
      <4>3. \A kd \in Kinds, gr \in Groups : kd # kind \/ gr # g => t.bits[kd][gr] = State.bits[kd][gr]
        BY <4>1 DEF Took, Changed
      <4>4. QED
        BY <2>2, <4>2, <4>3, StateIs DEF States, t
    <3>3. QED
      BY <1>0, <3>1, <3>2, TakeBitEffect
  <2>3. QED
    BY <2>1, <2>2 DEF restart
<1>2. State' \in States
  <2>1. count' \in [Kinds -> [Groups -> Nat]]
    BY <1>0, FreshCount DEF read_BGD
  <2>2. slot[FILE - 1] \in Inodes
    <3>1. FILE - 1 \in 0 .. NSlots - 1
      BY Ext2Assumption DEF FILE
    <3>2. QED
      BY <1>0, <3>1, StateIs DEF States
  <2>3. /\ ptr' \in [Blocks -> Tables] /\ data' \in [Blocks -> Bytes]
        /\ slot' \in [0 .. NSlots - 1 -> Inodes] /\ inode' \in Inodes
        /\ held' \in [Kinds -> SUBSET Blocks] /\ twice' \in BOOLEAN /\ taint' \in SUBSET Flaws
    BY <1>0, <2>2, StateIs DEF States
  <2>4. QED
    BY <1>1, <2>1, <2>3 DEF State, States
<1>3. /\ State'.bits = bits' /\ State'.count = count' /\ State'.held = held
      /\ State'.twice = twice /\ State'.taint = taint
  BY <1>0 DEF State
<1>4. Marked(State')
  <2> SUFFICES ASSUME "misfree" \notin taint
               PROVE  /\ ~twice
                      /\ \A kd \in Kinds : \A b \in held[kd] : b % BITS \in bits'[kd][b \div BITS]
    BY <1>3 DEF Marked
  <2>1. ~twice /\ \A kd \in Kinds : \A b \in held[kd] : b % BITS \in bits[kd][b \div BITS]
    BY <1>0, StateIs DEF Sound, Marked
  <2>2. \A kd \in Kinds : \A b \in held[kd] : b \div BITS \in Groups
    BY <1>0, StateIs, BlockOf DEF States
  <2>3. QED
    BY <1>1, <2>1, <2>2
<1>5. Budget(State')
  <2> SUFFICES ASSUME "unheld" \notin taint, NEW kd \in Kinds, NEW g \in Groups
               PROVE  /\ Cardinality(Clear(State', kd, g)) + Cardinality(HeldIn(State', kd, g))
                           <= Cardinality(FreshBits[g])
                      /\ count'[kd][g] >= Cardinality(Clear(State', kd, g))
    BY <1>3 DEF Budget
  <2>1. Cardinality(Clear(State, kd, g)) + Cardinality(HeldIn(State, kd, g)) <= Cardinality(FreshBits[g])
    BY <1>0, StateIs DEF Sound, Budget
  <2>2. HeldIn(State', kd, g) = HeldIn(State, kd, g)
    BY <1>3, StateIs DEF HeldIn
  <2>3. Clear(State', kd, g) \subseteq Clear(State, kd, g)
    BY <1>1, <1>3, StateIs DEF Clear
  <2>4. /\ IsFiniteSet(Clear(State, kd, g)) /\ Cardinality(Clear(State, kd, g)) \in Nat
        /\ Cardinality(HeldIn(State, kd, g)) \in Nat /\ Cardinality(FreshBits[g]) \in Nat
    BY <1>0, Finite
  <2>5. /\ Cardinality(Clear(State', kd, g)) \in Nat
        /\ Cardinality(Clear(State', kd, g)) <= Cardinality(Clear(State, kd, g))
    BY <2>3, <2>4, FS_Subset, FS_CardinalityType
  <2>6. count'[kd][g] = Cardinality(FreshBits[g])
    BY <1>0 DEF read_BGD
  <2>7. QED
    BY <2>1, <2>2, <2>4, <2>5, <2>6
<1>6. Sound(State)'
  BY <1>2, <1>4, <1>5 DEF Sound, Marked, Budget, Clear, HeldIn, States
<1>7. FileKept'
  BY <1>0 DEF DiskInv, FileKept
<1>8. calls' \in 0 .. MaxCalls /\ status' \in {"ok", "wild block"}
  BY <1>0, Ext2Assumption DEF DiskInv, Calling
<1>9. QED
  BY <1>6, <1>7, <1>8 DEF DiskInv

\* The invariant holds in every reachable state.
THEOREM DiskInvariant == Spec => []DiskInv
<1>1. ASSUME DiskInv, [Next]_vars
      PROVE  DiskInv'
  <2>1. CASE new_inode
    BY <1>1, <2>1, NewInodeInv
  <2>2. CASE \E i \in Frees : drop_inode(i)
    BY <1>1, <2>2, DropInodeInv
  <2>3. CASE \E i \in DIRECT .. MaxBlock : grow(i) \/ shrink(i)
    BY <1>1, <2>3, GrowInv, ShrinkInv
  <2>4. CASE \E offset \in Offsets, size \in Sizes : ext2_write(offset, size)
    BY <1>1, <2>4, WriteInv
  <2>5. CASE \E kind \in Kinds, midway \in BOOLEAN : restart(kind, midway)
    BY <1>1, <2>5, RestartInv
  <2>6. CASE UNCHANGED vars
    <3>1. State' = State /\ UNCHANGED <<status, calls, want, slot, data, taint>>
      BY <2>6 DEF vars, State
    <3>2. Sound(State)'
      <4>1. Sound(State')
        BY <1>1, <3>1 DEF DiskInv
      <4>2. QED
        BY <4>1 DEF Sound, Marked, Budget, Clear, HeldIn, States
    <3>3. QED
      BY <1>1, <3>1, <3>2 DEF DiskInv, FileKept
  <2>7. QED
    BY <1>1, <2>1, <2>2, <2>3, <2>4, <2>5, <2>6 DEF Next
<1>2. QED
  BY <1>1, InitInv, PTL DEF Spec

-----------------------------------------------------------------------------
(* The block map *)

\* The places of tables: the three roots in the inode, the tables below the second and the third,
\* and those below the tables of the third.
Root(n) == <<n, NONE, NONE>>
Below(n, x) == <<n, x, NONE>>
Bottom(x, y) == <<3, x, y>>

Keys == 0 .. P - 1
Roots == {Root(n) : n \in 1 .. 3}
Inner == {Below(n, x) : n \in 2 .. 3, x \in Keys} \cup {Bottom(x, y) : x \in Keys, y \in Keys}
Places == Roots \cup Inner

\* Where the number of an inner table is: in which table, at which entry.
Up(p) == IF p[3] = NONE THEN Root(p[1]) ELSE Below(3, p[2])
Key(p) == IF p[3] = NONE THEN p[2] ELSE p[3]

\* The blocks of a file that are mapped as they should be, and where the number of each is.
Indices == {i \in DIRECT .. MaxBlock : ~Boundary(i)}
Second(i) == i - DIRECT - P
Third(i) == i - DIRECT - P - P * P
Leaf(i) ==
  IF Second(i) < 0 THEN Root(1)
  ELSE IF Third(i) < 0 THEN Below(2, Second(i) \div P) ELSE Bottom(Hi(Third(i)), Mid(Third(i)))
Entry(i) ==
  IF Second(i) < 0 THEN i - DIRECT ELSE IF Third(i) < 0 THEN Lo(Second(i)) ELSE Lo(Third(i))

\* A block that is marked.
InUse(s, b) == b \in Blocks \ {0} /\ b % BITS \in s.bits["block"][b \div BITS]

\* Chart no has the number of the table at each place, 0 for none. No block is two tables, or a
\* table and one of the data blocks D, and all are marked.
Charted(s, no, D) ==
  /\ no \in [Places -> Int]
  /\ \A n \in 1 .. 3 : no[Root(n)] = s.inode.blocks[DIRECT + n - 1]
  /\ \A p \in Inner : no[p] = IF no[Up(p)] = 0 THEN 0 ELSE s.ptr[no[Up(p)]][Key(p)]
  /\ \A p \in Places : no[p] # 0 => InUse(s, no[p]) /\ no[p] \notin D
  /\ \A p, q \in Places : no[p] = no[q] /\ no[p] # 0 => p = q
  /\ \A d \in D : InUse(s, d)
  /\ 0 \in s.bits["block"][0]

\* The tables have the numbers m of the blocks of the file.
Listed(s, no, m) ==
  \A i \in DOMAIN m : i \in Indices /\ no[Leaf(i)] # 0 /\ s.ptr[no[Leaf(i)]][Entry(i)] = m[i]

OneToOne(m) == \A i, j \in DOMAIN m : m[i] = m[j] => i = j
DataOf(m) == {m[i] : i \in DOMAIN m}

\* The flaws after which nothing is said of the map.
MapFlaws == {"boundary", "stale", "full", "misfree", "misclear"}
Clean(s) == s.taint \cap MapFlaws = {}

\* No block is two blocks of the file, and there is a chart that lists them.
MapOk(s, m) == OneToOne(m) /\ \E no : Charted(s, no, DataOf(m)) /\ Listed(s, no, m)

MapInv == Clean(State) /\ status = "ok" => MapOk(State, mapped)

\* The digits of a block number in the third level.
LEMMA Digits ==
  ASSUME NEW c \in Nat
  PROVE  /\ Lo(c) \in Keys /\ Mid(c) \in Keys /\ Hi(c) \in Nat
         /\ c = Hi(c) * (P * P) + Mid(c) * P + Lo(c)
         /\ c < P * P * P => Hi(c) \in Keys
<1>1. P \in Nat \ {0, 1} /\ P * P \in Nat \ {0}
  BY Ext2Assumption
<1> DEFINE q == c \div P
           r == c % P
           h == q \div P
           m == q % P
<1>2. q \in Nat /\ r \in 0 .. P - 1 /\ c = q * P + r
  BY <1>1, DivMod
<1>3. h \in Nat /\ m \in 0 .. P - 1 /\ q = h * P + m
  BY <1>1, <1>2, DivMod
<1>4. Lo(c) = r /\ Mid(c) = m /\ Hi(c) = c \div (P * P)
  BY DEF Lo, Mid, Hi
<1> HIDE DEF q, r, h, m
<1>5. q * P = h * (P * P) + m * P
  BY <1>1, <1>3
<1>6. m * P + r \in 0 .. P * P - 1
  <2>1. m * P \in Nat /\ m * P <= (P - 1) * P /\ (P - 1) * P = P * P - P
    BY <1>1, <1>3
  <2>2. QED
    BY <1>1, <1>2, <2>1
<1>7. c = h * (P * P) + (m * P + r)
  BY <1>1, <1>2, <1>3, <1>5
<1>8. c \div (P * P) = h
  BY <1>1, <1>3, <1>6, <1>7, DivModUnique
<1>9. ASSUME c < P * P * P
      PROVE  h \in 0 .. P - 1
  <2>1. h * (P * P) <= c
    BY <1>1, <1>3, <1>6, <1>7
  <2>2. ~(h >= P)
    <3>1. ASSUME h >= P PROVE FALSE
      <4>1. h * (P * P) >= P * (P * P) /\ P * (P * P) = P * P * P
        BY <1>1, <1>3, <3>1
      <4>2. QED
        BY <1>1, <1>3, <1>9, <2>1, <4>1
    <3>2. QED
      BY <3>1
  <2>3. QED
    BY <1>1, <1>3, <2>2
<1>10. QED
  BY <1>1, <1>2, <1>3, <1>4, <1>5, <1>8, <1>9 DEF Keys

\* The tables are a tree.
LEMMA PlaceFacts ==
  /\ \A p \in Inner : Up(p) \in Places /\ Key(p) \in Keys /\ p \in Places /\ p \notin Roots
  /\ \A p, q \in Inner : Up(p) = Up(q) /\ Key(p) = Key(q) => p = q
  /\ \A n \in 1 .. 3 : Root(n) \in Places /\ Root(n) \notin Inner
  /\ \A m, n \in 1 .. 3 : Root(m) = Root(n) => m = n
  /\ \A n \in 2 .. 3, x \in Keys : Below(n, x) \in Inner /\ Up(Below(n, x)) = Root(n) /\ Key(Below(n, x)) = x
  /\ \A x, y \in Keys : Bottom(x, y) \in Inner /\ Up(Bottom(x, y)) = Below(3, x) /\ Key(Bottom(x, y)) = y
<1>0. NONE \notin Keys /\ NONE \in Int /\ Keys \subseteq Nat
  BY Ext2Assumption DEF Keys, NONE
<1>1. \A n \in 2 .. 3, x \in Keys : Below(n, x) \in Inner /\ Up(Below(n, x)) = Root(n) /\ Key(Below(n, x)) = x
  BY DEF Inner, Up, Key, Below
<1>2. \A x, y \in Keys : Bottom(x, y) \in Inner /\ Up(Bottom(x, y)) = Below(3, x) /\ Key(Bottom(x, y)) = y
  BY <1>0 DEF Inner, Up, Key, Bottom
<1>3. \A n \in 1 .. 3 : Root(n) \in Places
  BY DEF Places, Roots
<1>4. \A p \in Inner : \/ \E n \in 2 .. 3, x \in Keys : p = Below(n, x)
                       \/ \E x, y \in Keys : p = Bottom(x, y)
  BY DEF Inner
<1>5. /\ \A m, n \in 1 .. 3 : Root(m) = Root(n) => m = n
      /\ \A m \in 1 .. 3, n \in 2 .. 3, x \in Keys : Root(m) # Below(n, x)
      /\ \A m \in 1 .. 3, x, y \in Keys : Root(m) # Bottom(x, y)
      /\ \A m, n \in 2 .. 3, x, y \in Keys : Below(m, x) = Below(n, y) => m = n /\ x = y
      /\ \A n \in 2 .. 3, x, y, z \in Keys : Below(n, x) # Bottom(y, z)
  BY <1>0 DEF Root, Below, Bottom
<1>6. \A p \in Inner : Up(p) \in Places /\ Key(p) \in Keys /\ p \in Places
  <2>1. \A n \in 2 .. 3 : n \in 1 .. 3
    OBVIOUS
  <2>2. 3 \in 2 .. 3
    OBVIOUS
  <2>3. \A x \in Keys : Below(3, x) \in Inner
    BY <1>1, <2>2
  <2>4. QED
    BY <1>1, <1>2, <1>3, <1>4, <2>1, <2>3 DEF Places
<1>7. \A p \in Inner : p \notin Roots
  BY <1>4, <1>5 DEF Roots
<1>8. \A n \in 1 .. 3 : Root(n) \notin Inner
  BY <1>4, <1>5
<1>9. ASSUME NEW p \in Inner, NEW q \in Inner, Up(p) = Up(q), Key(p) = Key(q)
      PROVE  p = q
  <2>0. 3 \in 2 .. 3 /\ \A n \in 2 .. 3 : n \in 1 .. 3
    OBVIOUS
  <2>1. CASE \E n \in 2 .. 3, x \in Keys : p = Below(n, x)
    <3>1. PICK n \in 2 .. 3, x \in Keys : p = Below(n, x)
      BY <2>1
    <3>2. Up(p) = Root(n) /\ Key(p) = x
      BY <1>1, <3>1
    <3>3. CASE \E k \in 2 .. 3, y \in Keys : q = Below(k, y)
      <4>1. PICK k \in 2 .. 3, y \in Keys : q = Below(k, y)
        BY <3>3
      <4>2. Up(q) = Root(k) /\ Key(q) = y
        BY <1>1, <4>1
      <4>3. Root(n) = Root(k) /\ x = y
        BY <1>9, <3>2, <4>2
      <4>4. n = k
        BY <1>5, <2>0, <4>3
      <4>5. QED
        BY <3>1, <4>1, <4>3, <4>4
    <3>4. CASE \E y, z \in Keys : q = Bottom(y, z)
      <4>1. PICK y, z \in Keys : q = Bottom(y, z)
        BY <3>4
      <4>2. Root(n) = Below(3, y)
        BY <1>2, <1>9, <3>2, <4>1
      <4>3. QED
        BY <1>5, <2>0, <4>2
    <3>5. QED
      BY <1>4, <3>3, <3>4
  <2>2. CASE \E x, y \in Keys : p = Bottom(x, y)
    <3>1. PICK x, y \in Keys : p = Bottom(x, y)
      BY <2>2
    <3>2. Up(p) = Below(3, x) /\ Key(p) = y
      BY <1>2, <3>1
    <3>3. CASE \E k \in 2 .. 3, z \in Keys : q = Below(k, z)
      <4>1. PICK k \in 2 .. 3, z \in Keys : q = Below(k, z)
        BY <3>3
      <4>2. Root(k) = Below(3, x)
        BY <1>1, <1>9, <3>2, <4>1
      <4>3. QED
        BY <1>5, <2>0, <4>2
    <3>4. CASE \E v, z \in Keys : q = Bottom(v, z)
      <4>1. PICK v, z \in Keys : q = Bottom(v, z)
        BY <3>4
      <4>2. Below(3, x) = Below(3, v) /\ y = z
        BY <1>2, <1>9, <3>2, <4>1
      <4>3. x = v
        BY <1>5, <2>0, <4>2
      <4>4. QED
        BY <3>1, <4>1, <4>2, <4>3
    <3>5. QED
      BY <1>4, <3>3, <3>4
  <2>3. QED
    BY <1>4, <2>1, <2>2
<1>10. QED
  BY <1>1, <1>2, <1>3, <1>5, <1>6, <1>7, <1>8, <1>9

\* The level of a block of the file, and the number within it.
LEMMA Levels ==
  ASSUME NEW i \in Indices
  PROVE  /\ i \in Nat /\ Second(i) \in Int /\ Third(i) \in Int /\ Third(i) < P * P * P
         /\ i - DIRECT > 0 /\ i - DIRECT \in Nat /\ Second(i) # 0 /\ Third(i) # 0
         /\ Second(i) < 0 => i - DIRECT \in Keys
         /\ Second(i) >= 0 /\ Third(i) < 0 => Second(i) \in Nat /\ Second(i) \div P \in Keys /\ Lo(Second(i)) \in Keys
         /\ Third(i) >= 0 => Second(i) >= 0 /\ Third(i) \in Nat
         /\ Third(i) = Second(i) - P * P /\ Second(i) = i - DIRECT - P
<1>1. P \in Nat \ {0, 1} /\ DIRECT \in Nat \ {0, 1} /\ P * P \in Nat \ {0} /\ P * P * P \in Nat \ {0}
  BY Ext2Assumption
<1>2. i \in DIRECT .. MaxBlock /\ i # DIRECT /\ i # DIRECT + P /\ i # Triple /\ i # MaxBlock
  BY DEF Indices, Boundary
<1>3. PICK u, v : u = P * P /\ v = P * P * P
  OBVIOUS
<1>4. Triple = DIRECT + P + u /\ MaxBlock = DIRECT + P + u + v /\ Third(i) = i - DIRECT - P - u
  BY <1>3 DEF Triple, MaxBlock, Third
<1>5. u \in Nat \ {0} /\ v \in Nat \ {0} /\ i \in Int
  BY <1>1, <1>2, <1>3, <1>4
<1>6. /\ i \in Nat /\ Second(i) \in Int /\ Third(i) \in Int /\ Third(i) < v
      /\ i - DIRECT > 0 /\ i - DIRECT \in Nat /\ Second(i) # 0 /\ Third(i) # 0
      /\ Second(i) < 0 => i - DIRECT < P
      /\ Second(i) >= 0 => Second(i) \in Nat
      /\ Third(i) < 0 => Second(i) < u
      /\ Third(i) >= 0 => Second(i) >= 0 /\ Third(i) \in Nat
      /\ Third(i) = Second(i) - u
  BY <1>1, <1>2, <1>4, <1>5 DEF Second
<1>7. ASSUME Second(i) >= 0, Third(i) < 0
      PROVE  Second(i) \div P \in Keys /\ Lo(Second(i)) \in Keys
  <2>1. PICK b \in Nat : b = Second(i) /\ b < P * P
    BY <1>3, <1>6, <1>7
  <2>2. b \div P \in Nat /\ b % P \in 0 .. P - 1 /\ b = (b \div P) * P + (b % P)
    BY <1>1, DivMod
  <2>3. ~(b \div P >= P)
    <3>1. ASSUME b \div P >= P PROVE FALSE
      <4>1. (b \div P) * P >= P * P
        BY <1>1, <2>2, <3>1
      <4>2. QED
        BY <1>1, <2>1, <2>2, <4>1
    <3>2. QED
      BY <3>1
  <2>4. QED
    BY <1>1, <2>1, <2>2, <2>3 DEF Keys, Lo
<1>8. QED
  BY <1>1, <1>3, <1>6, <1>7 DEF Keys, Second

\* The number of each block of the file is in an entry of its own, in a table of the last level.
LEMMA LeafFacts ==
  /\ \A i \in Indices : Leaf(i) \in Places /\ Entry(i) \in Keys /\ \A p \in Inner : Leaf(i) # Up(p)
  /\ \A i, j \in Indices : Leaf(i) = Leaf(j) /\ Entry(i) = Entry(j) => i = j
<1>0. P \in Nat \ {0, 1} /\ NONE \notin Keys /\ P * P \in Nat /\ DIRECT \in Nat /\ Keys \subseteq Nat
  BY Ext2Assumption DEF Keys, NONE
<1>1. \A i \in Indices : \/ Second(i) < 0 /\ Leaf(i) = Root(1) /\ Entry(i) = i - DIRECT
                         \/ /\ Second(i) >= 0 /\ Third(i) < 0 /\ Leaf(i) = Below(2, Second(i) \div P)
                            /\ Entry(i) = Lo(Second(i))
                         \/ /\ Third(i) >= 0 /\ Leaf(i) = Bottom(Hi(Third(i)), Mid(Third(i)))
                            /\ Entry(i) = Lo(Third(i))
  <2> SUFFICES ASSUME NEW i \in Indices
               PROVE  \/ Second(i) < 0 /\ Leaf(i) = Root(1) /\ Entry(i) = i - DIRECT
                      \/ /\ Second(i) >= 0 /\ Third(i) < 0 /\ Leaf(i) = Below(2, Second(i) \div P)
                         /\ Entry(i) = Lo(Second(i))
                      \/ /\ Third(i) >= 0 /\ Leaf(i) = Bottom(Hi(Third(i)), Mid(Third(i)))
                         /\ Entry(i) = Lo(Third(i))
    OBVIOUS
  <2>1. Second(i) \in Int /\ Third(i) \in Int /\ (Third(i) >= 0 => Second(i) >= 0)
    BY Levels
  <2>2. QED
    BY <2>1 DEF Leaf, Entry
<1>2. \A i \in Indices : Third(i) >= 0 => /\ Hi(Third(i)) \in Keys /\ Mid(Third(i)) \in Keys /\ Lo(Third(i)) \in Keys
                                          /\ Third(i) \in Nat
  <2>1. \A i \in Indices : Third(i) >= 0 => Third(i) \in Nat /\ Third(i) < P * P * P
    BY Levels
  <2>2. QED
    BY <2>1, Digits
<1>3. /\ \A m, n \in 1 .. 3 : Root(m) = Root(n) => m = n
      /\ \A m \in 1 .. 3, n \in 2 .. 3, x \in Keys : Root(m) # Below(n, x)
      /\ \A m \in 1 .. 3, x, y \in Keys : Root(m) # Bottom(x, y)
      /\ \A m, n \in 2 .. 3, x, y \in Keys : Below(m, x) = Below(n, y) => m = n /\ x = y
      /\ \A n \in 2 .. 3, x, y, z \in Keys : Below(n, x) # Bottom(y, z)
      /\ \A x, y, v, z \in Keys : Bottom(x, y) = Bottom(v, z) => x = v /\ y = z
  BY <1>0 DEF Root, Below, Bottom
<1>4. \A p \in Inner : \/ \E n \in 2 .. 3 : Up(p) = Root(n)
                       \/ \E x \in Keys : Up(p) = Below(3, x)
  BY PlaceFacts DEF Inner
<1>5. 1 \in 1 .. 3 /\ 2 \in 2 .. 3 /\ 3 \in 2 .. 3 /\ \A n \in 2 .. 3 : n \in 1 .. 3 /\ n # 1
  OBVIOUS
<1>6. ASSUME NEW i \in Indices
      PROVE  Leaf(i) \in Places /\ Entry(i) \in Keys /\ \A p \in Inner : Leaf(i) # Up(p)
  <2>1. CASE Second(i) < 0 /\ Leaf(i) = Root(1) /\ Entry(i) = i - DIRECT
    <3>1. i - DIRECT \in Keys
      BY <2>1, Levels
    <3>2. Root(1) \in Places
      BY <1>5, PlaceFacts
    <3>3. \A p \in Inner : Root(1) # Up(p)
      BY <1>3, <1>4, <1>5
    <3>4. QED
      BY <2>1, <3>1, <3>2, <3>3
  <2>2. CASE Second(i) >= 0 /\ Third(i) < 0 /\ Leaf(i) = Below(2, Second(i) \div P) /\ Entry(i) = Lo(Second(i))
    <3>1. PICK x \in Keys : x = Second(i) \div P /\ Lo(Second(i)) \in Keys
      BY <2>2, Levels
    <3>2. Below(2, x) \in Places
      BY <1>5, PlaceFacts
    <3>3. \A p \in Inner : Below(2, x) # Up(p)
      BY <1>3, <1>4, <1>5
    <3>4. QED
      BY <2>2, <3>1, <3>2, <3>3
  <2>3. CASE Third(i) >= 0 /\ Leaf(i) = Bottom(Hi(Third(i)), Mid(Third(i))) /\ Entry(i) = Lo(Third(i))
    <3>1. PICK x, y \in Keys : x = Hi(Third(i)) /\ y = Mid(Third(i)) /\ Lo(Third(i)) \in Keys
      BY <1>2, <2>3
    <3>2. Bottom(x, y) \in Places
      BY PlaceFacts
    <3>3. \A p \in Inner : Bottom(x, y) # Up(p)
      BY <1>3, <1>4, <1>5
    <3>4. QED
      BY <2>3, <3>1, <3>2, <3>3
  <2>4. QED
    BY <1>1, <2>1, <2>2, <2>3
<1>7. ASSUME NEW i \in Indices, NEW j \in Indices, Leaf(i) = Leaf(j), Entry(i) = Entry(j)
      PROVE  i = j
  <2>0. /\ Second(i) = i - DIRECT - P /\ Third(i) = Second(i) - P * P
        /\ Second(j) = j - DIRECT - P /\ Third(j) = Second(j) - P * P /\ i \in Nat /\ j \in Nat
    BY Levels
  <2>1. CASE Second(i) < 0 /\ Leaf(i) = Root(1) /\ Entry(i) = i - DIRECT
    <3>1. Second(j) < 0 /\ Entry(j) = j - DIRECT
      <4>1. ~(Second(j) >= 0 /\ Third(j) < 0 /\ Leaf(j) = Below(2, Second(j) \div P))
        BY <1>3, <1>5, <1>7, <2>1, Levels
      <4>2. ~(Third(j) >= 0 /\ Leaf(j) = Bottom(Hi(Third(j)), Mid(Third(j))))
        BY <1>2, <1>3, <1>5, <1>7, <2>1
      <4>3. QED
        BY <1>1, <4>1, <4>2
    <3>2. i - DIRECT = j - DIRECT
      BY <1>7, <2>1, <3>1
    <3>3. QED
      BY <1>0, <2>0, <3>2
  <2>2. CASE Second(i) >= 0 /\ Third(i) < 0 /\ Leaf(i) = Below(2, Second(i) \div P) /\ Entry(i) = Lo(Second(i))
    <3>1. Second(i) \div P \in Keys
      BY <2>2, Levels
    <3>2. Second(j) >= 0 /\ Third(j) < 0 /\ Leaf(j) = Below(2, Second(j) \div P) /\ Entry(j) = Lo(Second(j))
      <4>1. ~(Leaf(j) = Root(1))
        BY <1>3, <1>5, <1>7, <2>2, <3>1
      <4>2. ~(Third(j) >= 0 /\ Leaf(j) = Bottom(Hi(Third(j)), Mid(Third(j))))
        BY <1>2, <1>3, <1>5, <1>7, <2>2, <3>1
      <4>3. QED
        BY <1>1, <4>1, <4>2
    <3>3. Second(j) \div P \in Keys
      BY <3>2, Levels
    <3>4. Second(i) \div P = Second(j) \div P /\ Second(i) % P = Second(j) % P
      <4>1. Below(2, Second(i) \div P) = Below(2, Second(j) \div P) /\ Lo(Second(i)) = Lo(Second(j))
        BY <1>7, <2>2, <3>2
      <4>2. PICK x, y \in Keys : x = Second(i) \div P /\ y = Second(j) \div P
        BY <3>1, <3>3
      <4>3. x = y
        BY <1>3, <1>5, <4>1, <4>2
      <4>4. QED
        BY <4>1, <4>2, <4>3 DEF Lo
    <3>5. Second(i) \in Nat /\ Second(j) \in Nat
      BY <2>2, <3>2, Levels
    <3>6. Second(i) = Second(j)
      <4>1. PICK b, c \in Nat : b = Second(i) /\ c = Second(j) /\ b \div P = c \div P /\ b % P = c % P
        BY <3>4, <3>5
      <4>2. b = (b \div P) * P + (b % P) /\ c = (c \div P) * P + (c % P)
        BY <1>0, DivMod
      <4>3. QED
        BY <4>1, <4>2
    <3>7. QED
      BY <1>0, <2>0, <3>6
  <2>3. CASE Third(i) >= 0 /\ Leaf(i) = Bottom(Hi(Third(i)), Mid(Third(i))) /\ Entry(i) = Lo(Third(i))
    <3>1. Hi(Third(i)) \in Keys /\ Mid(Third(i)) \in Keys /\ Third(i) \in Nat
      BY <1>2, <2>3
    <3>2. Third(j) >= 0 /\ Leaf(j) = Bottom(Hi(Third(j)), Mid(Third(j))) /\ Entry(j) = Lo(Third(j))
      <4>1. ~(Leaf(j) = Root(1))
        BY <1>3, <1>5, <1>7, <2>3, <3>1
      <4>2. ~(Second(j) >= 0 /\ Third(j) < 0 /\ Leaf(j) = Below(2, Second(j) \div P))
        BY <1>3, <1>5, <1>7, <2>3, <3>1, Levels
      <4>3. QED
        BY <1>1, <4>1, <4>2
    <3>3. Hi(Third(j)) \in Keys /\ Mid(Third(j)) \in Keys /\ Third(j) \in Nat
      BY <1>2, <3>2
    <3>4. Hi(Third(i)) = Hi(Third(j)) /\ Mid(Third(i)) = Mid(Third(j)) /\ Lo(Third(i)) = Lo(Third(j))
      <4>1. /\ Bottom(Hi(Third(i)), Mid(Third(i))) = Bottom(Hi(Third(j)), Mid(Third(j)))
            /\ Lo(Third(i)) = Lo(Third(j))
        BY <1>7, <2>3, <3>2
      <4>2. QED
        BY <1>3, <3>1, <3>3, <4>1
    <3>5. Third(i) = Third(j)
      BY <3>1, <3>3, <3>4, Digits
    <3>6. QED
      BY <1>0, <2>0, <3>5
  <2>4. QED
    BY <1>1, <2>1, <2>2, <2>3
<1>8. QED
  BY <1>6, <1>7

\* What was marked still is.
Wider(s, t) ==
  /\ \A b \in Blocks : InUse(s, b) => InUse(t, b)
  /\ 0 \in s.bits["block"][0] => 0 \in t.bits["block"][0]

\* A step that leaves the tables alone and frees nothing leaves the chart right.
LEMMA ChartSame ==
  ASSUME NEW s, NEW t, NEW no, NEW D, NEW m, Charted(s, no, D), Listed(s, no, m),
         t.ptr = s.ptr, t.inode.blocks = s.inode.blocks, Wider(s, t)
  PROVE  Charted(t, no, D) /\ Listed(t, no, m)
<1>1. \A b : InUse(s, b) => InUse(t, b)
  BY DEF Wider, InUse
<1>2. Charted(t, no, D)
  BY <1>1 DEF Charted, Wider
<1>3. QED
  BY <1>2 DEF Listed

\* A block is taken: it was not in use.
LEMMA TakeBlock ==
  ASSUME NEW s \in States, 0 \in s.bits["block"][0], NEW u, u = ext2_alloc_block(s), "full" \notin u.s.taint
  PROVE  /\ u.no \in Blocks \ {0} /\ ~InUse(s, u.no) /\ InUse(u.s, u.no) /\ Wider(s, u.s)
         /\ u.s \in States /\ SameData(s, u.s)
<1>0. "block" \in Kinds
  BY DEF Kinds
<1>1. ~(u.s = [s EXCEPT !.taint = @ \cup {"full"}])
  <2>1. ASSUME u.s = [s EXCEPT !.taint = @ \cup {"full"}] PROVE FALSE
    <3>1. u.s.taint = s.taint \cup {"full"}
      BY <2>1 DEF States
    <3>2. QED
      BY <3>1
  <2>2. QED
    BY <2>1
<1>2. PICK g \in Groups, k \in 0 .. BITS - 1 :
        k \in Clear(s, "block", g) /\ u.no = g * BITS + k /\ Took(s, u.s, "block", g, k, g * BITS + k)
  BY <1>0, <1>1, TakeBitEffect DEF ext2_alloc_block
<1>3. u.no \in Blocks /\ u.no \div BITS = g /\ u.no % BITS = k
  <2>1. g \in Nat
    BY Positive
  <2>2. g * BITS + k \in Blocks
    BY BlockOf
  <2>3. (g * BITS + k) \div BITS = g /\ (g * BITS + k) % BITS = k
    BY <2>1, Positive, DivModUnique
  <2>4. QED
    BY <1>2, <2>2, <2>3
<1>4. /\ u.s \in States /\ SameData(s, u.s) /\ u.s.bits["block"][g] = s.bits["block"][g] \cup {k}
      /\ \A gr \in Groups : gr # g => u.s.bits["block"][gr] = s.bits["block"][gr]
  BY <1>0, <1>2 DEF Took, Changed
<1>5. k \notin s.bits["block"][g]
  BY <1>2 DEF Clear
<1>6. u.no # 0
  <2>1. ASSUME u.no = 0 PROVE FALSE
    <3>1. g = 0 /\ k = 0
      <4>1. 0 \div BITS = 0 /\ 0 % BITS = 0
        BY Positive
      <4>2. QED
        BY <1>3, <2>1, <4>1
    <3>2. QED
      BY <1>5, <3>1
  <2>2. QED
    BY <2>1
<1>7. Wider(s, u.s)
  <2>1. \A gr \in Groups : s.bits["block"][gr] \subseteq u.s.bits["block"][gr]
    BY <1>4
  <2>2. \A b \in Blocks : b \div BITS \in Groups
    BY BlockOf
  <2>3. 0 \in Groups
    BY Positive
  <2>4. QED
    BY <2>1, <2>2, <2>3 DEF Wider, InUse
<1>8. QED
  BY <1>3, <1>4, <1>5, <1>6, <1>7 DEF InUse

\* A taken block comes with the state after.
LEMMA TakenPair ==
  ASSUME NEW s, NEW kind
  PROVE  \E x, no : TakeBit(s, kind) = [s |-> x, no |-> no]
<1> DEFINE able == {g \in Groups : s.count[kind][g] # 0 /\ Clear(s, kind, g) # {}}
           g == Min(able)
           k == Min(Clear(s, kind, g))
           no == g * BITS + k
           full == [s EXCEPT !.taint = @ \cup {"full"}]
           x == [Mark(s, kind, g, k) EXCEPT !.held[kind] = @ \cup {no}, !.twice = @ \/ no \in s.held[kind]]
<1>1. TakeBit(s, kind) = IF able = {} THEN [s |-> full, no |-> NONE] ELSE [s |-> x, no |-> no]
  BY DEF TakeBit
<1> HIDE DEF able, g, k, no, full, x
<1>2. QED
  BY <1>1

\* A block is taken for a table: it has no entries.
LEMMA NewTableBlank ==
  ASSUME NEW s, Sound(s), 0 \in s.bits["block"][0], NEW u, u = NewTable(s), Clean(u.s)
  PROVE  /\ u.no \in Blocks \ {0} /\ ~InUse(s, u.no) /\ InUse(u.s, u.no) /\ Wider(s, u.s) /\ s.ptr[u.no] = NoBlock
         /\ Sound(u.s) /\ u.s.ptr = s.ptr /\ u.s.inode = s.inode
<1> DEFINE t == ext2_alloc_block(s)
           w == [t.s EXCEPT !.taint = @ \cup {"stale"}]
<1>0. "block" \in Kinds /\ s \in States
  BY DEF Kinds, Sound
<1>1. Sound(t.s) /\ SameData(s, t.s)
  BY <1>0, TakeBitSound DEF ext2_alloc_block
<1>2. t = [s |-> t.s, no |-> t.no]
  <2>1. PICK x, no : t = [s |-> x, no |-> no]
    BY TakenPair DEF ext2_alloc_block
  <2>2. QED
    BY <2>1
<1>3. \/ u = t /\ ~(t.no \in Blocks /\ t.s.ptr[t.no] # NoBlock)
      \/ u = [t EXCEPT !.s.taint = @ \cup {"stale"}]
  BY DEF NewTable, t
<1> HIDE DEF t
<1>4. [t EXCEPT !.s.taint = @ \cup {"stale"}] = [s |-> w, no |-> t.no]
  BY <1>2
<1>5. w.taint = t.s.taint \cup {"stale"}
  BY <1>1 DEF Sound, States
<1> HIDE DEF w
<1>6. ~(u = [s |-> w, no |-> t.no])
  <2>1. ASSUME u = [s |-> w, no |-> t.no] PROVE FALSE
    <3>1. u.s = w
      BY <2>1
    <3>2. QED
      BY <1>5, <3>1 DEF Clean, MapFlaws
  <2>2. QED
    BY <2>1
<1>7. u = t /\ (t.no \in Blocks => t.s.ptr[t.no] = NoBlock)
  BY <1>3, <1>4, <1>6
<1>8. "full" \notin t.s.taint
  BY <1>7 DEF Clean, MapFlaws
<1>9. t.no \in Blocks \ {0} /\ ~InUse(s, t.no) /\ InUse(t.s, t.no) /\ Wider(s, t.s)
  BY <1>0, <1>8, TakeBlock DEF t
<1>10. QED
  BY <1>1, <1>7, <1>9 DEF SameData

\* Block b becomes the table at place p: its number is written where the chart says.
Plants(s, t, no, p, b) ==
  \/ /\ p \in Roots /\ t.ptr = s.ptr
     /\ \E n \in 1 .. 3 : p = Root(n) /\ t.inode.blocks = [s.inode.blocks EXCEPT ![DIRECT + n - 1] = b]
  \/ /\ p \in Inner /\ no[Up(p)] # 0 /\ t.inode.blocks = s.inode.blocks
     /\ t.ptr = [s.ptr EXCEPT ![no[Up(p)]] = [s.ptr[no[Up(p)]] EXCEPT ![Key(p)] = b]]

\* What else the tables say stays as it was.
Framed(s, t, no, p, b) ==
  /\ \A k \in Keys : t.ptr[b][k] = 0
  /\ \A q \in Places, k \in Keys :
       no[q] # 0 /\ (p \in Inner => q # Up(p) \/ k # Key(p)) => t.ptr[no[q]][k] = s.ptr[no[q]][k]
  /\ p \in Inner => no[Up(p)] # 0 /\ t.ptr[no[Up(p)]][Key(p)] = b
  /\ \A n \in 1 .. 3 : t.inode.blocks[DIRECT + n - 1] =
                         IF p = Root(n) THEN b ELSE s.inode.blocks[DIRECT + n - 1]

LEMMA PlantFrame ==
  ASSUME NEW s \in States, NEW t, NEW no, NEW D, NEW p \in Places, NEW b,
         Charted(s, no, D), b \in Blocks \ {0}, ~InUse(s, b), s.ptr[b] = NoBlock, Plants(s, t, no, p, b)
  PROVE  Framed(s, t, no, p, b)
<1>1. /\ s.ptr \in [Blocks -> Tables] /\ s.inode.blocks \in [0 .. DIRECT + 2 -> Int]
  BY DEF States, Inodes
<1>2. \A q \in Places : no[q] # 0 => no[q] \in Blocks /\ no[q] # b
  BY DEF Charted, InUse
<1>3. \A q, r \in Places : no[q] = no[r] /\ no[q] # 0 => q = r
  BY DEF Charted
<1>4. \A k \in Keys : s.ptr[b][k] = 0
  BY DEF NoBlock, Keys
<1>5. \A n \in 1 .. 3 : DIRECT + n - 1 \in 0 .. DIRECT + 2 /\ \A k \in 1 .. 3 : DIRECT + n - 1 = DIRECT + k - 1 => n = k
  BY Ext2Assumption
<1>6. CASE p \in Roots
  <2>1. p \notin Inner /\ t.ptr = s.ptr
    BY <1>6, PlaceFacts DEF Plants
  <2>2. PICK n \in 1 .. 3 : p = Root(n) /\ t.inode.blocks = [s.inode.blocks EXCEPT ![DIRECT + n - 1] = b]
    BY <2>1 DEF Plants
  <2>3. \A k \in 1 .. 3 : t.inode.blocks[DIRECT + k - 1] = IF k = n THEN b ELSE s.inode.blocks[DIRECT + k - 1]
    BY <1>1, <1>5, <2>2
  <2>4. \A k \in 1 .. 3 : p = Root(k) <=> k = n
    BY <2>2, PlaceFacts
  <2>5. QED
    BY <1>4, <2>1, <2>3, <2>4 DEF Framed
<1>7. CASE p \in Inner
  <2> DEFINE a == no[Up(p)]
  <2>1. /\ p \notin Roots /\ a # 0 /\ t.inode.blocks = s.inode.blocks
        /\ t.ptr = [s.ptr EXCEPT ![a] = [s.ptr[a] EXCEPT ![Key(p)] = b]]
    BY <1>7, PlaceFacts DEF Plants
  <2>2. Up(p) \in Places /\ Key(p) \in Keys /\ a \in Blocks /\ a # b
    BY <1>2, <1>7, <2>1, PlaceFacts
  <2>3. a = no[Up(p)]
    OBVIOUS
  <2> HIDE DEF a
  <2>4. s.ptr[a] \in Tables
    BY <1>1, <2>2
  <2>5. \A k \in Keys : t.ptr[a][k] = IF k = Key(p) THEN b ELSE s.ptr[a][k]
    BY <1>1, <2>1, <2>2, <2>4 DEF Tables, Keys
  <2>6. \A c \in Blocks : c # a => t.ptr[c] = s.ptr[c]
    BY <1>1, <2>1
  <2>7. \A k \in Keys : t.ptr[b][k] = 0
    BY <1>4, <2>2, <2>6
  <2>8. ASSUME NEW q \in Places, NEW k \in Keys, no[q] # 0, q # Up(p) \/ k # Key(p)
        PROVE  t.ptr[no[q]][k] = s.ptr[no[q]][k]
    <3>1. CASE no[q] = a
      <4>1. q = Up(p)
        BY <1>3, <2>2, <2>3, <2>8, <3>1
      <4>2. QED
        BY <2>5, <2>8, <3>1, <4>1
    <3>2. CASE no[q] # a
      BY <1>2, <2>6, <2>8, <3>2
    <3>3. QED
      BY <3>1, <3>2
  <2>9. \A n \in 1 .. 3 : p # Root(n)
    BY <2>1 DEF Roots
  <2>10. QED
    BY <1>7, <2>1, <2>2, <2>3, <2>5, <2>7, <2>8, <2>9 DEF Framed
<1>8. QED
  BY <1>6, <1>7 DEF Places

\* The chart with the new table.
LEMMA Planted ==
  ASSUME NEW s \in States, NEW t, NEW no, NEW D, NEW m, NEW p \in Places, NEW b,
         Charted(s, no, D), Listed(s, no, m), no[p] = 0, b \in Blocks \ {0}, ~InUse(s, b), InUse(t, b),
         Wider(s, t), s.ptr[b] = NoBlock, Plants(s, t, no, p, b)
  PROVE  Charted(t, [no EXCEPT ![p] = b], D) /\ Listed(t, [no EXCEPT ![p] = b], m)
<1> DEFINE c == [no EXCEPT ![p] = b]
<1>0. b \in Int /\ no \in [Places -> Int]
  BY Positive DEF Charted
<1>1. c \in [Places -> Int] /\ c[p] = b /\ \A q \in Places : q # p => c[q] = no[q]
  BY <1>0
<1> HIDE DEF c
<1>2. /\ \A k \in Keys : t.ptr[b][k] = 0
      /\ \A q \in Places, k \in Keys :
           no[q] # 0 /\ (p \in Inner => q # Up(p) \/ k # Key(p)) => t.ptr[no[q]][k] = s.ptr[no[q]][k]
      /\ p \in Inner => no[Up(p)] # 0 /\ t.ptr[no[Up(p)]][Key(p)] = b
      /\ \A n \in 1 .. 3 : t.inode.blocks[DIRECT + n - 1] =
                             IF p = Root(n) THEN b ELSE s.inode.blocks[DIRECT + n - 1]
  <2>1. Framed(s, t, no, p, b)
    BY PlantFrame
  <2>2. QED
    BY <2>1 DEF Framed
<1>3. \A n \in 1 .. 3 : c[Root(n)] = t.inode.blocks[DIRECT + n - 1]
  <2>1. \A n \in 1 .. 3 : Root(n) \in Places /\ no[Root(n)] = s.inode.blocks[DIRECT + n - 1]
    BY PlaceFacts DEF Charted
  <2>2. QED
    BY <1>1, <1>2, <2>1
<1>4. ASSUME NEW q \in Inner
      PROVE  c[q] = IF c[Up(q)] = 0 THEN 0 ELSE t.ptr[c[Up(q)]][Key(q)]
  <2>1. q \in Places /\ Up(q) \in Places /\ Key(q) \in Keys
    BY PlaceFacts
  <2>2. no[q] = IF no[Up(q)] = 0 THEN 0 ELSE s.ptr[no[Up(q)]][Key(q)]
    BY DEF Charted
  <2>3. CASE q = p
    <3>1. no[Up(q)] # 0 /\ t.ptr[no[Up(q)]][Key(q)] = b
      BY <1>2, <2>3
    <3>2. Up(q) # p
      BY <3>1
    <3>3. QED
      BY <1>1, <2>1, <2>3, <3>1, <3>2
  <2>4. CASE q # p /\ Up(q) = p
    <3>1. no[q] = 0 /\ c[q] = 0 /\ c[Up(q)] = b
      BY <1>1, <2>1, <2>2, <2>4
    <3>2. QED
      BY <1>2, <2>1, <3>1
  <2>5. CASE q # p /\ Up(q) # p
    <3>1. c[q] = no[q] /\ c[Up(q)] = no[Up(q)]
      BY <1>1, <2>1, <2>5
    <3>2. p \in Inner => Up(q) # Up(p) \/ Key(q) # Key(p)
      BY <2>5, PlaceFacts
    <3>3. no[Up(q)] # 0 => t.ptr[no[Up(q)]][Key(q)] = s.ptr[no[Up(q)]][Key(q)]
      BY <1>2, <2>1, <3>2
    <3>4. QED
      BY <2>2, <3>1, <3>3
  <2>6. QED
    BY <2>3, <2>4, <2>5
<1>5. \A x : InUse(s, x) => InUse(t, x) /\ x # b
  BY DEF Wider, InUse
<1>6. \A q \in Places : no[q] # 0 => InUse(s, no[q]) /\ no[q] \notin D /\ no[q] # b
  BY <1>5 DEF Charted
<1>7. \A d \in D : InUse(s, d) /\ d # b
  BY <1>5 DEF Charted
<1>8. \A q \in Places : c[q] # 0 => InUse(t, c[q]) /\ c[q] \notin D
  BY <1>1, <1>5, <1>6, <1>7
<1>9. \A q, r \in Places : c[q] = c[r] /\ c[q] # 0 => q = r
  <2>1. \A q, r \in Places : no[q] = no[r] /\ no[q] # 0 => q = r
    BY DEF Charted
  <2>2. QED
    BY <1>1, <1>6, <2>1
<1>10. \A d \in D : InUse(t, d)
  BY <1>5, <1>7
<1>11. 0 \in t.bits["block"][0]
  BY DEF Charted, Wider
<1>12. Charted(t, c, D)
  BY <1>1, <1>3, <1>4, <1>8, <1>9, <1>10, <1>11 DEF Charted
<1>13. ASSUME NEW i \in DOMAIN m
       PROVE  i \in Indices /\ c[Leaf(i)] # 0 /\ t.ptr[c[Leaf(i)]][Entry(i)] = m[i]
  <2>1. i \in Indices /\ no[Leaf(i)] # 0 /\ s.ptr[no[Leaf(i)]][Entry(i)] = m[i]
    BY DEF Listed
  <2>2. Leaf(i) \in Places /\ Entry(i) \in Keys /\ (p \in Inner => Leaf(i) # Up(p)) /\ Leaf(i) # p
    BY <2>1, LeafFacts
  <2>3. c[Leaf(i)] = no[Leaf(i)] /\ t.ptr[no[Leaf(i)]][Entry(i)] = s.ptr[no[Leaf(i)]][Entry(i)]
    BY <1>1, <1>2, <2>1, <2>2
  <2>4. QED
    BY <2>1, <2>3
<1>14. Listed(t, c, m)
  BY <1>13 DEF Listed
<1>15. QED
  BY <1>12, <1>14 DEF c

\* A sound state with a chart that lists m.
Good(s, no, D, m) == Sound(s) /\ Charted(s, no, D) /\ Listed(s, no, m)

\* The tables that were charted stay where they are.
Longer(no, c) == \A p \in Places : no[p] # 0 => c[p] = no[p]

\* The state after has no flaw that the state before did not have.
LEMMA CleanBefore ==
  ASSUME NEW s, NEW t, Kept(s, t), Clean(t)
  PROVE  Clean(s)
BY DEF Kept, SameFile, Clean

\* The write of the inode leaves the map alone.
LEMMA WriteInodeFrame ==
  ASSUME NEW s \in States, NEW t, t = write_inode_metadata(s, FILE)
  PROVE  t.ptr = s.ptr /\ t.inode = s.inode /\ t.bits = s.bits /\ t.taint = s.taint
<1>1. t = s \/ t = [s EXCEPT !.slot[FILE] = s.inode]
  BY DEF write_inode_metadata
<1>2. QED
  BY <1>1 DEF States

\* Marks that are the same.
LEMMA WiderSame ==
  ASSUME NEW s, NEW t, NEW u, Wider(s, t), u.bits = t.bits
  PROVE  Wider(s, u) /\ \A b : InUse(t, b) => InUse(u, b)
BY DEF Wider, InUse

\* The number in a table is that of the table below.
LEMMA TableAt ==
  ASSUME NEW s, NEW no, NEW D, Charted(s, no, D)
  PROVE  /\ \A p \in Places : no[p] # 0 => no[p] \in Blocks /\ Table(s, no[p]) = s.ptr[no[p]]
         /\ \A p \in Inner : no[p] # 0 => no[Up(p)] # 0
         /\ \A p \in Inner : no[Up(p)] # 0 => Table(s, no[Up(p)])[Key(p)] = no[p]
         /\ \A n \in 1 .. 3 : s.inode.blocks[DIRECT + n - 1] = no[Root(n)]
<1>1. \A p \in Places : no[p] # 0 => no[p] \in Blocks /\ Table(s, no[p]) = s.ptr[no[p]]
  BY DEF Charted, InUse, Table
<1>2. \A p \in Inner : no[p] = IF no[Up(p)] = 0 THEN 0 ELSE s.ptr[no[Up(p)]][Key(p)]
  BY DEF Charted
<1>3. \A p \in Inner : Up(p) \in Places
  BY PlaceFacts
<1>4. \A n \in 1 .. 3 : s.inode.blocks[DIRECT + n - 1] = no[Root(n)]
  BY DEF Charted
<1>5. \A p \in Inner : no[Up(p)] # 0 => Table(s, no[Up(p)])[Key(p)] = no[p]
  BY <1>1, <1>2, <1>3
<1>6. QED
  BY <1>1, <1>2, <1>4, <1>5

\* A root gets a table.
LEMMA InodeTableAt ==
  ASSUME NEW s, NEW no, NEW D, NEW m, Good(s, no, D, m), NEW n \in 1 .. 3,
         NEW t, t = InodeTable(s, FILE, DIRECT + n - 1), Clean(t)
  PROVE  \E c : Good(t, c, D, m) /\ Longer(no, c) /\ c[Root(n)] # 0
<1>1. PICK e : e = DIRECT + n - 1 /\ e \in 0 .. DIRECT + 2
  BY Ext2Assumption
<1>2. s.inode.blocks[e] = no[Root(n)] /\ Root(n) \in Places
  BY <1>1, TableAt, PlaceFacts DEF Good
<1>3. CASE no[Root(n)] # 0
  <2>1. t = s
    BY <1>1, <1>2, <1>3 DEF InodeTable
  <2>2. QED
    BY <1>3, <2>1 DEF Longer
<1>4. CASE no[Root(n)] = 0
  <2> DEFINE u == NewTable(s)
             v == [u.s EXCEPT !.inode.blocks[e] = u.no]
  <2>0. Sound(s) /\ s \in States
    BY DEF Good, Sound
  <2>1. t = write_inode_metadata(v, FILE)
    BY <1>1, <1>2, <1>4 DEF InodeTable
  <2>2. Kept(s, u.s) /\ u.no \in Int
    BY <2>0, NewTableKept
  <2> HIDE DEF u
  <2>3. Kept(u.s, v)
    BY <2>2, EntryKept DEF Kept
  <2>4. /\ v.ptr = u.s.ptr /\ v.bits = u.s.bits /\ v.taint = u.s.taint
        /\ v.inode.blocks = [u.s.inode.blocks EXCEPT ![e] = u.no]
    BY <2>2 DEF Kept, Sound, States, Inodes
  <2> HIDE DEF v
  <2>5. v \in States
    BY <2>3 DEF Kept, Sound
  <2>6. t.ptr = v.ptr /\ t.inode = v.inode /\ t.bits = v.bits /\ t.taint = v.taint
    BY <2>1, <2>5, WriteInodeFrame
  <2>7. Sound(t)
    BY <2>1, <2>3, WriteInodeKept DEF Kept
  <2>8. Clean(u.s)
    BY <2>4, <2>6 DEF Clean
  <2>9. 0 \in s.bits["block"][0]
    BY DEF Good, Charted
  <2>10. /\ u.no \in Blocks \ {0} /\ ~InUse(s, u.no) /\ InUse(u.s, u.no) /\ Wider(s, u.s) /\ s.ptr[u.no] = NoBlock
         /\ u.s.ptr = s.ptr /\ u.s.inode = s.inode
    BY <2>0, <2>8, <2>9, NewTableBlank DEF u
  <2>11. Wider(s, t) /\ InUse(t, u.no)
    <3>1. t.bits = u.s.bits
      BY <2>4, <2>6
    <3>2. QED
      BY <2>10, <3>1, WiderSame
  <2>12. Plants(s, t, no, Root(n), u.no)
    <3>1. t.ptr = s.ptr /\ t.inode.blocks = [s.inode.blocks EXCEPT ![e] = u.no]
      BY <2>4, <2>6, <2>10
    <3>2. Root(n) \in Roots
      BY DEF Roots
    <3>3. QED
      BY <1>1, <3>1, <3>2 DEF Plants
  <2>13. PICK c : c = [no EXCEPT ![Root(n)] = u.no]
    OBVIOUS
  <2>14. Charted(s, no, D) /\ Listed(s, no, m)
    BY DEF Good
  <2>15. Charted(t, c, D) /\ Listed(t, c, m)
    BY <1>2, <1>4, <2>0, <2>10, <2>11, <2>12, <2>13, <2>14, Planted
  <2>16. c[Root(n)] = u.no /\ \A p \in Places : p # Root(n) => c[p] = no[p]
    BY <1>2, <2>13, <2>14 DEF Charted
  <2>17. Longer(no, c)
    BY <1>4, <2>16 DEF Longer
  <2>18. QED
    BY <2>7, <2>10, <2>15, <2>16, <2>17 DEF Good
<1>5. QED
  BY <1>3, <1>4

\* A place below a table gets a table.
LEMMA SubTableAt ==
  ASSUME NEW s, NEW no, NEW D, NEW m, Good(s, no, D, m), NEW p \in Inner, no[Up(p)] # 0,
         NEW t, t = SubTable(s, no[Up(p)], Key(p)), Clean(t)
  PROVE  \E c : Good(t, c, D, m) /\ Longer(no, c) /\ c[p] # 0
<1>1. PICK b, k : b = no[Up(p)] /\ k = Key(p)
  OBVIOUS
<1>2. p \in Places /\ Up(p) \in Places /\ k \in Keys /\ b \in Blocks /\ Table(s, b)[k] = no[p]
  BY <1>1, TableAt, PlaceFacts DEF Good
<1>3. CASE no[p] # 0
  <2>1. t = s
    BY <1>1, <1>2, <1>3 DEF SubTable
  <2>2. QED
    BY <1>3, <2>1 DEF Longer
<1>4. CASE no[p] = 0
  <2> DEFINE u == NewTable(s)
             v == [u.s EXCEPT !.ptr[b][k] = u.no]
  <2>0. Sound(s) /\ s \in States
    BY DEF Good, Sound
  <2>1. t = v
    BY <1>1, <1>2, <1>4 DEF SubTable
  <2>2. Kept(s, u.s) /\ u.no \in Int
    BY <2>0, NewTableKept
  <2> HIDE DEF u
  <2>3. Kept(u.s, v)
    BY <1>2, <2>2, TableKept DEF Kept
  <2>4. /\ v.ptr = [u.s.ptr EXCEPT ![b] = [u.s.ptr[b] EXCEPT ![k] = u.no]]
        /\ v.bits = u.s.bits /\ v.taint = u.s.taint /\ v.inode = u.s.inode
    BY <2>2 DEF Kept, Sound, States
  <2> HIDE DEF v
  <2>7. Sound(t)
    BY <2>1, <2>3 DEF Kept
  <2>8. Clean(u.s)
    BY <2>1, <2>4 DEF Clean
  <2>9. 0 \in s.bits["block"][0]
    BY DEF Good, Charted
  <2>10. /\ u.no \in Blocks \ {0} /\ ~InUse(s, u.no) /\ InUse(u.s, u.no) /\ Wider(s, u.s) /\ s.ptr[u.no] = NoBlock
         /\ u.s.ptr = s.ptr /\ u.s.inode = s.inode
    BY <2>0, <2>8, <2>9, NewTableBlank DEF u
  <2>11. Wider(s, t) /\ InUse(t, u.no)
    BY <2>1, <2>4, <2>10, WiderSame
  <2>12. Plants(s, t, no, p, u.no)
    BY <1>1, <2>1, <2>4, <2>10 DEF Plants
  <2>13. PICK c : c = [no EXCEPT ![p] = u.no]
    OBVIOUS
  <2>14. Charted(s, no, D) /\ Listed(s, no, m)
    BY DEF Good
  <2>15. Charted(t, c, D) /\ Listed(t, c, m)
    BY <1>2, <1>4, <2>0, <2>10, <2>11, <2>12, <2>13, <2>14, Planted
  <2>16. c[p] = u.no /\ \A q \in Places : q # p => c[q] = no[q]
    BY <1>2, <2>13, <2>14 DEF Charted
  <2>17. Longer(no, c)
    BY <1>4, <2>16 DEF Longer
  <2>18. QED
    BY <2>7, <2>10, <2>15, <2>16, <2>17 DEF Good
<1>5. QED
  BY <1>3, <1>4

\* The list with block i of the file.
With(m, i, d) == [j \in DOMAIN m \cup {i} |-> IF j = i THEN d ELSE m[j]]

\* A data block is written to the table of the last level.
LEMMA SetEntryAt ==
  ASSUME NEW s, NEW no, NEW D, NEW m, Good(s, no, D, m), NEW i \in Indices, no[Leaf(i)] # 0, NEW d \in D,
         NEW t, t = SetEntry(s, no[Leaf(i)], Entry(i), d)
  PROVE  Good(t, no, D, With(m, i, d))
<1>1. PICK b, k : b = no[Leaf(i)] /\ k = Entry(i)
  OBVIOUS
<1>2. /\ Sound(s) /\ s \in States /\ Leaf(i) \in Places /\ k \in Keys /\ b \in Blocks /\ d \in Int
      /\ \A p \in Inner : Leaf(i) # Up(p)
  <2>1. d \in Int
    <3>1. d \in Blocks
      BY DEF Good, Charted, InUse
    <3>2. QED
      BY <3>1, Positive
  <2>2. Leaf(i) \in Places /\ k \in Keys /\ \A p \in Inner : Leaf(i) # Up(p)
    BY <1>1, LeafFacts
  <2>3. QED
    BY <1>1, <2>1, <2>2, TableAt DEF Good, Sound
<1>3. t = [s EXCEPT !.ptr[b][k] = d]
  <2>1. k < P
    BY <1>2, Ext2Assumption DEF Keys
  <2>2. QED
    BY <1>1, <1>2, <2>1 DEF SetEntry
<1>4. Sound(t)
  BY <1>2, <1>3, TableKept DEF Kept
<1>5. /\ t.ptr = [s.ptr EXCEPT ![b] = [s.ptr[b] EXCEPT ![k] = d]]
      /\ t.bits = s.bits /\ t.inode = s.inode
  BY <1>2, <1>3 DEF States
<1>6. /\ \A a \in Blocks : a # b => t.ptr[a] = s.ptr[a]
      /\ \A e \in Keys : t.ptr[b][e] = IF e = k THEN d ELSE s.ptr[b][e]
  <2>1. s.ptr \in [Blocks -> Tables] /\ s.ptr[b] \in [Keys -> Int]
    BY <1>2 DEF States, Tables, Keys
  <2>2. QED
    BY <1>2, <1>5, <2>1
<1>7. /\ \A p \in Places : no[p] # 0 => no[p] \in Blocks /\ (p # Leaf(i) => no[p] # b)
  <2>1. \A p, q \in Places : no[p] = no[q] /\ no[p] # 0 => p = q
    BY DEF Good, Charted
  <2>2. QED
    BY <1>1, <1>2, <2>1, TableAt DEF Good
<1>8. ASSUME NEW p \in Inner, no[Up(p)] # 0
      PROVE  t.ptr[no[Up(p)]] = s.ptr[no[Up(p)]]
  BY <1>2, <1>6, <1>7, <1>8, PlaceFacts
<1>9. Charted(t, no, D)
  <2>1. \A x : InUse(s, x) => InUse(t, x)
    BY <1>5 DEF InUse
  <2>2. \A p \in Inner : no[p] = IF no[Up(p)] = 0 THEN 0 ELSE t.ptr[no[Up(p)]][Key(p)]
    BY <1>8 DEF Good, Charted
  <2>3. QED
    BY <1>5, <2>1, <2>2 DEF Good, Charted
<1>10. ASSUME NEW j \in DOMAIN m \cup {i}
       PROVE  j \in Indices /\ no[Leaf(j)] # 0 /\ t.ptr[no[Leaf(j)]][Entry(j)] = IF j = i THEN d ELSE m[j]
  <2>1. CASE j = i
    BY <1>1, <1>2, <1>6, <2>1
  <2>2. CASE j # i
    <3>1. j \in Indices /\ no[Leaf(j)] # 0 /\ s.ptr[no[Leaf(j)]][Entry(j)] = m[j]
      BY <2>2 DEF Good, Listed
    <3>2. Leaf(j) \in Places /\ Entry(j) \in Keys /\ (Leaf(j) # Leaf(i) \/ Entry(j) # Entry(i))
      BY <2>2, <3>1, LeafFacts
    <3>3. CASE Leaf(j) = Leaf(i)
      BY <1>1, <1>6, <2>2, <3>1, <3>2, <3>3
    <3>4. CASE Leaf(j) # Leaf(i)
      BY <1>6, <1>7, <2>2, <3>1, <3>2, <3>4
    <3>5. QED
      BY <3>3, <3>4
  <2>3. QED
    BY <2>1, <2>2
<1>11. Listed(t, no, With(m, i, d))
  BY <1>10 DEF Listed, With
<1>12. QED
  BY <1>4, <1>9, <1>11 DEF Good

\* The three cases of get_disk_block_number and set_disk_block_number.
LEMMA LeafCases ==
  ASSUME NEW i \in Indices
  PROVE  \/ Second(i) < 0 /\ Leaf(i) = Root(1) /\ Entry(i) = i - DIRECT
         \/ /\ Second(i) > 0 /\ Third(i) < 0 /\ Entry(i) = Lo(Second(i))
            /\ \E x \in Keys : x = Second(i) \div P /\ Leaf(i) = Below(2, x)
         \/ /\ Second(i) > 0 /\ Third(i) > 0 /\ Third(i) < P * P * P /\ Entry(i) = Lo(Third(i))
            /\ \E x, y \in Keys : x = Hi(Third(i)) /\ y = Mid(Third(i)) /\ Leaf(i) = Bottom(x, y)
<1>1. /\ Second(i) \in Int /\ Third(i) \in Int /\ Third(i) < P * P * P /\ Second(i) # 0 /\ Third(i) # 0
      /\ Second(i) >= 0 /\ Third(i) < 0 => Second(i) \div P \in Keys
      /\ Third(i) >= 0 => Second(i) >= 0 /\ Third(i) \in Nat
  BY Levels
<1>2. Third(i) >= 0 => Hi(Third(i)) \in Keys /\ Mid(Third(i)) \in Keys
  BY <1>1, Digits
<1>3. CASE Second(i) < 0
  BY <1>3 DEF Leaf, Entry
<1>4. CASE Second(i) > 0 /\ Third(i) < 0
  <2>1. ~(Second(i) < 0) /\ Second(i) >= 0
    BY <1>1, <1>4
  <2>2. Leaf(i) = Below(2, Second(i) \div P) /\ Entry(i) = Lo(Second(i))
    BY <1>4, <2>1 DEF Leaf, Entry
  <2>3. QED
    BY <1>1, <1>4, <2>1, <2>2
<1>5. CASE Third(i) > 0
  <2>1. Third(i) >= 0 /\ Second(i) > 0 /\ ~(Second(i) < 0) /\ ~(Third(i) < 0)
    BY <1>1, <1>5
  <2>2. Leaf(i) = Bottom(Hi(Third(i)), Mid(Third(i))) /\ Entry(i) = Lo(Third(i))
    BY <2>1 DEF Leaf, Entry
  <2>3. QED
    BY <1>1, <1>2, <1>5, <2>1, <2>2
<1>6. QED
  BY <1>1, <1>3, <1>4, <1>5

\* get_disk_block_number reads the entry.
LEMMA GetAt ==
  ASSUME NEW s, NEW no, NEW D, Charted(s, no, D), NEW i \in Indices, no[Leaf(i)] # 0
  PROVE  get_disk_block_number(s, i) = s.ptr[no[Leaf(i)]][Entry(i)]
<1>1. PICK a, b, c : a = i - DIRECT /\ b = Second(i) /\ c = Third(i)
  OBVIOUS
<1>2. a \in Nat /\ a > 0 /\ b = a - P /\ c = b - P * P /\ b \in Int /\ c \in Int
  BY <1>1, Levels
<1>3. get_disk_block_number(s, i) =
        IF a < 0 THEN s.inode.blocks[i]
        ELSE IF b < 0 THEN Table(s, s.inode.blocks[DIRECT])[a]
        ELSE IF c < 0 THEN Table(s, Table(s, s.inode.blocks[DIRECT + 1])[b \div P])[Lo(b)]
        ELSE IF c < P * P * P
             THEN Table(s, Table(s, Table(s, s.inode.blocks[DIRECT + 2])[Hi(c)])[Mid(c)])[Lo(c)]
        ELSE 0
  BY <1>1, <1>2 DEF get_disk_block_number, Second, Third
<1>4. Leaf(i) \in Places /\ Table(s, no[Leaf(i)]) = s.ptr[no[Leaf(i)]]
  BY LeafFacts, TableAt
<1>5. /\ s.inode.blocks[DIRECT] = no[Root(1)] /\ s.inode.blocks[DIRECT + 1] = no[Root(2)]
      /\ s.inode.blocks[DIRECT + 2] = no[Root(3)]
  <2>1. /\ s.inode.blocks[DIRECT + 1 - 1] = no[Root(1)] /\ s.inode.blocks[DIRECT + 2 - 1] = no[Root(2)]
        /\ s.inode.blocks[DIRECT + 3 - 1] = no[Root(3)]
    BY TableAt
  <2>2. DIRECT + 1 - 1 = DIRECT /\ DIRECT + 2 - 1 = DIRECT + 1 /\ DIRECT + 3 - 1 = DIRECT + 2
    BY Ext2Assumption
  <2>3. QED
    BY <2>1, <2>2
<1>6. CASE b < 0 /\ Leaf(i) = Root(1) /\ Entry(i) = a
  <2>1. get_disk_block_number(s, i) = Table(s, s.inode.blocks[DIRECT])[a]
    BY <1>2, <1>3, <1>6
  <2>2. QED
    BY <1>4, <1>5, <1>6, <2>1
<1>7. CASE b > 0 /\ c < 0 /\ Entry(i) = Lo(b) /\ \E x \in Keys : x = b \div P /\ Leaf(i) = Below(2, x)
  <2>1. get_disk_block_number(s, i) = Table(s, Table(s, s.inode.blocks[DIRECT + 1])[b \div P])[Lo(b)]
    BY <1>2, <1>3, <1>7
  <2>2. PICK x \in Keys : x = b \div P /\ Leaf(i) = Below(2, x)
    BY <1>7
  <2>3. Below(2, x) \in Inner /\ Up(Below(2, x)) = Root(2) /\ Key(Below(2, x)) = x
    BY PlaceFacts
  <2>4. Table(s, no[Root(2)])[x] = no[Below(2, x)]
    BY <2>2, <2>3, TableAt
  <2>5. QED
    BY <1>4, <1>5, <1>7, <2>1, <2>2, <2>4
<1>8. CASE /\ b > 0 /\ c > 0 /\ c < P * P * P /\ Entry(i) = Lo(c)
           /\ \E x, y \in Keys : x = Hi(c) /\ y = Mid(c) /\ Leaf(i) = Bottom(x, y)
  <2>1. get_disk_block_number(s, i) = Table(s, Table(s, Table(s, s.inode.blocks[DIRECT + 2])[Hi(c)])[Mid(c)])[Lo(c)]
    BY <1>2, <1>3, <1>8
  <2>2. PICK x, y \in Keys : x = Hi(c) /\ y = Mid(c) /\ Leaf(i) = Bottom(x, y)
    BY <1>8
  <2>3. Bottom(x, y) \in Inner /\ Up(Bottom(x, y)) = Below(3, x) /\ Key(Bottom(x, y)) = y
    BY PlaceFacts
  <2>4. Below(3, x) \in Inner /\ Up(Below(3, x)) = Root(3) /\ Key(Below(3, x)) = x
    BY PlaceFacts
  <2>5. no[Below(3, x)] # 0 /\ Table(s, no[Below(3, x)])[y] = no[Bottom(x, y)]
    BY <2>2, <2>3, TableAt
  <2>6. Table(s, no[Root(3)])[x] = no[Below(3, x)]
    BY <2>4, <2>5, TableAt
  <2>7. QED
    BY <1>4, <1>5, <1>8, <2>1, <2>2, <2>5, <2>6
<1>9. QED
  BY <1>1, <1>6, <1>7, <1>8, LeafCases

\* set_disk_block_number writes it, with new tables on the way.
LEMMA SetAt ==
  ASSUME NEW s, NEW no, NEW D, NEW m, Good(s, no, D, m), NEW i \in Indices, NEW d \in D,
         NEW t, t = set_disk_block_number(s, FILE, i, d), Clean(t)
  PROVE  \E c : Good(t, c, D, With(m, i, d))
<1> DEFINE a == i - DIRECT
           b == a - P
           c == b - P * P
           at == IF Boundary(i) THEN [s EXCEPT !.taint = @ \cup {"boundary"}] ELSE s
           one == InodeTable(at, FILE, DIRECT)
           two == InodeTable(at, FILE, DIRECT + 1)
           twoB == two.inode.blocks[DIRECT + 1]
           twoS == SubTable(two, twoB, b \div P)
           three == InodeTable(at, FILE, DIRECT + 2)
           threeB == three.inode.blocks[DIRECT + 2]
           threeS == SubTable(three, threeB, Hi(c))
           midB == Table(threeS, threeB)[Hi(c)]
           threeT == SubTable(threeS, midB, Mid(c))
           u1 == [at EXCEPT !.inode.blocks[i] = d]
           u2 == SetEntry(one, one.inode.blocks[DIRECT], a, d)
           u3 == SetEntry(twoS, Table(twoS, twoB)[b \div P], Lo(b), d)
           u4 == SetEntry(threeT, Table(threeT, midB)[Mid(c)], Lo(c), d)
<1>1. /\ ~(a <= 0) /\ b <= 0 => t = u2
      /\ ~(a <= 0) /\ ~(b <= 0) /\ c < 0 => t = u3
      /\ ~(a <= 0) /\ ~(b <= 0) /\ ~(c < 0) /\ c < P * P * P => t = u4
  <2>1. set_disk_block_number(s, FILE, i, d) =
          IF a <= 0 THEN u1 ELSE IF b <= 0 THEN u2 ELSE IF c < 0 THEN u3 ELSE IF c < P * P * P THEN u4 ELSE at
    BY Zenon DEF set_disk_block_number
  <2>2. t = set_disk_block_number(s, FILE, i, d)
    OBVIOUS
  <2> HIDE DEF a, b, c, at, u1, u2, u3, u4
  <2>3. QED
    BY <2>1, <2>2, Zenon
<1>2. at = s /\ Sound(s) /\ d \in Int
  <2>1. d \in Blocks
    BY DEF Good, Charted, InUse
  <2>2. QED
    BY <2>1, Positive DEF Indices, Good
<1>3. b = Second(i) /\ c = Third(i)
  BY DEF Second, Third
<1> HIDE DEF a, b, c, at, one, two, twoB, twoS, three, threeB, threeS, midB, threeT, u1, u2, u3, u4
<1>4. a \in Nat /\ a > 0 /\ b \in Int /\ c \in Int /\ a = i - DIRECT
  BY <1>3, Levels DEF a
<1>5. DIRECT + 1 - 1 = DIRECT /\ DIRECT + 2 - 1 = DIRECT + 1 /\ DIRECT + 3 - 1 = DIRECT + 2
  BY Ext2Assumption
<1>6. CASE b < 0 /\ Leaf(i) = Root(1) /\ Entry(i) = a
  <2>1. t = SetEntry(one, one.inode.blocks[DIRECT], a, d)
    BY <1>1, <1>4, <1>6 DEF u2
  <2>2. Kept(s, one)
    BY <1>2, InodeTableKept DEF one
  <2>3. Clean(one)
    <3>1. Kept(one, t)
      BY <1>2, <2>1, <2>2, SetEntryKept DEF Kept
    <3>2. QED
      BY <3>1, CleanBefore
  <2>4. PICK n1 : Good(one, n1, D, m) /\ n1[Root(1)] # 0
    <3>1. one = InodeTable(s, FILE, DIRECT + 1 - 1) /\ 1 \in 1 .. 3
      BY <1>2, <1>5 DEF one
    <3>2. QED
      BY <2>3, <3>1, InodeTableAt
  <2>5. one.inode.blocks[DIRECT] = n1[Root(1)]
    <3>1. one.inode.blocks[DIRECT + 1 - 1] = n1[Root(1)]
      BY <2>4, TableAt DEF Good
    <3>2. QED
      BY <1>5, <3>1
  <2>6. t = SetEntry(one, n1[Leaf(i)], Entry(i), d) /\ n1[Leaf(i)] # 0
    BY <1>6, <2>1, <2>4, <2>5
  <2>7. Good(t, n1, D, With(m, i, d))
    BY <2>4, <2>6, SetEntryAt
  <2>8. QED
    BY <2>7
<1>7. CASE b > 0 /\ c < 0 /\ Entry(i) = Lo(b) /\ \E x \in Keys : x = b \div P /\ Leaf(i) = Below(2, x)
  <2>1. PICK x \in Keys : x = b \div P /\ Leaf(i) = Below(2, x)
    BY <1>7
  <2>2. t = SetEntry(twoS, Table(twoS, twoB)[x], Lo(b), d)
    BY <1>1, <1>4, <1>7, <2>1 DEF u3
  <2>3. Kept(s, two)
    BY <1>2, InodeTableKept DEF two
  <2>4. Kept(two, twoS)
    BY <2>3, SubTableKept DEF Kept, twoS
  <2>5. Clean(twoS)
    <3>1. Kept(twoS, t)
      BY <1>2, <2>2, <2>4, SetEntryKept DEF Kept
    <3>2. QED
      BY <3>1, CleanBefore
  <2>6. Clean(two)
    BY <2>4, <2>5, CleanBefore
  <2>7. PICK n1 : Good(two, n1, D, m) /\ n1[Root(2)] # 0
    <3>1. two = InodeTable(s, FILE, DIRECT + 2 - 1) /\ 2 \in 1 .. 3
      BY <1>2, <1>5 DEF two
    <3>2. QED
      BY <2>6, <3>1, InodeTableAt
  <2>8. twoB = n1[Root(2)]
    <3>1. two.inode.blocks[DIRECT + 2 - 1] = n1[Root(2)]
      BY <2>7, TableAt DEF Good
    <3>2. QED
      BY <1>5, <3>1 DEF twoB
  <2>9. Below(2, x) \in Inner /\ Up(Below(2, x)) = Root(2) /\ Key(Below(2, x)) = x
    BY PlaceFacts
  <2>10. PICK n2 : Good(twoS, n2, D, m) /\ Longer(n1, n2) /\ n2[Below(2, x)] # 0
    <3>1. twoS = SubTable(two, n1[Up(Below(2, x))], Key(Below(2, x))) /\ n1[Up(Below(2, x))] # 0
      BY <2>1, <2>7, <2>8, <2>9 DEF twoS
    <3>2. QED
      BY <2>5, <2>7, <2>9, <3>1, SubTableAt
  <2>11. Table(twoS, twoB)[x] = n2[Below(2, x)]
    <3>1. n2[Root(2)] = twoB /\ twoB # 0
      BY <2>7, <2>8, <2>10, PlaceFacts DEF Longer
    <3>2. QED
      BY <2>9, <2>10, <3>1, TableAt DEF Good
  <2>12. t = SetEntry(twoS, n2[Leaf(i)], Entry(i), d) /\ n2[Leaf(i)] # 0
    BY <1>7, <2>1, <2>2, <2>10, <2>11
  <2>13. Good(t, n2, D, With(m, i, d))
    BY <2>10, <2>12, SetEntryAt
  <2>14. QED
    BY <2>13
<1>8. CASE /\ b > 0 /\ c > 0 /\ c < P * P * P /\ Entry(i) = Lo(c)
           /\ \E x, y \in Keys : x = Hi(c) /\ y = Mid(c) /\ Leaf(i) = Bottom(x, y)
  <2>1. PICK x, y \in Keys : x = Hi(c) /\ y = Mid(c) /\ Leaf(i) = Bottom(x, y)
    BY <1>8
  <2>2. t = SetEntry(threeT, Table(threeT, midB)[y], Lo(c), d)
    BY <1>1, <1>4, <1>8, <2>1 DEF u4
  <2>3. Kept(s, three)
    BY <1>2, InodeTableKept DEF three
  <2>4. Kept(three, threeS)
    BY <2>3, SubTableKept DEF Kept, threeS
  <2>5. Kept(threeS, threeT)
    BY <2>4, SubTableKept DEF Kept, threeT
  <2>6. Clean(threeT)
    <3>1. Kept(threeT, t)
      BY <1>2, <2>2, <2>5, SetEntryKept DEF Kept
    <3>2. QED
      BY <3>1, CleanBefore
  <2>7. Clean(threeS)
    BY <2>5, <2>6, CleanBefore
  <2>8. Clean(three)
    BY <2>4, <2>7, CleanBefore
  <2>9. PICK n1 : Good(three, n1, D, m) /\ n1[Root(3)] # 0
    <3>1. three = InodeTable(s, FILE, DIRECT + 3 - 1) /\ 3 \in 1 .. 3
      BY <1>2, <1>5 DEF three
    <3>2. QED
      BY <2>8, <3>1, InodeTableAt
  <2>10. threeB = n1[Root(3)]
    <3>1. three.inode.blocks[DIRECT + 3 - 1] = n1[Root(3)]
      BY <2>9, TableAt DEF Good
    <3>2. QED
      BY <1>5, <3>1 DEF threeB
  <2>11. Below(3, x) \in Inner /\ Up(Below(3, x)) = Root(3) /\ Key(Below(3, x)) = x
    BY PlaceFacts
  <2>12. Bottom(x, y) \in Inner /\ Up(Bottom(x, y)) = Below(3, x) /\ Key(Bottom(x, y)) = y
    BY PlaceFacts
  <2>13. PICK n2 : Good(threeS, n2, D, m) /\ Longer(n1, n2) /\ n2[Below(3, x)] # 0
    <3>1. threeS = SubTable(three, n1[Up(Below(3, x))], Key(Below(3, x))) /\ n1[Up(Below(3, x))] # 0
      BY <2>1, <2>9, <2>10, <2>11 DEF threeS
    <3>2. QED
      BY <2>7, <2>9, <2>11, <3>1, SubTableAt
  <2>14. midB = n2[Below(3, x)]
    <3>1. n2[Root(3)] = threeB /\ threeB # 0
      BY <2>9, <2>10, <2>13, PlaceFacts DEF Longer
    <3>2. Table(threeS, threeB)[x] = n2[Below(3, x)]
      BY <2>11, <2>13, <3>1, TableAt DEF Good
    <3>3. QED
      BY <2>1, <3>2 DEF midB
  <2>15. PICK n3 : Good(threeT, n3, D, m) /\ Longer(n2, n3) /\ n3[Bottom(x, y)] # 0
    <3>1. threeT = SubTable(threeS, n2[Up(Bottom(x, y))], Key(Bottom(x, y))) /\ n2[Up(Bottom(x, y))] # 0
      BY <2>1, <2>12, <2>13, <2>14 DEF threeT
    <3>2. QED
      BY <2>6, <2>12, <2>13, <3>1, SubTableAt
  <2>16. Table(threeT, midB)[y] = n3[Bottom(x, y)]
    <3>1. n3[Below(3, x)] = midB /\ midB # 0
      BY <2>11, <2>13, <2>14, <2>15, PlaceFacts DEF Longer
    <3>2. QED
      BY <2>12, <2>15, <3>1, TableAt DEF Good
  <2>17. t = SetEntry(threeT, n3[Leaf(i)], Entry(i), d) /\ n3[Leaf(i)] # 0
    BY <1>8, <2>1, <2>2, <2>15, <2>16
  <2>18. Good(t, n3, D, With(m, i, d))
    BY <2>15, <2>17, SetEntryAt
  <2>19. QED
    BY <2>18
<1>9. QED
  BY <1>3, <1>4, <1>6, <1>7, <1>8, LeafCases

\* The chart is right for other data blocks that are marked and no tables.
LEMMA ChartData ==
  ASSUME NEW s, NEW no, NEW D, NEW E, Charted(s, no, D), \A d \in E : InUse(s, d),
         \A p \in Places : no[p] # 0 => no[p] \notin E
  PROVE  Charted(s, no, E)
BY DEF Charted

\* The list with one more block, and with one less.
LEMMA ListFacts ==
  ASSUME NEW m, NEW i, NEW d
  PROVE  /\ DataOf(With(m, i, d)) \subseteq DataOf(m) \cup {d}
         /\ OneToOne(m) /\ d \notin DataOf(m) => OneToOne(With(m, i, d))
<1> DEFINE w == With(m, i, d)
<1>1. DOMAIN w = DOMAIN m \cup {i} /\ \A j \in DOMAIN m \cup {i} : w[j] = IF j = i THEN d ELSE m[j]
  BY DEF With
<1> HIDE DEF w
<1>2. DataOf(w) \subseteq DataOf(m) \cup {d}
  BY <1>1 DEF DataOf
<1>3. ASSUME OneToOne(m), d \notin DataOf(m)
      PROVE  OneToOne(w)
  <2>1. \A j \in DOMAIN m : m[j] # d
    BY <1>3 DEF DataOf
  <2>2. QED
    BY <1>1, <1>3, <2>1 DEF OneToOne
<1>4. QED
  BY <1>2, <1>3 DEF w

\* The block number at the edge of a level is noted.
LEMMA BoundaryNoted ==
  ASSUME NEW s, Sound(s), NEW i, i = DIRECT \/ i = DIRECT + P, NEW d \in Int,
         NEW t, t = set_disk_block_number(s, FILE, i, d)
  PROVE  ~Clean(t)
<1> DEFINE a == i - DIRECT
           b == a - P
           at == [s EXCEPT !.taint = @ \cup {"boundary"}]
           one == InodeTable(at, FILE, DIRECT)
           u1 == [at EXCEPT !.inode.blocks[i] = d]
           u2 == SetEntry(one, one.inode.blocks[DIRECT], a, d)
<1>1. Boundary(i)
  BY DEF Boundary
<1>2. a <= 0 \/ b <= 0
  BY Ext2Assumption
<1>3. t = u1 \/ t = u2
  <2>1. a <= 0 => t = u1
    BY <1>1, Zenon DEF set_disk_block_number
  <2>2. ~(a <= 0) /\ b <= 0 => t = u2
    BY <1>1, Zenon DEF set_disk_block_number
  <2>3. QED
    BY <1>2, <2>1, <2>2
<1>4. Sound(at) /\ "boundary" \in at.taint
  <2>1. {"boundary"} \in SUBSET Flaws
    BY DEF Flaws
  <2>2. Kept(s, at)
    BY <2>1, TaintKept
  <2>3. at.taint = s.taint \cup {"boundary"}
    BY DEF Sound, States
  <2>4. QED
    BY <2>2, <2>3 DEF Kept
<1> HIDE DEF at, a, b
<1>5. Kept(at, u1)
  BY <1>4, EntryKept
<1>6. Kept(at, one)
  BY <1>4, InodeTableKept
<1> HIDE DEF one
<1>7. Kept(one, u2)
  BY <1>6, SetEntryKept DEF Kept
<1>8. Kept(at, t)
  BY <1>3, <1>5, <1>6, <1>7, KeptTwice
<1>9. QED
  BY <1>4, <1>8 DEF Kept, SameFile, Clean, MapFlaws

\* A block is given to the file.
LEMMA GrowAt ==
  ASSUME NEW s, Sound(s), NEW m, MapOk(s, m), NEW i \in DIRECT .. MaxBlock, ~Strays(i),
         NEW t, t = alloc_inode_block(s, FILE, i), Clean(t)
  PROVE  MapOk(t, With(m, i, ext2_alloc_block(s).no))
<1> DEFINE u == ext2_alloc_block(s)
           v == set_disk_block_number(u.s, FILE, i, u.no)
<1>0. s \in States /\ "block" \in Kinds
  BY DEF Sound, Kinds
<1>1. t = write_inode_metadata(v, FILE)
  BY DEF alloc_inode_block
<1>2. Sound(u.s) /\ u.no \in Int /\ u.s.ptr = s.ptr /\ u.s.inode = s.inode
  BY <1>0, TakeBitSound DEF ext2_alloc_block, SameData
<1>a. u = ext2_alloc_block(s)
  OBVIOUS
<1> HIDE DEF u
<1>3. Kept(u.s, v)
  BY <1>2, SetBlockKept
<1>4. i \in Indices
  <2>1. Boundary(i) => i = DIRECT \/ i = DIRECT + P
    BY DEF Boundary, Strays
  <2>2. Clean(v)
    <3>1. Kept(v, t)
      BY <1>1, <1>3, WriteInodeKept DEF Kept
    <3>2. QED
      BY <3>1, CleanBefore
  <2>3. ~(i = DIRECT \/ i = DIRECT + P)
    BY <1>2, <2>2, BoundaryNoted
  <2>4. QED
    BY <2>1, <2>3 DEF Indices
<1>b. v = set_disk_block_number(u.s, FILE, i, u.no)
  OBVIOUS
<1> HIDE DEF v
<1>5. v \in States /\ t.ptr = v.ptr /\ t.inode = v.inode /\ t.bits = v.bits /\ t.taint = v.taint
  <2>1. v \in States
    BY <1>3 DEF Kept, Sound
  <2>2. QED
    BY <1>1, <2>1, WriteInodeFrame
<1>6. Clean(v)
  BY <1>5 DEF Clean
<1>7. Clean(u.s)
  BY <1>3, <1>6, CleanBefore
<1>8. PICK no : Charted(s, no, DataOf(m)) /\ Listed(s, no, m)
  BY DEF MapOk
<1>9. u.no \in Blocks \ {0} /\ ~InUse(s, u.no) /\ InUse(u.s, u.no) /\ Wider(s, u.s)
  <2>1. "full" \notin u.s.taint /\ 0 \in s.bits["block"][0]
    BY <1>7, <1>8 DEF Clean, MapFlaws, Charted
  <2>2. QED
    BY <1>0, <1>a, <2>1, TakeBlock
<1>10. PICK D : D = DataOf(m) \cup {u.no}
  OBVIOUS
<1>11. Charted(u.s, no, DataOf(m)) /\ Listed(u.s, no, m)
  BY <1>2, <1>8, <1>9, ChartSame
<1>12. Charted(u.s, no, D)
  <2>1. \A d \in D : InUse(u.s, d)
    BY <1>9, <1>10, <1>11 DEF Charted
  <2>2. \A p \in Places : no[p] # 0 => no[p] \notin D
    BY <1>8, <1>9, <1>10 DEF Charted
  <2>3. QED
    BY <1>11, <2>1, <2>2, ChartData
<1>13. PICK c : Good(v, c, D, With(m, i, u.no))
  <2>1. Good(u.s, no, D, m) /\ u.no \in D
    BY <1>2, <1>10, <1>11, <1>12 DEF Good
  <2>2. QED
    BY <1>4, <1>6, <1>b, <2>1, SetAt
<1>14. Charted(t, c, D) /\ Listed(t, c, With(m, i, u.no))
  <2>1. Wider(v, t)
    BY <1>5 DEF Wider, InUse
  <2>2. QED
    BY <1>5, <1>13, <2>1, ChartSame DEF Good
<1>15. Charted(t, c, DataOf(With(m, i, u.no)))
  <2>1. DataOf(With(m, i, u.no)) \subseteq D
    BY <1>10, ListFacts
  <2>2. QED
    BY <1>14, <2>1, ChartData DEF Charted
<1>16. OneToOne(With(m, i, u.no))
  <2>1. u.no \notin DataOf(m)
    BY <1>8, <1>9 DEF Charted
  <2>2. QED
    BY <2>1, ListFacts DEF MapOk
<1>17. QED
  BY <1>14, <1>15, <1>16 DEF MapOk, u

\* The list without block i of the file.
Without(m, i) == [j \in DOMAIN m \ {i} |-> m[j]]

\* A block is taken from the file: the map keeps its number, which nothing asks for any more.
LEMMA ShrinkAt ==
  ASSUME NEW s, Sound(s), NEW m, MapOk(s, m), NEW i \in DOMAIN m,
         NEW d, d = get_disk_block_number(s, i), d \in Blocks, d > MaxBlock,
         NEW t, t = free_inode_block(s, FILE, i), "misfree" \notin t.taint
  PROVE  MapOk(t, Without(m, i))
<1>0. s \in States /\ "block" \in Kinds
  BY DEF Sound, Kinds
<1> DEFINE u == ext2_free_block(s, d)
<1>1. set_disk_block_number(u, FILE, d, 0) = u
  <2> DEFINE a == d - DIRECT
             b == a - P
             c == b - P * P
  <2>1. PICK v, w : v = P * P /\ w = P * P * P
    OBVIOUS
  <2>2. /\ P \in Nat \ {0, 1} /\ DIRECT \in Nat \ {0, 1} /\ v \in Nat \ {0} /\ w \in Nat \ {0} /\ d \in Nat
        /\ Triple = DIRECT + P + v /\ MaxBlock = DIRECT + P + v + w /\ c = d - DIRECT - P - v
    BY <2>1, Ext2Assumption, Positive DEF Triple, MaxBlock
  <2>3. ~(a <= 0) /\ ~(b <= 0) /\ ~(c < 0) /\ ~(c < w) /\ ~Boundary(d)
    BY <2>2 DEF Boundary
  <2>4. ~(c < P * P * P)
    BY <2>1, <2>3
  <2>5. QED
    BY <2>3, <2>4, Zenon DEF set_disk_block_number
<1>2. t = write_inode_metadata(u, FILE)
  <2>1. t = write_inode_metadata(set_disk_block_number(u, FILE, d, 0), FILE)
    BY DEF free_inode_block
  <2>2. QED
    BY <1>1, <2>1
<1>3. PICK k : Returned(s, u, "block", d, k)
  BY <1>0, FreeBitEffect DEF ext2_free_block
<1> HIDE DEF u
<1>4. u \in States /\ SameData(s, u)
  BY <1>3 DEF Returned, Changed
<1>5. t.ptr = s.ptr /\ t.inode = s.inode /\ t.bits = u.bits /\ t.taint = u.taint
  BY <1>2, <1>4, WriteInodeFrame DEF SameData
<1>6. PICK no : Charted(s, no, DataOf(m)) /\ Listed(s, no, m)
  BY DEF MapOk
<1>7. d = m[i] /\ d \in DataOf(m) /\ d # 0
  <2>1. i \in Indices /\ no[Leaf(i)] # 0 /\ s.ptr[no[Leaf(i)]][Entry(i)] = m[i]
    BY <1>6 DEF Listed
  <2>2. d = m[i]
    BY <1>6, <2>1, GetAt
  <2>3. QED
    BY <1>6, <2>2 DEF DataOf, Charted, InUse
<1>8. ASSUME NEW g \in Groups, NEW x \in s.bits["block"][g], g # d \div BITS \/ x # d % BITS
      PROVE  x \in t.bits["block"][g]
  <2>1. k = d % BITS
    BY <1>3, <1>5 DEF Returned
  <2>2. CASE g = d \div BITS
    BY <1>3, <1>5, <1>8, <2>1, <2>2 DEF Returned
  <2>3. CASE g # d \div BITS
    BY <1>0, <1>3, <1>5, <2>3 DEF Returned, Changed
  <2>4. QED
    BY <2>2, <2>3
<1>9. ASSUME NEW a, InUse(s, a), a # d
      PROVE  InUse(t, a)
  <2>1. a \in Blocks /\ a \in Nat /\ d \in Nat /\ a % BITS \in s.bits["block"][a \div BITS] /\ a \div BITS \in Groups
    BY <1>9, BlockOf, Positive DEF InUse
  <2>2. a \div BITS # d \div BITS \/ a % BITS # d % BITS
    <3>1. a = (a \div BITS) * BITS + (a % BITS) /\ d = (d \div BITS) * BITS + (d % BITS)
      BY <2>1, DivMod, Positive
    <3>2. QED
      BY <1>9, <3>1
  <2>3. QED
    BY <1>8, <1>9, <2>1, <2>2 DEF InUse
<1>10. 0 \in t.bits["block"][0]
  <2>1. 0 \in Groups /\ 0 \in s.bits["block"][0]
    BY <1>6, Positive DEF Charted
  <2>2. 0 # d \div BITS \/ 0 # d % BITS
    <3>1. d = (d \div BITS) * BITS + (d % BITS) /\ BITS \in Nat
      BY DivMod, Positive
    <3>2. QED
      BY <1>7, <3>1
  <2>3. QED
    BY <1>8, <2>1, <2>2
<1>11. DOMAIN Without(m, i) = DOMAIN m \ {i} /\ \A j \in DOMAIN m \ {i} : Without(m, i)[j] = m[j]
  BY DEF Without
<1>12. OneToOne(Without(m, i)) /\ DataOf(Without(m, i)) \subseteq DataOf(m) \ {d}
  <2>1. OneToOne(m)
    BY DEF MapOk
  <2>2. QED
    BY <1>7, <1>11, <2>1 DEF OneToOne, DataOf
<1>13. Charted(t, no, DataOf(Without(m, i)))
  <2>1. \A p \in Places : no[p] # 0 => InUse(t, no[p]) /\ no[p] \notin DataOf(Without(m, i))
    BY <1>6, <1>7, <1>9, <1>12 DEF Charted
  <2>2. \A a \in DataOf(Without(m, i)) : InUse(t, a)
    BY <1>6, <1>9, <1>12 DEF Charted
  <2>3. QED
    BY <1>5, <1>6, <1>10, <2>1, <2>2 DEF Charted
<1>14. Listed(t, no, Without(m, i))
  BY <1>5, <1>6, <1>11 DEF Listed
<1>15. QED
  BY <1>12, <1>13, <1>14 DEF MapOk

\* The file of mkfs has no tables.
LEMMA EmptyAt ==
  ASSUME NEW s, s.inode.blocks = Formatted.blocks, 0 \in s.bits["block"][0]
  PROVE  MapOk(s, << >>)
<1>1. PICK no : no = [p \in Places |-> 0]
  OBVIOUS
<1>2. \A n \in 1 .. 3 : s.inode.blocks[DIRECT + n - 1] = 0
  <2>1. Formatted.blocks = [e \in 0 .. DIRECT + 2 |-> IF e < 2 THEN FileBlock(e) ELSE 0]
    BY DEF Formatted, NoInode
  <2>2. \A n \in 1 .. 3 : DIRECT + n - 1 \in 0 .. DIRECT + 2 /\ ~(DIRECT + n - 1 < 2)
    BY Ext2Assumption
  <2>3. QED
    BY <2>1, <2>2
<1>3. DOMAIN << >> = {}
  OBVIOUS
<1>4. OneToOne(<< >>) /\ DataOf(<< >>) = {} /\ Listed(s, no, << >>)
  BY <1>3 DEF OneToOne, DataOf, Listed
<1>5. no \in [Places -> Int] /\ \A p \in Places : no[p] = 0
  BY <1>1
<1>6. (\A p \in Inner : p \in Places /\ Up(p) \in Places) /\ \A n \in 1 .. 3 : Root(n) \in Places
  BY PlaceFacts
<1>7. Charted(s, no, {})
  BY <1>2, <1>5, <1>6 DEF Charted
<1>8. QED
  BY <1>4, <1>7 DEF MapOk

\* A step that leaves the tables alone and frees nothing.
LEMMA SameAt ==
  ASSUME NEW s, NEW t, NEW m, MapOk(s, m), t.ptr = s.ptr, t.inode = s.inode, Wider(s, t)
  PROVE  MapOk(t, m)
<1>1. PICK no : Charted(s, no, DataOf(m)) /\ Listed(s, no, m)
  BY DEF MapOk
<1>2. Charted(t, no, DataOf(m)) /\ Listed(t, no, m)
  BY <1>1, ChartSame
<1>3. QED
  BY <1>2 DEF MapOk

\* Inodes have bitmaps of their own.
LEMMA InodeBitWider ==
  ASSUME NEW s, NEW t, NEW g, Changed(s, t, "inode", g)
  PROVE  Wider(s, t) /\ t.ptr = s.ptr /\ t.inode = s.inode
<1>1. \A gr \in Groups : t.bits["block"][gr] = s.bits["block"][gr]
  BY DEF Changed, Kinds
<1>2. 0 \in Groups /\ \A b \in Blocks : b \div BITS \in Groups
  BY BlockOf, Positive
<1>3. QED
  BY <1>1, <1>2 DEF Wider, InUse, Changed, SameData

\* The map of the next state.
LEMMA MapNext ==
  ASSUME NEW s \in States, Becomes(s), Clean(s) /\ status' = "ok" => MapOk(s, mapped')
  PROVE  MapInv'
<1>1. State' = s
  BY BecomesIs
<1>2. Clean(State') /\ status' = "ok" => MapOk(State', mapped')
  BY <1>1
<1>3. QED
  BY <1>2 DEF MapInv, Clean, MapOk, OneToOne, DataOf, Charted, Listed, InUse

\* What the invariant of the bitmaps and of the file says of the state.
LEMMA DiskFacts ==
  ASSUME DiskInv
  PROVE  Sound(State) /\ State \in States /\ FileKept /\ calls \in 0 .. MaxCalls
<1>1. Sound(State) /\ FileKept /\ calls \in 0 .. MaxCalls
  BY Zenon DEF DiskInv
<1>2. QED
  BY <1>1 DEF Sound

\* Each action.
LEMMA InitMap == Init => MapInv
<1> SUFFICES ASSUME Init PROVE MapOk(State, mapped)
  BY DEF MapInv
<1>1. State.inode.blocks = Formatted.blocks /\ mapped = << >>
  BY StateIs DEF Init
<1>2. 0 \in State.bits["block"][0]
  <2>1. bits["block"][0] = (0 .. BITS - 1) \ FreshBits[0]
    BY Positive DEF Init, Kinds
  <2>2. QED
    BY <2>1, StateIs, Positive, Ext2Assumption
<1>3. QED
  BY <1>1, <1>2, EmptyAt

LEMMA NewInodeMap ==
  ASSUME DiskInv, MapInv, new_inode
  PROVE  MapInv'
<1> DEFINE s == alloc_inode(State).s
<1>0. Sound(State) /\ State \in States /\ "inode" \in Kinds
  BY DiskFacts DEF Kinds
<1>1. Becomes(s) /\ status' = status /\ mapped' = mapped
  BY DEF new_inode
<1>2. Sound(s) /\ SameData(State, s)
  BY <1>0, TakeBitSound DEF alloc_inode
<1>3. Clean(s) => Wider(State, s) /\ s.ptr = State.ptr /\ s.inode = State.inode
  <2>1. CASE s = [State EXCEPT !.taint = @ \cup {"full"}]
    <3>1. s.taint = State.taint \cup {"full"}
      BY <1>0, <2>1 DEF States
    <3>2. QED
      BY <3>1 DEF Clean, MapFlaws
  <2>2. CASE \E g, k, b : Took(State, s, "inode", g, k, b)
    BY <2>2, InodeBitWider DEF Took
  <2>3. QED
    BY <1>0, <2>1, <2>2, TakeBitEffect DEF alloc_inode
<1>4. Clean(s) => Clean(State)
  BY <1>2 DEF SameData, Clean
<1> HIDE DEF s
<1>5. Clean(s) /\ status' = "ok" => MapOk(s, mapped')
  <2>1. ASSUME Clean(s), status' = "ok" PROVE MapOk(s, mapped)
    <3>1. MapOk(State, mapped)
      BY <1>1, <1>4, <2>1 DEF MapInv
    <3>2. QED
      BY <1>3, <2>1, <3>1, SameAt
  <2>2. QED
    BY <1>1, <2>1
<1>6. QED
  BY <1>1, <1>2, <1>5, MapNext DEF Sound

LEMMA DropInodeMap ==
  ASSUME DiskInv, MapInv, NEW i \in Frees, drop_inode(i)
  PROVE  MapInv'
<1> DEFINE s == free_inode(State, i)
<1>0. Sound(State) /\ State \in States /\ "inode" \in Kinds /\ i \in Blocks
  BY DiskFacts, Ext2Assumption DEF Kinds
<1>1. Becomes(s) /\ status' = status /\ mapped' = mapped
  BY DEF drop_inode
<1>2. PICK k : Returned(State, s, "inode", i, k)
  BY <1>0, FreeBitEffect DEF free_inode
<1> HIDE DEF s
<1>3. Wider(State, s) /\ s.ptr = State.ptr /\ s.inode = State.inode
  BY <1>2, InodeBitWider DEF Returned
<1>4. s \in States /\ (Clean(s) => Clean(State))
  BY <1>2 DEF Returned, Changed, Clean
<1>5. Clean(s) /\ status' = "ok" => MapOk(s, mapped')
  <2>1. ASSUME Clean(s), status' = "ok" PROVE MapOk(s, mapped)
    <3>1. MapOk(State, mapped)
      BY <1>1, <1>4, <2>1 DEF MapInv
    <3>2. QED
      BY <1>3, <3>1, SameAt
  <2>2. QED
    BY <1>1, <2>1
<1>6. QED
  BY <1>1, <1>4, <1>5, MapNext

LEMMA GrowMap ==
  ASSUME DiskInv, MapInv, NEW i \in DIRECT .. MaxBlock, grow(i)
  PROVE  MapInv'
<1>1. CASE Strays(i)
  <2>1. ~(status' = "ok")
    BY <1>1, Zenon DEF grow, Wild
  <2>2. QED
    BY <2>1 DEF MapInv
<1>2. CASE ~Strays(i)
  <2> DEFINE s == alloc_inode_block(State, FILE, i)
  <2>1. Becomes(s) /\ status' = status /\ mapped' = With(mapped, i, ext2_alloc_block(State).no)
    BY <1>2 DEF grow, With
  <2>2. Sound(State) /\ Kept(State, s)
    BY DiskFacts, AllocBlockKept
  <2>3. s = alloc_inode_block(State, FILE, i)
    OBVIOUS
  <2> HIDE DEF s
  <2>4. Clean(s) /\ status' = "ok" => MapOk(s, mapped')
    <3>1. ASSUME Clean(s), status' = "ok" PROVE MapOk(s, With(mapped, i, ext2_alloc_block(State).no))
      <4>1. MapOk(State, mapped)
        BY <2>1, <2>2, <3>1, CleanBefore DEF MapInv
      <4>2. QED
        BY <1>2, <2>2, <2>3, <3>1, <4>1, GrowAt
    <3>2. QED
      BY <2>1, <3>1
  <2>5. QED
    BY <2>1, <2>2, <2>4, MapNext DEF Kept, Sound
<1>3. QED
  BY <1>1, <1>2

LEMMA ShrinkMap ==
  ASSUME DiskInv, MapInv, NEW i, shrink(i)
  PROVE  MapInv'
<1> DEFINE d == get_disk_block_number(State, i)
           known == IF d <= MaxBlock THEN {"misclear"} ELSE {}
           t == free_inode_block(State, FILE, i)
           u == [t EXCEPT !.taint = @ \cup known]
<1>1. CASE Strays(d)
  <2>1. ~(status' = "ok")
    BY <1>1, Zenon DEF shrink, Wild
  <2>2. QED
    BY <2>1 DEF MapInv
<1>2. CASE ~Strays(d)
  <2>1. /\ d \in Blocks /\ i \in DOMAIN mapped /\ Becomes(u) /\ status' = status
        /\ mapped' = Without(mapped, i)
    BY <1>2 DEF shrink, Without
  <2>2. Sound(State) /\ Kept(State, t)
    BY <2>1, DiskFacts, FreeBlockKept
  <2>3. known \in SUBSET Flaws /\ (d <= MaxBlock => "misclear" \in known)
    BY DEF Flaws
  <2>4. d = get_disk_block_number(State, i) /\ t = free_inode_block(State, FILE, i)
    OBVIOUS
  <2> HIDE DEF d, known, t
  <2>5. Kept(t, u)
    BY <2>2, <2>3, TaintKept DEF Kept
  <2>6. u.taint = t.taint \cup known /\ u.ptr = t.ptr /\ u.inode = t.inode /\ u.bits = t.bits
    BY <2>2 DEF Kept, Sound, States
  <2> HIDE DEF u
  <2>7. ASSUME Clean(u), status' = "ok" PROVE MapOk(u, Without(mapped, i))
    <3>1. MapOk(State, mapped)
      <4>1. Clean(t)
        BY <2>5, <2>7, CleanBefore
      <4>2. Clean(State)
        BY <2>2, <4>1, CleanBefore
      <4>3. QED
        BY <2>1, <2>7, <4>2 DEF MapInv
    <3>2. d > MaxBlock /\ "misfree" \notin t.taint
      <4>1. "misclear" \notin u.taint /\ "misfree" \notin u.taint
        BY <2>7 DEF Clean, MapFlaws
      <4>2. d \in Int /\ MaxBlock \in Int
        BY <2>1, Positive, Ext2Assumption DEF MaxBlock, Triple
      <4>3. QED
        BY <2>3, <2>6, <4>1, <4>2
    <3>3. MapOk(t, Without(mapped, i))
      BY <2>1, <2>2, <2>4, <3>1, <3>2, ShrinkAt
    <3>4. Wider(t, u)
      BY <2>6 DEF Wider, InUse
    <3>5. QED
      BY <2>6, <3>3, <3>4, SameAt
  <2>8. Clean(u) /\ status' = "ok" => MapOk(u, mapped')
    BY <2>1, <2>7
  <2>9. QED
    BY <2>1, <2>5, <2>8, MapNext DEF Kept, Sound
<1>3. QED
  BY <1>1, <1>2

\* Writing data leaves the map and the bitmaps alone.
LEMMA WriteDataFrame ==
  ASSUME NEW s \in States, NEW offset \in Nat, NEW size \in Nat, NEW n,
         NEW t, t = write_inode_filedata(s, FILE, offset, size, n)
  PROVE  t.inode.blocks = s.inode.blocks /\ t.bits = s.bits
<1>1. PICK e \in Nat : e = offset + size
  OBVIOUS
<1> DEFINE wide == [s EXCEPT !.inode.size = e]
           grown == IF e <= s.inode.size THEN s ELSE write_inode_metadata(wide, FILE)
<1>2. PICK D : t = [grown EXCEPT !.data = D]
  BY <1>1 DEF write_inode_filedata
<1>3. wide \in States /\ wide.inode.blocks = s.inode.blocks /\ wide.bits = s.bits
  <2> DEFINE i == [s.inode EXCEPT !.size = e]
  <2>1. i \in Inodes /\ i.blocks = s.inode.blocks
    BY DEF States, Inodes
  <2>2. wide = [s EXCEPT !.inode = i]
    OBVIOUS
  <2> HIDE DEF i
  <2>3. QED
    BY <2>1, <2>2 DEF States
<1> HIDE DEF wide
<1>4. PICK g : g = grown
  OBVIOUS
<1>5. g \in States /\ g.inode.blocks = s.inode.blocks /\ g.bits = s.bits
  <2>1. CASE g = s
    BY <2>1
  <2>2. CASE g = write_inode_metadata(wide, FILE)
    <3>1. g.inode = wide.inode /\ g.bits = wide.bits
      BY <1>3, <2>2, WriteInodeFrame
    <3>2. g \in States
      <4>1. g = wide \/ g = [wide EXCEPT !.slot[FILE] = wide.inode]
        BY <2>2 DEF write_inode_metadata
      <4>2. wide.slot \in [0 .. NSlots - 1 -> Inodes] /\ wide.inode \in Inodes
        BY <1>3 DEF States
      <4>3. PICK S : S = [wide.slot EXCEPT ![FILE] = wide.inode]
        OBVIOUS
      <4>4. S \in [0 .. NSlots - 1 -> Inodes] /\ (g = wide \/ g = [wide EXCEPT !.slot = S])
        BY <4>1, <4>2, <4>3
      <4>5. QED
        BY <1>3, <4>4 DEF States
    <3>3. QED
      BY <1>3, <3>1, <3>2
  <2>3. QED
    BY <1>4, <2>1, <2>2
<1>6. t = [g EXCEPT !.data = D]
  BY <1>2, <1>4
<1>7. QED
  BY <1>5, <1>6 DEF States

LEMMA WriteMap ==
  ASSUME DiskInv, MapInv, NEW offset \in Offsets, NEW size \in Sizes, ext2_write(offset, size)
  PROVE  MapInv'
<1> DEFINE s == read_inode_metadata(State, FILE)
           last == (offset + size - 1) \div BLOCK
           known == (IF last > offset \div BLOCK THEN {"span"} ELSE {})
                      \cup (IF last > 1 THEN {"hole"} ELSE {})
           t == write_inode_filedata(s, FILE, offset, size, calls + 1)
           u == [t EXCEPT !.taint = @ \cup known]
<1>1. Becomes(u) /\ status' = status /\ mapped' = << >>
  BY DEF ext2_write
<1>2. /\ offset \in Nat /\ size \in Nat \ {0} /\ calls + 1 \in Nat
      /\ Sound(State) /\ State \in States /\ State.slot[FILE - 1] = Formatted
  <2>1. calls \in Nat
    BY DiskFacts, Ext2Assumption
  <2>2. State.slot[FILE - 1] = Formatted
    BY DiskFacts, StateIs DEF FileKept
  <2>3. QED
    BY <2>1, <2>2, DiskFacts, Ext2Assumption
<1>3. Kept(State, s) /\ s.inode = Formatted /\ s.bits = State.bits
  <2>1. Formatted \in Inodes
    <3>1. FILE - 1 \in 0 .. NSlots - 1
      BY Ext2Assumption DEF FILE
    <3>2. QED
      BY <1>2, <3>1 DEF States
  <2>2. s = [State EXCEPT !.inode = Formatted]
    BY <1>2 DEF read_inode_metadata
  <2>3. s.inode = Formatted /\ s.bits = State.bits
    BY <1>2, <2>2 DEF States
  <2>4. Kept(State, [State EXCEPT !.inode = Formatted])
    BY <1>2, <2>1, InodeKept
  <2>5. QED
    BY <2>2, <2>3, <2>4
<1>4. known \in SUBSET Flaws
  BY DEF Flaws
<1> HIDE DEF s, known
<1>5. /\ t.inode.blocks = Formatted.blocks /\ t.bits = State.bits
      /\ Sound(t) /\ s.taint \subseteq t.taint
  <2>1. s \in States /\ Sound(s)
    BY <1>3 DEF Kept, Sound
  <2>2. \E D : Wrote(s, t, D)
    BY <1>2, <2>1, WriteDataEffect
  <2>3. t.inode.blocks = s.inode.blocks /\ t.bits = s.bits
    BY <1>2, <2>1, WriteDataFrame
  <2>4. QED
    BY <1>3, <2>2, <2>3 DEF Wrote
<1> HIDE DEF t
<1>6. Kept(t, u)
  BY <1>4, <1>5, TaintKept
<1>7. u.inode = t.inode /\ u.bits = t.bits
  BY <1>5 DEF Sound, States
<1> HIDE DEF u
<1>8. Clean(u) => Clean(State)
  BY <1>3, <1>5, <1>6 DEF Clean, Kept, SameFile
<1>9. Clean(u) /\ status' = "ok" => MapOk(u, mapped')
  <2> SUFFICES ASSUME Clean(u), status' = "ok" PROVE MapOk(u, << >>)
    BY <1>1
  <2>1. 0 \in State.bits["block"][0]
    BY <1>1, <1>8 DEF MapInv, MapOk, Charted
  <2>2. QED
    BY <1>5, <1>7, <2>1, EmptyAt
<1>10. QED
  BY <1>1, <1>6, <1>9, MapNext DEF Kept, Sound

LEMMA RestartMap ==
  ASSUME DiskInv, MapInv, NEW kind \in Kinds, NEW midway \in BOOLEAN, restart(kind, midway)
  PROVE  MapInv'
<1>0. /\ Sound(State) /\ State \in States /\ inode' = Formatted /\ mapped' = << >>
      /\ status' = status /\ taint' = taint
  BY DiskFacts DEF restart, FileKept
<1>1. State'.inode.blocks = Formatted.blocks /\ State'.bits = bits' /\ State'.taint = taint
  BY <1>0 DEF State
<1>2. 0 \in bits["block"][0] => 0 \in bits'["block"][0]
  <2>1. CASE bits' = bits
    BY <2>1
  <2>2. CASE bits' = TakeBit(State, kind).s.bits
    <3> DEFINE t == TakeBit(State, kind).s
    <3>1. CASE t = [State EXCEPT !.taint = @ \cup {"full"}]
      <4>1. t.bits = bits
        BY <1>0, <3>1, StateIs DEF States
      <4>2. QED
        BY <2>2, <4>1
    <3>2. CASE \E g \in Groups, k \in 0 .. BITS - 1 : Took(State, t, kind, g, k, g * BITS + k)
      <4>1. PICK g \in Groups, k \in 0 .. BITS - 1 : Took(State, t, kind, g, k, g * BITS + k)
        BY <3>2
      <4>2. "block" \in Kinds /\ 0 \in Groups
        BY Positive DEF Kinds
      <4> HIDE DEF t
      <4>3. State.bits["block"][0] \subseteq t.bits["block"][0]
        BY <4>1, <4>2 DEF Took, Changed
      <4>4. QED
        BY <2>2, <4>3, StateIs DEF t
    <3>3. QED
      BY <1>0, <3>1, <3>2, TakeBitEffect
  <2>3. QED
    BY <2>1, <2>2 DEF restart
<1>3. Clean(State') /\ status' = "ok" => MapOk(State', mapped')
  <2> SUFFICES ASSUME Clean(State'), status' = "ok" PROVE MapOk(State', << >>)
    BY <1>0
  <2>1. Clean(State)
    BY <1>1, StateIs DEF Clean
  <2>2. 0 \in bits["block"][0]
    BY <1>0, <2>1, StateIs DEF MapInv, MapOk, Charted
  <2>3. QED
    BY <1>1, <1>2, <2>2, EmptyAt
<1>4. QED
  BY <1>3 DEF MapInv, Clean, MapOk, OneToOne, DataOf, Charted, Listed, InUse

\* The block map is right in every reachable state.
THEOREM MapInvariant == Spec => []MapInv
<1>1. ASSUME DiskInv, MapInv, [Next]_vars
      PROVE  MapInv'
  <2>1. CASE new_inode
    BY <1>1, <2>1, NewInodeMap
  <2>2. CASE \E i \in Frees : drop_inode(i)
    BY <1>1, <2>2, DropInodeMap
  <2>3. CASE \E i \in DIRECT .. MaxBlock : grow(i) \/ shrink(i)
    BY <1>1, <2>3, GrowMap, ShrinkMap
  <2>4. CASE \E offset \in Offsets, size \in Sizes : ext2_write(offset, size)
    BY <1>1, <2>4, WriteMap
  <2>5. CASE \E kind \in Kinds, midway \in BOOLEAN : restart(kind, midway)
    BY <1>1, <2>5, RestartMap
  <2>6. CASE UNCHANGED vars
    <3>1. State' = State /\ status' = status /\ mapped' = mapped
      BY <2>6 DEF vars, State
    <3>2. Clean(State') /\ status' = "ok" => MapOk(State', mapped')
      BY <1>1, <3>1 DEF MapInv
    <3>3. QED
      BY <3>2 DEF MapInv, Clean, MapOk, OneToOne, DataOf, Charted, Listed, InUse
  <2>7. QED
    BY <1>1, <2>1, <2>2, <2>3, <2>4, <2>5, <2>6 DEF Next
<1>2. QED
  BY <1>1, InitMap, DiskInvariant, PTL DEF Spec

-----------------------------------------------------------------------------
(* The properties *)

\* ext2_alloc_block and alloc_inode give out no block and no inode that is in use, over restarts
\* and stops in the middle of an allocation, on a disk of any size, unless ext2_free_block or
\* free_inode cleared another bit than that of the freed one.
THEOREM Ext2GivenOnce == Spec => []GivenOnce
<1>1. DiskInv => GivenOnce
  BY StateIs DEF DiskInv, Sound, Marked, GivenOnce
<1>2. QED
  BY <1>1, DiskInvariant, PTL

\* The counts of the group descriptors never go below zero, nor below the number of clear bits
\* as long as what is freed had been given out, although they are read from a disk on which
\* write_bgd never updates them: no allocation is refused while there is a free bit.
THEOREM Ext2CountsCover == Spec => []CountsCover
<1>1. DiskInv => CountsCover
  <2> SUFFICES ASSUME DiskInv PROVE CountsCover
    OBVIOUS
  <2>1. State \in States
    BY DEF DiskInv, Sound
  <2>2. /\ bits \in [Kinds -> [Groups -> SUBSET (0 .. BITS - 1)]]
        /\ count \in [Kinds -> [Groups -> Nat]] /\ ptr \in [Blocks -> Tables]
        /\ data \in [Blocks -> Bytes] /\ slot \in [0 .. NSlots - 1 -> Inodes]
        /\ twice \in BOOLEAN /\ taint \in SUBSET Flaws
    BY <2>1, StateIs DEF States
  <2>3. \A i \in DOMAIN slot : DOMAIN slot[i].blocks = 0 .. DIRECT + 2
    BY <2>2 DEF Inodes
  <2>4. TypeOK
    BY <2>2, <2>3 DEF TypeOK, DiskInv
  <2>5. "unheld" \notin taint =>
          \A kind \in Kinds, g \in Groups : count[kind][g] >= Cardinality(Clear(State, kind, g))
    BY StateIs DEF DiskInv, Sound, Budget
  <2>6. QED
    BY <2>4, <2>5 DEF CountsCover
<1>2. QED
  BY <1>1, DiskInvariant, PTL

\* Reading the file gives the bytes last written to it, whatever blocks and inodes are taken,
\* freed and written in between and however often the machine is restarted, unless a write went
\* over the end of a block or of the file's blocks.
THEOREM Ext2ReadBack == Spec => []ReadBack
<1>1. DiskInv => ReadBack
  <2> DEFINE s == read_inode_metadata(State, FILE)
  <2> SUFFICES ASSUME DiskInv, taint \cap {"span", "hole"} = {},
                      NEW offset \in Offsets, NEW size \in Sizes, offset + size <= FileSize
               PROVE  read_inode_filedata(s, offset, size) = [k \in 0 .. size - 1 |-> want[offset + k]]
    BY DEF ReadBack
  <2>1. s.inode = Formatted /\ s.data = data
    <3>1. State \in States
      BY DEF DiskInv, Sound
    <3>2. QED
      BY <3>1, StateIs DEF read_inode_metadata, States, DiskInv, FileKept
  <2>2. Formatted.size = FileSize /\ \A j \in 0 .. 1 : Formatted.blocks[j] = FirstBlock + j
    <3>1. Formatted.size = FileSize
      BY DEF Formatted, NoInode
    <3>2. Formatted.blocks = [e \in 0 .. DIRECT + 2 |-> IF e < 2 THEN FileBlock(e) ELSE 0]
      BY DEF Formatted, NoInode
    <3>3. \A j \in 0 .. 1 : j \in 0 .. DIRECT + 2 /\ j < 2
      BY Ext2Assumption
    <3>4. QED
      BY <3>1, <3>2, <3>3 DEF FileBlock
  <2> HIDE DEF s
  <2>3. offset \in Nat /\ size \in Nat \ {0}
    BY Ext2Assumption
  <2>4. Min({s.inode.size, offset + size}) = offset + size
    <3>1. {FileSize, offset + size} \in SUBSET Nat /\ {FileSize, offset + size} # {}
      BY <2>3, FileSizes
    <3>2. Min({FileSize, offset + size}) \in {FileSize, offset + size}
          /\ \A k \in {FileSize, offset + size} : Min({FileSize, offset + size}) <= k
      BY <3>1, LeastNat
    <3>3. QED
      BY <2>1, <2>2, <2>3, <3>2, FileSizes
  <2>5. read_inode_filedata(s, offset, size) =
          [k \in 0 .. size - 1 |-> s.data[get_disk_block_number(s, (offset + k) \div BLOCK)][(offset + k) % BLOCK]]
    <3>1. (offset + size) - offset - 1 = size - 1
      BY <2>3
    <3>2. QED
      BY <2>4, <3>1 DEF read_inode_filedata
  <2>6. ASSUME NEW k \in 0 .. size - 1
        PROVE  s.data[get_disk_block_number(s, (offset + k) \div BLOCK)][(offset + k) % BLOCK] = want[offset + k]
    <3> DEFINE m == offset + k
               j == m \div BLOCK
               r == m % BLOCK
    <3>1. m \in Nat /\ m < FileSize
      BY <2>3, FileSizes
    <3>2. j \in Nat /\ r \in 0 .. BLOCK - 1 /\ m = j * BLOCK + r
      BY <3>1, FileSizes, DivMod
    <3> HIDE DEF m, j, r
    <3>3. j \in 0 .. 1
      <4>1. j * BLOCK < 2 * BLOCK
        BY <3>1, <3>2, FileSizes
      <4>2. j < 2
        BY <3>2, <4>1, FileSizes
      <4>3. QED
        BY <3>2, <4>2
    <3>4. get_disk_block_number(s, j) = FirstBlock + j
      <4>1. j - DIRECT < 0
        BY <3>3, Ext2Assumption
      <4>2. get_disk_block_number(s, j) = s.inode.blocks[j]
        BY <4>1 DEF get_disk_block_number
      <4>3. QED
        BY <2>1, <2>2, <3>3, <4>2
    <3>5. data[FirstBlock + j][r] = want[j * BLOCK + r]
      BY <3>1, <3>2, <3>3 DEF DiskInv, FileKept
    <3>6. QED
      BY <2>1, <3>2, <3>4, <3>5 DEF m, j, r
  <2>7. QED
    BY <2>5, <2>6
<1>2. QED
  BY <1>1, DiskInvariant, PTL

\* What set_disk_block_number stored for a block of the file is what get_disk_block_number finds,
\* on all three levels of the map and whatever blocks are given, taken back, written and lost in
\* a restart in between, on a disk of any size and with blocks of any size, unless one of the
\* known flaws of the map was met.
THEOREM Ext2MapReadBack == Spec => []MapReadBack
<1>1. MapInv => MapReadBack
  <2> SUFFICES ASSUME MapInv, taint \cap {"boundary", "stale", "full", "misfree", "misclear"} = {},
                      status = "ok", NEW i \in DOMAIN mapped
               PROVE  get_disk_block_number(State, i) = mapped[i]
    BY DEF MapReadBack
  <2>1. Clean(State)
    BY StateIs DEF Clean, MapFlaws
  <2>2. PICK no : Charted(State, no, DataOf(mapped)) /\ Listed(State, no, mapped)
    BY <2>1 DEF MapInv, MapOk
  <2>3. i \in Indices /\ no[Leaf(i)] # 0 /\ State.ptr[no[Leaf(i)]][Entry(i)] = mapped[i]
    BY <2>2 DEF Listed
  <2>4. QED
    BY <2>2, <2>3, GetAt
<1>2. QED
  BY <1>1, MapInvariant, PTL
=============================================================================
