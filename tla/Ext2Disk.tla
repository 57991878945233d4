------------------------------ MODULE Ext2Disk ------------------------------
(***************************************************************************)
(* The part of the ext2 driver that reads and writes the disk: the bitmaps *)
(* and counts of free blocks and inodes, the inode table, the block map of *)
(* an inode and the data of a file (kernel/src/fs/ext2/inode.c, ext2.c).   *)
(*                                                                         *)
(* The kernel is one thread, so an operation is one action; the operations *)
(* are operators on the record State, which holds what is on the disk and  *)
(* what is in memory.  The machine may be switched off between the write   *)
(* of a bitmap and the rest of an operation: what was in memory is lost.   *)
(***************************************************************************)
EXTENDS Integers, FiniteSets, FiniteSetsExt

CONSTANTS
  P,          \* block numbers in a block: fs->block_size / 4
  DIRECT,     \* inode->blocks below this one hold data, the next three are indirect: 12
  NGroups,    \* fs->n_groups
  FreshBits,  \* the bits of each group's bitmap that are clear after mkfs
  FirstBlock, \* the first of the two blocks the file has after mkfs
  Stale,      \* a free block that still holds block numbers of a deleted file
  NSlots,     \* inodes whose slot of the table is modelled
  Offsets, Sizes, Frees,   \* arguments of the calls
  MaxCalls    \* bound on the calls in a behaviour

WORD == 32      \* bits of a word of a bitmap
FREE_WORD == 4  \* what ext2_free_block and free_inode divide by instead
SECTOR_SLOTS == 2   \* inodes in a sector: 512 / inode_size
BLOCK == 4 * P  \* fs->block_size, in bytes
BITS == WORD * P    \* bits of a bitmap, and fs->blocks_per_group

Groups == 0 .. NGroups - 1
Blocks == 0 .. NGroups * BITS - 1
Kinds == {"block", "inode"}
NONE == -1      \* (uint32_t)-1
Triple == DIRECT + P + P * P    \* the first block number of a file that needs three levels
MaxBlock == Triple + P * P * P  \* the first one that no inode can map

ASSUME Ext2Assumption ==
  /\ P \in Nat \ {0, 1} /\ DIRECT \in Nat \ {0, 1} /\ NGroups \in Nat \ {0}
  /\ FreshBits \in [Groups -> SUBSET (0 .. BITS - 1)]
  /\ {FirstBlock, FirstBlock + 1} \subseteq (0 .. BITS - 1) \ FreshBits[0]
  /\ 0 \notin FreshBits[0]    \* block 0 is the file system's own
  /\ NSlots \in Nat \ {0, 1} /\ Offsets \subseteq Nat /\ Sizes \subseteq Nat \ {0}
  /\ Frees \subseteq Blocks /\ MaxCalls \in Nat

VARIABLES
  bits,     \* on disk: the marked bits of the block and inode bitmap of each group
  ptr,      \* on disk: the block numbers in each block
  data,     \* on disk: the bytes of each block
  slot,     \* on disk: the inode table
  count,    \* in memory: fs->BGD[g].n_unalloc_blocks and n_unalloc_inodes
  inode,    \* in memory: the inode_base_t of the file that is worked on
  status,   \* "ok", or why the machine is of no more use
  \* ghosts:
  held,     \* the blocks and inodes given out and not freed
  twice,    \* one was given out that is held
  mapped,   \* what set_disk_block_number was asked to remember
  want,     \* the bytes the file should hold
  taint,    \* calls that step on a known flaw: see Flaws
  calls     \* number of calls so far

vars == <<bits, ptr, data, slot, count, inode, status, held, twice, mapped, want, taint, calls>>

\* "misfree": a bit other than that of the freed block was cleared; "unheld": a block was freed
\* that had not been given out; "boundary": a block number at the edge of two levels of the map
\* was set; "stale": an indirect block was taken that held old numbers; "full": no block was
\* left; "span": a write went over the end of a block; "hole": a write went where the file has
\* no block; "misclear": another block than the freed one was taken out of the map.
Flaws == {"misfree", "unheld", "boundary", "stale", "full", "span", "hole", "misclear"}

State == [bits |-> bits, ptr |-> ptr, data |-> data, slot |-> slot, count |-> count,
          inode |-> inode, held |-> held, twice |-> twice, taint |-> taint]

Becomes(s) ==
  /\ bits' = s.bits /\ ptr' = s.ptr /\ data' = s.data /\ slot' = s.slot
  /\ count' = s.count /\ inode' = s.inode /\ held' = s.held /\ twice' = s.twice
  /\ taint' = s.taint

-----------------------------------------------------------------------------
(* Bitmaps and counts. *)

Clear(s, kind, g) == (0 .. BITS - 1) \ s.bits[kind][g]

\* read_BGD. write_bgd writes the table to block 2, where read_BGD does not look for it with
\* blocks of 4096 bytes, and as often as bgd_blocks, which nothing sets, says: the counts on
\* the disk stay those of mkfs.
read_BGD == [kind \in Kinds |-> [g \in Groups |-> Cardinality(FreshBits[g])]]

\* The bitmap is written, then the count is decremented.
Mark_Unwritten(s, kind, g, k) == [s EXCEPT !.count[kind][g] = @ - 1]
Mark_Twice(s, kind, g, k) == [s EXCEPT !.bits[kind][g] = @ \cup {k}, !.count[kind][g] = @ - 2]
Mark(s, kind, g, k) == [s EXCEPT !.bits[kind][g] = @ \cup {k}, !.count[kind][g] = @ - 1]

\* The first clear bit of the first group whose count is not zero and that has one; the number
\* returned is that of the bit.
TakeBit(s, kind) ==
  LET able == {g \in Groups : s.count[kind][g] # 0 /\ Clear(s, kind, g) # {}}
      g == Min(able)
      k == Min(Clear(s, kind, g))
      no == g * BITS + k
  IN IF able = {} THEN [s |-> [s EXCEPT !.taint = @ \cup {"full"}], no |-> NONE]
     ELSE [s |-> [Mark(s, kind, g, k) EXCEPT !.held[kind] = @ \cup {no},
                                             !.twice = @ \/ no \in s.held[kind]],
           no |-> no]

ext2_alloc_block(s) == TakeBit(s, "block")
alloc_inode(s) == TakeBit(s, "inode")

\* The word and the bit to clear are computed with 4 where the search computes with 32: they
\* are those of the freed one for the first four of a group, another one's for the next, and
\* further on they are not in the bitmap but in the buffer behind it.
FreedBit(o) == WORD * (o \div FREE_WORD) + (o % FREE_WORD)

FreeBit(s, kind, b) ==
  LET g == b \div BITS
      k == FreedBit(b % BITS)
      known == (IF k = b % BITS THEN {} ELSE {"misfree"})
                 \cup (IF b \in s.held[kind] THEN {} ELSE {"unheld"})
  IN [s EXCEPT !.bits[kind][g] = @ \ {k}, !.count[kind][g] = @ + 1, !.held[kind] = @ \ {b},
               !.taint = @ \cup known]

ext2_free_block(s, b) == FreeBit(s, "block", b)
free_inode(s, i) == FreeBit(s, "inode", i)

-----------------------------------------------------------------------------
(* The inode table. *)

\* The sector at the start of the inode's block is read: an inode further on in the block is
\* taken from the memory behind the buffer.
InSector(i) == i % (2 * SECTOR_SLOTS) < SECTOR_SLOTS

read_inode_metadata(s, index) == [s EXCEPT !.inode = s.slot[index - 1]]

\* The slot is computed from index, not from index - 1: the next inode's slot is overwritten,
\* or none if it is not in the sector that is read and written back.
write_inode_metadata(s, index) ==
  IF InSector(index) /\ index < NSlots THEN [s EXCEPT !.slot[index] = s.inode] ELSE s

-----------------------------------------------------------------------------
(* The block map. *)

NoBlock == [k \in 0 .. P - 1 |-> 0]

\* What a block that is read as a table of block numbers holds: block -1 and what is beyond
\* the disk fail to read and leave the buffer as it was, here zero.
Table(s, b) == IF b \in Blocks THEN s.ptr[b] ELSE NoBlock

\* The digits of a number below P * P * P.
Lo(n) == n % P
Mid(n) == (n \div P) % P
Hi(n) == n \div (P * P)

get_disk_block_number(s, i) ==
  LET a == i - DIRECT
      b == a - P
      c == b - P * P
  IN IF a < 0 THEN s.inode.blocks[i]
     ELSE IF b < 0 THEN Table(s, s.inode.blocks[DIRECT])[a]
     ELSE IF c < 0 THEN Table(s, Table(s, s.inode.blocks[DIRECT + 1])[b \div P])[Lo(b)]
     ELSE IF c < P * P * P
          THEN Table(s, Table(s, Table(s, s.inode.blocks[DIRECT + 2])[Hi(c)])[Mid(c)])[Lo(c)]
     ELSE 0

\* A block number is taken for a table that the inode or a table above does not have yet.
\* Nothing clears the new block, so it starts with the numbers it held before.
NewTable(s) ==
  LET t == ext2_alloc_block(s)
  IN IF t.no \in Blocks /\ t.s.ptr[t.no] # NoBlock
     THEN [t EXCEPT !.s.taint = @ \cup {"stale"}] ELSE t

\* alloc_inode_metadata_block on an entry of the inode, which is then written back.
InodeTable(s, index, e) ==
  IF s.inode.blocks[e] # 0 THEN s
  ELSE LET t == NewTable(s)
       IN write_inode_metadata([t.s EXCEPT !.inode.blocks[e] = t.no], index)

\* The same on entry k of block b, which is then written back.
SubTable_Fresh(s, b, k) ==
  LET t == NewTable(s) IN IF b \in Blocks THEN [t.s EXCEPT !.ptr[b][k] = t.no] ELSE t.s

SubTable(s, b, k) ==
  IF Table(s, b)[k] # 0 THEN s
  ELSE LET t == NewTable(s) IN IF b \in Blocks THEN [t.s EXCEPT !.ptr[b][k] = t.no] ELSE t.s

SetEntry(s, b, k, d) ==
  IF b \in Blocks /\ k < P THEN [s EXCEPT !.ptr[b][k] = d] ELSE s

\* The first block number of each level, and the first one past the last.
Boundary(i) == i \in {DIRECT, DIRECT + P, Triple, MaxBlock}

\* The tests are a <= 0, b <= 0, c <= 0 and d <= 0 where get_disk_block_number has a < 0 and
\* so on: the first block of a level is stored as if it were one more of the level before.
\* That replaces the indirect block, or is lost behind the end of the table, or (the last two
\* boundaries) follows a block number that was never read: see Strays.
set_disk_block_number(s, index, i, d) ==
  LET a == i - DIRECT
      b == a - P
      c == b - P * P
      at == IF Boundary(i) THEN [s EXCEPT !.taint = @ \cup {"boundary"}] ELSE s
      one == InodeTable(at, index, DIRECT)
      two == InodeTable(at, index, DIRECT + 1)
      twoB == two.inode.blocks[DIRECT + 1]
      twoS == SubTable(two, twoB, b \div P)
      three == InodeTable(at, index, DIRECT + 2)
      threeB == three.inode.blocks[DIRECT + 2]
      threeS == SubTable(three, threeB, Hi(c))
      midB == Table(threeS, threeB)[Hi(c)]
      threeT == SubTable(threeS, midB, Mid(c))
  IN IF a <= 0 THEN [at EXCEPT !.inode.blocks[i] = d]
     ELSE IF b <= 0 THEN SetEntry(one, one.inode.blocks[DIRECT], a, d)
     ELSE IF c < 0 THEN SetEntry(twoS, Table(twoS, twoB)[b \div P], Lo(b), d)
     ELSE IF c < P * P * P THEN SetEntry(threeT, Table(threeT, midB)[Mid(c)], Lo(c), d)
     ELSE at

\* The table of the second or third level is looked for behind the end of the one above.
Strays(i) == i \in {Triple, MaxBlock}

\* inode->n_sectors, which nothing reads, is left out.
alloc_inode_block(s, index, i) ==
  LET t == ext2_alloc_block(s)
  IN write_inode_metadata(set_disk_block_number(t.s, index, i, t.no), index)

\* The entry that is cleared is that of the disk block's number, not of the file's.
free_inode_block(s, index, i) ==
  LET d == get_disk_block_number(s, i)
  IN write_inode_metadata(
       set_disk_block_number(ext2_free_block(s, d), index, d, 0), index)

-----------------------------------------------------------------------------
(* The data of a file. *)

\* Byte k of the buffer of call n; the byte behind it is not the caller's.
Byte(n, k, size) == IF k < size THEN 100 * n + k ELSE NONE

\* A block that is not the last one is copied from its first byte to right = block_size, one
\* too many: the byte lands behind the block's buffer, and the next block of the file gets the
\* bytes from one further on.
Taken == BLOCK + 1

\* Where the copy into block i of a write that starts in block b0 begins.
Left_Block(i, b0, offset) == 0
Left(i, b0, offset) == IF i = b0 THEN offset % BLOCK ELSE 0

\* A block of the disk that is several blocks of the file keeps what was written last.
write_inode_filedata(s, index, offset, size, n) ==
  LET end == offset + size
      grown == IF end <= s.inode.size THEN s
               ELSE write_inode_metadata([s EXCEPT !.inode.size = end], index)
      b0 == offset \div BLOCK
      b1 == end \div BLOCK
      disk == [i \in b0 .. b1 |-> get_disk_block_number(grown, i)]
      Right(i) == IF i = b1 THEN (end % BLOCK) - 1 ELSE BLOCK
      Cur(i) == IF i = b0 THEN 0 ELSE Taken * (i - b0) - (offset % BLOCK)
      Copied(b, k) == {i \in b0 .. b1 : /\ disk[i] = b
                                        /\ Left(i, b0, offset) <= k /\ k <= Right(i)}
      Written(b, k, old) ==
        IF Copied(b, k) = {} THEN old
        ELSE LET i == Max(Copied(b, k)) IN Byte(n, Cur(i) + k - Left(i, b0, offset), size)
  IN [grown EXCEPT !.data = [b \in Blocks |-> IF \E i \in b0 .. b1 : disk[i] = b
                                             THEN [k \in 0 .. BLOCK - 1 |-> Written(b, k, @[b][k])]
                                             ELSE @[b]]]

\* The bytes read from offset on: the end is that of the file if size goes beyond it.
read_inode_filedata(s, offset, size) ==
  LET end == Min({s.inode.size, offset + size})
  IN [k \in 0 .. end - offset - 1 |->
        s.data[get_disk_block_number(s, (offset + k) \div BLOCK)][(offset + k) % BLOCK]]

-----------------------------------------------------------------------------
(* The calls. The file is inode FILE; the one behind it in the table is another file's. *)

FILE == 1
FileSize == 2 * BLOCK - 2
NoInode == [blocks |-> [e \in 0 .. DIRECT + 2 |-> 0], size |-> 0]

\* mkfs: two blocks of the file, in the first group, are marked and not among FreshBits.
FileBlock(i) == FirstBlock + i
Formatted ==
  [NoInode EXCEPT !.blocks = [e \in DOMAIN @ |-> IF e < 2 THEN FileBlock(e) ELSE 0],
                  !.size = FileSize]

Init ==
  /\ bits = [kind \in Kinds |-> [g \in Groups |-> (0 .. BITS - 1) \ FreshBits[g]]]
  /\ ptr \in {[b \in Blocks |-> IF b \in stale THEN [k \in 0 .. P - 1 |-> FileBlock(0)] ELSE NoBlock] :
              stale \in {{}, {Stale}}}
  /\ data = [b \in Blocks |-> [k \in 0 .. BLOCK - 1 |-> 0]]
  /\ slot = [i \in 0 .. NSlots - 1 |-> IF i = FILE - 1 THEN Formatted ELSE NoInode]
  /\ count = read_BGD
  /\ inode = Formatted
  /\ status = "ok"
  /\ held = [kind \in Kinds |-> {}]
  /\ twice = FALSE
  /\ mapped = << >>
  /\ want = [k \in 0 .. FileSize - 1 |-> 0]
  /\ taint = {}
  /\ calls = 0

Calling == status = "ok" /\ calls < MaxCalls /\ calls' = calls + 1

new_inode ==
  /\ Calling
  /\ Becomes(alloc_inode(State).s)
  /\ UNCHANGED <<status, mapped, want>>

drop_inode(i) ==
  /\ Calling
  /\ i \in held["inode"]
  /\ Becomes(free_inode(State, i))
  /\ UNCHANGED <<status, mapped, want>>

Wild == /\ status' = "wild block"
        /\ UNCHANGED <<bits, ptr, data, slot, count, inode, held, twice, taint, mapped>>

\* A block for the inode that is in memory, as ext2_mkfile and ext2_mkdir take one.
grow(i) ==
  /\ Calling
  /\ IF Strays(i) THEN Wild
     ELSE /\ Becomes(alloc_inode_block(State, FILE, i))
          /\ mapped' = [j \in DOMAIN mapped \cup {i} |->
                          IF j = i THEN ext2_alloc_block(State).no ELSE mapped[j]]
          /\ UNCHANGED status
  /\ UNCHANGED want

\* If the disk block's number is that of a block of the file, the map loses that one.
shrink(i) ==
  LET d == get_disk_block_number(State, i)
      known == IF d <= MaxBlock THEN {"misclear"} ELSE {}
  IN /\ Calling
     /\ i \in DOMAIN mapped /\ d \in Blocks
     /\ IF Strays(d) THEN Wild
        ELSE /\ Becomes([free_inode_block(State, FILE, i) EXCEPT !.taint = @ \cup known])
             /\ mapped' = [j \in DOMAIN mapped \ {i} |-> mapped[j]]
             /\ UNCHANGED status
     /\ UNCHANGED want

\* The inode is read from the disk, so the blocks given to the one in memory are forgotten.
ext2_write(offset, size) ==
  LET s == read_inode_metadata(State, FILE)
      last == (offset + size - 1) \div BLOCK
      known == (IF last > offset \div BLOCK THEN {"span"} ELSE {})
                 \cup (IF last > 1 THEN {"hole"} ELSE {})
  IN /\ Calling
     /\ Becomes([write_inode_filedata(s, FILE, offset, size, calls + 1)
                   EXCEPT !.taint = @ \cup known])
     /\ mapped' = << >>
     /\ want' = [k \in DOMAIN want |->
                   IF offset <= k /\ k < offset + size THEN Byte(calls + 1, k - offset, size)
                   ELSE want[k]]
     /\ UNCHANGED status

\* The machine is switched off after ext2_alloc_block or alloc_inode wrote a bitmap, or between
\* calls, and started again: assign_superblock and read_BGD read the disk.
restart(kind, midway) ==
  /\ Calling
  /\ bits' = IF midway THEN TakeBit(State, kind).s.bits ELSE bits
  /\ count' = read_BGD
  /\ inode' = slot[FILE - 1]
  /\ mapped' = << >>
  /\ UNCHANGED <<ptr, data, slot, status, held, twice, want, taint>>

Next ==
  \/ new_inode
  \/ \E i \in Frees : drop_inode(i)
  \/ \E i \in DIRECT .. MaxBlock : grow(i) \/ shrink(i)
  \/ \E offset \in Offsets, size \in Sizes : ext2_write(offset, size)
  \/ \E kind \in Kinds, midway \in BOOLEAN : restart(kind, midway)

Spec == Init /\ [][Next]_vars

-----------------------------------------------------------------------------
(* Properties. *)

TypeOK ==
  /\ bits \in [Kinds -> [Groups -> SUBSET (0 .. BITS - 1)]]
  /\ count \in [Kinds -> [Groups -> Nat]]
  /\ DOMAIN ptr = Blocks /\ DOMAIN data = Blocks
  /\ \A i \in DOMAIN slot : DOMAIN slot[i].blocks = 0 .. DIRECT + 2
  /\ status \in {"ok", "wild block"} /\ taint \subseteq Flaws
  /\ twice \in BOOLEAN /\ calls \in 0 .. MaxCalls

\* ext2_alloc_block and alloc_inode never give out what is in use, over restarts and stops
\* between the two writes of an allocation, as long as nothing was freed whose bit
\* ext2_free_block and free_inode get wrong.
GivenOnce == "misfree" \notin taint => ~twice

\* The count of a group in memory is never below the number of its clear bits, as long as what
\* is freed had been given out: no allocation is refused while there is a free bit. No count of
\* the group descriptors goes below zero in any case. That holds although the counts on the disk
\* are never brought up to date, and although freeing clears another bit.
CountsCover ==
  /\ TypeOK
  /\ "unheld" \notin taint =>
       \A kind \in Kinds, g \in Groups : count[kind][g] >= Cardinality(Clear(State, kind, g))

\* What set_disk_block_number stored for a block of the file is what get_disk_block_number
\* finds, for all levels of indirection and whatever other blocks were set in between, unless
\* a block at the edge of a level was set, the disk was full, or a block taken for a table
\* still held old numbers.
MapReadBack ==
  taint \cap {"boundary", "stale", "full", "misfree", "misclear"} = {} /\ status = "ok" =>
    \A i \in DOMAIN mapped : get_disk_block_number(State, i) = mapped[i]

\* Reading the file gives the bytes that were last written to it, for each range within its
\* size, after writes that stay within a block.
ReadBack ==
  LET s == read_inode_metadata(State, FILE)
  IN taint \cap {"span", "hole"} = {} =>
       \A offset \in Offsets, size \in Sizes :
         offset + size <= FileSize =>
           read_inode_filedata(s, offset, size) = [k \in 0 .. size - 1 |-> want[offset + k]]
=============================================================================
