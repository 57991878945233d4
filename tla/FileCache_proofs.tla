-------------------------- MODULE FileCache_proofs --------------------------
(***************************************************************************)
(* That the count of a FILE is that of its openers and that who has a file *)
(* open has its contents, for every set of files, heap blocks and trees    *)
(* and any number of openers.                                              *)
(*                                                                         *)
(* The properties say nothing of a file that nobody has open, and what     *)
(* happens to it at the next open depends on its past.  CacheInv adds the  *)
(* three stages of a FILE that was set up clean: without a buffer it was   *)
(* never used at all; then, until its last close, its buffer is a block of *)
(* its own; after it, nobody has it open, and the next use misuses it.     *)
(*                                                                         *)
(* The last part is about the lookup: the tree that is walked is that of   *)
(* the mounted disk, and the walk finds what its directories name.         *)
(***************************************************************************)
EXTENDS FileCache, FiniteSetTheorems, TLAPS

\* The values of trace.
Traces == [depth : Nat, overrun : BOOLEAN]

\* The values of State.
States == [ref : [Files -> Int], off : [Files -> Nat], buf : [Files -> Blocks \cup {NULL, Wild}],
           heap : [Blocks -> Files \cup {Free, Other}], ret : {0, InitError}, trace : Traces,
           status : {"ok", "wild", "use after free", "double free"}]

\* Types of the histories.
HistoryOK == /\ held \in [Files -> Nat] /\ misused \subseteq Files /\ closed \subseteq Files
             /\ refused \in Nat

\* A FILE without a buffer was never used.
Unopened ==
  \A f \in Files : file_buffer[f] = NULL =>
    f \notin misused \cup closed /\ refcount[f] = 0 /\ held[f] = 0 /\ cur_offset[f] = 0

\* The openers of a FILE that was never misused are counted, and none is left when it
\* was closed.
Counted ==
  \A f \in Files \ misused : refcount[f] = held[f] /\ (f \in closed => held[f] = 0)

\* Until its last close a FILE's buffer is its own block.
Owned ==
  status # "double free" =>
    \A f \in Files \ (misused \cup closed) :
      file_buffer[f] # NULL => file_buffer[f] \in Blocks /\ heap[file_buffer[f]] = f

\* No count is below that of a pinned FILE.
AtLeastPinned == \A f \in Files : refcount[f] >= -1

\* The inductive invariant.
CacheInv ==
  /\ TypeOK /\ HistoryOK /\ AtLeastPinned
  /\ Unopened /\ Counted /\ Owned
  /\ NoHeapMisuse /\ TraceFits

-----------------------------------------------------------------------------
(* What a nest of traced calls does to the trace stack *)

\* u is t after calls at most k deep that pop what they push: a push is made past the end
\* of trace_stack only if k entries do not fit above those of t.
Nest(t, u, k) ==
  /\ u \in Traces
  /\ u.depth = t.depth
  /\ u.overrun => t.overrun \/ t.depth + k > TraceSlots

\* What one push and one pop do.
LEMMA PushPop ==
  ASSUME NEW t \in Traces
  PROVE  /\ push_trace(t) \in Traces
         /\ push_trace(t).depth = t.depth + 1
         /\ push_trace(t).overrun <=> t.overrun \/ t.depth >= TraceSlots
         /\ pop_trace(t) = [depth |-> t.depth - 1, overrun |-> t.overrun]
<1>1. t.depth \in Nat /\ t.overrun \in BOOLEAN
  BY DEF Traces
<1>2. t = [depth |-> t.depth, overrun |-> t.overrun]
  BY DEF Traces
<1>3. pop_trace(t) = [depth |-> t.depth - 1, overrun |-> t.overrun]
  BY <1>2 DEF pop_trace
<1>4. t.depth + 1 \in Nat /\ (t.overrun \/ t.depth >= TraceSlots) \in BOOLEAN
  BY <1>1
<1>5. push_trace(t) \in Traces
  BY <1>4 DEF Traces, push_trace
<1>6. /\ push_trace(t).depth = t.depth + 1
      /\ push_trace(t).overrun <=> t.overrun \/ t.depth >= TraceSlots
  BY Zenon DEF push_trace
<1>7. QED
  BY <1>3, <1>5, <1>6

\* A call nests one deeper than the calls it makes.
LEMMA NestIn ==
  ASSUME NEW t \in Traces, NEW u, NEW k \in Nat, Nest(push_trace(t), u, k)
  PROVE  Nest(t, pop_trace(u), k + 1)
<1> DEFINE p == push_trace(t)
<1>1. p \in Traces /\ p.depth = t.depth + 1 /\ (p.overrun <=> t.overrun \/ t.depth >= TraceSlots)
  BY PushPop
<1> HIDE DEF p
<1>2. u \in Traces /\ u.depth = p.depth /\ (u.overrun => p.overrun \/ p.depth + k > TraceSlots)
  BY DEF Nest, p
<1>3. pop_trace(u) = [depth |-> u.depth - 1, overrun |-> u.overrun]
  BY <1>2, PushPop
<1>4. t.depth \in Nat
  BY DEF Traces
<1>5. /\ pop_trace(u).depth = t.depth
      /\ pop_trace(u).overrun = u.overrun
      /\ pop_trace(u) \in Traces
  BY <1>1, <1>2, <1>3, <1>4 DEF Traces
<1>6. t.depth >= TraceSlots => t.depth + (k + 1) > TraceSlots
  BY <1>4, CacheAssumption
<1>7. p.depth + k > TraceSlots => t.depth + (k + 1) > TraceSlots
  BY <1>1, <1>4, CacheAssumption
<1>8. QED
  BY <1>1, <1>2, <1>5, <1>6, <1>7 DEF Nest

\* Calls one after the other nest as deep as the deepest of them.
LEMMA NestThen ==
  ASSUME NEW t \in Traces, NEW u, NEW v, NEW j \in Nat, NEW k \in Nat, NEW m \in Nat,
         Nest(t, u, j), Nest(u, v, k), j <= m, k <= m
  PROVE  Nest(t, v, m)
<1>1. t.depth \in Nat
  BY DEF Traces
<1>2. /\ t.depth + j > TraceSlots => t.depth + m > TraceSlots
      /\ t.depth + k > TraceSlots => t.depth + m > TraceSlots
  BY <1>1, CacheAssumption
<1>3. QED
  BY <1>2 DEF Nest

\* A nest is no deeper than a greater number.
LEMMA NestMore ==
  ASSUME NEW t \in Traces, NEW u, NEW j \in Nat, NEW m \in Nat, Nest(t, u, j), j <= m
  PROVE  Nest(t, u, m)
<1>1. t.depth \in Nat
  BY DEF Traces
<1>2. t.depth + j > TraceSlots => t.depth + m > TraceSlots
  BY <1>1, CacheAssumption
<1>3. QED
  BY <1>2 DEF Nest

\* How deep the calls of ext2.c and inode.c nest.
LEMMA DiskNests ==
  ASSUME NEW t \in Traces
  PROVE  /\ Nest(t, t, 0)
         /\ Nest(t, disk_block(t), 1) /\ Nest(t, inode_metadata(t), 1)
         /\ Nest(t, get_disk_block_number(t), 2) /\ Nest(t, inode_block(t), 3)
         /\ Nest(t, ext2_read(t), 5) /\ Nest(t, ext2_write(t), 5)
<1>0. \A u \in Traces : Nest(u, u, 0)
  BY DEF Nest
<1>1. \A u \in Traces : Nest(u, disk_block(u), 1) /\ Nest(u, inode_metadata(u), 1)
  <2> TAKE u \in Traces
  <2>1. push_trace(u) \in Traces /\ 0 + 1 = 1
    BY PushPop
  <2>2. Nest(u, pop_trace(push_trace(u)), 0 + 1)
    BY <1>0, <2>1, NestIn
  <2>3. QED
    BY <2>1, <2>2 DEF disk_block, inode_metadata
<1>2. \A u \in Traces : Nest(u, get_disk_block_number(u), 2)
  <2> TAKE u \in Traces
  <2>1. push_trace(u) \in Traces /\ 1 + 1 = 2
    BY PushPop
  <2>2. Nest(u, pop_trace(disk_block(push_trace(u))), 1 + 1)
    BY <1>1, <2>1, NestIn
  <2>3. QED
    BY <2>1, <2>2 DEF get_disk_block_number
<1>3. \A u \in Traces : Nest(u, inode_block(u), 3)
  <2> TAKE u \in Traces
  <2> DEFINE p == push_trace(u)
             g == get_disk_block_number(p)
  <2>1. p \in Traces /\ 2 + 1 = 3
    BY PushPop
  <2> HIDE DEF p
  <2>2. Nest(p, g, 2) /\ g \in Traces
    BY <1>2, <2>1 DEF Nest
  <2> HIDE DEF g
  <2>3. Nest(p, disk_block(g), 2)
    BY <1>1, <2>1, <2>2, NestThen
  <2>4. Nest(u, pop_trace(disk_block(g)), 2 + 1)
    BY <2>3, NestIn DEF p
  <2>5. QED
    BY <2>1, <2>4 DEF inode_block, g, p
<1>4. \A u \in Traces : Nest(u, read_inode_filedata(u), 4)
  <2> TAKE u \in Traces
  <2>1. push_trace(u) \in Traces /\ 3 + 1 = 4
    BY PushPop
  <2>2. Nest(u, pop_trace(inode_block(push_trace(u))), 3 + 1)
    BY <1>3, <2>1, NestIn
  <2>3. QED
    BY <2>1, <2>2 DEF read_inode_filedata
<1>5. \A u \in Traces : Nest(u, write_inode_filedata(u), 4)
  <2> TAKE u \in Traces
  <2> DEFINE p == push_trace(u)
             g == inode_metadata(p)
             h == inode_block(g)
  <2>1. p \in Traces /\ 3 + 1 = 4
    BY PushPop
  <2> HIDE DEF p
  <2>2. Nest(p, g, 1) /\ g \in Traces
    BY <1>1, <2>1 DEF Nest
  <2> HIDE DEF g
  <2>3. Nest(p, h, 3) /\ h \in Traces
    BY <1>3, <2>1, <2>2, NestThen DEF Nest
  <2> HIDE DEF h
  <2>4. Nest(p, inode_block(h), 3)
    BY <1>3, <2>1, <2>3, NestThen
  <2>5. Nest(u, pop_trace(inode_block(h)), 3 + 1)
    BY <2>4, NestIn DEF p
  <2>6. QED
    BY <2>1, <2>5 DEF write_inode_filedata, h, g, p
<1>6. ASSUME NEW u \in Traces
      PROVE  Nest(u, ext2_read(u), 5) /\ Nest(u, ext2_write(u), 5)
  <2> DEFINE p == push_trace(u)
             g == inode_metadata(p)
  <2>1. p \in Traces /\ 4 + 1 = 5
    BY PushPop
  <2> HIDE DEF p
  <2>2. Nest(p, g, 1) /\ g \in Traces
    BY <1>1, <2>1 DEF Nest
  <2> HIDE DEF g
  <2>3. Nest(p, read_inode_filedata(g), 4) /\ Nest(p, write_inode_filedata(g), 4)
    BY <1>4, <1>5, <2>1, <2>2, NestThen
  <2>4. /\ Nest(u, pop_trace(read_inode_filedata(g)), 4 + 1)
        /\ Nest(u, pop_trace(write_inode_filedata(g)), 4 + 1)
    BY <2>3, NestIn DEF p
  <2>5. QED
    BY <2>1, <2>4 DEF ext2_read, ext2_write, g, p
<1>7. QED
  BY <1>0, <1>1, <1>2, <1>3, <1>6

-----------------------------------------------------------------------------
(* What fs_open, f_close and f_read do to the state *)

\* A count after one more open.
OneMore(s, f) == [s.ref EXCEPT ![f] = IF s.ref[f] >= 0 THEN s.ref[f] + 1 ELSE s.ref[f]]

\* What a buffer that is copied out of does to the status.
Reads(s, f) == IF s.buf[f] = Wild THEN "wild"
               ELSE IF s.heap[s.buf[f]] = f THEN s.status ELSE "use after free"

\* t is s after an open of f: the opener is counted unless the FILE is pinned, and the FILE
\* has the block b if it had none.
Opened(s, f, b, t) ==
  /\ t \in States
  /\ t.ref = OneMore(s, f)
  /\ t.off = [s.off EXCEPT ![f] = 0]
  /\ Nest(s.trace, t.trace, 7) /\ t.status = s.status
  /\ s.buf[f] # NULL => t.buf = s.buf /\ t.heap = s.heap
  /\ s.buf[f] = NULL => t.buf = [s.buf EXCEPT ![f] = b] /\ t.heap = [s.heap EXCEPT ![b] = f]

\* t is s after a close of f: one less is counted unless the FILE is pinned, and the block is
\* given back when none is left.
Closed(s, f, t) ==
  /\ t \in States
  /\ t.off = s.off /\ t.buf = s.buf
  /\ s.ref[f] = -1 => /\ t.ref = s.ref /\ t.heap = s.heap /\ t.status = s.status
                      /\ t.trace = push_trace(s.trace)
  /\ s.ref[f] # -1 => t.ref = [s.ref EXCEPT ![f] = s.ref[f] - 1] /\ Nest(s.trace, t.trace, 1)
  /\ s.ref[f] # 1 \/ s.buf[f] = NULL => t.heap = s.heap /\ t.status = s.status
  /\ s.ref[f] = 1 /\ s.buf[f] = Wild => t.heap = s.heap /\ t.status = "wild"
  /\ s.ref[f] = 1 /\ s.buf[f] \in Blocks =>
       /\ t.heap = [s.heap EXCEPT ![s.buf[f]] = Free]
       /\ t.status = IF s.heap[s.buf[f]] = f THEN s.status ELSE "double free"

\* t is s after a copy out of the buffer of f.
Accessed(s, f, t) ==
  /\ t \in States
  /\ t.ref = s.ref /\ t.off = s.off /\ t.buf = s.buf /\ t.heap = s.heap
  /\ t.trace = s.trace /\ t.ret = s.ret
  /\ t.status = Reads(s, f)

\* t is s after a read of n bytes of f: refused past the end, otherwise the FILE is opened
\* with the block b if it has none and its buffer is copied.
DidRead(s, f, n, b, t) ==
  /\ t \in States
  /\ \A g \in Files \ {f} : t.off[g] = s.off[g]
  /\ n + s.off[f] > FileSize =>
       /\ t.ref = s.ref /\ t.off = s.off /\ t.buf = s.buf /\ t.heap = s.heap
       /\ t.status = s.status /\ t.trace = push_trace(s.trace)
  /\ ~(n + s.off[f] > FileSize) =>
       /\ Nest(s.trace, t.trace, 8)
       /\ s.buf[f] # NULL => /\ t.ref = s.ref /\ t.buf = s.buf /\ t.heap = s.heap
                             /\ t.status = Reads(s, f)
       /\ s.buf[f] = NULL => /\ t.ref = OneMore(s, f) /\ t.status = s.status
                             /\ t.buf = [s.buf EXCEPT ![f] = b]
                             /\ t.heap = [s.heap EXCEPT ![b] = f]

\* What Pushed and Popped do.
LEMMA PushedPopped ==
  ASSUME NEW s \in States
  PROVE  /\ Pushed(s) = [s EXCEPT !.trace = push_trace(s.trace)]
         /\ Popped(s) = [s EXCEPT !.trace = pop_trace(s.trace)]
         /\ s.trace \in Traces /\ push_trace(s.trace) \in Traces
         /\ Pushed(s) \in States
<1>1. s.trace \in Traces
  BY DEF States
<1>2. push_trace(s.trace) \in Traces
  BY <1>1, PushPop
<1> DEFINE t == push_trace(s.trace)
<1>3. Pushed(s) = [s EXCEPT !.trace = t]
  BY DEF Pushed
<1> HIDE DEF t
<1>4. [s EXCEPT !.trace = t] \in States
  BY <1>2 DEF States, t
<1>5. QED
  BY <1>1, <1>2, <1>3, <1>4 DEF Popped, t

\* fs_open (ext2.c) opens.
LEMMA OpenEffect ==
  ASSUME NEW s \in States, NEW f \in Files, NEW b, NEW e \in {0, InitError},
         s.buf[f] = NULL => b \in Blocks
  PROVE  Opened(s, f, b, fs_open(s, f, b, e))
<1> DEFINE n == IF s.ref[f] >= 0 THEN s.ref[f] + 1 ELSE s.ref[f]
           p == push_trace(s.trace)
           u == [s EXCEPT !.trace = p, !.ref[f] = n, !.off[f] = 0]
           v == ext2_open(u, f, b, e)
           t == fs_open(s, f, b, e)
<1>a. s.ref[f] \in Int
  BY DEF States
<1>0. n \in Int
  BY <1>a
<1>b. p \in Traces /\ s.trace \in Traces
  BY PushedPopped
<1>c. Pushed(s) = [s EXCEPT !.trace = p]
  BY PushedPopped
<1>3. t = Popped(v)
  <2>1. t = Popped(ext2_open([Pushed(s) EXCEPT !.ref[f] = n, !.off[f] = 0], f, b, e))
    BY <1>c DEF fs_open, States
  <2> HIDE DEF n, p, t
  <2>2. [Pushed(s) EXCEPT !.ref[f] = n, !.off[f] = 0] = u
    BY <1>c DEF States
  <2>3. QED
    BY <2>1, <2>2
<1> HIDE DEF t
<1> SUFFICES Opened(s, f, b, t)
  BY DEF t
<1> HIDE DEF n, p
<1>1. u \in States
  BY <1>0, <1>b DEF States
<1>2. /\ u.ref = [s.ref EXCEPT ![f] = n]
      /\ u.off = [s.off EXCEPT ![f] = 0]
      /\ u.buf = s.buf /\ u.heap = s.heap /\ u.trace = p /\ u.status = s.status
  BY DEF States
<1> HIDE DEF u
<1> DEFINE q == push_trace(p)
<1>d. q \in Traces
  BY <1>b, PushPop
<1>4. CASE s.buf[f] # NULL
  <2> DEFINE w == pop_trace(q)
  <2>1. v = [u EXCEPT !.trace = w]
    BY <1>1, <1>2, <1>4 DEF ext2_open
  <2>2. Nest(p, w, 1) /\ w \in Traces
    <3>1. Nest(q, q, 0)
      BY <1>d, DiskNests
    <3>2. Nest(p, pop_trace(q), 0 + 1)
      BY <1>b, <3>1, NestIn
    <3>3. QED
      BY <3>2 DEF Nest
  <2> HIDE DEF w, q, v
  <2>3. /\ v \in States /\ v.trace = w
        /\ v.ref = u.ref /\ v.off = u.off /\ v.buf = u.buf /\ v.heap = u.heap /\ v.status = u.status
    BY <1>1, <2>1, <2>2 DEF States
  <2>4. Nest(p, w, 6)
    BY <1>b, <2>2, NestMore
  <2> DEFINE x == pop_trace(w)
  <2>5. Nest(s.trace, x, 7) /\ x \in Traces
    <3>1. Nest(s.trace, pop_trace(w), 6 + 1)
      BY <1>b, <2>4, NestIn DEF p
    <3>2. QED
      BY <3>1 DEF Nest
  <2>6. t = [v EXCEPT !.trace = x]
    BY <1>3, <2>3 DEF Popped
  <2> HIDE DEF x
  <2>7. /\ t \in States /\ t.trace = x
        /\ t.ref = v.ref /\ t.off = v.off /\ t.buf = v.buf /\ t.heap = v.heap /\ t.status = v.status
    BY <2>3, <2>5, <2>6 DEF States
  <2>8. QED
    BY <1>2, <1>4, <2>3, <2>5, <2>7 DEF n, Opened, OneMore
<1>5. CASE s.buf[f] = NULL
  <2> DEFINE w == pop_trace(ext2_read(q))
  <2>1. v = [u EXCEPT !.buf[f] = b, !.heap[b] = f, !.ret = e, !.trace = w]
    BY <1>1, <1>2, <1>5 DEF ext2_open
  <2>2. Nest(p, w, 6) /\ w \in Traces
    <3>1. Nest(q, ext2_read(q), 5)
      BY <1>d, DiskNests
    <3>2. Nest(p, pop_trace(ext2_read(q)), 5 + 1)
      BY <1>b, <3>1, NestIn
    <3>3. QED
      BY <3>2 DEF Nest
  <2> HIDE DEF w, q, v
  <2>3. v \in States
    <3>1. /\ [u.buf EXCEPT ![f] = b] \in [Files -> Blocks \cup {NULL, Wild}]
          /\ [u.heap EXCEPT ![b] = f] \in [Blocks -> Files \cup {Free, Other}]
      BY <1>1, <1>5 DEF States
    <3>2. QED
      BY <1>1, <2>1, <2>2, <3>1 DEF States
  <2>4. /\ v.ref = u.ref /\ v.off = u.off /\ v.trace = w /\ v.status = u.status
        /\ v.buf = [u.buf EXCEPT ![f] = b] /\ v.heap = [u.heap EXCEPT ![b] = f]
    BY <1>1, <2>1 DEF States
  <2> DEFINE x == pop_trace(w)
  <2>5. Nest(s.trace, x, 7) /\ x \in Traces
    <3>1. Nest(s.trace, pop_trace(w), 6 + 1)
      BY <1>b, <2>2, NestIn DEF p
    <3>2. QED
      BY <3>1 DEF Nest
  <2>6. t = [v EXCEPT !.trace = x]
    BY <1>3, <2>4 DEF Popped
  <2> HIDE DEF x
  <2>7. /\ t \in States /\ t.trace = x
        /\ t.ref = v.ref /\ t.off = v.off /\ t.buf = v.buf /\ t.heap = v.heap /\ t.status = v.status
    BY <2>3, <2>5, <2>6 DEF States
  <2>8. QED
    BY <1>2, <1>5, <2>4, <2>5, <2>7 DEF n, Opened, OneMore
<1>6. QED
  BY <1>4, <1>5

\* f_close closes.
LEMMA CloseEffect ==
  ASSUME NEW s \in States, NEW f \in Files
  PROVE  Closed(s, f, f_close_File(s, f))
<1> DEFINE p == push_trace(s.trace)
           t == f_close_File(s, f)
<1>0. s.ref[f] \in Int /\ s.buf[f] \in Blocks \cup {NULL, Wild}
  BY DEF States
<1>a. s.trace \in Traces /\ p \in Traces /\ Pushed(s) = [s EXCEPT !.trace = p] /\ Pushed(s) \in States
  BY PushedPopped
<1> SUFFICES Closed(s, f, t)
  OBVIOUS
<1> HIDE DEF p
<1>1. CASE s.ref[f] = -1
  <2>1. t = Pushed(s)
    BY <1>1 DEF f_close_File
  <2> HIDE DEF t
  <2>3. t \in States
    BY <1>a, <2>1
  <2>4. /\ t.off = s.off /\ t.buf = s.buf /\ t.ref = s.ref /\ t.heap = s.heap
        /\ t.status = s.status /\ t.trace = p
    BY <1>a, <2>1 DEF States
  <2>5. QED
    BY <1>1, <2>3, <2>4 DEF p, Closed
<1>2. CASE s.ref[f] # -1
  <2> DEFINE n == s.ref[f] - 1
             u == [s EXCEPT !.trace = p, !.ref[f] = n]
             w == IF u.ref[f] = 0 THEN ext2_close(u, f) ELSE u
  <2>0. n \in Int
    BY <1>0
  <2>b. t = Popped(w)
    <3>1. [Pushed(s) EXCEPT !.ref[f] = s.ref[f] - 1] = u
      BY <1>a DEF States
    <3>2. Pushed(s).ref = s.ref
      BY <1>a DEF States
    <3>3. [Pushed(s) EXCEPT !.ref[f] = @ - 1] = u
      BY <3>1, <3>2
    <3>4. t = LET z == [Pushed(s) EXCEPT !.ref[f] = @ - 1]
              IN  Popped(IF z.ref[f] = 0 THEN ext2_close(z, f) ELSE z)
      BY <1>2 DEF f_close_File
    <3> HIDE DEF n, u, t
    <3>5. QED
      BY <3>3, <3>4
  <2> HIDE DEF n, t
  <2>1. u \in States
    BY <1>a, <2>0 DEF States
  <2>a. /\ u.ref = [s.ref EXCEPT ![f] = n] /\ u.ref[f] = n
        /\ u.off = s.off /\ u.buf = s.buf /\ u.heap = s.heap
        /\ u.trace = p /\ u.status = s.status
    BY DEF States
  <2> HIDE DEF u
  <2>2. /\ u.ref = [s.ref EXCEPT ![f] = s.ref[f] - 1] /\ u.ref[f] = s.ref[f] - 1
        /\ u.off = s.off /\ u.buf = s.buf /\ u.heap = s.heap
        /\ u.trace = p /\ u.status = s.status
    BY <2>a DEF n
  <2>3. w = IF u.ref[f] = 0 THEN ext2_close(u, f) ELSE u
    OBVIOUS
  <2> HIDE DEF w
  <2>4. ASSUME w \in States, w.trace = p
        PROVE  /\ t \in States /\ Nest(s.trace, t.trace, 1)
               /\ t.ref = w.ref /\ t.off = w.off /\ t.buf = w.buf /\ t.heap = w.heap
               /\ t.status = w.status
    <3> DEFINE x == pop_trace(p)
    <3>1. Nest(s.trace, pop_trace(push_trace(s.trace)), 0 + 1)
      BY <1>a, DiskNests, NestIn DEF p
    <3>2. Nest(s.trace, x, 1) /\ x \in Traces
      BY <3>1 DEF Nest, p
    <3>3. t = [w EXCEPT !.trace = x]
      BY <2>b, <2>4 DEF Popped
    <3> HIDE DEF x
    <3>4. QED
      BY <2>4, <3>2, <3>3 DEF States
  <2>5. CASE s.ref[f] # 1
    <3>1. w = u
      BY <1>0, <2>2, <2>3, <2>5
    <3>2. QED
      BY <1>2, <2>1, <2>2, <2>4, <2>5, <3>1 DEF Closed
  <2>6. CASE s.ref[f] = 1 /\ s.buf[f] = NULL
    <3>1. w = u
      BY <2>2, <2>3, <2>6 DEF ext2_close
    <3>2. QED
      BY <1>2, <2>1, <2>2, <2>4, <2>6, <3>1, CacheAssumption DEF NULL, Wild, Closed
  <2>7. CASE s.ref[f] = 1 /\ s.buf[f] = Wild
    <3>1. w = [u EXCEPT !.status = "wild"]
      BY <2>2, <2>3, <2>7 DEF ext2_close, del, NULL, Wild
    <3>2. w \in States
      BY <2>1, <3>1 DEF States
    <3>3. /\ w.off = u.off /\ w.buf = u.buf /\ w.ref = u.ref /\ w.heap = u.heap
          /\ w.status = "wild" /\ w.trace = p
      BY <2>1, <2>2, <3>1 DEF States
    <3>4. QED
      BY <1>2, <2>2, <2>4, <2>7, <3>2, <3>3, CacheAssumption DEF NULL, Wild, Closed
  <2>8. CASE s.ref[f] = 1 /\ s.buf[f] \in Blocks
    <3> DEFINE st == IF s.heap[s.buf[f]] = f THEN s.status ELSE "double free"
               a == s.buf[f]
    <3>0. a # NULL /\ a # Wild
      BY <2>8, CacheAssumption DEF NULL, Wild
    <3>1. w = [u EXCEPT !.status = st, !.heap[a] = Free]
      BY <2>2, <2>3, <2>8, <3>0 DEF ext2_close, del
    <3>2. st \in {"ok", "wild", "use after free", "double free"}
      BY DEF States
    <3>3. a \in Blocks
      BY <2>8
    <3> HIDE DEF st, a
    <3>4. w \in States
      <4>1. [u.heap EXCEPT ![a] = Free] \in [Blocks -> Files \cup {Free, Other}]
        BY <2>1, <3>3 DEF States
      <4>2. QED
        BY <2>1, <3>1, <3>2, <3>3, <4>1 DEF States
    <3>5. /\ w.off = u.off /\ w.buf = u.buf /\ w.ref = u.ref /\ w.trace = p
          /\ w.heap = [u.heap EXCEPT ![a] = Free] /\ w.status = st
      BY <2>1, <2>2, <3>1 DEF States
    <3>6. QED
      BY <1>2, <2>2, <2>4, <2>8, <3>0, <3>4, <3>5 DEF st, a, Closed
  <2>9. QED
    BY <1>0, <2>5, <2>6, <2>7, <2>8
<1>3. QED
  BY <1>1, <1>2

\* The copy of f_read.
LEMMA AccessEffect ==
  ASSUME NEW s \in States, NEW f \in Files, s.buf[f] # NULL
  PROVE  Accessed(s, f, Access(s, f))
<1> DEFINE t == Access(s, f)
<1> DEFINE st == IF s.buf[f] = Wild THEN "wild"
                 ELSE IF s.heap[s.buf[f]] = f THEN s.status ELSE "use after free"
<1>1. s.buf[f] \in Blocks \cup {Wild} /\ s.status \in {"ok", "wild", "use after free", "double free"}
  BY DEF States
<1>2. st \in {"ok", "wild", "use after free", "double free"}
  BY <1>1
<1>3. t = [s EXCEPT !.status = st]
  <2>1. CASE s.buf[f] = Wild
    BY <2>1, CacheAssumption DEF Access, Wild
  <2>2. CASE s.buf[f] \in Blocks /\ s.buf[f] # Wild
    BY <2>2 DEF Access
  <2>3. QED
    BY <1>1, <2>1, <2>2
<1> HIDE DEF st, t
<1>4. t \in States
  BY <1>2, <1>3 DEF States
<1>5. /\ t.ref = s.ref /\ t.off = s.off /\ t.buf = s.buf /\ t.heap = s.heap
      /\ t.trace = s.trace /\ t.ret = s.ret /\ t.status = st
  BY <1>3 DEF States
<1>6. Accessed(s, f, t)
  BY <1>4, <1>5 DEF st, Accessed, Reads
<1>7. QED
  BY <1>6 DEF t

\* f_read reads.
LEMMA ReadEffect ==
  ASSUME NEW s \in States, NEW f \in Files, NEW n \in Nat, NEW b, NEW e \in {0, InitError},
         s.buf[f] = NULL => b \in Blocks
  PROVE  DidRead(s, f, n, b, f_read_File(s, f, n, b, e))
<1> DEFINE t == f_read_File(s, f, n, b, e)
<1> SUFFICES DidRead(s, f, n, b, t)
  OBVIOUS
<1> DEFINE p == push_trace(s.trace)
           P == Pushed(s)
<1>0. s.off[f] \in Nat
  BY DEF States
<1>a. s.trace \in Traces /\ p \in Traces /\ P = [s EXCEPT !.trace = p] /\ P \in States
  BY PushedPopped
<1> HIDE DEF p, P
<1>b. /\ P.ref = s.ref /\ P.off = s.off /\ P.buf = s.buf /\ P.heap = s.heap
      /\ P.status = s.status /\ P.trace = p
  BY <1>a DEF States
<1>1. CASE n + s.off[f] > FileSize
  <2>1. t = P
    BY <1>1 DEF f_read_File, P
  <2> HIDE DEF t
  <2>2. QED
    BY <1>1, <1>a, <1>b, <2>1 DEF p, DidRead
<1>2. CASE ~(n + s.off[f] > FileSize)
  <2> DEFINE w == IF s.buf[f] = NULL THEN fs_open(P, f, b, e) ELSE P
             x == Access(w, f)
             k == x.off[f] + x.ret
             y == [x EXCEPT !.off[f] = k]
  <2>1. t = Popped(y)
    BY <1>2 DEF f_read_File, P
  <2> HIDE DEF t
  <2>2. /\ w \in States /\ w.buf[f] # NULL /\ Nest(p, w.trace, 7) /\ w.status = s.status
        /\ \A g \in Files \ {f} : w.off[g] = s.off[g]
        /\ s.buf[f] # NULL => w = P
        /\ s.buf[f] = NULL => Opened(P, f, b, w)
    <3>1. CASE s.buf[f] # NULL
      <4>1. Nest(p, p, 7)
        BY <1>a, DiskNests, NestMore
      <4>2. QED
        BY <1>a, <1>b, <3>1, <4>1
    <3>2. CASE s.buf[f] = NULL
      <4>1. w = fs_open(P, f, b, e) /\ b \in Blocks
        BY <3>2
      <4> HIDE DEF w
      <4>2. Opened(P, f, b, w)
        BY <1>a, <1>b, <3>2, <4>1, OpenEffect
      <4>3. w.buf[f] = b /\ \A g \in Files \ {f} : w.off[g] = s.off[g]
        BY <1>a, <1>b, <3>2, <4>2 DEF States, Opened
      <4>4. QED
        BY <1>b, <3>2, <4>1, <4>2, <4>3, CacheAssumption DEF NULL, Opened
    <3>3. QED
      BY <3>1, <3>2
  <2> HIDE DEF w
  <2>3. Accessed(w, f, x)
    BY <2>2, AccessEffect
  <2> HIDE DEF x
  <2>4. k \in Nat
    <3>1. x.off[f] \in Nat /\ x.ret \in {0, InitError}
      BY <2>3 DEF States, Accessed
    <3>2. QED
      BY <3>1, CacheAssumption
  <2> HIDE DEF k
  <2>a. /\ y \in States /\ y.trace = w.trace
        /\ y.ref = x.ref /\ y.buf = x.buf /\ y.heap = x.heap
        /\ y.status = x.status /\ y.off = [x.off EXCEPT ![f] = k]
    <3>1. [x.off EXCEPT ![f] = k] \in [Files -> Nat]
      BY <2>3, <2>4 DEF States, Accessed
    <3>2. QED
      BY <2>3, <3>1 DEF States, Accessed
  <2> HIDE DEF y
  <2> DEFINE z == pop_trace(w.trace)
  <2>b. Nest(s.trace, z, 8) /\ z \in Traces
    <3>1. Nest(s.trace, pop_trace(w.trace), 7 + 1)
      BY <1>a, <2>2, NestIn DEF p
    <3>2. QED
      BY <3>1 DEF Nest
  <2>c. t = [y EXCEPT !.trace = z]
    BY <2>1, <2>a DEF Popped
  <2> HIDE DEF z
  <2>5. t \in States
    BY <2>a, <2>b, <2>c DEF States
  <2>6. /\ t.ref = x.ref /\ t.buf = x.buf /\ t.heap = x.heap /\ Nest(s.trace, t.trace, 8)
        /\ t.status = x.status /\ t.off = [x.off EXCEPT ![f] = k]
    BY <2>a, <2>b, <2>c DEF States
  <2>7. \A g \in Files \ {f} : t.off[g] = s.off[g]
    <3>1. w.off \in [Files -> Nat] /\ x.off = w.off
      BY <2>2, <2>3 DEF States, Accessed
    <3>2. QED
      BY <2>2, <2>6, <3>1
  <2>8. CASE s.buf[f] # NULL
    <3>1. Reads(w, f) = Reads(s, f)
      BY <1>b, <2>2, <2>8 DEF Reads
    <3>2. QED
      BY <1>2, <1>b, <2>2, <2>3, <2>5, <2>6, <2>7, <2>8, <3>1 DEF Accessed, DidRead
  <2>9. CASE s.buf[f] = NULL
    <3>1. b \in Blocks /\ b # Wild
      BY <2>9, CacheAssumption DEF Wild
    <3>2. w.buf[f] = b /\ w.heap[b] = f
      BY <1>a, <1>b, <2>2, <2>9, <3>1 DEF States, Opened
    <3>3. t.status = s.status
      BY <2>2, <2>3, <2>6, <3>1, <3>2 DEF Accessed, Reads
    <3>4. OneMore(P, f) = OneMore(s, f)
      BY <1>b DEF OneMore
    <3>5. QED
      BY <1>2, <1>b, <2>2, <2>3, <2>5, <2>6, <2>7, <2>9, <3>3, <3>4 DEF Accessed, Opened, DidRead
  <2>10. QED
    BY <2>8, <2>9
<1>3. QED
  BY <1>1, <1>2

-----------------------------------------------------------------------------
(* The actions *)

\* The state of the calls is one of States.
LEMMA StateTyped ==
  ASSUME TypeOK
  PROVE  /\ State \in States
         /\ State.ref = refcount /\ State.off = cur_offset /\ State.buf = file_buffer
         /\ State.heap = heap /\ State.trace = trace /\ State.status = status
BY DEF TypeOK, State, States, Traces

\* A state a call leaves is well-typed.
LEMMA BecomesTyped ==
  ASSUME NEW t \in States, Becomes(t), disk' \in Trees, call'.op \in {"none", "open", "cat", "ls"}
  PROVE  TypeOK'
BY DEF States, Traces, Becomes, TypeOK

\* A step that leaves the FILEs alone and gives or takes a block that no FILE holds keeps the
\* invariant.
LEMMA QuietStep ==
  ASSUME CacheInv, UNCHANGED <<disk, file, ret, trace, ghosts>>,
         status = "ok", status' \in {"ok", "wild"},
         call'.op \in {"none", "open", "cat", "ls"},
         \/ heap' = heap
         \/ \E b \in Blocks, v \in {Free, Other} :
              heap[b] \in {Free, Other} /\ heap' = [heap EXCEPT ![b] = v]
  PROVE  CacheInv'
<1> USE DEF CacheInv, file, ghosts
<1>1. TypeOK'
  BY DEF TypeOK
<1>2. Owned'
  <2>1. \A b \in Blocks : heap[b] \in Files => heap'[b] = heap[b]
    BY CacheAssumption DEF TypeOK, Free, Other
  <2>2. QED
    BY <2>1, ZenonT(40) DEF Owned
<1>3. (HistoryOK /\ AtLeastPinned /\ Unopened /\ Counted)'
  BY DEF HistoryOK, AtLeastPinned, Unopened, Counted
<1>4. (NoHeapMisuse /\ TraceFits)'
  BY DEF NoHeapMisuse, TraceFits
<1>5. QED
  BY <1>1, <1>2, <1>3, <1>4

\* The lookups and the rest of the kernel keep the invariant.
LEMMA OtherStep ==
  ASSUME CacheInv,
         \/ \E op \in {"open", "cat", "ls"}, path \in Paths : lookup(op, path)
         \/ \E op \in {"cat", "ls"}, c \in Blocks : fs_helper(op, c)
         \/ ls \/ lookup_none \/ lookup_wild
         \/ \E b \in Blocks : other_new(b) \/ other_del(b)
  PROVE  CacheInv'
<1>0. TypeOK /\ NoCall.op = "none"
  BY DEF CacheInv, NoCall
<1>1. CASE \E op \in {"open", "cat", "ls"}, path \in Paths : lookup(op, path)
  <2>1. /\ UNCHANGED <<disk, file, heap, ret, trace, ghosts>> /\ call'.op \in {"open", "cat", "ls"}
        /\ status = "ok" /\ status' \in {"ok", "wild"}
    BY <1>1 DEF lookup, Ready, Sound
  <2>2. QED
    BY <2>1, QuietStep
<1>2. CASE \E op \in {"cat", "ls"}, c \in Blocks : fs_helper(op, c)
  <2>1. PICK op \in {"cat", "ls"}, c \in Blocks : fs_helper(op, c)
    BY <1>2
  <2>2. /\ UNCHANGED <<disk, file, ret, trace, ghosts, status>> /\ call'.op \in {"cat", "ls"}
        /\ status = "ok" /\ heap[c] = Free /\ heap' = [heap EXCEPT ![c] = Other]
    BY <2>1 DEF fs_helper, Ready, Sound
  <2>3. QED
    BY <2>2, QuietStep
<1>3. CASE ls \/ lookup_none \/ lookup_wild
  <2>1. /\ UNCHANGED <<disk, file, heap, ret, trace, ghosts>> /\ call' = NoCall
        /\ status = "ok" /\ status' \in {"ok", "wild"}
    BY <1>3 DEF ls, lookup_none, lookup_wild, Found, Sound
  <2>2. QED
    BY <1>0, <2>1, QuietStep
<1>4. CASE \E b \in Blocks : other_new(b) \/ other_del(b)
  BY <1>0, <1>4, QuietStep DEF other_new, other_del, Ready, Sound, TypeOK
<1>5. QED
  BY <1>1, <1>2, <1>3, <1>4

\* The values of an action's inputs.
LEMMA InputsTyped ==
  ASSUME TypeOK, NEW f \in Files, NEW e \in DiskOutcomes, NEW b \in NewBlock(f)
  PROVE  /\ e \in {0, InitError}
         /\ file_buffer[f] = NULL => b \in Blocks /\ heap[b] = Free
BY DEF TypeOK, DiskOutcomes, NewBlock

\* A step that touches the one FILE f and blocks that are free, f's own or the rest of the
\* kernel's keeps the invariant, if f has a buffer afterwards and is in the stage that the
\* histories say.
LEMMA OneFileStep ==
  ASSUME CacheInv, status = "ok", NEW f \in Files,
         TypeOK', HistoryOK', NoHeapMisuse', TraceFits',
         \A g \in Files \ {f} : /\ refcount'[g] = refcount[g] /\ held'[g] = held[g]
                              /\ file_buffer'[g] = file_buffer[g]
                              /\ cur_offset'[g] = cur_offset[g],
         misused \subseteq misused', misused' \subseteq misused \cup {f},
         closed \subseteq closed', closed' \subseteq closed \cup {f},
         refcount'[f] >= -1, file_buffer'[f] # NULL,
         f \notin misused' => refcount'[f] = held'[f] /\ (f \in closed' => held'[f] = 0),
         status' # "double free" =>
           /\ \A c \in Blocks : heap[c] \in Files \ {f} => heap'[c] = heap[c]
           /\ f \notin misused' \cup closed' =>
                file_buffer'[f] \in Blocks /\ heap'[file_buffer'[f]] = f
  PROVE  CacheInv'
<1>1. (AtLeastPinned /\ Unopened /\ Counted)'
  BY ZenonT(40) DEF CacheInv, AtLeastPinned, Unopened, Counted
<1>2. Owned'
  <2> SUFFICES ASSUME status' # "double free",
                      NEW g \in Files \ (misused' \cup closed'), g # f, file_buffer'[g] # NULL
               PROVE  file_buffer'[g] \in Blocks /\ heap'[file_buffer'[g]] = g
    BY DEF Owned
  <2>1. file_buffer'[g] \in Blocks /\ heap[file_buffer'[g]] = g
    BY DEF CacheInv, Owned
  <2>2. QED
    BY <2>1
<1>3. QED
  BY <1>1, <1>2 DEF CacheInv

\* A call that nests no deeper than the deepest nest and leaves an entry only when it is
\* refused keeps TraceFits.
LEMMA TraceStep ==
  ASSUME CacheInv, status = "ok", NEW r \in {0, 1, 2}, refused' = refused + r, trace' \in Traces,
         status' = "ok" => trace'.depth = trace.depth + r,
         trace'.overrun => trace.overrun \/ trace.depth + DeepestNest > TraceSlots
  PROVE  TraceFits'
<1>1. refused \in Nat /\ DeepestNest \in Nat /\ TraceSlots \in Nat
  BY CacheAssumption DEF CacheInv, HistoryOK, DeepestNest
<1>2. trace.depth = 1 + refused /\ (trace.overrun => 1 + refused + DeepestNest > TraceSlots)
  BY DEF CacheInv, TraceFits
<1>3. 1 + refused + DeepestNest > TraceSlots => 1 + refused' + DeepestNest > TraceSlots
  BY <1>1
<1>4. status' = "ok" => trace'.depth = 1 + refused'
  BY <1>1, <1>2
<1>5. trace'.overrun => 1 + refused' + DeepestNest > TraceSlots
  BY <1>2, <1>3
<1>6. QED
  BY <1>4, <1>5 DEF TraceFits

\* A nest of at most eight calls is one that TraceStep allows.
LEMMA NestFits ==
  ASSUME TypeOK, NEW k \in 0 .. 8, Nest(trace, trace', k)
  PROVE  /\ trace' \in Traces /\ trace'.depth = trace.depth + 0
         /\ trace'.overrun => trace.overrun \/ trace.depth + DeepestNest > TraceSlots
<1>1. trace \in Traces /\ trace.depth \in Nat
  BY DEF TypeOK, Traces
<1>2. Nest(trace, trace', 8)
  BY <1>1, NestMore
<1>3. QED
  BY <1>1, <1>2 DEF Nest, DeepestNest

\* An entry left by a refused call.
LEMMA PushFits ==
  ASSUME TypeOK, trace' = push_trace(trace)
  PROVE  /\ trace' \in Traces /\ trace'.depth = trace.depth + 1
         /\ trace'.overrun => trace.overrun \/ trace.depth + DeepestNest > TraceSlots
<1>1. trace \in Traces /\ trace.depth \in Nat
  BY DEF TypeOK, Traces
<1>2. trace.depth >= TraceSlots => trace.depth + 8 > TraceSlots
  BY <1>1, CacheAssumption
<1>3. QED
  BY <1>1, <1>2, PushPop DEF DeepestNest

\* f_open keeps the invariant: a FILE that was closed before is misused now, and one that
\* never was used gets a free block.
LEMMA OpenStep ==
  ASSUME CacheInv, NEW f \in Files, NEW e \in DiskOutcomes, NEW b \in NewBlock(f), f_open(f, b, e)
  PROVE  CacheInv'
<1> DEFINE t == fs_open(State, f, b, e)
<1>0. TypeOK /\ HistoryOK
  BY DEF CacheInv
<1>1. Opened(State, f, b, t)
  BY <1>0, StateTyped, InputsTyped, OpenEffect
<1>2. /\ Becomes(t) /\ call' = NoCall /\ held' = [held EXCEPT ![f] = @ + 1]
      /\ misused' = IF f \in closed THEN misused \cup {f} ELSE misused
      /\ UNCHANGED <<disk, closed, refused>> /\ status = "ok"
  BY DEF f_open, Found, Sound
<1> HIDE DEF t
<1>3. /\ t \in States
      /\ refcount' = [refcount EXCEPT ![f] = IF refcount[f] >= 0 THEN refcount[f] + 1
                                               ELSE refcount[f]]
      /\ cur_offset' = [cur_offset EXCEPT ![f] = 0]
      /\ Nest(trace, trace', 7) /\ status' = "ok"
      /\ file_buffer[f] # NULL => file_buffer' = file_buffer /\ heap' = heap
      /\ file_buffer[f] = NULL => /\ file_buffer' = [file_buffer EXCEPT ![f] = b]
                                  /\ heap' = [heap EXCEPT ![b] = f]
  BY <1>0, <1>1, <1>2, StateTyped DEF Opened, OneMore, Becomes
<1>4. TypeOK'
  BY <1>0, <1>2, <1>3, BecomesTyped DEF TypeOK, NoCall
<1>5. HistoryOK'
  BY <1>0, <1>2 DEF HistoryOK
<1>6. /\ refcount[f] \in Int /\ refcount[f] >= -1
      /\ refcount'[f] = IF refcount[f] >= 0 THEN refcount[f] + 1 ELSE refcount[f]
      /\ \A g \in Files \ {f} : refcount'[g] = refcount[g]
  BY <1>0, <1>3 DEF TypeOK, CacheInv, AtLeastPinned
<1>7. f \notin misused' => refcount'[f] = held'[f] /\ f \notin closed'
  <2>1. f \notin misused' => refcount[f] = held[f] /\ f \notin closed
    BY <1>2 DEF CacheInv, Counted
  <2>2. held[f] \in Nat /\ held'[f] = held[f] + 1
    BY <1>0, <1>2 DEF HistoryOK
  <2>3. QED
    BY <1>2, <1>6, <2>1, <2>2
<1>8. /\ file_buffer'[f] # NULL
      /\ \A g \in Files \ {f} : /\ held'[g] = held[g] /\ file_buffer'[g] = file_buffer[g]
                               /\ cur_offset'[g] = cur_offset[g]
      /\ \A c \in Blocks : heap[c] \in Files \ {f} => heap'[c] = heap[c]
      /\ f \notin misused' \cup closed' => file_buffer'[f] \in Blocks /\ heap'[file_buffer'[f]] = f
  <2>1. CASE file_buffer[f] = NULL
    <3>1. b \in Blocks /\ heap[b] \notin Files /\ b # NULL
      BY <1>0, <2>1, InputsTyped, CacheAssumption DEF Free, NULL
    <3>2. QED
      BY <1>0, <1>2, <1>3, <2>1, <3>1 DEF TypeOK, HistoryOK
  <2>2. CASE file_buffer[f] # NULL
    BY <1>0, <1>2, <1>3, <2>2 DEF TypeOK, HistoryOK, CacheInv, Owned
  <2>3. QED
    BY <2>1, <2>2
<1>9. NoHeapMisuse'
  BY <1>3 DEF NoHeapMisuse
<1>10. TraceFits'
  <2>1. refused' = refused + 0
    BY <1>0, <1>2 DEF HistoryOK
  <2>2. QED
    BY <1>0, <1>2, <1>3, <2>1, NestFits, TraceStep
<1>11. refcount'[f] >= -1
  BY <1>6
<1>12. /\ misused \subseteq misused' /\ misused' \subseteq misused \cup {f} /\ closed' = closed
  BY <1>2
<1>13. QED
  BY <1>2, <1>4, <1>5, <1>6, <1>7, <1>8, <1>9, <1>10, <1>11, <1>12, OneFileStep

\* f_write keeps the invariant: it moves the offset of a FILE somebody has open.
LEMMA WriteStep ==
  ASSUME CacheInv, NEW f \in Files, NEW e \in DiskOutcomes, f_write(f, 1, e)
  PROVE  CacheInv'
<1> USE DEF CacheInv, f_write, ghosts
<1>0. cur_offset \in [Files -> Nat]
  BY DEF TypeOK
<1>a. /\ cur_offset' \in [Files -> Nat]
      /\ \A g \in Files \ {f} : cur_offset'[g] = cur_offset[g]
  BY <1>0
<1>b. Nest(trace, trace', 6) /\ trace' \in Traces
  <2> DEFINE p == push_trace(trace)
  <2>1. trace \in Traces /\ p \in Traces
    BY PushPop DEF TypeOK, Traces
  <2> HIDE DEF p
  <2>2. Nest(p, ext2_write(p), 5)
    BY <2>1, DiskNests
  <2>3. Nest(trace, pop_trace(ext2_write(p)), 5 + 1)
    BY <2>1, <2>2, NestIn DEF p
  <2>4. trace' = pop_trace(ext2_write(p))
    BY DEF p
  <2>5. QED
    BY <2>3, <2>4 DEF Nest
<1>1. TypeOK'
  <2>1. UNCHANGED <<disk, refcount, file_buffer, heap, call, status>> /\ ret' \in {0, InitError}
    BY DEF TypeOK, DiskOutcomes
  <2>2. QED
    BY <1>a, <1>b, <2>1 DEF TypeOK, Traces
<1>2. Unopened'
  <2>1. file_buffer[f] # NULL
    BY DEF Unopened, HistoryOK
  <2>2. QED
    BY <1>a, <2>1 DEF Unopened
<1>3. (HistoryOK /\ AtLeastPinned /\ Counted)'
  BY DEF HistoryOK, AtLeastPinned, Counted
<1>4. (Owned /\ NoHeapMisuse)'
  BY DEF Owned, NoHeapMisuse
<1>5. TraceFits'
  <2>1. TypeOK /\ status = "ok" /\ refused' = refused + 0
    BY DEF Ready, Sound, HistoryOK
  <2>2. QED
    BY <1>b, <2>1, NestFits, TraceStep
<1>6. QED
  BY <1>1, <1>2, <1>3, <1>4, <1>5

\* f_read keeps the invariant: who has an unmisused FILE open reads from its own block.
LEMMA ReadStep ==
  ASSUME CacheInv, NEW f \in Files, NEW e \in DiskOutcomes, NEW n \in {1, FileSize},
         NEW b \in NewBlock(f), f_read(f, n, b, e)
  PROVE  CacheInv'
<1> DEFINE t == f_read_File(State, f, n, b, e)
<1>0. TypeOK /\ HistoryOK /\ n \in Nat
  BY CacheAssumption DEF CacheInv
<1>1. DidRead(State, f, n, b, t)
  BY <1>0, StateTyped, InputsTyped, ReadEffect
<1>2. /\ Becomes(t) /\ status = "ok" /\ held[f] > 0
      /\ refused' = IF n + cur_offset[f] > FileSize THEN refused + 1 ELSE refused
      /\ UNCHANGED <<disk, call, held, closed, misused>>
  BY DEF f_read, Ready, Sound
<1> HIDE DEF t
<1>3. file_buffer[f] # NULL
  BY <1>0, <1>2 DEF HistoryOK, CacheInv, Unopened
<1>4. /\ t \in States /\ refcount' = refcount /\ file_buffer' = file_buffer /\ heap' = heap
      /\ \A g \in Files \ {f} : cur_offset'[g] = cur_offset[g]
      /\ IF n + cur_offset[f] > FileSize THEN trace' = push_trace(trace) ELSE Nest(trace, trace', 8)
      /\ status' \in {"ok", Reads(State, f)}
  BY <1>0, <1>1, <1>2, <1>3, StateTyped DEF DidRead, Becomes
<1>5. TypeOK' /\ HistoryOK'
  <2>1. TypeOK'
    BY <1>0, <1>2, <1>4, BecomesTyped DEF TypeOK
  <2>2. QED
    BY <1>0, <1>2, <2>1 DEF HistoryOK
<1>6. f \notin misused => f \notin closed /\ file_buffer[f] \in Blocks /\ heap[file_buffer[f]] = f
  BY <1>0, <1>2, <1>3 DEF HistoryOK, CacheInv, Counted, Owned
<1>7. NoHeapMisuse'
  <2>1. f \notin misused => Reads(State, f) = "ok"
    BY <1>0, <1>2, <1>6, StateTyped, CacheAssumption DEF Reads, Wild
  <2>2. QED
    BY <1>2, <1>4, <2>1 DEF NoHeapMisuse
<1>8. TraceFits'
  <2>1. CASE n + cur_offset[f] > FileSize
    BY <1>0, <1>2, <1>4, <2>1, PushFits, TraceStep
  <2>2. CASE ~(n + cur_offset[f] > FileSize)
    <3>1. refused' = refused + 0
      BY <1>0, <1>2, <2>2 DEF HistoryOK
    <3>2. QED
      BY <1>0, <1>2, <1>4, <2>2, <3>1, NestFits, TraceStep
  <2>3. QED
    BY <2>1, <2>2
<1>9. refcount[f] >= -1 /\ (f \notin misused => refcount[f] = held[f] /\ (f \in closed => held[f] = 0))
  BY DEF CacheInv, AtLeastPinned, Counted
<1>10. QED
  BY <1>2, <1>3, <1>4, <1>5, <1>6, <1>7, <1>8, <1>9, OneFileStep

\* f_close keeps the invariant: the last close gives back the FILE's own block.
LEMMA CloseStep ==
  ASSUME CacheInv, NEW f \in Files, f_close(f)
  PROVE  CacheInv'
<1> DEFINE t == f_close_File(State, f)
<1>0. TypeOK /\ HistoryOK
  BY DEF CacheInv
<1>1. Closed(State, f, t)
  BY <1>0, StateTyped, CloseEffect
<1>2. /\ Becomes(t) /\ status = "ok" /\ held[f] > 0
      /\ held' = [held EXCEPT ![f] = @ - 1]
      /\ closed' = IF refcount'[f] = 0 THEN closed \cup {f} ELSE closed
      /\ refused' = IF refcount[f] = -1 THEN refused + 1 ELSE refused
      /\ UNCHANGED <<disk, call, misused>>
  BY DEF f_close, Ready, Sound
<1> HIDE DEF t
<1>3. file_buffer[f] \in Blocks \cup {Wild}
  BY <1>0, <1>2 DEF TypeOK, HistoryOK, CacheInv, Unopened
<1>4. t \in States /\ cur_offset' = cur_offset /\ file_buffer' = file_buffer
  BY <1>0, <1>1, <1>2, StateTyped DEF Closed, Becomes
<1>5. /\ refcount[f] = -1 => refcount' = refcount /\ trace' = push_trace(trace)
      /\ refcount[f] # -1 => /\ refcount' = [refcount EXCEPT ![f] = refcount[f] - 1]
                             /\ Nest(trace, trace', 1)
      /\ refcount[f] # 1 => heap' = heap /\ status' = "ok"
      /\ refcount[f] = 1 /\ file_buffer[f] = Wild => heap' = heap /\ status' = "wild"
      /\ refcount[f] = 1 /\ file_buffer[f] \in Blocks =>
           /\ heap' = [heap EXCEPT ![file_buffer[f]] = Free]
           /\ status' = IF heap[file_buffer[f]] = f THEN "ok" ELSE "double free"
  BY <1>0, <1>1, <1>2, StateTyped DEF Closed, Becomes
<1>6. /\ refcount[f] \in Int /\ refcount[f] >= -1
      /\ refcount'[f] = IF refcount[f] = -1 THEN -1 ELSE refcount[f] - 1
      /\ \A g \in Files \ {f} : refcount'[g] = refcount[g]
  BY <1>0, <1>5 DEF TypeOK, CacheInv, AtLeastPinned
<1>7. /\ held[f] \in Nat /\ held'[f] = held[f] - 1 /\ held' \in [Files -> Nat]
      /\ \A g \in Files \ {f} : held'[g] = held[g]
  BY <1>0, <1>2 DEF HistoryOK
<1>8. f \notin misused =>
        /\ refcount[f] = held[f] /\ f \notin closed
        /\ file_buffer[f] \in Blocks /\ heap[file_buffer[f]] = f
  BY <1>2, <1>3, <1>7, CacheAssumption DEF CacheInv, Counted, Owned, NULL, Wild
<1>9. TypeOK' /\ HistoryOK'
  <2>1. TypeOK'
    BY <1>0, <1>2, <1>4, BecomesTyped DEF TypeOK
  <2>2. QED
    BY <1>0, <1>2, <1>7, <2>1 DEF HistoryOK
<1>10. NoHeapMisuse'
  BY <1>2, <1>3, <1>5, <1>8, CacheAssumption DEF NoHeapMisuse, Wild
<1>11. TraceFits'
  <2>1. CASE refcount[f] = -1
    BY <1>0, <1>2, <1>5, <2>1, PushFits, TraceStep
  <2>2. CASE refcount[f] # -1
    <3>1. refused' = refused + 0
      BY <1>0, <1>2, <2>2 DEF HistoryOK
    <3>2. Nest(trace, trace', 1)
      BY <1>5, <2>2
    <3>3. QED
      BY <1>0, <1>2, <3>1, <3>2, NestFits, TraceStep
  <2>3. QED
    BY <2>1, <2>2
<1>12. refcount'[f] >= -1 /\ file_buffer'[f] # NULL
  BY <1>3, <1>4, <1>6, CacheAssumption DEF NULL, Wild
<1>13. f \notin misused' => refcount'[f] = held'[f] /\ (f \in closed' => held'[f] = 0)
  BY <1>2, <1>6, <1>7, <1>8
<1>14. status' # "double free" =>
         /\ \A c \in Blocks : heap[c] \in Files \ {f} => heap'[c] = heap[c]
         /\ f \notin misused' \cup closed' =>
              file_buffer'[f] \in Blocks /\ heap'[file_buffer'[f]] = f
  <2>1. CASE refcount[f] # 1
    BY <1>2, <1>4, <1>5, <1>8, <2>1
  <2>2. CASE refcount[f] = 1
    <3>1. f \in closed'
      BY <1>2, <1>6, <2>2
    <3>2. QED
      BY <1>0, <1>3, <1>5, <2>2, <3>1 DEF TypeOK
  <2>3. QED
    BY <2>1, <2>2
<1>15. QED
  BY <1>2, <1>4, <1>6, <1>7, <1>9, <1>10, <1>11, <1>12, <1>13, <1>14, OneFileStep

\* cat keeps the invariant: a FILE that never was used is opened by f_read and closed again,
\* any other is misused now.
LEMMA CatStep ==
  ASSUME CacheInv, NEW f \in Files, NEW e \in DiskOutcomes, NEW c \in Blocks, NEW b \in NewBlock(f),
         cat(f, c, b, e)
  PROVE  CacheInv'
<1> DEFINE s0 == [State EXCEPT !.heap[c] = Other]
           s == f_read_File(s0, f, FileSize, b, e)
           t == IF s.status # "ok" THEN s ELSE f_close_File(s, f)
<1>0. /\ TypeOK /\ HistoryOK /\ FileSize \in Nat /\ e \in {0, InitError}
      /\ file_buffer[f] = NULL => b \in Blocks /\ heap[b] = Free
  BY CacheAssumption, InputsTyped DEF CacheInv
<1>1. /\ Becomes(t) /\ status = "ok" /\ call' = NoCall /\ heap[c] = Free /\ c # b
      /\ \A g \in Files : held[g] = 0
      /\ closed' = IF refcount'[f] = 0 THEN closed \cup {f} ELSE closed
      /\ misused' = IF file_buffer[f] = NULL THEN misused ELSE misused \cup {f}
      /\ refused' = refused + (IF FileSize + cur_offset[f] > FileSize THEN 1 ELSE 0)
                            + (IF refcount[f] = -1 /\ status' = "ok" THEN 1 ELSE 0)
      /\ UNCHANGED <<disk, held>>
  BY DEF cat, Found, Sound
<1>2. /\ s0 \in States
      /\ s0.ref = refcount /\ s0.off = cur_offset /\ s0.buf = file_buffer
      /\ s0.heap = [heap EXCEPT ![c] = Other] /\ s0.trace = trace /\ s0.status = "ok"
  BY <1>0, <1>1, StateTyped DEF States
<1> HIDE DEF s0
<1>3. DidRead(s0, f, FileSize, b, s)
  BY <1>0, <1>2, ReadEffect
<1> HIDE DEF s
<1>4. s \in States
  BY <1>3 DEF DidRead
<1>5. s.status = "ok" => Closed(s, f, t)
  BY <1>4, CloseEffect
<1>6. s.status # "ok" => t = s
  OBVIOUS
<1> HIDE DEF t
<1>7. t \in States
  BY <1>4, <1>5, <1>6 DEF Closed
<1>8. TypeOK' /\ HistoryOK'
  <2>1. TypeOK'
    BY <1>0, <1>1, <1>7, BecomesTyped DEF TypeOK, NoCall
  <2>2. QED
    BY <1>0, <1>1, <2>1 DEF HistoryOK
<1>9. \A d \in Blocks : heap[d] \in Files => s0.heap[d] = heap[d] /\ d # c
  BY <1>0, <1>1, <1>2, CacheAssumption DEF TypeOK, Free
<1>10. CASE file_buffer[f] = NULL
  <2>1. refcount[f] = 0 /\ cur_offset[f] = 0 /\ f \notin misused
    BY <1>10 DEF CacheInv, Unopened
  <2>2. /\ s.ref = [refcount EXCEPT ![f] = 1] /\ s.buf = [file_buffer EXCEPT ![f] = b]
        /\ s.heap = [s0.heap EXCEPT ![b] = f] /\ Nest(trace, s.trace, 8) /\ s.status = "ok"
        /\ \A g \in Files \ {f} : s.off[g] = cur_offset[g]
    BY <1>0, <1>2, <1>3, <1>10, <2>1 DEF DidRead, OneMore
  <2>3. s.ref[f] = 1 /\ s.buf[f] = b /\ b \in Blocks /\ s.heap[b] = f
    BY <1>0, <1>2, <1>10, <2>2 DEF TypeOK, States
  <2>4. /\ refcount' = [s.ref EXCEPT ![f] = 0] /\ file_buffer' = s.buf
        /\ heap' = [s.heap EXCEPT ![b] = Free] /\ Nest(s.trace, trace', 1) /\ status' = "ok"
        /\ \A g \in Files \ {f} : cur_offset'[g] = cur_offset[g]
    <3>1. /\ t.ref = [s.ref EXCEPT ![f] = s.ref[f] - 1] /\ t.buf = s.buf /\ t.off = s.off
          /\ t.heap = [s.heap EXCEPT ![b] = Free] /\ Nest(s.trace, t.trace, 1) /\ t.status = s.status
      <4>1. Closed(s, f, t) /\ s.ref[f] # -1 /\ s.buf[f] \in Blocks
        BY <1>5, <2>2, <2>3
      <4>2. t.heap = [s.heap EXCEPT ![b] = Free] /\ t.status = s.status
        BY <2>3, <4>1 DEF Closed
      <4>3. QED
        BY <4>1, <4>2 DEF Closed
    <3>2. s.ref[f] - 1 = 0
      BY <2>3
    <3>3. QED
      BY <1>1, <2>2, <3>1, <3>2 DEF Becomes
  <2>5. /\ refcount'[f] = 0 /\ file_buffer'[f] = b
        /\ \A g \in Files \ {f} : refcount'[g] = refcount[g] /\ file_buffer'[g] = file_buffer[g]
    BY <1>0, <2>2, <2>4 DEF TypeOK
  <2>6. \A d \in Blocks : heap[d] \in Files => heap'[d] = heap[d]
    <3>1. \A d \in Blocks : heap[d] \in Files => d # b
      BY <1>0, <1>10, CacheAssumption DEF Free
    <3>2. s.heap \in [Blocks -> Files \cup {Free, Other}] /\ s0.heap \in [Blocks -> Files \cup {Free, Other}]
      BY <1>2, <1>4 DEF States
    <3>3. QED
      BY <1>9, <2>2, <2>4, <3>1, <3>2
  <2>7. TraceFits'
    <3>1. trace \in Traces
      BY <1>0 DEF TypeOK, Traces
    <3>2. Nest(trace, trace', 8)
      BY <2>2, <2>4, <3>1, NestThen
    <3>3. refused' = refused + 0
      <4>1. ~(FileSize + cur_offset[f] > FileSize) /\ refcount[f] # -1 /\ refused \in Nat
        BY <1>0, <2>1 DEF HistoryOK
      <4>2. QED
        BY <1>1, <4>1
    <3>4. QED
      BY <1>0, <1>1, <3>2, <3>3, NestFits, TraceStep
  <2>8. NoHeapMisuse' /\ b # NULL
    BY <2>3, <2>4, CacheAssumption DEF NoHeapMisuse, NULL
  <2>9. misused' = misused /\ closed' = closed \cup {f} /\ held'[f] = 0 /\ held' = held
    BY <1>1, <1>10, <2>5
  <2>10. QED
    BY <1>1, <1>8, <2>4, <2>5, <2>6, <2>7, <2>8, <2>9, OneFileStep
<1>11. CASE file_buffer[f] # NULL
  <2>1. /\ s.ref = refcount /\ s.buf = file_buffer /\ s.heap = s0.heap
        /\ IF FileSize + cur_offset[f] > FileSize THEN s.trace = push_trace(trace) /\ s.status = "ok"
           ELSE Nest(trace, s.trace, 8)
        /\ s.status # "double free"
        /\ \A g \in Files \ {f} : s.off[g] = cur_offset[g]
    BY <1>2, <1>3, <1>11 DEF DidRead, Reads
  <2>2. /\ file_buffer' = file_buffer
        /\ \A g \in Files \ {f} : cur_offset'[g] = cur_offset[g]
    BY <1>1, <1>5, <1>6, <2>1 DEF Closed, Becomes
  <2>3. /\ refcount[f] \in Int /\ refcount[f] >= -1
        /\ refcount'[f] \in {refcount[f], refcount[f] - 1}
        /\ refcount[f] = -1 => refcount'[f] = -1
        /\ \A g \in Files \ {f} : refcount'[g] = refcount[g]
    <3>1. /\ refcount' = refcount \/ refcount' = [refcount EXCEPT ![f] = refcount[f] - 1]
          /\ refcount[f] = -1 => refcount' = refcount
      BY <1>1, <1>5, <1>6, <2>1 DEF Closed, Becomes
    <3>2. QED
      BY <1>0, <3>1 DEF TypeOK, CacheInv, AtLeastPinned
  <2>4. TraceFits'
    <3> DEFINE r1 == IF FileSize + cur_offset[f] > FileSize THEN 1 ELSE 0
               r2 == IF refcount[f] = -1 /\ status' = "ok" THEN 1 ELSE 0
    <3>0. trace \in Traces /\ trace.depth \in Nat /\ refused \in Nat
      BY <1>0 DEF TypeOK, Traces, HistoryOK
    <3>1. /\ s.trace \in Traces /\ s.trace.depth = trace.depth + r1
          /\ s.trace.overrun => trace.overrun \/ trace.depth + 8 > TraceSlots
      <4>1. CASE FileSize + cur_offset[f] > FileSize
        <5>1. s.trace = push_trace(trace) /\ r1 = 1
          BY <2>1, <4>1
        <5> HIDE DEF r1
        <5>2. trace.depth >= TraceSlots => trace.depth + 8 > TraceSlots
          BY <3>0, CacheAssumption
        <5>3. QED
          BY <3>0, <5>1, <5>2, PushPop
      <4>2. CASE ~(FileSize + cur_offset[f] > FileSize)
        <5>1. Nest(trace, s.trace, 8) /\ r1 = 0
          BY <2>1, <4>2
        <5> HIDE DEF r1
        <5>2. QED
          BY <3>0, <5>1 DEF Nest
      <4>3. QED
        BY <4>1, <4>2
    <3>2. CASE s.status # "ok"
      <4>1. trace' = s.trace /\ status' # "ok"
        BY <1>1, <1>6, <3>2 DEF Becomes
      <4>2. refused' = refused + r1
        BY <1>1, <3>0, <4>1
      <4>3. QED
        BY <1>1, <3>1, <4>1, <4>2, TraceStep DEF DeepestNest
    <3>3. CASE s.status = "ok"
      <4>1. Closed(s, f, t) /\ s.ref[f] = refcount[f] /\ trace' = t.trace /\ status' = t.status
        BY <1>1, <1>5, <2>1, <3>3 DEF Becomes
      <4>2. /\ trace' \in Traces
            /\ status' = "ok" => trace'.depth = trace.depth + (r1 + r2)
            /\ trace'.overrun => s.trace.overrun \/ s.trace.depth + 1 > TraceSlots
        <5>1. CASE refcount[f] = -1
          <6>1. trace' = push_trace(s.trace)
            BY <4>1, <5>1 DEF Closed
          <6>2. QED
            BY <3>0, <3>1, <5>1, <6>1, PushPop, CacheAssumption
        <5>2. CASE refcount[f] # -1
          <6>1. Nest(s.trace, trace', 1)
            BY <4>1, <5>2 DEF Closed
          <6>2. QED
            BY <3>0, <3>1, <5>2, <6>1 DEF Nest
        <5>3. QED
          BY <5>1, <5>2
      <4>3. s.trace.depth + 1 > TraceSlots => trace.depth + 8 > TraceSlots
        BY <3>0, <3>1, CacheAssumption
      <4>4. refused' = refused + (r1 + r2) /\ r1 + r2 \in {0, 1, 2}
        BY <1>1, <3>0
      <4>5. trace'.overrun => trace.overrun \/ trace.depth + DeepestNest > TraceSlots
        BY <3>1, <4>2, <4>3 DEF DeepestNest
      <4> HIDE DEF r1, r2
      <4>6. QED
        BY <1>1, <4>2, <4>4, <4>5, TraceStep
    <3>4. QED
      BY <3>2, <3>3
  <2>5. \/ heap' = s0.heap
        \/ file_buffer[f] \in Blocks /\ heap' = [s0.heap EXCEPT ![file_buffer[f]] = Free]
           /\ (s0.heap[file_buffer[f]] = f \/ status' = "double free")
    <3>1. CASE s.status # "ok"
      BY <1>1, <1>6, <2>1, <3>1 DEF Becomes
    <3>2. CASE s.status = "ok" /\ (refcount[f] # 1 \/ file_buffer[f] = Wild)
      BY <1>1, <1>5, <2>1, <3>2 DEF Closed, Becomes
    <3>3. CASE s.status = "ok" /\ refcount[f] = 1 /\ file_buffer[f] # Wild
      <4>1. file_buffer[f] \in Blocks
        BY <1>0, <1>11, <3>3 DEF TypeOK
      <4>2. QED
        BY <1>1, <1>5, <2>1, <3>3, <4>1 DEF Closed, Becomes
    <3>4. QED
      BY <3>1, <3>2, <3>3
  <2>6. status' # "double free" => \A d \in Blocks : heap[d] \in Files \ {f} => heap'[d] = heap[d]
    <3>1. s0.heap \in [Blocks -> Files \cup {Free, Other}]
      BY <1>2 DEF States
    <3>2. QED
      BY <1>9, <2>5, <3>1
  <2>7. misused' = misused \cup {f} /\ held' = held
    BY <1>1, <1>11
  <2>8. NoHeapMisuse'
    BY <2>7 DEF NoHeapMisuse
  <2>9. refcount'[f] >= -1
    BY <2>3
  <2>10. closed \subseteq closed' /\ closed' \subseteq closed \cup {f}
    BY <1>1
  <2>11. QED
    BY <1>1, <1>8, <1>11, <2>2, <2>3, <2>4, <2>6, <2>7, <2>8, <2>9, <2>10, OneFileStep
<1>12. QED
  BY <1>10, <1>11

-----------------------------------------------------------------------------
(* The theorems *)

\* CacheInv holds in every reachable state.
THEOREM CacheInvariant == Spec => []CacheInv
<1>1. Init => CacheInv
  <2> SUFFICES ASSUME Init PROVE CacheInv
    OBVIOUS
  <2>1. PICK dirty \in SUBSET Files :
          /\ file_buffer = [f \in Files |-> IF f \in dirty THEN Wild ELSE NULL]
          /\ \E r \in {0, 1} : refcount = [f \in Files |-> IF f \in dirty THEN r ELSE 0]
          /\ misused = dirty
    BY DEF Init
  <2>2. PICK r \in {0, 1} : refcount = [f \in Files |-> IF f \in dirty THEN r ELSE 0]
    BY <2>1
  <2>3. TypeOK
    <3>1. file_buffer \in [Files -> Blocks \cup {NULL, Wild}] /\ refcount \in [Files -> Int]
      BY <2>1, <2>2
    <3>2. cur_offset \in [Files -> Nat] /\ heap \in [Blocks -> Files \cup {Free, Other}]
      BY DEF Init
    <3>3. QED
      BY <3>1, <3>2 DEF Init, TypeOK, NoCall
  <2>4. HistoryOK /\ AtLeastPinned
    BY <2>1, <2>2 DEF Init, HistoryOK, AtLeastPinned
  <2>5. Unopened
    <3>1. \A f \in Files : file_buffer[f] = NULL => f \notin dirty
      BY <2>1 DEF NULL, Wild
    <3>2. QED
      BY <2>1, <2>2, <3>1 DEF Init, Unopened
  <2>6. Counted /\ Owned
    BY <2>1, <2>2 DEF Init, Counted, Owned
  <2>7. NoHeapMisuse /\ TraceFits
    BY DEF Init, NoHeapMisuse, TraceFits
  <2>8. QED
    BY <2>3, <2>4, <2>5, <2>6, <2>7 DEF CacheInv
<1>2. CacheInv /\ [Next]_vars => CacheInv'
  <2> SUFFICES ASSUME CacheInv, [Next]_vars PROVE CacheInv'
    OBVIOUS
  <2>1. CASE UNCHANGED vars
    BY <2>1 DEF vars, CacheInv, TypeOK, HistoryOK, AtLeastPinned, Unopened, Counted, Owned,
                NoHeapMisuse, TraceFits
  <2>2. CASE Next
    BY <2>2, OtherStep, OpenStep, CatStep, ReadStep, WriteStep, CloseStep DEF Next
  <2>3. QED
    BY <2>1, <2>2
<1>3. QED
  BY <1>1, <1>2, PTL DEF Spec

\* The count of every FILE that was never misused is that of its openers, and the state is
\* well-typed.
THEOREM CacheCountsExact == Spec => []CountsExact
<1>1. CacheInv => CountsExact
  BY DEF CacheInv, CountsExact, RefcountExact, Counted
<1>2. QED
  BY <1>1, CacheInvariant, PTL

\* Who has an unmisused file open has its contents, and no block is used or given back by a
\* FILE that does not hold it as long as no file is used after its last close.
THEOREM CacheBuffersSafe == Spec => []BuffersSafe
<1>1. CacheInv => BuffersSafe
  <2> SUFFICES ASSUME CacheInv PROVE BuffersSafe
    OBVIOUS
  <2>1. ASSUME NEW f \in Files, f \notin misused, status # "double free", held[f] > 0
        PROVE  file_buffer[f] \in Blocks /\ heap[file_buffer[f]] = f
    <3>1. held[f] \in Nat
      BY DEF CacheInv, HistoryOK
    <3>2. \A n \in Nat : n > 0 => n # 0
      OBVIOUS
    <3>3. held[f] # 0
      BY <2>1, <3>1, <3>2, Zenon
    <3>4. file_buffer[f] # NULL /\ f \notin closed
      BY <2>1, <3>3, Zenon DEF CacheInv, Unopened, Counted
    <3>5. QED
      BY <2>1, <3>4, Zenon DEF CacheInv, Owned
  <2>2. QED
    BY <2>1 DEF BuffersSafe, BufferOwned, CacheInv
<1>2. QED
  BY <1>1, CacheInvariant, PTL

\* Every call pops what it pushed unless it is refused, and no push is made past the end of
\* trace_stack, of whatever length, while the refused calls leave room for the deepest nest.
THEOREM CacheTraceFits == Spec => []TraceFits
<1>1. CacheInv => TraceFits
  BY DEF CacheInv
<1>2. QED
  BY <1>1, CacheInvariant, PTL

\* t has the count and the buffer of the pinned FILE f as they were in s.
KeepsPinned(s, t, f) == s.ref[f] = -1 /\ s.buf[f] # NULL => t.ref[f] = -1 /\ t.buf[f] = s.buf[f]

\* An open, a close or a read of any FILE keeps a pinned one as it is.
LEMMA CallsKeepPinned ==
  ASSUME NEW s \in States, NEW t, NEW f \in Files, NEW g \in Files, NEW b, NEW n,
         Opened(s, g, b, t) \/ Closed(s, g, t) \/ DidRead(s, g, n, b, t)
  PROVE  KeepsPinned(s, t, f)
<1> SUFFICES ASSUME s.ref[f] = -1, s.buf[f] # NULL PROVE t.ref[f] = -1 /\ t.buf[f] = s.buf[f]
  BY DEF KeepsPinned
<1>0. s.ref \in [Files -> Int] /\ s.buf \in [Files -> Blocks \cup {NULL, Wild}]
  BY DEF States
<1>1. OneMore(s, g)[f] = -1
  BY <1>0 DEF OneMore
<1>2. s.buf[g] = NULL => [s.buf EXCEPT ![g] = b][f] = s.buf[f]
  BY <1>0
<1>3. s.ref[g] # -1 => [s.ref EXCEPT ![g] = s.ref[g] - 1][f] = -1
  BY <1>0
<1>4. CASE Opened(s, g, b, t)
  BY <1>1, <1>2, <1>4 DEF Opened
<1>5. CASE Closed(s, g, t)
  BY <1>3, <1>5 DEF Closed
<1>6. CASE DidRead(s, g, n, b, t)
  <2>1. t.ref = s.ref \/ t.ref = OneMore(s, g)
    BY <1>6 DEF DidRead
  <2>2. t.buf = s.buf \/ (s.buf[g] = NULL /\ t.buf = [s.buf EXCEPT ![g] = b])
    BY <1>6 DEF DidRead
  <2>3. QED
    BY <1>1, <1>2, <2>1, <2>2
<1>7. QED
  BY <1>4, <1>5, <1>6

\* A step leaves a pinned FILE's count and buffer alone.
LEMMA PinnedStep ==
  ASSUME CacheInv, Next, NEW f \in Files, refcount[f] = -1
  PROVE  refcount'[f] = -1 /\ file_buffer'[f] = file_buffer[f]
<1>0. TypeOK /\ file_buffer[f] # NULL
  BY DEF CacheInv, Unopened
<1>1. ASSUME NEW t, KeepsPinned(State, t, f), Becomes(t)
      PROVE  refcount'[f] = -1 /\ file_buffer'[f] = file_buffer[f]
  BY <1>0, <1>1, StateTyped DEF KeepsPinned, Becomes
<1>2. ASSUME NEW g \in Files, NEW e \in DiskOutcomes, NEW b \in NewBlock(g), f_open(g, b, e)
      PROVE  refcount'[f] = -1 /\ file_buffer'[f] = file_buffer[f]
  <2>1. Opened(State, g, b, fs_open(State, g, b, e))
    BY <1>0, <1>2, StateTyped, InputsTyped, OpenEffect
  <2>2. Becomes(fs_open(State, g, b, e))
    BY <1>2 DEF f_open
  <2>3. QED
    BY <1>0, <1>1, <2>1, <2>2, StateTyped, CallsKeepPinned
<1>3. ASSUME NEW g \in Files, f_close(g)
      PROVE  refcount'[f] = -1 /\ file_buffer'[f] = file_buffer[f]
  <2>1. Closed(State, g, f_close_File(State, g))
    BY <1>0, StateTyped, CloseEffect
  <2>2. Becomes(f_close_File(State, g))
    BY <1>3 DEF f_close
  <2>3. QED
    BY <1>0, <1>1, <2>1, <2>2, StateTyped, CallsKeepPinned
<1>4. ASSUME NEW g \in Files, NEW e \in DiskOutcomes, NEW n \in {1, FileSize}, NEW b \in NewBlock(g),
             f_read(g, n, b, e)
      PROVE  refcount'[f] = -1 /\ file_buffer'[f] = file_buffer[f]
  <2>1. DidRead(State, g, n, b, f_read_File(State, g, n, b, e))
    BY <1>0, <1>4, StateTyped, InputsTyped, ReadEffect, CacheAssumption
  <2>2. Becomes(f_read_File(State, g, n, b, e))
    BY <1>4 DEF f_read
  <2>3. QED
    BY <1>0, <1>1, <2>1, <2>2, StateTyped, CallsKeepPinned
<1>5. ASSUME NEW g \in Files, NEW e \in DiskOutcomes, NEW c \in Blocks, NEW b \in NewBlock(g),
             cat(g, c, b, e)
      PROVE  refcount'[f] = -1 /\ file_buffer'[f] = file_buffer[f]
  <2> DEFINE s0 == [State EXCEPT !.heap[c] = Other]
             s == f_read_File(s0, g, FileSize, b, e)
             t == IF s.status # "ok" THEN s ELSE f_close_File(s, g)
  <2>1. Becomes(t)
    BY <1>5 DEF cat
  <2>2. /\ FileSize \in Nat /\ e \in {0, InitError}
        /\ file_buffer[g] = NULL => b \in Blocks
    BY <1>0, <1>5, CacheAssumption, InputsTyped
  <2>3. s0 \in States /\ s0.ref = State.ref /\ s0.buf = State.buf /\ State.buf = file_buffer
    BY <1>0, StateTyped DEF States
  <2> HIDE DEF s0
  <2>4. DidRead(s0, g, FileSize, b, s)
    BY <2>2, <2>3, ReadEffect
  <2> HIDE DEF s
  <2>5. s \in States
    BY <2>4 DEF DidRead
  <2>6. KeepsPinned(s0, s, f) /\ KeepsPinned(s, f_close_File(s, g), f)
    BY <2>3, <2>4, <2>5, CloseEffect, CallsKeepPinned
  <2>7. KeepsPinned(State, t, f)
    BY <2>3, <2>6 DEF KeepsPinned
  <2> HIDE DEF t
  <2>8. QED
    BY <1>1, <2>1, <2>7
<1>6. CASE \/ \E op \in {"open", "cat", "ls"}, path \in Paths : lookup(op, path)
           \/ \E op \in {"cat", "ls"}, c \in Blocks : fs_helper(op, c)
           \/ ls \/ lookup_none \/ lookup_wild
           \/ \E g \in Files, e \in DiskOutcomes : f_write(g, 1, e)
           \/ \E b \in Blocks : other_new(b) \/ other_del(b)
  BY <1>6 DEF lookup, fs_helper, ls, lookup_none, lookup_wild, f_write, other_new, other_del, file
<1>7. QED
  BY <1>2, <1>3, <1>4, <1>5, <1>6 DEF Next

\* A count never falls below -1, and a FILE that is pinned stays pinned with its buffer
\* (fs_open and f_close, ext2.c and file.c).
THEOREM CachePinned == Spec => Pinned
<1> DEFINE Keeps == \A f \in Files :
             /\ refcount'[f] >= -1
             /\ refcount[f] = -1 => refcount'[f] = -1 /\ file_buffer'[f] = file_buffer[f]
<1>1. CacheInv /\ CacheInv' /\ [Next]_vars => [Keeps]_vars
  <2> SUFFICES ASSUME CacheInv, CacheInv', Next PROVE Keeps
    OBVIOUS
  <2>1. \A f \in Files : refcount'[f] >= -1
    BY DEF CacheInv, AtLeastPinned
  <2>2. QED
    BY <2>1, PinnedStep
<1>2. QED
  BY <1>1, CacheInvariant, PTL DEF Spec, Pinned

-----------------------------------------------------------------------------
(***************************************************************************)
(* What a lookup finds, for every path and every tree of directories.  The *)
(* walk through the tree and the one through the disk's directories are    *)
(* recursive functions; that they go side by side is shown by induction    *)
(* over the components of the path.  The induction is that every set of    *)
(* numbers has a least one, which follows from the well-foundedness of     *)
(* the inclusion of finite sets.                                           *)
(***************************************************************************)

\* A set of natural numbers has a least element.
LEMMA LeastExists ==
  ASSUME NEW T, T \subseteq Nat, T # {}
  PROVE  \E m \in T : \A k \in T : m <= k
<1>1. PICK n \in T : TRUE
  OBVIOUS
<1>2. n \in Nat
  OBVIOUS
<1> DEFINE S == 0 .. n
           F == {0 .. k : k \in {j \in T : j <= n}}
           R == StrictSubsetOrdering(S)
<1>3. IsFiniteSet(S)
  BY <1>2, FS_Interval
<1>4. IsWellFoundedOn(R, FiniteSubsetsOf(S))
  BY FS_StrictSubsetOrderingWellFounded
<1>5. F \subseteq FiniteSubsetsOf(S)
  <2>1. \A X \in F : X \subseteq S
    OBVIOUS
  <2>2. QED
    BY <1>3, <2>1, FS_Subset DEF FiniteSubsetsOf
<1>6. F # {}
  OBVIOUS
<1>7. PICK X \in F : \A Y \in F : ~ (<<Y, X>> \in R)
  <2> HIDE DEF F, R, S
  <2> QED
    BY <1>4, <1>5, <1>6, WFMin
<1>8. PICK m \in T : m <= n /\ X = 0 .. m
  OBVIOUS
<1>9. ASSUME NEW k \in T, k < m PROVE FALSE
  <2>1. 0 .. k \in F
    BY <1>8, <1>9
  <2>2. 0 .. k \subseteq 0 .. m /\ 0 .. k # 0 .. m
    <3>1. m \in 0 .. m /\ m \notin 0 .. k
      BY <1>9
    <3>2. QED
      BY <1>9, <3>1
  <2>3. 0 .. k \in SUBSET S /\ 0 .. m \in SUBSET S
    BY <1>8, <1>9
  <2>4. <<0 .. k, 0 .. m>> \in R
    BY <2>2, <2>3 DEF StrictSubsetOrdering
  <2>5. QED
    BY <1>7, <1>8, <2>1, <2>4
<1>10. QED
  BY <1>9

\* Induction: what holds of 0 and passes from every number below n to the next one holds up to n.
LEMMA Induction ==
  ASSUME NEW n \in Nat, NEW G, 0 \in G, \A k \in 0 .. (n - 1) : k \in G => k + 1 \in G
  PROVE  0 .. n \subseteq G
<1> SUFFICES ASSUME ~(0 .. n \subseteq G) PROVE FALSE
  OBVIOUS
<1> DEFINE T == {k \in 0 .. n : k \notin G}
<1>1. T \subseteq Nat /\ T # {}
  OBVIOUS
<1>2. PICK m \in T : \A k \in T : m <= k
  <2> HIDE DEF T
  <2> QED
    BY <1>1, LeastExists
<1>3. m # 0 /\ m - 1 \in 0 .. (n - 1) /\ m - 1 \notin T
  BY <1>2
<1>4. m - 1 \in G
  BY <1>3
<1>5. QED
  BY <1>2, <1>3, <1>4

\* Least is the least.
LEMMA LeastFacts ==
  ASSUME NEW T, T \subseteq Nat, T # {}
  PROVE  Least(T) \in T /\ \A k \in T : Least(T) <= k
BY LeastExists, Zenon DEF Least

\* The walk through the tree is what its definition says.
LEMMA WalkDefined ==
  ASSUME NEW t, NEW path, Len(path) \in Nat
  PROVE  /\ Walk(t, path)[0] = [dir |-> Root, found |-> FALSE, ret |-> "E_NOERR"]
         /\ \A i \in 1 .. Len(path) : Walk(t, path)[i] = Step(t, Walk(t, path)[i - 1], path[i])
<1> DEFINE first == [dir |-> Root, found |-> FALSE, ret |-> "E_NOERR"]
           n == Len(path)
           Fits(g, k) == g = [i \in 0 .. k |-> IF i = 0 THEN first ELSE Step(t, g[i - 1], path[i])]
           G == {k \in 0 .. n : \E g : Fits(g, k)}
<1>1. 0 \in G
  <2> HIDE DEF first
  <2>1. Fits([i \in 0 .. 0 |-> first], 0)
    OBVIOUS
  <2> HIDE DEF Fits
  <2>2. QED
    BY <2>1
<1>2. ASSUME NEW k \in 0 .. (n - 1), k \in G PROVE k + 1 \in G
  <2>1. PICK g : Fits(g, k)
    BY <1>2
  <2> DEFINE h == [i \in 0 .. (k + 1) |-> IF i = k + 1 THEN Step(t, g[k], path[k + 1]) ELSE g[i]]
  <2> HIDE DEF first
  <2>2. ASSUME NEW i \in 0 .. (k + 1)
        PROVE  h[i] = IF i = 0 THEN first ELSE Step(t, h[i - 1], path[i])
    <3>1. CASE i = k + 1
      BY <3>1
    <3>2. CASE i # k + 1
      <4>1. i \in 0 .. k /\ h[i] = g[i] /\ (i # 0 => h[i - 1] = g[i - 1])
        BY <3>2
      <4>2. QED
        BY <2>1, <4>1
    <3>3. QED
      BY <3>1, <3>2
  <2>3. Fits(h, k + 1)
    BY <2>2
  <2>4. k + 1 \in 0 .. n
    OBVIOUS
  <2> HIDE DEF Fits, h
  <2>5. QED
    BY <2>3, <2>4
<1>3. n \in G
  <2> HIDE DEF G
  <2>1. 0 .. n \subseteq G
    BY <1>1, <1>2, Induction
  <2>2. QED
    BY <2>1
<1>4. \E g : Fits(g, n)
  <2> HIDE DEF Fits
  <2> QED
    BY <1>3
<1>5. Walk(t, path) = CHOOSE g : Fits(g, n)
  BY Zenon DEF Walk
<1>6. Fits(Walk(t, path), n)
  <2> HIDE DEF Fits
  <2> QED
    BY <1>4, <1>5, Zenon
<1> DEFINE w == Walk(t, path)
<1>7. w = [i \in 0 .. n |-> IF i = 0 THEN first ELSE Step(t, w[i - 1], path[i])]
  BY <1>6
<1> HIDE DEF w, first
<1>8. w[0] = first /\ \A i \in 1 .. n : w[i] = Step(t, w[i - 1], path[i])
  BY <1>7
<1>9. QED
  BY <1>8 DEF w, first

\* So is the one through the disk's directories.
LEMMA ReachDefined ==
  ASSUME NEW d, NEW path, Len(path) \in Nat
  PROVE  /\ Reach(d, path)[0] = Root
         /\ \A i \in 1 .. Len(path) : Reach(d, path)[i] = Down(d, Reach(d, path)[i - 1], path[i])
<1> DEFINE n == Len(path)
           Fits(g, k) == g = [i \in 0 .. k |-> IF i = 0 THEN Root ELSE Down(d, g[i - 1], path[i])]
           G == {k \in 0 .. n : \E g : Fits(g, k)}
<1>1. 0 \in G
  <2>1. Fits([i \in 0 .. 0 |-> Root], 0)
    OBVIOUS
  <2> HIDE DEF Fits
  <2>2. QED
    BY <2>1
<1>2. ASSUME NEW k \in 0 .. (n - 1), k \in G PROVE k + 1 \in G
  <2>1. PICK g : Fits(g, k)
    BY <1>2
  <2> DEFINE h == [i \in 0 .. (k + 1) |-> IF i = k + 1 THEN Down(d, g[k], path[k + 1]) ELSE g[i]]
  <2>2. ASSUME NEW i \in 0 .. (k + 1)
        PROVE  h[i] = IF i = 0 THEN Root ELSE Down(d, h[i - 1], path[i])
    <3>1. CASE i = k + 1
      BY <3>1
    <3>2. CASE i # k + 1
      <4>1. i \in 0 .. k /\ h[i] = g[i] /\ (i # 0 => h[i - 1] = g[i - 1])
        BY <3>2
      <4>2. QED
        BY <2>1, <4>1
    <3>3. QED
      BY <3>1, <3>2
  <2>3. Fits(h, k + 1)
    BY <2>2
  <2>4. k + 1 \in 0 .. n
    OBVIOUS
  <2> HIDE DEF Fits, h
  <2>5. QED
    BY <2>3, <2>4
<1>3. n \in G
  <2> HIDE DEF G
  <2>1. 0 .. n \subseteq G
    BY <1>1, <1>2, Induction
  <2>2. QED
    BY <2>1
<1>4. \E g : Fits(g, n)
  <2> HIDE DEF Fits
  <2> QED
    BY <1>3
<1>5. Reach(d, path) = CHOOSE g : Fits(g, n)
  BY Zenon DEF Reach
<1>6. Fits(Reach(d, path), n)
  <2> HIDE DEF Fits
  <2> QED
    BY <1>4, <1>5, Zenon
<1> DEFINE r == Reach(d, path)
<1>7. r = [i \in 0 .. n |-> IF i = 0 THEN Root ELSE Down(d, r[i - 1], path[i])]
  BY <1>6
<1> HIDE DEF r
<1>8. r[0] = Root /\ \A i \in 1 .. n : r[i] = Down(d, r[i - 1], path[i])
  BY <1>7
<1>9. QED
  BY <1>8 DEF r

-----------------------------------------------------------------------------
(* One directory *)

\* The trees that are mounted.
Disk(d) == WellFormed(d) /\ DOMAIN d = Dirs

\* populate_recur keeps all entries of a plain directory, and what each refers to unless its
\* name starts with '.'.
LEMMA PlainEntries ==
  ASSUME NEW dk, Disk(dk), NEW d \in Dirs, PlainDir(dk, d), NEW T, T = populate_fs(dk)[d]
  PROVE  /\ DOMAIN T = DOMAIN dk[d] /\ Len(T) = Len(dk[d]) /\ DOMAIN dk[d] \subseteq Nat
         /\ \A j \in DOMAIN dk[d] : /\ T[j].name = dk[d][j].name /\ T[j].type = dk[d][j].type
                                    /\ dk[d][j].name \notin Hidden => T[j].id = dk[d][j].id
<1> DEFINE e == dk[d]
           Made(j) == IF e[j].type = FS_DIR /\ e[j].name \in Hidden THEN [e[j] EXCEPT !.id = NoDir] ELSE e[j]
           Kept == [name : Names, type : Nat, id : Dirs \cup Files \cup {Link, NoDir}]
<1>1. e \in Seq(Entry) /\ \A j \in DOMAIN e : e[j].type \in {FS_FILE, FS_DIR}
  BY DEF Disk, WellFormed, PlainDir
<1>2. DOMAIN e = 1 .. Len(e) /\ Len(e) \in Nat /\ \A j \in 1 .. Len(e) : e[j] \in Entry
  <2> HIDE DEF e
  <2> QED
    BY <1>1
<1>3. {j \in DOMAIN e : e[j].type = FS_UNKNOWN} = {}
  BY <1>1 DEF FS_UNKNOWN, FS_FILE, FS_DIR
<1>4. Least({j \in DOMAIN e : e[j].type = FS_UNKNOWN} \cup {Len(e) + 1}) = Len(e) + 1
  <2>1. {j \in DOMAIN e : e[j].type = FS_UNKNOWN} \cup {Len(e) + 1} = {Len(e) + 1}
    BY <1>3
  <2>2. Least({Len(e) + 1}) \in {Len(e) + 1}
    <3> HIDE DEF e
    <3>1. {Len(e) + 1} \subseteq Nat /\ {Len(e) + 1} # {}
      BY <1>2
    <3>2. QED
      BY <3>1, LeastFacts
  <2>3. QED
    BY <2>1, <2>2
<1>5. NoDir \notin Dirs
  BY CacheAssumption
<1>6. populate_fs(dk)[d] = populate_recur(e)
  BY <1>5 DEF populate_fs
<1>7. populate_recur(e) = [j \in 1 .. ((Len(e) + 1) - 1) |-> Made(j)]
  BY <1>4 DEF populate_recur
<1> HIDE DEF e
<1>8. (Len(e) + 1) - 1 = Len(e)
  BY <1>2
<1>9. T = [j \in 1 .. Len(e) |-> Made(j)]
  BY <1>6, <1>7, <1>8
<1>10. ASSUME NEW j \in 1 .. Len(e)
       PROVE  /\ Made(j) \in Kept /\ Made(j).name = e[j].name /\ Made(j).type = e[j].type
              /\ e[j].name \notin Hidden => Made(j).id = e[j].id
  BY <1>2 DEF Entry
<1> HIDE DEF Made, Kept
<1>11. T \in [1 .. Len(e) -> Kept]
  BY <1>9, <1>10
<1>12. DOMAIN T = 1 .. Len(e) /\ Len(T) = Len(e) /\ \A j \in 1 .. Len(e) : T[j] = Made(j)
  <2>1. T \in Seq(Kept)
    BY <1>2, <1>11
  <2>2. QED
    BY <1>2, <1>9, <1>11, <2>1
<1>13. QED
  BY <1>2, <1>10, <1>12 DEF e

\* In a plain directory the hashes find the names.
LEMMA HashFinds ==
  ASSUME NEW dk, Disk(dk), NEW d \in Dirs, PlainDir(dk, d), NEW T, T = populate_fs(dk)[d], NEW name \in Names
  PROVE  /\ {j \in DOMAIN T : \/ T[j].type \notin {FS_FILE, FS_DIR}
                              \/ T[j].type = FS_DIR /\ Hash[T[j].name] = Hash[name]}
              = {j \in Named(dk, d, name) : dk[d][j].type = FS_DIR}
         /\ Leaf(T, name) = Named(dk, d, name)
<1>1. /\ DOMAIN T = DOMAIN dk[d]
      /\ \A j \in DOMAIN dk[d] : T[j].name = dk[d][j].name /\ T[j].type = dk[d][j].type
  BY PlainEntries
<1>2. \A j \in DOMAIN dk[d] : /\ dk[d][j].type \in {FS_FILE, FS_DIR}
                              /\ Hash[dk[d][j].name] = Hash[name] <=> dk[d][j].name = name
  BY DEF PlainDir
<1>3. QED
  BY <1>1, <1>2 DEF Leaf, Named

\* One step of the walk.
LEMMA StepPlain ==
  ASSUME NEW dk, Disk(dk), NEW d \in Dirs, PlainDir(dk, d), NEW name \in Names \ Hidden,
         Down(dk, d, name) # Missing,
         NEW f, NEW s, s = [dir |-> d, found |-> f, ret |-> "E_NOERR"]
  PROVE  /\ Step(populate_fs(dk), s, name) = [dir |-> Down(dk, d, name), found |-> TRUE, ret |-> "E_NOERR"]
         /\ Down(dk, d, name) \in Dirs
<1>0. PICK T : T = populate_fs(dk)[d]
  OBVIOUS
<1> DEFINE t == populate_fs(dk)
           js == {j \in Named(dk, d, name) : dk[d][j].type = FS_DIR}
           stops == {j \in DOMAIN T : \/ T[j].type \notin {FS_FILE, FS_DIR}
                                      \/ T[j].type = FS_DIR /\ Hash[T[j].name] = Hash[name]}
<1>1. stops = js
  BY <1>0, HashFinds
<1>2. js # {} /\ Down(dk, d, name) = dk[d][Least(js)].id
  BY DEF Down
<1>3. js \subseteq DOMAIN dk[d] /\ DOMAIN dk[d] \subseteq Nat
  <2>1. DOMAIN dk[d] \subseteq Nat
    BY <1>0, PlainEntries
  <2>2. QED
    BY <2>1 DEF Named
<1>4. Least(js) \in js
  <2> HIDE DEF js
  <2> QED
    BY <1>2, <1>3, LeastFacts
<1>5. PICK m \in DOMAIN dk[d] : m = Least(js) /\ dk[d][m].type = FS_DIR /\ dk[d][m].name = name
  BY <1>4 DEF Named
<1>6. T[m].type = FS_DIR /\ T[m].id = dk[d][m].id
  <2>1. \A j \in DOMAIN dk[d] : /\ T[j].type = dk[d][j].type
                                /\ dk[d][j].name \notin Hidden => T[j].id = dk[d][j].id
    BY <1>0, PlainEntries
  <2>2. T[m].type = dk[d][m].type /\ (dk[d][m].name \notin Hidden => T[m].id = dk[d][m].id)
    BY <2>1
  <2>3. dk[d][m].name \notin Hidden
    BY <1>5
  <2>4. QED
    BY <1>5, <2>2, <2>3
<1>7. Len(T) >= 2
  BY <1>0, PlainEntries DEF PlainDir
<1>8. s.dir = d /\ s.ret = "E_NOERR"
  OBVIOUS
<1>9. Step(t, s, name) = [s EXCEPT !.found = TRUE, !.dir = T[Least(stops)].id]
  <2>1. Len(T) \in Nat
    <3>1. dk[d] \in Seq(Entry) /\ Len(T) = Len(dk[d])
      BY <1>0, PlainEntries DEF Disk, WellFormed
    <3>2. QED
      BY <3>1
  <2>2. ~(Len(T) < 2)
    BY <1>7, <2>1
  <2>3. stops # {} /\ T[Least(stops)].type = FS_DIR
    BY <1>1, <1>2, <1>5, <1>6
  <2>4. QED
    BY <1>0, <1>8, <2>2, <2>3, Zenon DEF Step
<1>10. Down(dk, d, name) \in Dirs
  BY <1>2, <1>5 DEF Disk, WellFormed
<1>11. T[Least(stops)].id = Down(dk, d, name)
  BY <1>1, <1>2, <1>5, <1>6
<1> HIDE DEF stops, t
<1>12. Step(t, s, name) = [s EXCEPT !.found = TRUE, !.dir = Down(dk, d, name)]
  BY <1>9, <1>11
<1>13. QED
  BY <1>10, <1>12 DEF t

-----------------------------------------------------------------------------
(* The path *)

\* Both walks go side by side.
LEMMA WalkPlain ==
  ASSUME NEW dk, Disk(dk), NEW path \in Seq(Names), path # << >>, PlainPath(dk, path)
  PROVE  \A i \in 0 .. (Len(path) - 1) :
           /\ Reach(dk, path)[i] \in Dirs
           /\ Walk(populate_fs(dk), path)[i] =
                [dir |-> Reach(dk, path)[i], found |-> i # 0, ret |-> "E_NOERR"]
<1> DEFINE n == Len(path)
           t == populate_fs(dk)
           r == Reach(dk, path)
           w == Walk(t, path)
           Side(i) == r[i] \in Dirs /\ w[i] = [dir |-> r[i], found |-> i # 0, ret |-> "E_NOERR"]
           G == {i \in 0 .. (n - 1) : Side(i)}
<1>1. n \in Nat /\ n > 0 /\ DOMAIN path = 1 .. n /\ \A i \in 1 .. n : path[i] \in Names
  OBVIOUS
<1>2. r[0] = Root /\ \A i \in 1 .. n : r[i] = Down(dk, r[i - 1], path[i])
  BY <1>1, ReachDefined
<1>3. w[0] = [dir |-> Root, found |-> FALSE, ret |-> "E_NOERR"] /\ \A i \in 1 .. n : w[i] = Step(t, w[i - 1], path[i])
  BY <1>1, WalkDefined
<1>4. \A i \in 0 .. (n - 1) : r[i] # Missing /\ PlainDir(dk, r[i])
  BY DEF PlainPath
<1>5. \A i \in 1 .. n : path[i] \in Names \ Hidden
  BY <1>1 DEF PlainPath
<1> HIDE DEF r, w, t, n
<1>6. Side(0)
  BY <1>2, <1>3, TreeAssumption
<1>7. ASSUME NEW k \in 0 .. (n - 2), Side(k) PROVE Side(k + 1)
  <2>1. k + 1 \in 0 .. (n - 1) /\ k + 1 \in 1 .. n /\ (k + 1) - 1 = k /\ k + 1 # 0 /\ k \in 0 .. (n - 1)
    BY <1>1, <1>7
  <2>2. r[k + 1] = Down(dk, r[k], path[k + 1]) /\ w[k + 1] = Step(t, w[k], path[k + 1])
    BY <1>2, <1>3, <2>1
  <2>3. PlainDir(dk, r[k]) /\ path[k + 1] \in Names \ Hidden /\ r[k + 1] # Missing
    BY <1>4, <1>5, <2>1
  <2>4. w[k] = [dir |-> r[k], found |-> k # 0, ret |-> "E_NOERR"] /\ r[k] \in Dirs
    BY <1>7
  <2>5. Step(t, w[k], path[k + 1]) = [dir |-> r[k + 1], found |-> TRUE, ret |-> "E_NOERR"] /\ r[k + 1] \in Dirs
    <3>1. PICK d, nm, f, s : /\ d \in Dirs /\ nm \in Names \ Hidden
                             /\ d = r[k] /\ nm = path[k + 1] /\ f = (k # 0) /\ s = w[k]
      BY <2>3, <2>4
    <3>2. PlainDir(dk, d) /\ Down(dk, d, nm) # Missing
      BY <2>2, <2>3, <3>1
    <3>3. s = [dir |-> d, found |-> f, ret |-> "E_NOERR"]
      BY <2>4, <3>1
    <3>4. /\ Step(populate_fs(dk), s, nm) = [dir |-> Down(dk, d, nm), found |-> TRUE, ret |-> "E_NOERR"]
          /\ Down(dk, d, nm) \in Dirs
      <4>1. d \in Dirs /\ nm \in Names \ Hidden
        BY <3>1
      <4>2. QED
        BY <3>2, <3>3, <4>1, StepPlain
    <3>5. QED
      BY <2>2, <3>1, <3>4 DEF t
  <2>6. (k + 1 # 0) = TRUE
    BY <2>1
  <2>7. QED
    BY <2>2, <2>5, <2>6
<1>8. 0 .. (n - 1) \subseteq G
  <2>1. 0 \in G
    BY <1>1, <1>6
  <2>2. n - 1 \in Nat
    BY <1>1
  <2>3. \A k \in 0 .. ((n - 1) - 1) : k \in G => k + 1 \in G
    <3> SUFFICES ASSUME NEW k \in 0 .. ((n - 1) - 1), k \in G PROVE k + 1 \in G
      OBVIOUS
    <3>1. k \in 0 .. (n - 2) /\ k + 1 \in 0 .. (n - 1)
      BY <1>1
    <3> HIDE DEF Side
    <3>2. QED
      BY <1>7, <3>1
  <2> HIDE DEF G
  <2>4. QED
    BY <2>1, <2>2, <2>3, Induction
<1>9. \A i \in 0 .. (n - 1) : Side(i)
  BY <1>8
<1>10. QED
  BY <1>9 DEF n, r, w, t

\* A lookup on a plain path finds the entry the directories name, and nothing else.
LEMMA LookupPlain ==
  ASSUME NEW dk, Disk(dk), NEW path \in Seq(Names), path # << >>, PlainPath(dk, path)
  PROVE  /\ traverse_fs(populate_fs(dk), path).ret = "E_NOERR"
         /\ traverse_fs(populate_fs(dk), path).id =
              IF Resolve(dk, path) = Missing THEN "unset" ELSE Resolve(dk, path)
<1> DEFINE n == Len(path)
           t == populate_fs(dk)
           s == Walk(t, path)[n - 1]
           js == Named(dk, s.dir, path[n])
           res == traverse_fs(t, path)
<1>1. n \in Nat /\ n > 0 /\ n - 1 \in 0 .. (n - 1) /\ path[n] \in Names
  OBVIOUS
<1>2. PICK d, f : /\ d \in Dirs /\ d = Reach(dk, path)[n - 1] /\ f = (n - 1 # 0)
                  /\ s = [dir |-> d, found |-> f, ret |-> "E_NOERR"]
  <2>1. /\ Reach(dk, path)[n - 1] \in Dirs
        /\ s = [dir |-> Reach(dk, path)[n - 1], found |-> (n - 1) # 0, ret |-> "E_NOERR"]
    BY <1>1, WalkPlain
  <2>2. QED
    BY <2>1, Zenon
<1>3. s.dir = d /\ s.found = f /\ s.ret = "E_NOERR"
  BY <1>2
<1>4. PlainDir(dk, d) /\ d # Missing
  BY <1>1, <1>2 DEF PlainPath
<1>5. PICK T : T = t[d]
  OBVIOUS
<1>6. /\ DOMAIN dk[d] \subseteq Nat
      /\ \A j \in DOMAIN dk[d] : /\ T[j].type = dk[d][j].type
                                 /\ dk[d][j].name \notin Hidden => T[j].id = dk[d][j].id
  BY <1>2, <1>4, <1>5, PlainEntries
<1>7. Leaf(T, path[n]) = Named(dk, d, path[n])
  <2>1. PICK nm \in Names : nm = path[n]
    BY <1>1
  <2>2. Leaf(T, nm) = Named(dk, d, nm)
    BY <1>2, <1>4, <1>5, HashFinds
  <2>3. QED
    BY <2>1, <2>2
<1>8. ~(~s.found /\ n # 1)
  <2>1. n # 1 => n - 1 # 0
    BY <1>1
  <2> HIDE DEF n, s
  <2>2. QED
    BY <1>2, <1>3, <2>1, Zenon
<1>9. Resolve(dk, path) = IF js = {} THEN Missing ELSE dk[d][Least(js)].id
  BY <1>2, <1>3, <1>4 DEF Resolve
<1>10. CASE js = {}
  <2>1. Leaf(t[s.dir], path[n]) = {}
    BY <1>3, <1>5, <1>7, <1>10
  <2>2. res = Result("E_NOERR", FS_UNKNOWN, "unset")
    BY <1>3, <1>8, <2>1, Zenon DEF traverse_fs
  <2>3. res.ret = "E_NOERR" /\ res.id = "unset"
    BY <2>2 DEF Result
  <2>4. QED
    BY <1>9, <1>10, <2>3
<1>11. CASE js # {}
  <2>1. Least(js) \in js
    <3>1. js \subseteq Nat
      BY <1>3, <1>6 DEF Named
    <3>2. QED
      BY <1>11, <3>1, LeastFacts
  <2>2. PICK m \in DOMAIN dk[d] : m = Least(js) /\ dk[d][m].name = path[n]
    BY <1>3, <2>1 DEF Named
  <2>3. path[n] \notin Hidden
    BY <1>1 DEF PlainPath
  <2>4. T[m].type = dk[d][m].type /\ T[m].id = dk[d][m].id
    BY <1>6, <2>2, <2>3
  <2>5. T[m].type \in {FS_FILE, FS_DIR}
    BY <1>4, <2>4 DEF PlainDir
  <2>6. Leaf(t[s.dir], path[n]) = js /\ t[s.dir] = T
    BY <1>3, <1>5, <1>7
  <2>7. res = Result("E_NOERR", T[m].type, T[m].id)
    BY <1>3, <1>8, <1>11, <2>2, <2>5, <2>6, Zenon DEF traverse_fs
  <2>8. res.ret = "E_NOERR" /\ res.id = dk[d][m].id
    BY <2>4, <2>7 DEF Result
  <2>9. dk[d][m].id # Missing
    <3>1. dk[d] \in Seq(Entry)
      BY <1>2 DEF Disk, WellFormed
    <3>2. dk[d][m] \in Entry
      BY <3>1
    <3>3. dk[d][m].id \in Dirs \cup Files \cup {Link}
      BY <3>2 DEF Entry
    <3>4. QED
      BY <3>3, CacheAssumption
  <2>10. QED
    BY <1>9, <1>11, <2>2, <2>8, <2>9
<1>12. QED
  BY <1>10, <1>11

-----------------------------------------------------------------------------
(* The calls *)

\* The tree is that of the mounted disk, and the running call holds the result of its lookup.
LookupInv ==
  /\ disk \in Trees
  /\ tree = populate_fs(disk)
  /\ call = NoCall \/ call.path = << >>
       \/ (call.path \in Paths /\ call.res = traverse_fs(tree, call.path))

\* Every step keeps it: only a lookup sets a result, and nothing changes the disk or the tree.
LEMMA LookupStep ==
  ASSUME LookupInv, [Next]_vars
  PROVE  LookupInv'
<1> USE DEF LookupInv
<1>1. ASSUME NEW op \in {"open", "cat", "ls"}, NEW path \in Paths, lookup(op, path) PROVE LookupInv'
  <2>1. /\ disk' = disk /\ tree' = tree
        /\ call' = [op |-> op, path |-> path, res |-> traverse_fs(tree, path)]
    BY <1>1 DEF lookup
  <2>2. call'.path = path /\ call'.res = traverse_fs(tree, path)
    <3>1. PICK x : x = traverse_fs(tree, path)
      OBVIOUS
    <3>2. QED
      BY <2>1, <3>1
  <2>3. QED
    BY <2>1, <2>2
<1>2. ASSUME NEW op \in {"cat", "ls"}, NEW c \in Blocks, fs_helper(op, c) PROVE LookupInv'
  <2>1. disk' = disk /\ tree' = tree /\ call'.path = << >>
    BY <1>2 DEF fs_helper
  <2>2. QED
    BY <2>1
<1>3. ASSUME disk' = disk, tree' = tree, call' \in {call, NoCall} PROVE LookupInv'
  BY <1>3
<1>4. ASSUME ls \/ lookup_none \/ lookup_wild PROVE LookupInv'
  BY <1>3, <1>4 DEF ls, lookup_none, lookup_wild
<1>5. ASSUME NEW f \in Files, NEW e, NEW b, f_open(f, b, e) PROVE LookupInv'
  BY <1>3, <1>5 DEF f_open
<1>6. ASSUME NEW f \in Files, NEW e, NEW c, NEW b, cat(f, c, b, e) PROVE LookupInv'
  BY <1>3, <1>6 DEF cat
<1>7. ASSUME NEW f \in Files, NEW e, NEW n, NEW b, f_read(f, n, b, e) PROVE LookupInv'
  BY <1>3, <1>7 DEF f_read
<1>8. ASSUME NEW f \in Files, NEW e, f_write(f, 1, e) PROVE LookupInv'
  BY <1>3, <1>8 DEF f_write
<1>9. ASSUME NEW f \in Files, f_close(f) PROVE LookupInv'
  BY <1>3, <1>9 DEF f_close
<1>10. ASSUME NEW b \in Blocks, other_new(b) \/ other_del(b) PROVE LookupInv'
  BY <1>3, <1>10 DEF other_new, other_del
<1>11. ASSUME UNCHANGED vars PROVE LookupInv'
  BY <1>3, <1>11 DEF vars
<1> HIDE DEF LookupInv
<1>12. QED
  BY <1>1, <1>2, <1>4, <1>5, <1>6, <1>7, <1>8, <1>9, <1>10, <1>11, Zenon DEF Next

\* LookupExact holds for all trees and paths: traverse_fs (file.c) finds in the tree of
\* populate_recur (ext2.c) what the directories of the disk name, on every path whose
\* directories exist and hold only files and directories with names of distinct hashes.
THEOREM CacheLookupExact == Spec => []LookupExact
<1>1. Init => LookupInv
  BY DEF Init, LookupInv
<1>2. LookupInv /\ [Next]_vars => LookupInv'
  BY LookupStep
<1>3. LookupInv => LookupExact
  <2> SUFFICES ASSUME LookupInv, call # NoCall, call.path # << >>, PlainPath(disk, call.path)
               PROVE  /\ call.res.ret = "E_NOERR"
                      /\ call.res.id = IF Resolve(disk, call.path) = Missing THEN "unset"
                                       ELSE Resolve(disk, call.path)
    BY DEF LookupExact
  <2>1. call.path \in Paths /\ call.res = traverse_fs(populate_fs(disk), call.path)
    BY DEF LookupInv
  <2>2. Disk(disk)
    BY CacheAssumption DEF LookupInv, Disk
  <2>3. PICK path \in Seq(Names) : path = call.path
    BY <2>1, CacheAssumption
  <2>4. /\ traverse_fs(populate_fs(disk), path).ret = "E_NOERR"
        /\ traverse_fs(populate_fs(disk), path).id =
             IF Resolve(disk, path) = Missing THEN "unset" ELSE Resolve(disk, path)
    BY <2>2, <2>3, LookupPlain
  <2>5. QED
    BY <2>1, <2>3, <2>4, Zenon
<1>4. QED
  BY <1>1, <1>2, <1>3, PTL DEF Spec
=============================================================================
