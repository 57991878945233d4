----------------------------- MODULE FileCache -----------------------------
(***************************************************************************)
(* The open-file layer of the ext2 file system: f_open, f_read, f_write    *)
(* and f_close of fs/ext2/file.c, the buffer that ext2_open and ext2_close *)
(* keep in a FILE, and the shell's cat command, which uses them.           *)
(*                                                                         *)
(* There is one FILE per directory entry, shared by all who open it.  It   *)
(* counts its openers and, while open, has the whole file in a block of    *)
(* the kernel heap.  ext2_close gives that block back and leaves the       *)
(* pointer, so that what a FILE points to afterwards is a question about   *)
(* the rest of the kernel, which allocates and frees as well: heap says    *)
(* who holds each block.                                                   *)
(*                                                                         *)
(* A caller of f_open uses the FILE and then closes it once, as the        *)
(* editor's read_file does; held counts those who have it open.  cat finds *)
(* the FILE itself, relies on f_read to open it, and closes it.  The       *)
(* kernel runs one command at a time and no command leaves a file open, so *)
(* cat never runs while a file is held.                                    *)
(*                                                                         *)
(* f_read adds the global error code ret to the offset and returns it: 0   *)
(* (E_NOERR) unless the last time the card had to be initialised again,    *)
(* which only a disk access does, failed (ensure_data_mode in sd.c).       *)
(*                                                                         *)
(* Most functions push an entry on trace_stack, an array without a bounds  *)
(* check, and pop it on their way out; __depth is the number of entries.   *)
(* trace follows every such pair of the calls below, nested as they nest;  *)
(* disk accesses are taken to be of files with indirect blocks, whose      *)
(* nesting is the deepest.                                                 *)
(*                                                                         *)
(* status leaves "ok" at an access outside a buffer the FILE holds:        *)
(*   "use after free", "double free"   of the file's own former block      *)
(*   "wild"   a pointer that was never set, or a null entry of the tree    *)
(***************************************************************************)
EXTENDS VfsTree

CONSTANTS
  Trees,      \* the disks' directories, one of which is mounted
  Paths,      \* bound: the paths that are looked up
  Blocks,     \* bound: the heap blocks that change hands
  FileSize,   \* the size of every file, fixed when the tree is populated
  InitError,  \* an error code of sd_init
  MaxHeld,    \* bound: openers of one file at once
  MaxOffset,  \* bound: cur_offset
  TraceSlots, \* the length of trace_stack: 100
  MaxRefused  \* bound: refused calls

ASSUME CacheAssumption ==
  /\ \A t \in Trees : DOMAIN t = Dirs /\ WellFormed(t)
  /\ \A p \in Paths : p \in Seq(Names)
  /\ (Dirs \cup Files \cup {Link}) \cap {NoDir, Missing} = {}
  /\ Files \cap {"free", "other"} = {} /\ Blocks \cap {"null", "wild"} = {}
  /\ FileSize \in Nat /\ InitError \in Nat \ {0} /\ MaxHeld \in Nat /\ MaxOffset \in Nat
  /\ TraceSlots \in Nat \ {0} /\ MaxRefused \in Nat

NULL == "null"
Wild == "wild"    \* a file_buffer that was never set
Free == "free"
Other == "other"  \* held by the rest of the kernel

VARIABLES
  disk,        \* the mounted directories
  tree,        \* root: the tree populate_fs made of them
  refcount, cur_offset, file_buffer,   \* of every FILE
  heap,        \* who holds each block
  ret,         \* the global error code
  trace,       \* the trace stack: __depth, and if a push was made past its end
  call,        \* the running f_open or cat and the result of its lookup
  held,        \* history: openers of every file that have not closed it
  closed,      \* history: files whose count came back to 0
  misused,     \* history: files used after that, and files whose FILE was not set up clean
  refused,     \* history: how many reads past the end and closes of a FILE at -1 there were
  status

vars == <<disk, tree, refcount, cur_offset, file_buffer, heap, ret, trace, call,
          held, closed, misused, refused, status>>
file == <<refcount, cur_offset, file_buffer>>
ghosts == <<held, closed, misused, refused>>

NoCall == [op |-> "none", path |-> << >>, res |-> Result("E_NOERR", FS_UNKNOWN, "unset")]

\* populate_recur leaves file_buffer and refcount as alloc returned them: zero in a
\* page that is used for the first time, what was there before otherwise.
Init ==
  /\ disk \in Trees
  /\ tree = populate_fs(disk)
  /\ \E dirty \in SUBSET Files :
       /\ file_buffer = [f \in Files |-> IF f \in dirty THEN Wild ELSE NULL]
       /\ \E r \in {0, 1} : refcount = [f \in Files |-> IF f \in dirty THEN r ELSE 0]
       /\ misused = dirty
  /\ cur_offset = [f \in Files |-> 0]
  /\ heap = [b \in Blocks |-> Free]
  /\ ret = 0
  /\ trace = [depth |-> 1, overrun |-> FALSE]    \* main pushed its entry
  /\ call = NoCall
  /\ held = [f \in Files |-> 0]
  /\ closed = {}
  /\ refused = 0
  /\ status = "ok"

\* Nothing is known of a machine that left its buffers or its trace stack.
Sound == status = "ok" /\ ~trace.overrun
Ready == Sound /\ call = NoCall

-----------------------------------------------------------------------------
(* The trace stack through the calls of ext2.c and inode.c *)

push_trace(t) == [depth |-> t.depth + 1, overrun |-> t.overrun \/ t.depth >= TraceSlots]
pop_trace(t) == [t EXCEPT !.depth = @ - 1]

\* read_disk_block and write_disk_block; read_inode_metadata and write_inode_metadata.
disk_block(t) == pop_trace(push_trace(t))
inode_metadata(t) == pop_trace(push_trace(t))

get_disk_block_number(t) == pop_trace(disk_block(push_trace(t)))

\* read_inode_block and write_inode_block.
inode_block(t) == pop_trace(disk_block(get_disk_block_number(push_trace(t))))

\* Each block a file has is read, or read and written, alike.
read_inode_filedata(t) == pop_trace(inode_block(push_trace(t)))
write_inode_filedata(t) ==
  pop_trace(inode_block(inode_block(inode_metadata(push_trace(t)))))

ext2_read(t) == pop_trace(read_inode_filedata(inode_metadata(push_trace(t))))
ext2_write(t) == pop_trace(write_inode_filedata(inode_metadata(push_trace(t))))

-----------------------------------------------------------------------------
(* fs_open, f_read and f_close, as functions of the state they change *)

State == [ref |-> refcount, off |-> cur_offset, buf |-> file_buffer, heap |-> heap,
          ret |-> ret, trace |-> trace, status |-> status]

Becomes(s) ==
  /\ refcount' = s.ref /\ cur_offset' = s.off /\ file_buffer' = s.buf
  /\ heap' = s.heap /\ ret' = s.ret /\ trace' = s.trace /\ status' = s.status

\* ext2_open: a buffer is allocated and the file read into it when the FILE has none;
\* e is the error code after the disk access, whose result nobody looks at.
ext2_open(s, f, b, e) ==
  IF s.buf[f] # NULL THEN [s EXCEPT !.trace = pop_trace(push_trace(@))]
  ELSE [s EXCEPT !.buf[f] = b, !.heap[b] = f, !.ret = e,
                 !.trace = pop_trace(ext2_read(push_trace(@)))]

Pushed(s) == [s EXCEPT !.trace = push_trace(@)]
Popped(s) == [s EXCEPT !.trace = pop_trace(@)]

\* Mutant: a FILE that is pinned is counted too.
fs_open_Pinned(s, f, b, e) ==
  Popped(ext2_open([Pushed(s) EXCEPT !.ref[f] = @ + 1, !.off[f] = 0], f, b, e))

\* Mutant: a FILE that has its buffer is not counted again.
fs_open_Once(s, f, b, e) ==
  Popped(ext2_open([Pushed(s) EXCEPT !.ref[f] = IF @ = 0 THEN 1 ELSE @, !.off[f] = 0],
                   f, b, e))

\* fs_open: a count of -1 marks a FILE that is never closed.
fs_open(s, f, b, e) ==
  Popped(ext2_open([Pushed(s) EXCEPT !.ref[f] = IF @ >= 0 THEN @ + 1 ELSE @, !.off[f] = 0],
                   f, b, e))

\* What del of the block p does: cull finds the chunk at that address whoever holds it.
del(s, f, p) ==
  IF p = Wild THEN [s EXCEPT !.status = "wild"]
  ELSE [s EXCEPT !.status = IF s.heap[p] = f THEN @ ELSE "double free", !.heap[p] = Free]

\* ext2_close: the buffer is given back; the pointer stays.
ext2_close(s, f) == IF s.buf[f] = NULL THEN s ELSE del(s, f, s.buf[f])

\* Mutant: the buffer is given back at every close.
f_close_Eager(s, f) ==
  IF s.ref[f] = -1 THEN Pushed(s)
  ELSE Popped(ext2_close([Pushed(s) EXCEPT !.ref[f] = @ - 1], f))

\* Mutant: the last close returns without popping its entry off the trace stack.
f_close_NoPop(s, f) ==
  IF s.ref[f] = -1 THEN Pushed(s)
  ELSE LET t == [Pushed(s) EXCEPT !.ref[f] = @ - 1]
       IN  IF t.ref[f] = 0 THEN ext2_close(t, f) ELSE Popped(t)

\* f_close: the early return of a pinned FILE leaves its entry on the trace stack.
f_close_File(s, f) ==
  IF s.ref[f] = -1 THEN Pushed(s)
  ELSE LET t == [Pushed(s) EXCEPT !.ref[f] = @ - 1]
       IN  Popped(IF t.ref[f] = 0 THEN ext2_close(t, f) ELSE t)

\* The copy out of the buffer.
Access(s, f) ==
  CASE s.buf[f] = Wild          -> [s EXCEPT !.status = "wild"]
    [] s.buf[f] \in Blocks      -> [s EXCEPT !.status = IF s.heap[s.buf[f]] = f THEN @
                                                        ELSE "use after free"]

\* f_read: refused past the end, which leaves its entry on the trace stack; otherwise
\* the FILE is opened if it has no buffer, and the offset moves by the global ret.
f_read_File(s, f, n, b, e) ==
  IF n + s.off[f] > FileSize THEN Pushed(s)
  ELSE LET p == Pushed(s)
           t == Access(IF s.buf[f] = NULL THEN fs_open(p, f, b, e) ELSE p, f)
       IN  Popped([t EXCEPT !.off[f] = @ + t.ret])

\* A block alloc can return when one is needed for f's buffer.
NewBlock(f) == IF file_buffer[f] = NULL THEN {b \in Blocks : heap[b] = Free} ELSE {Wild}

\* The error code after a disk access: unchanged when the card was ready, otherwise
\* that of initialising it again.
DiskOutcomes == {ret, 0, InitError}

-----------------------------------------------------------------------------
(* The calls *)

\* f_open, cat and ls start with the lookup.
lookup(op, path) ==
  /\ Ready
  /\ call' = [op |-> op, path |-> path, res |-> traverse_fs(tree, path)]
  /\ status' = IF traverse_fs(tree, path).ret = "fault" THEN "wild" ELSE status
  /\ UNCHANGED <<disk, tree, file, heap, ret, trace, ghosts>>

\* fs_helper, for a command without a path and for "/": the root, in an entry that
\* takes a block c and is never given back.
fs_helper(op, c) ==
  /\ Ready
  /\ heap[c] = Free
  /\ heap' = [heap EXCEPT ![c] = Other]
  /\ call' = [op |-> op, path |-> << >>, res |-> Result("E_NOERR", FS_DIR, Root)]
  /\ UNCHANGED <<disk, tree, file, ret, trace, ghosts, status>>

Found(op) == Sound /\ call.op = op

\* The caller goes on with an entry_info that was never set: cat looks at the lookup's
\* error code, f_open does not.
Unset == call.res.id = "unset" /\ (call.op = "open" \/ call.res.ret = "E_NOERR")

\* The FILE the lookup found, or any other that an unset entry_info may point to.
Handle(f) == Unset \/ (call.res.ret = "E_NOERR" /\ call.res.type = FS_FILE /\ call.res.id = f)

\* f_open returns NULL: the entry is a directory, or what is on the stack is no file.
\* cat then says "Not a regular file", and ls "invalid path".
lookup_none ==
  /\ Sound /\ call # NoCall
  /\ call.res.type # IF call.op = "ls" THEN FS_DIR ELSE FS_FILE
  /\ call' = NoCall
  /\ UNCHANGED <<disk, tree, file, heap, ret, trace, ghosts, status>>

\* What is on the stack passes for a file and is not one.
lookup_wild ==
  /\ Sound /\ call # NoCall
  /\ Unset
  /\ status' = "wild"
  /\ call' = NoCall
  /\ UNCHANGED <<disk, tree, file, heap, ret, trace, ghosts>>

\* f_open finds a file.
f_open(f, b, e) ==
  /\ Found("open")
  /\ Handle(f)
  /\ held[f] < MaxHeld
  /\ Becomes(fs_open(State, f, b, e))
  /\ call' = NoCall
  /\ held' = [held EXCEPT ![f] = @ + 1]
  /\ misused' = IF f \in closed THEN misused \cup {f} ELSE misused
  /\ UNCHANGED <<disk, tree, closed, refused>>

\* f_read by one who has the file open.
f_read(f, n, b, e) ==
  /\ Ready
  /\ held[f] > 0
  /\ Becomes(f_read_File(State, f, n, b, e))
  /\ cur_offset'[f] <= MaxOffset
  /\ refused' = IF n + cur_offset[f] > FileSize THEN refused + 1 ELSE refused
  /\ refused' <= MaxRefused
  /\ UNCHANGED <<disk, tree, call, held, closed, misused>>

\* f_write by one who has the file open: the disk is written, the buffer is not.
f_write(f, n, e) ==
  /\ Ready
  /\ held[f] > 0
  /\ cur_offset[f] + n <= MaxOffset
  /\ cur_offset' = [cur_offset EXCEPT ![f] = @ + n]
  /\ ret' = e
  /\ trace' = pop_trace(ext2_write(push_trace(trace)))
  /\ UNCHANGED <<disk, tree, refcount, file_buffer, heap, call, ghosts, status>>

\* f_close by one who has the file open.
f_close(f) ==
  /\ Ready
  /\ held[f] > 0
  /\ Becomes(f_close_File(State, f))
  /\ held' = [held EXCEPT ![f] = @ - 1]
  /\ closed' = IF refcount'[f] = 0 THEN closed \cup {f} ELSE closed
  /\ refused' = IF refcount[f] = -1 THEN refused + 1 ELSE refused
  /\ refused' <= MaxRefused
  /\ UNCHANGED <<disk, tree, call, misused>>

\* cat finds a file: a block c for the output, which is never given back, f_read of the
\* whole file, whose result is not looked at, then f_close.
cat(f, c, b, e) ==
  /\ Found("cat")
  /\ Handle(f)
  /\ \A g \in Files : held[g] = 0
  /\ heap[c] = Free /\ c # b
  /\ LET s == f_read_File([State EXCEPT !.heap[c] = Other], f, FileSize, b, e)
     IN  IF s.status # "ok" THEN Becomes(s) ELSE Becomes(f_close_File(s, f))
  /\ cur_offset'[f] <= MaxOffset
  /\ call' = NoCall
  /\ closed' = IF refcount'[f] = 0 THEN closed \cup {f} ELSE closed
  /\ misused' = IF file_buffer[f] = NULL THEN misused ELSE misused \cup {f}
  /\ refused' = refused + (IF FileSize + cur_offset[f] > FileSize THEN 1 ELSE 0)
                        + (IF refcount[f] = -1 /\ status' = "ok" THEN 1 ELSE 0)
  /\ refused' <= MaxRefused
  /\ UNCHANGED <<disk, tree, held>>

\* ls finds a directory and prints a line for each entry, by its type.
ls ==
  /\ Found("ls")
  /\ call.res.type = FS_DIR
  /\ call' = NoCall
  /\ UNCHANGED <<disk, tree, file, heap, ret, trace, ghosts, status>>

\* The rest of the kernel allocates and frees blocks.
other_new(b) ==
  /\ Ready
  /\ heap[b] = Free
  /\ heap' = [heap EXCEPT ![b] = Other]
  /\ UNCHANGED <<disk, tree, file, ret, trace, call, ghosts, status>>

other_del(b) ==
  /\ Ready
  /\ heap[b] = Other
  /\ heap' = [heap EXCEPT ![b] = Free]
  /\ UNCHANGED <<disk, tree, file, ret, trace, call, ghosts, status>>

Next ==
  \/ \E op \in {"open", "cat", "ls"}, path \in Paths : lookup(op, path)
  \/ \E op \in {"cat", "ls"}, c \in Blocks : fs_helper(op, c)
  \/ ls
  \/ lookup_none \/ lookup_wild
  \/ \E f \in Files, e \in DiskOutcomes : \E b \in NewBlock(f) : f_open(f, b, e)
  \/ \E f \in Files, e \in DiskOutcomes, c \in Blocks : \E b \in NewBlock(f) : cat(f, c, b, e)
  \/ \E f \in Files, e \in DiskOutcomes, n \in {1, FileSize} :
       \E b \in NewBlock(f) : f_read(f, n, b, e)
  \/ \E f \in Files, e \in DiskOutcomes : f_write(f, 1, e)
  \/ \E f \in Files : f_close(f)
  \/ \E b \in Blocks : other_new(b) \/ other_del(b)

Spec == Init /\ [][Next]_vars

-----------------------------------------------------------------------------
(* Properties *)

\* Types of the state.
TypeOK ==
  /\ disk \in Trees
  /\ refcount \in [Files -> Int]
  /\ cur_offset \in [Files -> Nat]
  /\ file_buffer \in [Files -> Blocks \cup {NULL, Wild}]
  /\ heap \in [Blocks -> Files \cup {Free, Other}]
  /\ ret \in {0, InitError}
  /\ trace \in [depth : Nat, overrun : BOOLEAN]
  /\ call.op \in {"none", "open", "cat", "ls"}
  /\ status \in {"ok", "wild", "use after free", "double free"}

\* The count of a FILE that was never misused is that of its openers: the open that
\* f_read makes for cat is matched by cat's close.
RefcountExact == \A f \in Files \ misused : refcount[f] = held[f]

\* Who has such a file open has its contents: until some block is freed twice, the one
\* its buffer points to is still the FILE's own, whatever other openers, cat and the
\* rest of the kernel did.
BufferOwned ==
  \A f \in Files \ misused :
    status # "double free" /\ held[f] > 0 => file_buffer[f] \in Blocks /\ heap[file_buffer[f]] = f

\* A count never falls below -1, and a FILE whose count is -1 stays pinned: it is not
\* counted, closed or loaded again.
Pinned ==
  [][\A f \in Files :
       /\ refcount'[f] >= -1
       /\ refcount[f] = -1 => refcount'[f] = -1 /\ file_buffer'[f] = file_buffer[f]]_vars

\* No block is used or given back by a FILE that does not hold it as long as no file
\* is opened or read again after its last close.
NoHeapMisuse == misused = {} => status \notin {"use after free", "double free"}

\* The deepest nest of traced calls: f_read, fs_open, ext2_open, ext2_read,
\* read_inode_filedata, read_inode_block, get_disk_block_number, read_disk_block.
DeepestNest == 8

\* The trace stack is unwound by every call but a refused one, which leaves one entry for
\* good (file.c 26, 90); and none is pushed past the end of trace_stack while the entries
\* left so far leave room for the deepest nest of calls.
TraceFits ==
  /\ status = "ok" => trace.depth = 1 + refused
  /\ trace.overrun => 1 + refused + DeepestNest > TraceSlots

\* Where all directories of the path exist and hold nothing but files and directories
\* with names of distinct hashes, the lookup finds what the disk's directories say:
\* the entry if there is one, and none otherwise.
LookupExact ==
  call # NoCall /\ call.path # << >> /\ PlainPath(disk, call.path) =>
    /\ call.res.ret = "E_NOERR"
    /\ call.res.id = IF Resolve(disk, call.path) = Missing THEN "unset"
                     ELSE Resolve(disk, call.path)

\* The count of a FILE is exact and the state well-typed (file.c 85-120).
CountsExact == TypeOK /\ RefcountExact

\* The blocks behind the FILEs: open files own theirs, and none is used or given back
\* by a FILE that does not hold it (ext2.c 420-445).
BuffersSafe == BufferOwned /\ NoHeapMisuse

\* "Overwrite the file on open" (ext2_open): once a file is open its buffer is a block
\* of its own, for every file whose FILE was set up cleanly.
OpenLoads ==
  \A f \in Files :
    held[f] > 0 /\ file_buffer[f] # Wild => file_buffer[f] \in Blocks /\ heap[file_buffer[f]] = f
=============================================================================
