------------------------------ MODULE VfsTree ------------------------------
(***************************************************************************)
(* The in-memory directory tree of the ext2 file system and the path       *)
(* lookup: populate_recur (fs/ext2/ext2.c) and traverse_fs                 *)
(* (fs/ext2/file.c).                                                       *)
(*                                                                         *)
(* A directory on the disk is the sequence of its entries, each with a     *)
(* name, a type and what it refers to: a file or a directory.  populate_fs *)
(* reads all of them once, at boot, and nothing changes the tree           *)
(* afterwards.  A path is the sequence of the tokens str_split makes of    *)
(* it; names are compared by hash32, which the constant Hash stands for    *)
(* because distinct names may share a value.                               *)
(***************************************************************************)
EXTENDS Integers, Sequences, FiniteSets

CONSTANTS
  Names,    \* the names that occur
  Hidden,   \* those that start with '.'
  Hash,     \* hash32 of every name
  Dirs,     \* the directories
  Root,     \* the root directory
  Files     \* the FILE objects, one for every entry of type FS_FILE

ASSUME TreeAssumption ==
  /\ Hidden \subseteq Names
  /\ Hash \in [Names -> Nat]
  /\ Root \in Dirs

FS_UNKNOWN == 0
FS_FILE    == 1
FS_DIR     == 2
FS_SYMLINK == 7
NoDir == "no directory"   \* the fs_tree of an entry populate_recur does not recurse into

Least(S) == CHOOSE j \in S : \A k \in S : j <= k

-----------------------------------------------------------------------------
(* populate_recur *)

\* One directory of the tree.  Reading stops at the first entry of type 0; an entry
\* whose name starts with '.' gets an fs_tree without entries, and so "." and ".."
\* lead nowhere; an entry of another type than file and directory keeps its slot with
\* a null pointer in it.
populate_recur(entries) ==
  LET ends == {j \in DOMAIN entries : entries[j].type = FS_UNKNOWN} \cup {Len(entries) + 1}
  IN  [j \in 1 .. (Least(ends) - 1) |->
         IF entries[j].type = FS_DIR /\ entries[j].name \in Hidden
         THEN [entries[j] EXCEPT !.id = NoDir] ELSE entries[j]]

\* The whole tree; NoDir has no entries.
populate_fs(disk) ==
  [d \in Dirs \cup {NoDir} |-> IF d = NoDir THEN << >> ELSE populate_recur(disk[d])]

-----------------------------------------------------------------------------
(* traverse_fs *)

\* The tests of the loop over the directory components, on one component.  An entry
\* that is a file is read as an fs_tree, whose hash then is four characters of the
\* file's name, and does not match; a null entry faults.  A component that is not
\* found leaves the search where it is.
Step(tree, s, name) ==
  LET entries == tree[s.dir]
      stops == {j \in DOMAIN entries :
                  \/ entries[j].type \notin {FS_FILE, FS_DIR}
                  \/ entries[j].type = FS_DIR /\ Hash[entries[j].name] = Hash[name]}
  IN  IF s.ret # "E_NOERR" THEN s
      ELSE IF Len(entries) < 2 THEN [s EXCEPT !.ret = "E_BADPATH"]
      ELSE IF stops = {} THEN [s EXCEPT !.found = FALSE]
      ELSE LET e == entries[Least(stops)]
           IN  IF e.type = FS_DIR THEN [s EXCEPT !.found = TRUE, !.dir = e.id]
               ELSE [s EXCEPT !.ret = "fault"]

\* Where the search stands after the first i components of the path.
Walk(tree, path) ==
  LET w[i \in 0 .. Len(path)] ==
        IF i = 0 THEN [dir |-> Root, found |-> FALSE, ret |-> "E_NOERR"]
        ELSE Step(tree, w[i - 1], path[i])
  IN  w

\* The result of a lookup: ret, and the entry's type and referent.
Result(ret, type, id) == [ret |-> ret, type |-> type, id |-> id]

\* Mutant: the leaf is compared with directories only.
Leaf_DirsOnly(entries, name) ==
  {j \in DOMAIN entries :
     \/ entries[j].type \notin {FS_FILE, FS_DIR}
     \/ entries[j].type = FS_DIR /\ Hash[entries[j].name] = Hash[name]}

\* The entries at which the loop over the last directory stops.
Leaf(entries, name) ==
  {j \in DOMAIN entries :
     \/ entries[j].type \notin {FS_FILE, FS_DIR}
     \/ Hash[entries[j].name] = Hash[name]}

\* The lookup.  "unset" stands for the entry_info that is returned as it was on the
\* stack, with ret E_NOERR, when no entry of the last directory has the name.
traverse_fs(tree, path) ==
  LET n == Len(path)
      s == Walk(tree, path)[n - 1]
      stops == Leaf(tree[s.dir], path[n])
  IN  IF s.ret # "E_NOERR" THEN Result(s.ret, FS_UNKNOWN, "unset")
      ELSE IF ~s.found /\ n # 1 THEN Result("E_BADPATH", FS_UNKNOWN, "unset")
      ELSE IF stops = {} THEN Result("E_NOERR", FS_UNKNOWN, "unset")
      ELSE LET e == tree[s.dir][Least(stops)]
           IN  IF e.type \in {FS_FILE, FS_DIR} THEN Result("E_NOERR", e.type, e.id)
               ELSE Result("E_BADPATH", FS_UNKNOWN, "unset")

-----------------------------------------------------------------------------
(* What a lookup should find, on the disk's own directories *)

Missing == "missing"

\* What the entries of a disk are: an entry of type FS_DIR refers to a directory.
Link == "link"   \* what an entry that is neither file nor directory refers to
Entry == [name : Names, type : Nat, id : Dirs \cup Files \cup {Link}]
WellFormed(disk) ==
  \A d \in Dirs :
    /\ disk[d] \in Seq(Entry)
    /\ \A j \in DOMAIN disk[d] : disk[d][j].type = FS_DIR => disk[d][j].id \in Dirs

\* The entries of a directory by exact name.
Named(disk, d, name) == {j \in DOMAIN disk[d] : disk[d][j].name = name}

\* The directory of that name in the directory d, or Missing.
Down(disk, d, name) ==
  LET js == {j \in Named(disk, d, name) : disk[d][j].type = FS_DIR}
  IN  IF d = Missing \/ js = {} THEN Missing ELSE disk[d][Least(js)].id

\* The directory that the first i components of the path name, or Missing.
Reach(disk, path) ==
  LET r[i \in 0 .. Len(path)] == IF i = 0 THEN Root ELSE Down(disk, r[i - 1], path[i])
  IN  r

\* The file or directory the path names, or Missing.
Resolve(disk, path) ==
  LET d == Reach(disk, path)[Len(path) - 1]
      js == IF d = Missing THEN {} ELSE Named(disk, d, path[Len(path)])
  IN  IF js = {} THEN Missing ELSE disk[d][Least(js)].id

\* A directory that holds only files and directories, none of which shares its hash
\* with another name.
PlainDir(disk, d) ==
  /\ Len(disk[d]) >= 2
  /\ \A j \in DOMAIN disk[d] :
       /\ disk[d][j].type \in {FS_FILE, FS_DIR}
       /\ \A m \in Names : Hash[m] = Hash[disk[d][j].name] => m = disk[d][j].name

\* A path without "." and "..", whose directories all exist and are plain.
PlainPath(disk, path) ==
  /\ \A i \in DOMAIN path : path[i] \notin Hidden
  /\ \A i \in 0 .. (Len(path) - 1) :
       Reach(disk, path)[i] # Missing /\ PlainDir(disk, Reach(disk, path)[i])
=============================================================================
