---------------------------- MODULE MCFileCache ----------------------------
(* Model-checking instance of FileCache: three small disks. *)
EXTENDS FileCache

MCNames == {".", "..", "a", "f", "g", "s"}
\* "s" and "g" share a hash; no other names do.
MCHash == [n \in MCNames |-> CASE n = "." -> 1 [] n = ".." -> 2 [] n = "a" -> 3
                               [] n = "f" -> 4 [] n = "g" -> 5 [] n = "s" -> 5]

E(name, type, id) == [name |-> name, type |-> type, id |-> id]
Dots == << E(".", FS_DIR, "root"), E("..", FS_DIR, "root") >>

\* /f, /a/g
Plain == [d \in {"root", "dirA"} |->
            IF d = "root" THEN Dots \o << E("f", FS_FILE, "F"), E("a", FS_DIR, "dirA") >>
            ELSE Dots \o << E("g", FS_FILE, "G") >>]
\* A symbolic link in the root, and an entry of type 0 before the last of dirA.
Linked == [d \in {"root", "dirA"} |->
            IF d = "root" THEN Dots \o << E("s", FS_SYMLINK, "link"), E("f", FS_FILE, "F"),
                                          E("a", FS_DIR, "dirA") >>
            ELSE Dots \o << E("f", FS_UNKNOWN, "F"), E("g", FS_FILE, "G") >>]
\* /s/f, where /g would have the same hash.
Shadowed == [d \in {"root", "dirA"} |->
            IF d = "root" THEN Dots \o << E("s", FS_DIR, "dirA"), E("g", FS_FILE, "G") >>
            ELSE Dots \o << E("f", FS_FILE, "F") >>]

MCTrees == {Plain, Linked, Shadowed}
MCPlainTree == {Plain}
MCPaths == {<<"f">>, <<"g">>, <<"a">>, <<"a", "g">>, <<"a", "f">>, <<"s", "f">>, <<"g", "f">>,
            <<"f", "f">>, <<"f", "a", "g">>, <<"a", "..", "f">>}
=============================================================================
