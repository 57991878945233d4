--------------------------- MODULE MCPageReserve ---------------------------
(* Model-checking instance of PageReserve: the bounds are in the .cfg files. *)
EXTENDS PageReserve
=============================================================================
