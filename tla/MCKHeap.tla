------------------------------ MODULE MCKHeap ------------------------------
(* Model-checking instance of KHeap: the bounds are in the .cfg files. *)
EXTENDS KHeap
=============================================================================
