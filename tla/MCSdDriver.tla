----------------------------- MODULE MCSdDriver ----------------------------
(* Model-checking instance of SdDriver: the bounds are in the .cfg files. *)
EXTENDS SdDriver
=============================================================================
