-------------------------------- MODULE MCWalk --------------------------------
(* The walk by itself, on one horizontal axis or two. *)
EXTENDS Walk
=============================================================================
