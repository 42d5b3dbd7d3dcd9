------------------------------ MODULE MCMediaPath ------------------------------
(* One viewer, three layers, a ring of two packets; the sizes are in the cfgs. *)
EXTENDS MediaPath
=============================================================================
