--------------------------- MODULE MCNetworkTree ---------------------------
(* Model-checking instances of NetworkTree; the bounds are in the cfgs. *)
EXTENDS NetworkTree
=============================================================================
