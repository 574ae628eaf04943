--------------------------- MODULE MCNetworkRouter --------------------------
(* Model-checking instance of NetworkRouter; the bounds are in the cfg. *)
EXTENDS NetworkRouter
=============================================================================
