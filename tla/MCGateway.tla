----------------------------- MODULE MCGateway -----------------------------
(* Model-checking instance of Gateway; the bounds are in the cfg. *)
EXTENDS Gateway
=============================================================================
