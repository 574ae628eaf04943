---------------------------- MODULE MCListCache ----------------------------
(* Model-checking instance of ListCache; the bounds are in the cfg. *)
EXTENDS ListCache
=============================================================================
