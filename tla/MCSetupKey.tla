----------------------------- MODULE MCSetupKey -----------------------------
(* Model-checking instances of SetupKey; the bounds are in the cfgs. *)
EXTENDS SetupKey

(* Keys are random, so two of them hardly ever share a prefix. *)
DistinctPrefixes == [k \in Keys |-> k]
=============================================================================
