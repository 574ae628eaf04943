--------------------------- MODULE MCClusterProxy ---------------------------
(* Two profiles, one of which selects every Pod and the other, the first   *)
(* by name, is malformed; two labels, two specs and two API keys.          *)
EXTENDS ClusterProxy, TLC

CONSTANTS l1, l2

ProfilesValue == {1, 2}
LabelsValue   == {l1, l2}
SelectorValue == (1 :> {l1}) @@ (2 :> {l1, l2})
=============================================================================
