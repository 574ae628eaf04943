------------------------ MODULE MCProxyRegistration ------------------------
(* Model-checking instance of ProxyRegistration: the first object keeps its *)
(* spec, the second may share the address, or only the domain, or neither.  *)
EXTENDS ProxyRegistration, TLC

CONSTANTS c1, c2, d1, d2, a1, a2

MCFirst == (c1 :> {<<d1, a1>>}) @@ (c2 :> {<<d1, a1>>, <<d1, a2>>})
MCLater == (c1 :> {<<d2, a1>>, <<d1, a2>>}) @@ (c2 :> {})
=============================================================================
