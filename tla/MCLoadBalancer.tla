--------------------------- MODULE MCLoadBalancer ---------------------------
(* Model-checking instance of LoadBalancer: two IPv4 addresses, an IPv6     *)
(* address and a host name.                                                 *)
EXTENDS LoadBalancer

CONSTANTS a4, b4, a6, host

MCFamilyOf == [a \in Addresses |-> IF a \in {a4, b4} THEN "ipv4" ELSE IF a = a6 THEN "ipv6" ELSE None]

MCIngresses == {<<>>, <<a4, a6>>, <<host, b4>>, <<a4, b4>>}

Plain == [advertise |-> None, groups |-> None]
Not   == [advertise |-> "false", groups |-> None]
Yes   == [advertise |-> "true", groups |-> "g"]

MCAnnotations == {Plain, Not, Yes}

(* A Service that is older than the informer's namespaces, one that is     *)
(* advertised by default, and one that overrides its namespace.            *)
MCAtStart == {[annotations |-> Plain, ingress |-> <<>>, ns |-> None, network |-> FALSE],
              [annotations |-> Plain, ingress |-> <<host, b4>>, ns |-> Plain, network |-> TRUE],
              [annotations |-> Yes, ingress |-> <<host, b4>>, ns |-> Not, network |-> TRUE]}
=============================================================================
