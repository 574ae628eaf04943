---------------------------- MODULE MCHTTPRoutes ----------------------------
(* Model-checking instances of HTTPRoutes: Gateways and routes that tell *)
(* every admission and translation rule apart.                              *)
EXTENDS HTTPRoutes

Listener(host, wild, tls, from) ==
    [host |-> host, wild |-> wild, tls |-> tls, cert |-> tls, from |-> from]

(* A catch-all open to all, a wildcard for the Gateway's namespace and an  *)
(* apex open to all; a wildcard open to all; no usable listener.           *)
MCGatewaySpecs ==
    {<<Listener(<<>>, FALSE, FALSE, "All"), Listener(<<"ex">>, TRUE, TRUE, "unset"),
       Listener(<<"ex">>, FALSE, TRUE, "All")>>,
     <<Listener(<<"ex">>, TRUE, TRUE, "All")>>,
     <<Listener(<<"ex">>, FALSE, FALSE, "Same")>>}

Rule(paths, refs) ==
    [filters |-> FALSE, matches |-> [i \in 1..Len(paths) |-> [type |-> "PathPrefix", path |-> paths[i]]],
     refs |-> refs]
Ref(svc, weight) == [svc |-> svc, weight |-> weight, filters |-> FALSE]

RouteSpec(ns, parent, hosts, rules) == [ns |-> ns, parent |-> parent, hosts |-> hosts, rules |-> rules]

Good == <<Rule(<<>>, <<Ref("s", 1), Ref("u", 0)>>), Rule(<<<<"api">>>>, <<Ref("t", 1)>>)>>

(* A route of another namespace for the apex and two names under it; one   *)
(* that inherits its hostname; one with a rule that routes no traffic; one *)
(* that names another Gateway.                                             *)
MCRouteSpecs ==
    {RouteSpec("app", TRUE, <<<<"ex">>, <<"ex", "a">>, <<"ex", "b">>>>, Good),
     RouteSpec("infra", TRUE, <<>>, Good),
     RouteSpec("infra", TRUE, <<<<"ex", "a">>>>,
            <<Rule(<<>>, <<Ref("s", 1)>>), Rule(<<<<"api">>>>, <<Ref("t", 0)>>)>>),
     RouteSpec("infra", FALSE, <<<<"ex", "a">>>>, Good)}
=============================================================================
