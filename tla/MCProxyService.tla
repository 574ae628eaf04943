--------------------------- MODULE MCProxyService ---------------------------
(* Model-checking instance of ProxyService: two specs that come to one      *)
(* domain, an L4 one and a private one, backends of every kind, and a Group *)
(* object that has its id or not.                                           *)
EXTENDS ProxyService

CONSTANTS r1, r2

MCSpec(domain, mode, private, refs) ==
    [domain |-> domain, mode |-> mode, listen |-> mode # "http", private |-> private,
     groups |-> refs, proxyProtocol |-> mode = "tcp", backends |-> 1,
     restrictions |-> [crowdsec |-> IF private THEN "observe" ELSE None,
                       lists |-> IF mode = "tcp" THEN {"blockedCidrs"} ELSE None]]

MCSpecs == {MCSpec(<<"mail", "smtp">>, "http", FALSE, {"name"}),
            MCSpec(<<"mail">>, "http", TRUE, {"id", "localRef"}),
            MCSpec(<<"mail">>, "tcp", FALSE, {})}

LoadBalancer(v4, v6) ==
    [type |-> "LoadBalancer", port |-> <<"smtp">>, record |-> TRUE, v4 |-> v4, v6 |-> v6]

MCBackends == {None, [LoadBalancer("none", "none") EXCEPT !.type = "ClusterIP", !.record = FALSE],
               LoadBalancer(r1, r2), LoadBalancer("none", r2)}

MCGroups == {[known |-> TRUE, object |-> "ready"], [known |-> TRUE, object |-> "pending"]}

MCAtStart == {<<None, [known |-> TRUE, object |-> "pending"]>>,
              <<LoadBalancer(r1, r2), [known |-> TRUE, object |-> "ready"]>>}
=============================================================================
