-------------------------- MODULE RouteTranslation --------------------------
(***************************************************************************)
(* The decisions of the Gateway and HTTPRoute controllers that need no     *)
(* state (gateway_controller.go): the proxy a Gateway's listeners ask for, *)
(* the hostnames a route is admitted for, and its rules as backends.       *)
(*                                                                         *)
(* A hostname is the sequence of its labels from the right ("a.ex" is      *)
(* <<"ex", "a">>).  A listener is [host, wild, tls, cert, from]: host is   *)
(* its hostname without a leading "*.", <<>> if it has none; from is the   *)
(* allowedRoutes policy.  A route's spec is [ns, parent, hosts, rules];    *)
(* parent says whether it names the Gateway as a parent.                   *)
(***************************************************************************)
EXTENDS Naturals, Sequences, FiniteSets

CONSTANTS GatewayNS,    \* the Gateway's namespace
          MaxBackends   \* maxProxyBackends, 64 in the code

ElementsOf(s) == {s[i] : i \in 1..Len(s)}

-----------------------------------------------------------------------------
(* gatewayProxyConfig: the first listener that terminates TLS and has a    *)
(* hostname and a certificate gives the proxy its domain.                  *)
Usable(l)    == l.tls /\ l.host # <<>> /\ l.cert
HasProxy(ls) == \E l \in ElementsOf(ls) : Usable(l)
Domain(ls)   == LET first == CHOOSE i \in 1..Len(ls) :
                                Usable(ls[i]) /\ \A j \in 1..(i - 1) : ~Usable(ls[j])
                IN ls[first].host

hostnameUnderDomain(h, d) == Len(h) >= Len(d) /\ SubSeq(h, 1, Len(d)) = d
listenerUnderDomain(l, d) == l.host # <<>> /\ hostnameUnderDomain(l.host, d)

listenerHostnameMatches(l, h) ==
    \/ l.host = <<>>
    \/ l.wild /\ hostnameUnderDomain(h, l.host) /\ Len(h) > Len(l.host)
    \/ ~l.wild /\ h = l.host

(* A Selector policy denies. *)
allowedRoutesPermits(l, ns) ==
    \/ l.from = "All"
    \/ l.from \in {"unset", "Same"} /\ ns = GatewayNS

(* Mutant: a listener outside the domain also grants admission. *)
gatewayAdmitsRoute_anyListener(ls, ns, h) ==
    /\ hostnameUnderDomain(h, Domain(ls))
    /\ \E l \in ElementsOf(ls) :
         listenerHostnameMatches(l, h) /\ allowedRoutesPermits(l, ns)

gatewayAdmitsRoute(ls, ns, h) ==
    /\ hostnameUnderDomain(h, Domain(ls))
    /\ \E l \in ElementsOf(ls) :
         /\ listenerUnderDomain(l, Domain(ls))
         /\ listenerHostnameMatches(l, h) /\ allowedRoutesPermits(l, ns)

(* A route without hostnames inherits the listeners' concrete ones. *)
admittedHostnames(ls, spec) ==
    IF spec.hosts # <<>>
    THEN {h \in ElementsOf(spec.hosts) : gatewayAdmitsRoute(ls, spec.ns, h)}
    ELSE {h \in {l.host : l \in ElementsOf(ls)} :
            \E l \in ElementsOf(ls) :
                /\ l.host = h /\ ~l.wild /\ listenerUnderDomain(l, Domain(ls))
                /\ allowedRoutesPermits(l, spec.ns)}

(* Mutant: a route without hostnames is not counted. *)
listenerAttachedRoutes_named(l, specs) ==
    {s \in specs : /\ s.parent /\ allowedRoutesPermits(l, s.ns)
                   /\ \E h \in ElementsOf(s.hosts) : listenerHostnameMatches(l, h)}

(* The routes that a listener's status counts. *)
listenerAttachedRoutes(l, specs) ==
    {s \in specs : /\ s.parent /\ allowedRoutesPermits(l, s.ns)
                   /\ s.hosts = <<>> \/ \E h \in ElementsOf(s.hosts) : listenerHostnameMatches(l, h)}

(* The listeners that a Gateway's status lists as accepted. *)
listenerStatuses(ls) == {l \in ElementsOf(ls) : listenerUnderDomain(l, Domain(ls))}

-----------------------------------------------------------------------------
(* A rule is [filters, matches, refs]; a match [type, path], the path as   *)
(* its segments ("/" is <<>>, also for a match without a path or type      *)
(* PathPrefix by default); a ref is [svc, weight, filters].                *)
prefixOnly(rule) == \A m \in ElementsOf(rule.matches) : m.type = "PathPrefix"
rulePaths(rule)  == IF rule.matches = <<>> THEN {<<>>}
                    ELSE {m.path : m \in ElementsOf(rule.matches)}

LiveRefs(rule) == {i \in 1..Len(rule.refs) : rule.refs[i].weight # 0}

Supported(rule) ==
    /\ ~rule.filters /\ prefixOnly(rule)
    /\ \A ref \in ElementsOf(rule.refs) : ~ref.filters
    /\ \A i, j \in LiveRefs(rule) : rule.refs[i].weight = rule.refs[j].weight
    /\ LiveRefs(rule) # {}

(* One backend for each path and backendRef of each rule. *)
Combinations(rules) ==
    UNION {{i} \X rulePaths(rules[i]) \X LiveRefs(rules[i]) : i \in 1..Len(rules)}

routeBackends(rules) ==
    {[path |-> c[2], svc |-> rules[c[1]].refs[c[3]].svc] : c \in Combinations(rules)}

(* Mutant: a rule that routes no traffic is only refused if all are so. *)
Translates_perRoute(rules) ==
    /\ \A rule \in ElementsOf(rules) : LiveRefs(rule) = {} \/ Supported(rule)
    /\ Combinations(rules) # {} /\ Cardinality(Combinations(rules)) <= MaxBackends

(* Whether routeBackends returns ok. *)
Translates(rules) ==
    /\ \A rule \in ElementsOf(rules) : Supported(rule)
    /\ Combinations(rules) # {} /\ Cardinality(Combinations(rules)) <= MaxBackends
=============================================================================
