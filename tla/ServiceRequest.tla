--------------------------- MODULE ServiceRequest ---------------------------
(***************************************************************************)
(* How a ReverseProxyService is rendered into NetBird's ServiceRequest     *)
(* (reverseproxyservice_mirror.go), as pure operators: the rules the CRD   *)
(* puts on a spec, what a backend Service resolves to, and the request.    *)
(***************************************************************************)
EXTENDS Naturals, Sequences

CONSTANTS Specs,      \* the specs users write
          Resources,  \* NetBird ids of advertised NetworkResources
          None

Modes == {"http", "tcp", "tls", "udp"}

(* The rules of the CRD (XValidation). *)
Admitted(s) ==
    /\ s.private => s.groups # {} /\ s.mode = "http"
    /\ s.listen <=> s.mode # "http"
    /\ s.proxyProtocol => s.mode \in {"tcp", "tls"}
    /\ s.mode # "http" => s.backends = 1

(* The restrictions of a spec: lists is the set of the lists it has, a     *)
(* list without an entry is not sent, and nothing at all is sent for a     *)
(* spec with neither a CrowdSec mode nor lists.                            *)
Restrictions == [crowdsec: {None, "off", "observe", "enforce"},
                 lists: {None} \cup SUBSET {"allowedCidrs", "blockedCidrs", "allowedCountries",
                                           "blockedCountries"}]

(* The ways a spec refers to an access group. *)
Refs == {"name", "id", "localRef"}

(* A domain's first label is a sequence of words joined by hyphens. *)
ASSUME SpecsAdmitted ==
    \A s \in Specs : /\ s.mode \in Modes /\ s.groups \subseteq Refs /\ s.backends \in {1, 2} /\ Len(s.domain) > 0
                     /\ s.restrictions \in Restrictions /\ Admitted(s)

(* The backend Service: a ClusterIP, or a LoadBalancer whose DNSRecord     *)
(* exists or not and whose NetworkResources (by family) have an id or not; *)
(* port is the name of the port the backend addresses.                     *)
Backend == [type: {"ClusterIP", "LoadBalancer"}, port: Seq(STRING), record: BOOLEAN,
            v4: Resources \cup {None, "none"}, v6: Resources \cup {None, "none"}]

(* The access groups: NetBird has the one that is named or given by id,    *)
(* and the Group object is missing, has no id yet, or has one.             *)
GroupState == [known: BOOLEAN, object: {None, "pending", "ready"}]

(* The mode of the request, and the protocol to the backend: a tls service *)
(* ends TLS at the proxy; a spec without a mode is an HTTP one.            *)
serviceMode(m) ==
    CASE m = "tcp" -> [mode |-> "tcp", protocol |-> "tcp"]
      [] m = "tls" -> [mode |-> "tls", protocol |-> "tcp"]
      [] m = "udp" -> [mode |-> "udp", protocol |-> "udp"]
      [] OTHER     -> [mode |-> "http", protocol |-> "http"]

accessRestrictionsFor(r) ==
    IF r.crowdsec = None /\ r.lists = None THEN None
    ELSE [r EXCEPT !.lists = IF @ = None THEN {} ELSE @]

portLabelDomain(domain, label) == domain \o label

(* preferL4Resource: IPv4 before IPv6 ("none": no such NetworkResource). *)
preferL4Resource(b) == IF b.v4 # "none" THEN b.v4 ELSE b.v6

(* What the backend resolves to: a target, or why there is none. *)
resolveBackend(b) ==
    IF b = None \/ (b.type = "LoadBalancer" /\ ~b.record) THEN "dependency"
    ELSE IF b.type = "LoadBalancer" THEN "mesh" ELSE "cluster.local"

resolveL4Backend(b) ==
    IF b = None THEN "dependency"
    ELSE IF b.type # "LoadBalancer" THEN "error"
    ELSE IF preferL4Resource(b) \in {None, "none"} THEN "dependency"
    ELSE preferL4Resource(b)

(* The target, "dependency" or "error". *)
Target(s, b) == IF s.mode = "http" THEN resolveBackend(b) ELSE resolveL4Backend(b)

(* GetGroupIDs: every reference is resolved, or the whole call fails. *)
GetGroupIDs(refs, g) ==
    \A ref \in refs : \/ ref \in {"name", "id"} /\ g.known
                      \/ ref = "localRef" /\ g.object = "ready"

(* The target of a service that can be sent: the access groups are looked  *)
(* up after the backend, for private HTTP services only.                   *)
Outcome(s, b, g) ==
    IF Target(s, b) \in {"error", "dependency"} THEN Target(s, b)
    ELSE IF s.mode = "http" /\ s.private /\ ~GetGroupIDs(s.groups, g) THEN "error"
    ELSE Target(s, b)

ServiceDomain(s, b) ==
    IF s.mode \in {"tcp", "udp"} /\ s.listen THEN portLabelDomain(s.domain, b.port) ELSE s.domain

(* Mutant: the groups are sent for every HTTP service that names them. *)
Request_groups(s, b) ==
    [domain |-> ServiceDomain(s, b), mode |-> serviceMode(s.mode), target |-> Target(s, b),
     targets |-> s.backends, listen |-> s.mode # "http" /\ s.listen,
     private |-> s.mode = "http" /\ s.private,
     groups |-> s.mode = "http" /\ s.groups # {},
     proxyProtocol |-> s.mode \in {"tcp", "tls"} /\ s.proxyProtocol,
     restrictions |-> accessRestrictionsFor(s.restrictions)]

(* The request, when the target resolves. *)
Request(s, b) ==
    [domain |-> ServiceDomain(s, b), mode |-> serviceMode(s.mode), target |-> Target(s, b),
     targets |-> s.backends, listen |-> s.mode # "http" /\ s.listen,
     private |-> s.mode = "http" /\ s.private,
     groups |-> s.mode = "http" /\ s.private /\ s.groups # {},
     proxyProtocol |-> s.mode \in {"tcp", "tls"} /\ s.proxyProtocol,
     restrictions |-> accessRestrictionsFor(s.restrictions)]

(* What NetBird asks of a service: an ACL for the private ones and for no  *)
(* other, a listen port and a mesh resource exactly for L4, one L4 target, *)
(* and the proxy protocol only where the backend is dialled over TCP.      *)
Servable(q) ==
    /\ q.groups = q.private
    /\ q.mode.mode # "http" => q.listen /\ q.targets = 1 /\ q.target \in Resources /\ ~q.private
    /\ q.mode.mode = "http" => ~q.listen /\ q.target \notin Resources
    /\ q.proxyProtocol => q.mode.protocol = "tcp"
=============================================================================
