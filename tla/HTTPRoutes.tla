----------------------------- MODULE HTTPRoutes -----------------------------
(***************************************************************************)
(* The HTTPRoute controller (gateway_controller.go): it renders one        *)
(* ReverseProxyService per hostname a route is admitted for, prunes the    *)
(* others and sets Accepted.  Several of its outcomes are not requeued:    *)
(* such a route is reconciled again only when an event of the route, of    *)
(* its Gateway or of one of its children arrives.                          *)
(***************************************************************************)
EXTENDS RouteTranslation

CONSTANTS Routes,        \* names of HTTPRoutes
          GatewaySpecs,  \* listener sequences a Gateway may have
          RouteSpecs,    \* specs a route may have
          None,
          MaxEdits,      \* bound: edits of the Gateway and of routes
          MaxFaults      \* bound: lost classes, drift, failed calls, crashes

(* A hostname is a sequence of labels. *)
ASSUME RouteValues ==
    /\ IsFiniteSet(Routes)
    /\ \A ls \in GatewaySpecs : \A l \in ElementsOf(ls) :
          l.host \in Seq(STRING) /\ l.wild \in BOOLEAN
    /\ \A s \in RouteSpecs : \A h \in ElementsOf(s.hosts) : h \in Seq(STRING)
    /\ None \notin {"True", "False"}

VARIABLES
    gateway, gwSeen,      \* the Gateway in etcd and in the informer
    routes, routesSeen,   \* the HTTPRoutes
    children, childSeen,  \* the ReverseProxyServices of each route
    class,                \* whether the GatewayClass exists
    queue, worker,        \* the work queue, and the reconcile in progress
    orphaned,             \* history: routes last reconciled without the class
    made,                 \* the objects users have created
    edits, faults

gwObjs    == <<gateway, gwSeen>>
routeObjs == <<routes, routesSeen>>
childObjs == <<children, childSeen>>
objects   == <<gwObjs, routeObjs, childObjs, class>>
work      == <<queue, worker, orphaned>>
bounds    == <<made, edits, faults>>
vars      == <<objects, work, bounds>>

(* observed is the spec the conditions were last written for. *)
Gateway == [spec: GatewaySpecs, observed: GatewaySpecs \cup {None}]
NewGateway(ls) == [spec |-> ls, observed |-> None]
Route == [spec: RouteSpecs, observed: RouteSpecs \cup {None},
          accepted: {"Unknown", "True", "False"}]
ASSUME NoRoute == None \notin Route
NewRoute(s) == [spec |-> s, observed |-> None, accepted |-> "Unknown"]

Hosts == UNION {ElementsOf(s.hosts) : s \in RouteSpecs}
         \cup {l.host : l \in UNION {ElementsOf(ls) : ls \in GatewaySpecs}}

(* A plan: the hostnames to publish, those still to apply or to delete,    *)
(* the Accepted condition to write (None: none is), and whether to return. *)
Idle == [step |-> "idle", route |-> None, obj |-> None, gw |-> None, todo |-> {},
         desired |-> {}, verdict |-> None, requeue |-> FALSE]

Enqueue(q, s) ==
    LET new == {r \in s : \A i \in 1..Len(q) : q[i] # r}
    IN q \o CHOOSE p \in [1..Cardinality(new) -> new] : ElementsOf(p) = new

HostsOf(cs) == {c.host : c \in cs}

(* A Gateway and routes that the operator has not seen yet may be there. *)
Init ==
    /\ gateway \in {None} \cup {NewGateway(ls) : ls \in GatewaySpecs} /\ gwSeen = None
    /\ routes \in [Routes -> {None} \cup {NewRoute(s) : s \in RouteSpecs}]
    /\ routesSeen = [r \in Routes |-> None]
    /\ children = [r \in Routes |-> {}] /\ childSeen = children /\ class = TRUE
    /\ queue = <<>> /\ worker = Idle /\ orphaned = {}
    /\ made = {r \in Routes : routes[r] # None} \cup (IF gateway = None THEN {} ELSE {"gateway"})
    /\ edits = 0 /\ faults = 0

-----------------------------------------------------------------------------
(* Watch events.  An informer may be behind etcd for any time; what it     *)
(* receives enqueues the object, its owner or the routes of the Gateway.   *)
DeliverRoute(r) ==
    /\ routesSeen[r] # routes[r] /\ routesSeen' = [routesSeen EXCEPT ![r] = routes[r]]
    /\ queue' = Enqueue(queue, {r})
    /\ UNCHANGED <<gwObjs, childObjs, routes, class, worker, orphaned, bounds>>

(* Mutant: the controller does not own its ReverseProxyServices. *)
DeliverChildren_notOwned(r) ==
    /\ childSeen[r] # children[r] /\ childSeen' = [childSeen EXCEPT ![r] = children[r]]
    /\ UNCHANGED <<gwObjs, routeObjs, children, class, work, bounds>>

DeliverChildren(r) ==
    /\ childSeen[r] # children[r] /\ childSeen' = [childSeen EXCEPT ![r] = children[r]]
    /\ queue' = Enqueue(queue, {r})
    /\ UNCHANGED <<gwObjs, routeObjs, children, class, worker, orphaned, bounds>>

routesForGateway == {r \in Routes : routesSeen[r] # None /\ routesSeen[r].spec.parent}

DeliverGateway ==
    /\ gwSeen # gateway /\ gwSeen' = gateway
    /\ queue' = Enqueue(queue, routesForGateway)
    /\ UNCHANGED <<routeObjs, childObjs, gateway, class, worker, orphaned, bounds>>

-----------------------------------------------------------------------------
Edit  == edits < MaxEdits /\ edits' = edits + 1 /\ UNCHANGED faults
Fault == faults < MaxFaults /\ faults' = faults + 1 /\ UNCHANGED <<made, edits>>

(* Users.  Every object is created at most once. *)
EditGateway ==
    /\ Edit
    /\ \/ \E ls \in GatewaySpecs :
            /\ gateway = None /\ "gateway" \notin made /\ made' = made \cup {"gateway"}
            /\ gateway' = NewGateway(ls)
       \/ \E ls \in GatewaySpecs :
            /\ gateway # None /\ gateway.spec # ls
            /\ gateway' = [gateway EXCEPT !.spec = ls] /\ UNCHANGED made
       \/ gateway # None /\ gateway' = None /\ UNCHANGED made
    /\ UNCHANGED <<routeObjs, childObjs, gwSeen, class, work>>

EditRoute(r) ==
    /\ Edit
    /\ \/ \E s \in RouteSpecs :
            /\ routes[r] = None /\ r \notin made /\ made' = made \cup {r}
            /\ routes' = [routes EXCEPT ![r] = NewRoute(s)]
       \/ \E s \in RouteSpecs :
            /\ routes[r] # None /\ routes[r].spec # s
            /\ routes' = [routes EXCEPT ![r].spec = s] /\ UNCHANGED made
       \/ routes[r] # None /\ routes' = [routes EXCEPT ![r] = None] /\ UNCHANGED made
    /\ UNCHANGED <<gwObjs, childObjs, routesSeen, class, work>>

ClassLost ==
    /\ Fault /\ class /\ class' = FALSE
    /\ UNCHANGED <<gwObjs, routeObjs, childObjs, work>>

(* GatewayClassReconciler: the managed class is applied again. *)
ClassEnsure ==
    /\ ~class /\ class' = TRUE
    /\ UNCHANGED <<gwObjs, routeObjs, childObjs, work, bounds>>

(* Garbage collection of a route's children, and the finalizers of the     *)
(* ReverseProxyServices.                                                   *)
Collect(r) ==
    /\ routes[r] = None /\ \E c \in children[r] : ~c.dying
    /\ children' = [children EXCEPT ![r] = {[c EXCEPT !.dying = TRUE] : c \in @}]
    /\ UNCHANGED <<gwObjs, routeObjs, childSeen, class, work, bounds>>

ChildGone(r) ==
    /\ \E c \in children[r] : c.dying /\ children' = [children EXCEPT ![r] = @ \ {c}]
    /\ UNCHANGED <<gwObjs, routeObjs, childSeen, class, work, bounds>>

(* Someone deletes a ReverseProxyService. *)
Drift(r) ==
    /\ Fault
    /\ \E c \in children[r] :
         /\ ~c.dying
         /\ children' = [children EXCEPT ![r] = (@ \ {c}) \cup {[c EXCEPT !.dying = TRUE]}]
    /\ UNCHANGED <<gwObjs, routeObjs, childSeen, class, work>>

(* The Gateway controller writes the Gateway's status: once for each spec  *)
(* (Accepted carries the generation), and again when its proxy cluster or  *)
(* its attached routes change; it writes nothing when nothing has changed. *)
GatewayStatus ==
    /\ class /\ gwSeen # None /\ gwSeen = gateway /\ gateway.observed # gateway.spec
    /\ gateway' = [gateway EXCEPT !.observed = gateway.spec]
    /\ UNCHANGED <<gwSeen, routeObjs, childObjs, class, work, bounds>>

GatewayTouched ==
    /\ gwSeen # None /\ routesForGateway # {}
    /\ queue' = Enqueue(queue, routesForGateway)
    /\ UNCHANGED <<objects, worker, orphaned, bounds>>

-----------------------------------------------------------------------------
Plan(r, hosts, verdict, requeue) ==
    [step |-> IF hosts = {} THEN "list" ELSE "apply", route |-> r, obj |-> routesSeen[r],
     gw |-> IF hosts = {} THEN None ELSE gwSeen.spec, todo |-> hosts, desired |-> hosts,
     verdict |-> verdict, requeue |-> requeue]

(* The Gateway the route names, as the informer has it. *)
NamesGateway(r) == routesSeen[r] # None /\ routesSeen[r].spec.parent /\ gwSeen # None

(* resolveGateway: and its class is one of the operator's. *)
resolveGateway(r) == NamesGateway(r) /\ class

Start ==
    /\ worker.step = "idle" /\ queue # <<>> /\ queue' = Tail(queue)
    /\ LET r      == Head(queue)
           spec   == routesSeen[r].spec
           hosts  == admittedHostnames(gwSeen.spec, spec)
       IN /\ worker' =
               IF routesSeen[r] = None THEN Idle
               ELSE IF ~resolveGateway(r) THEN Plan(r, {}, None, FALSE)
               ELSE IF ~HasProxy(gwSeen.spec) THEN Plan(r, {}, None, TRUE)
               ELSE IF ~Translates(spec.rules) THEN Plan(r, {}, "False", FALSE)
               ELSE Plan(r, hosts, IF hosts = {} THEN "False" ELSE "True", TRUE)
          /\ orphaned' = IF NamesGateway(r) /\ ~class THEN orphaned \cup {r} ELSE orphaned \ {r}
    /\ UNCHANGED <<objects, bounds>>

(* from is a history field: what the child was rendered from. *)
Rendered(w, h) ==
    [host |-> h, domain |-> Domain(w.gw), backends |-> routeBackends(w.obj.spec.rules),
     from |-> [spec |-> w.obj.spec, listeners |-> w.gw],
     dying |-> \E c \in children[w.route] : c.host = h /\ c.dying]

Applied(w, h) == [w EXCEPT !.todo = @ \ {h}, !.step = IF w.todo = {h} THEN "list" ELSE @]

(* One child, in the order of the hostnames.  A child that is being        *)
(* deleted takes the new spec and goes away all the same.                  *)
Apply ==
    /\ worker.step = "apply"
    /\ LET h == CHOOSE x \in worker.todo : TRUE
       IN /\ children' = [children EXCEPT ![worker.route] =
                            {c \in @ : c.host # h} \cup {Rendered(worker, h)}]
          /\ worker' = Applied(worker, h)
    /\ UNCHANGED <<gwObjs, routeObjs, childSeen, class, queue, orphaned, bounds>>

(* prune: what to delete is listed from the informer. *)
List ==
    /\ worker.step = "list"
    /\ worker' = [worker EXCEPT !.step = "delete",
                                !.todo = HostsOf(childSeen[worker.route]) \ worker.desired]
    /\ UNCHANGED <<objects, queue, orphaned, bounds>>

Delete ==
    /\ worker.step = "delete"
    /\ \E h \in worker.todo :
         /\ children' = [children EXCEPT ![worker.route] =
                           {[c EXCEPT !.dying = @ \/ c.host = h] : c \in @}]
         /\ worker' = [worker EXCEPT !.todo = @ \ {h}]
    /\ UNCHANGED <<gwObjs, routeObjs, childSeen, class, queue, orphaned, bounds>>

(* setRouteCondition, a write with the resource version of the copy. *)
setRouteCondition(w) ==
    IF routes[w.route] # w.obj THEN routes
    ELSE [routes EXCEPT ![w.route].accepted = w.verdict, ![w.route].observed = w.obj.spec]

(* The condition, where there is one to set, and the result. *)
Finish ==
    /\ worker.step = "delete" /\ worker.todo = {} /\ worker' = Idle
    /\ LET r == worker.route
           conflict == worker.verdict # None /\ routes[r] # worker.obj
       IN /\ routes' = IF worker.verdict = None THEN routes ELSE setRouteCondition(worker)
          /\ queue' = IF conflict \/ worker.requeue THEN Enqueue(queue, {r}) ELSE queue
    /\ UNCHANGED <<gwObjs, childObjs, routesSeen, class, orphaned, bounds>>

CallFails ==
    /\ Fault
    /\ worker.step # "idle" /\ worker' = Idle
    /\ queue' = Enqueue(queue, {worker.route})
    /\ UNCHANGED <<objects, orphaned>>

(* A restart lists everything and enqueues it. *)
Crash ==
    /\ Fault
    /\ gwSeen' = gateway /\ routesSeen' = routes /\ childSeen' = children
    /\ worker' = Idle /\ queue' = Enqueue(<<>>, {r \in Routes : routes[r] # None})
    /\ UNCHANGED <<gateway, routes, children, class, orphaned>>

Step    == Start \/ Apply \/ List \/ Delete \/ Finish
Deliver == DeliverGateway \/ \E r \in Routes : DeliverRoute(r) \/ DeliverChildren(r)
Others  == ClassEnsure \/ GatewayStatus \/ \E r \in Routes : Collect(r) \/ ChildGone(r)

Next ==
    \/ EditGateway \/ GatewayTouched \/ ClassLost \/ CallFails \/ Crash
    \/ (\E r \in Routes : EditRoute(r) \/ Drift(r))
    \/ Step \/ Deliver \/ Others

Spec == Init /\ [][Next]_vars

(* The worker runs and its queue is FIFO; the watches deliver; the class   *)
(* and Gateway controllers, garbage collection and finalizers progress.    *)
Fairness ==
    /\ WF_vars(Step) /\ WF_vars(Others) /\ WF_vars(DeliverGateway)
    /\ \A r \in Routes : WF_vars(DeliverRoute(r)) /\ WF_vars(DeliverChildren(r))

FairSpec == Spec /\ Fairness

-----------------------------------------------------------------------------
Child == [host: Hosts, domain: Hosts,
          backends: SUBSET UNION {routeBackends(s.rules) : s \in RouteSpecs},
          from: [spec: RouteSpecs, listeners: GatewaySpecs], dying: BOOLEAN]

TypeOK ==
    /\ {gateway, gwSeen} \subseteq Gateway \cup {None}
    /\ {routes, routesSeen} \subseteq [Routes -> Route \cup {None}]
    /\ \A r \in Routes : \A c \in children[r] \cup childSeen[r] : c \in Child
    /\ \A r \in Routes : \A c, d \in children[r] : c.host = d.host => c = d
    /\ queue \in Seq(Routes) /\ Cardinality(ElementsOf(queue)) = Len(queue)
    /\ worker.step \in {"idle", "apply", "list", "delete"} /\ worker.todo \subseteq Hosts

(* architecture.md: "cross-namespace exposure requires the Gateway owner's *)
(* explicit allowedRoutes.from: All".  A hostname is published for a route *)
(* of another namespace only if a listener that names a hostname within    *)
(* the published domain, and covers this one, says All.                    *)
NoForeignClaim ==
    \A r \in Routes : \A c \in children[r] :
        c.from.spec.ns # GatewayNS =>
            \E l \in ElementsOf(c.from.listeners) :
                /\ l.from = "All" /\ l.host # <<>>
                /\ SubSeq(l.host, 1, Len(c.domain)) = c.domain
                /\ SubSeq(c.host, 1, Len(l.host)) = l.host
                /\ (c.host # l.host) = l.wild

(* listenerStatuses: "the Gateway status must not contradict routes that   *)
(* report Accepted via a non-proxy listener".  A route that is about to be *)
(* Accepted, by its own hostnames or by inherited ones, is counted by a    *)
(* listener that the status of that Gateway does not mark unused.          *)
AcceptedIsCounted ==
    worker.verdict = "True" =>
        \E l \in listenerStatuses(worker.gw) :
            listenerAttachedRoutes(l, {worker.obj.spec}) # {}

(* The longest of the prefixes ps of the request path x. *)
Best(ps, x) == {p \in ps : /\ Len(p) <= Len(x) /\ SubSeq(x, 1, Len(p)) = p
                           /\ \A q \in ps : (Len(q) <= Len(x) /\ SubSeq(x, 1, Len(q)) = q)
                                                 => Len(q) <= Len(p)}

(* The services the proxy sends x to, by the longest prefix among the      *)
(* backends bs.                                                            *)
Served(bs, x) == {b.svc : b \in {d \in bs : d.path \in Best({e.path : e \in bs}, x)}}

(* The services with a weight in the rules of a route that have its        *)
(* longest prefix of x.                                                    *)
Prefixes(rules) == UNION {rulePaths(rule) : rule \in ElementsOf(rules)}
Asked(rules, x) ==
    UNION {{ref.svc : ref \in {e \in ElementsOf(rule.refs) : e.weight # 0}} :
             rule \in {u \in ElementsOf(rules) : rulePaths(u) \cap Best(Prefixes(rules), x) # {}}}

(* routeBackends: "rather than silently widening or dropping traffic".     *)
(* Every request path is sent to the services that its rules ask for.      *)
NothingWidened ==
    \A r \in Routes : \A c \in children[r] :
        \A x \in Prefixes(c.from.spec.rules) \cup {<<>>} :
            Served(c.backends, x) = Asked(c.from.spec.rules, x)

(* The route names a Gateway that has a proxy. *)
Attached(r) == /\ routes[r] # None /\ routes[r].spec.parent
               /\ gateway # None /\ class /\ HasProxy(gateway.spec)

(* What a route should have published, as things are in etcd. *)
Desired(r) ==
    IF Attached(r) /\ Translates(routes[r].spec.rules)
    THEN {[host |-> h, domain |-> Domain(gateway.spec),
           backends |-> routeBackends(routes[r].spec.rules), dying |-> FALSE] :
            h \in admittedHostnames(gateway.spec, routes[r].spec)}
    ELSE {}

Published(r) == {[host |-> c.host, domain |-> c.domain, backends |-> c.backends,
                  dying |-> c.dying] : c \in children[r]}

(* Once interference stops a route has exactly the children it should      *)
(* have, whatever the informers had missed when it was reconciled, and,    *)
(* while attached, an Accepted condition that says whether it has any.  A  *)
(* route reconciled while the GatewayClass was missing is excepted.        *)
RoutesConverge ==
    \A r \in Routes :
        <>[](\/ r \in orphaned
             \/ /\ Published(r) = Desired(r)
                /\ Attached(r) => /\ routes[r].observed = routes[r].spec
                                  /\ routes[r].accepted = IF children[r] = {} THEN "False" ELSE "True")

(* No event of the route, of its Gateway or of its children is on its way, *)
(* and the route is neither queued nor being reconciled.                   *)
RouteAtRest(r) ==
    /\ routes[r] # None /\ worker.route # r /\ r \notin ElementsOf(queue)
    /\ routesSeen[r] = routes[r] /\ gwSeen = gateway /\ childSeen[r] = children[r]

(* No wake-up is lost: a route that nothing will reconcile again should    *)
(* not be published; what it had is being deleted, and while it is         *)
(* attached its condition says so.  A route reconciled while the           *)
(* GatewayClass was missing is excepted.                                   *)
RoutesRestSettled ==
    \A r \in Routes : RouteAtRest(r) /\ r \notin orphaned =>
        /\ Desired(r) = {} /\ \A c \in children[r] : c.dying
        /\ Attached(r) => routes[r].observed = routes[r].spec /\ routes[r].accepted = "False"

(* architecture.md: "Self-healing window is ~15 minutes.  Reconcilers      *)
(* self-requeue to re-check drift".  A route has the children it should    *)
(* have, the GatewayClass deleted and restored included.                   *)
RoutesSelfHeal == \A r \in Routes : <>[](Published(r) = Desired(r))
=============================================================================
