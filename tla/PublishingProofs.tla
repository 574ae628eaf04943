-------------------------- MODULE PublishingProofs --------------------------
(* Proofs about what a cluster publishes: the reverse proxy services that  *)
(* the HTTPRoute controller asks for (HTTPRoutes), for any Gateways,       *)
(* routes and hostnames and any number of edits, failed calls and crashes, *)
(* and the registrations the ReverseProxyClusters publish them through     *)
(* (ProxyRegistration), for any number of them, of domains and addresses.  *)
EXTENDS HTTPRoutes, FiniteSetTheorems, TLAPS

-----------------------------------------------------------------------------
(* The decisions (RouteTranslation). *)

(* A hostname begins with itself. *)
LEMMA WholePrefix ==
    ASSUME NEW h \in Seq(STRING)
    PROVE  SubSeq(h, 1, Len(h)) = h
  <1>1. /\ SubSeq(h, 1, Len(h)) \in Seq(STRING) /\ Len(SubSeq(h, 1, Len(h))) = Len(h)
        /\ \A i \in 1..Len(h) : SubSeq(h, 1, Len(h))[i] = h[i]
    OBVIOUS
  <1> DEFINE t == SubSeq(h, 1, Len(h))
  <1> HIDE DEF t
  <1>2. ASSUME t \in Seq(STRING), Len(t) = Len(h), \A i \in 1..Len(h) : t[i] = h[i] PROVE t = h
    BY <1>2
  <1> QED
    BY <1>1, <1>2 DEF t

(* gatewayAdmitsRoute and the inherited hostnames: each admitted hostname  *)
(* has a listener within the domain that names it and admits the route.    *)
LEMMA AdmittedBy ==
    ASSUME NEW ls \in GatewaySpecs, NEW spec \in RouteSpecs,
           NEW h \in admittedHostnames(ls, spec)
    PROVE  \E l \in ElementsOf(ls) :
             /\ listenerUnderDomain(l, Domain(ls)) /\ listenerHostnameMatches(l, h)
             /\ allowedRoutesPermits(l, spec.ns)
             /\ spec.hosts = <<>> \/ h \in ElementsOf(spec.hosts)
  <1>1. CASE spec.hosts # <<>>
    BY <1>1 DEF admittedHostnames, gatewayAdmitsRoute
  <1>2. CASE spec.hosts = <<>>
    BY <1>2 DEF admittedHostnames, listenerHostnameMatches
  <1> QED
    BY <1>1, <1>2

(* An admitted hostname is one of the Gateway's or of the route's. *)
LEMMA AdmittedType ==
    ASSUME NEW ls \in GatewaySpecs, NEW spec \in RouteSpecs
    PROVE  admittedHostnames(ls, spec) \subseteq Seq(STRING)
  BY RouteValues DEF admittedHostnames

(* allowedRoutes: a route of another namespace is admitted for a hostname  *)
(* only by a listener within the domain that covers it and says All.       *)
LEMMA ForeignNeedsAll ==
    ASSUME NEW ls \in GatewaySpecs, NEW spec \in RouteSpecs,
           NEW h \in admittedHostnames(ls, spec), spec.ns # GatewayNS
    PROVE  \E l \in ElementsOf(ls) :
             /\ l.from = "All" /\ l.host # <<>>
             /\ SubSeq(l.host, 1, Len(Domain(ls))) = Domain(ls)
             /\ SubSeq(h, 1, Len(l.host)) = l.host
             /\ (h # l.host) = l.wild
  <1>1. PICK l \in ElementsOf(ls) :
          /\ listenerUnderDomain(l, Domain(ls)) /\ listenerHostnameMatches(l, h)
          /\ allowedRoutesPermits(l, spec.ns)
    BY AdmittedBy
  <1>2. h \in Seq(STRING) /\ l.host \in Seq(STRING) /\ l.wild \in BOOLEAN
    BY AdmittedType, RouteValues
  <1>3. /\ l.from = "All" /\ l.host # <<>>
        /\ SubSeq(l.host, 1, Len(Domain(ls))) = Domain(ls)
    BY <1>1 DEF allowedRoutesPermits, listenerUnderDomain, hostnameUnderDomain
  <1>4. CASE l.wild
    <2>1. Len(h) > Len(l.host) /\ SubSeq(h, 1, Len(l.host)) = l.host
      BY <1>1, <1>3, <1>4 DEF listenerHostnameMatches, hostnameUnderDomain
    <2>2. h # l.host
      BY <1>2, <2>1
    <2> QED
      BY <1>2, <1>3, <1>4, <2>1, <2>2, Zenon
  <1>5. CASE ~l.wild
    <2>1. h = l.host
      BY <1>1, <1>3, <1>5 DEF listenerHostnameMatches
    <2>2. SubSeq(h, 1, Len(l.host)) = l.host
      BY <1>2, <2>1, WholePrefix
    <2> QED
      BY <1>2, <1>3, <1>5, <2>1, <2>2
  <1> QED
    BY <1>4, <1>5

(* listenerStatuses and listenerAttachedRoutes: a route with an admitted   *)
(* hostname is counted by a listener that is not marked unused.            *)
LEMMA AdmittedIsCounted ==
    ASSUME NEW ls \in GatewaySpecs, NEW spec \in RouteSpecs, spec.parent,
           admittedHostnames(ls, spec) # {}
    PROVE  \E l \in listenerStatuses(ls) : listenerAttachedRoutes(l, {spec}) # {}
  <1>1. PICK h \in admittedHostnames(ls, spec) : TRUE
    OBVIOUS
  <1>2. PICK l \in ElementsOf(ls) :
          /\ listenerUnderDomain(l, Domain(ls)) /\ listenerHostnameMatches(l, h)
          /\ allowedRoutesPermits(l, spec.ns)
          /\ spec.hosts = <<>> \/ h \in ElementsOf(spec.hosts)
    BY AdmittedBy
  <1>3. l \in listenerStatuses(ls)
    BY <1>2 DEF listenerStatuses
  <1>4. spec \in listenerAttachedRoutes(l, {spec})
    BY <1>2 DEF listenerAttachedRoutes
  <1> QED
    BY <1>3, <1>4

(* What routeBackends returns. *)
LEMMA BackendOf ==
    ASSUME NEW rules
    PROVE  /\ \A b \in routeBackends(rules) : \E i \in 1..Len(rules) :
                \E k \in LiveRefs(rules[i]) :
                  b.path \in rulePaths(rules[i]) /\ b.svc = rules[i].refs[k].svc
           /\ \A i \in 1..Len(rules) : \A p \in rulePaths(rules[i]), k \in LiveRefs(rules[i]) :
                \E b \in routeBackends(rules) : b.path = p /\ b.svc = rules[i].refs[k].svc
  <1>1. ASSUME NEW b \in routeBackends(rules)
        PROVE  \E i \in 1..Len(rules) : \E k \in LiveRefs(rules[i]) :
                 b.path \in rulePaths(rules[i]) /\ b.svc = rules[i].refs[k].svc
    <2>1. PICK c \in Combinations(rules) : b = [path |-> c[2], svc |-> rules[c[1]].refs[c[3]].svc]
      BY DEF routeBackends
    <2>2. PICK i \in 1..Len(rules) : c \in {i} \X rulePaths(rules[i]) \X LiveRefs(rules[i])
      BY DEF Combinations
    <2>3. c[1] = i /\ c[2] \in rulePaths(rules[i]) /\ c[3] \in LiveRefs(rules[i])
      BY <2>2
    <2> QED
      BY <2>1, <2>3
  <1>2. ASSUME NEW i \in 1..Len(rules), NEW p \in rulePaths(rules[i]), NEW k \in LiveRefs(rules[i])
        PROVE  \E b \in routeBackends(rules) : b.path = p /\ b.svc = rules[i].refs[k].svc
    <2>1. <<i, p, k>> \in {i} \X rulePaths(rules[i]) \X LiveRefs(rules[i])
      OBVIOUS
    <2>2. <<i, p, k>> \in Combinations(rules)
      BY <2>1 DEF Combinations
    <2>3. [path |-> p, svc |-> rules[i].refs[k].svc] \in routeBackends(rules)
      BY <2>2 DEF routeBackends
    <2> QED
      BY <2>3
  <1> QED
    BY <1>1, <1>2

(* routeBackends neither widens nor drops: when it accepts the rules, each *)
(* request path is served by exactly the services its rules ask for.       *)
LEMMA BackendsExact ==
    ASSUME NEW rules, Translates(rules), NEW x
    PROVE  Served(routeBackends(rules), x) = Asked(rules, x)
  <1> DEFINE B == routeBackends(rules)
  <1>1. \A rule \in ElementsOf(rules) : LiveRefs(rule) # {}
    BY DEF Translates, Supported
  <1>2. {e.path : e \in B} \subseteq Prefixes(rules)
    BY BackendOf DEF Prefixes, ElementsOf
  <1>3. ASSUME NEW p \in Prefixes(rules) PROVE p \in {e.path : e \in B}
    <2>1. PICK i \in 1..Len(rules) : p \in rulePaths(rules[i])
      BY DEF Prefixes, ElementsOf
    <2>2. PICK k \in LiveRefs(rules[i]) : TRUE
      BY <1>1 DEF ElementsOf
    <2>3. PICK b \in B : b.path = p
      BY <2>1, <2>2, BackendOf
    <2> QED
      BY <2>3
  <1>4. {e.path : e \in B} = Prefixes(rules)
    BY <1>2, <1>3
  <1> DEFINE Top == Best(Prefixes(rules), x)
  <1>5. Served(B, x) = {b.svc : b \in {d \in B : d.path \in Top}}
    BY <1>4, Zenon DEF Served
  <1> HIDE DEF Top, B
  <1>6. ASSUME NEW v \in Served(B, x) PROVE v \in Asked(rules, x)
    <2>1. PICK b \in B : b.path \in Top /\ v = b.svc
      BY <1>5
    <2>2. PICK i \in 1..Len(rules) : \E k \in LiveRefs(rules[i]) :
            b.path \in rulePaths(rules[i]) /\ b.svc = rules[i].refs[k].svc
      BY <2>1, BackendOf DEF B
    <2>3. rules[i] \in {u \in ElementsOf(rules) : rulePaths(u) \cap Top # {}}
      BY <2>1, <2>2 DEF ElementsOf
    <2>4. v \in {ref.svc : ref \in {e \in ElementsOf(rules[i].refs) : e.weight # 0}}
      BY <2>1, <2>2 DEF ElementsOf, LiveRefs
    <2> QED
      BY <2>3, <2>4 DEF Asked, Top
  <1>7. ASSUME NEW v \in Asked(rules, x) PROVE v \in Served(B, x)
    <2>1. PICK rule \in ElementsOf(rules) :
            /\ rulePaths(rule) \cap Top # {}
            /\ v \in {ref.svc : ref \in {e \in ElementsOf(rule.refs) : e.weight # 0}}
      BY DEF Asked, Top
    <2>2. PICK i \in 1..Len(rules) : rule = rules[i]
      BY DEF ElementsOf
    <2>3. PICK k \in LiveRefs(rule) : v = rule.refs[k].svc
      BY <2>1 DEF ElementsOf, LiveRefs
    <2>4. PICK p \in rulePaths(rule) : p \in Top
      BY <2>1
    <2>5. p \in rulePaths(rules[i]) /\ k \in LiveRefs(rules[i]) /\ v = rules[i].refs[k].svc
      BY <2>2, <2>3
    <2>6. \E b \in B : b.path = p /\ b.svc = rules[i].refs[k].svc
      <3>1. \A q \in rulePaths(rules[i]), n \in LiveRefs(rules[i]) :
              \E b \in routeBackends(rules) : b.path = q /\ b.svc = rules[i].refs[n].svc
        BY BackendOf
      <3> QED
        BY <2>5, <3>1 DEF B
    <2>7. PICK b \in B : b.path = p /\ b.svc = v
      BY <2>5, <2>6
    <2> QED
      BY <1>5, <2>4, <2>7
  <1> QED
    BY <1>6, <1>7 DEF B

-----------------------------------------------------------------------------
(* The inductive invariant. *)

(* A child is what Rendered made of a route and a Gateway that admit it. *)
Faithful(c) ==
    /\ c = [host |-> c.host, domain |-> c.domain, backends |-> c.backends,
            from |-> c.from, dying |-> c.dying]
    /\ c.from.spec \in RouteSpecs /\ c.from.listeners \in GatewaySpecs
    /\ c.domain = Domain(c.from.listeners)
    /\ c.backends = routeBackends(c.from.spec.rules) /\ Translates(c.from.spec.rules)
    /\ c.host \in admittedHostnames(c.from.listeners, c.from.spec)

GatewayType == gateway \in Gateway \cup {None} /\ gwSeen \in Gateway \cup {None}
RouteType == routes \in [Routes -> Route \cup {None}] /\ routesSeen \in [Routes -> Route \cup {None}]

ChildrenFaithful ==
    /\ children = [r \in Routes |-> children[r]]
    /\ \A r \in Routes : \A c \in children[r] : Faithful(c)

(* The fields of a plan, and where its route and condition come from. *)
WorkerType ==
    /\ worker = [step |-> worker.step, route |-> worker.route, obj |-> worker.obj,
                 gw |-> worker.gw, todo |-> worker.todo, desired |-> worker.desired,
                 verdict |-> worker.verdict, requeue |-> worker.requeue]
    /\ worker.step \in {"idle", "apply", "list", "delete"}
    /\ worker.step = "idle" => worker = Idle
    /\ worker.step # "idle" => /\ worker.route \in Routes /\ worker.obj \in Route
                               /\ worker.verdict \in {None, "True", "False"}

(* What is left to apply is admitted, by the Gateway and the route in hand. *)
PlanAdmitted ==
    worker.step = "apply" =>
        /\ worker.gw \in GatewaySpecs /\ Translates(worker.obj.spec.rules)
        /\ worker.todo # {} /\ worker.todo \subseteq admittedHostnames(worker.gw, worker.obj.spec)

IInv ==
    /\ GatewayType /\ RouteType /\ queue \in Seq(Routes)
    /\ ChildrenFaithful /\ WorkerType /\ PlanAdmitted /\ AcceptedIsCounted

-----------------------------------------------------------------------------
(* The work queue holds names of routes, and those it is given (Enqueue). *)
LEMMA EnqueueType ==
    ASSUME NEW q \in Seq(Routes), NEW s \in SUBSET Routes
    PROVE  /\ Enqueue(q, s) \in Seq(Routes)
           /\ ElementsOf(q) \cup s \subseteq ElementsOf(Enqueue(q, s))
  <1> DEFINE new == {r \in s : \A i \in 1..Len(q) : q[i] # r}
  <1>1. new \subseteq Routes /\ IsFiniteSet(new)
    BY RouteValues, FS_Subset
  <1> HIDE DEF new
  <1>2. Cardinality(new) \in Nat /\ ExistsBijection(1..Cardinality(new), new)
    BY <1>1, FS_CardinalityType
  <1>3. PICK f \in Bijection(1..Cardinality(new), new) : TRUE
    BY <1>2 DEF ExistsBijection
  <1>4. /\ f \in [1..Cardinality(new) -> new]
        /\ \A y \in new : \E x \in 1..Cardinality(new) : f[x] = y
    BY <1>3 DEF Bijection, Injection, Surjection
  <1>5. Len(f) = Cardinality(new)
    BY <1>1, <1>2, <1>4
  <1>6. ElementsOf(f) = new
    BY <1>2, <1>4, <1>5 DEF ElementsOf
  <1> DEFINE p == CHOOSE g \in [1..Cardinality(new) -> new] : ElementsOf(g) = new
  <1>7. p \in [1..Cardinality(new) -> new]
    BY <1>4, <1>6
  <1>8. p \in Seq(Routes)
    BY <1>1, <1>2, <1>7
  <1>9. Enqueue(q, s) = q \o p
    BY DEF Enqueue, new
  <1>10. ElementsOf(p) = new
    BY <1>4, <1>6
  <1> HIDE DEF p
  <1>11. q \o p \in Seq(Routes)
    BY <1>8
  <1>12. ElementsOf(q) \cup ElementsOf(p) \subseteq ElementsOf(q \o p)
    <2>1. \A i \in 1..Len(q) : q[i] = (q \o p)[i] /\ i \in 1..Len(q \o p)
      BY <1>8
    <2>2. \A i \in 1..Len(p) : p[i] = (q \o p)[Len(q) + i] /\ Len(q) + i \in 1..Len(q \o p)
      BY <1>8
    <2> QED
      BY <2>1, <2>2 DEF ElementsOf
  <1>13. s \subseteq ElementsOf(q) \cup new
    BY DEF new, ElementsOf
  <1> QED
    BY <1>9, <1>10, <1>11, <1>12, <1>13

(* A child that only starts to go away was rendered from the same things. *)
LEMMA DyingFaithful ==
    ASSUME NEW c, Faithful(c), NEW d
    PROVE  Faithful([c EXCEPT !.dying = d]) /\ [c EXCEPT !.dying = d].host = c.host
  <1> DEFINE e == [c EXCEPT !.dying = d]
  <1>1. c = [host |-> c.host, domain |-> c.domain, backends |-> c.backends,
             from |-> c.from, dying |-> c.dying]
    BY DEF Faithful
  <1>2. e = [host |-> c.host, domain |-> c.domain, backends |-> c.backends,
             from |-> c.from, dying |-> d]
    BY <1>1
  <1>3. e.host = c.host /\ e.domain = c.domain /\ e.backends = c.backends
        /\ e.from = c.from /\ e.dying = d
    BY <1>2
  <1> HIDE DEF e
  <1>4. Faithful(e)
    BY <1>2, <1>3 DEF Faithful
  <1> QED
    BY <1>3, <1>4 DEF e

(* Rendered: a child rendered for an admitted hostname. *)
LEMMA RenderedFaithful ==
    ASSUME NEW h, NEW w, w.gw \in GatewaySpecs, w.obj \in Route,
           Translates(w.obj.spec.rules), h \in admittedHostnames(w.gw, w.obj.spec)
    PROVE  Faithful(Rendered(w, h))
  <1> DEFINE e == Rendered(w, h)
  <1>1. /\ e = [host |-> e.host, domain |-> e.domain, backends |-> e.backends,
                from |-> e.from, dying |-> e.dying]
        /\ e.host = h /\ e.domain = Domain(w.gw) /\ e.backends = routeBackends(w.obj.spec.rules)
        /\ e.from.spec = w.obj.spec /\ e.from.listeners = w.gw
    BY DEF Rendered
  <1>2. w.obj.spec \in RouteSpecs
    BY DEF Route
  <1> HIDE DEF e
  <1>3. Faithful(e)
    BY <1>1, <1>2 DEF Faithful
  <1> QED
    BY <1>3 DEF e

(* The initial state satisfies the invariant. *)
LEMMA InitInv == Init => IInv
  <1> SUFFICES ASSUME Init PROVE IInv
    OBVIOUS
  <1>1. GatewayType
    BY DEF Init, GatewayType, Gateway, NewGateway
  <1>2. RouteType
    <2>1. \A s \in RouteSpecs : NewRoute(s) \in Route
      BY DEF NewRoute, Route
    <2> QED
      BY <2>1 DEF Init, RouteType
  <1>3. queue \in Seq(Routes)
    BY DEF Init
  <1>4. ChildrenFaithful
    BY DEF Init, ChildrenFaithful
  <1>5. WorkerType /\ PlanAdmitted /\ AcceptedIsCounted
    BY RouteValues DEF Init, WorkerType, PlanAdmitted, AcceptedIsCounted, Idle
  <1> QED
    BY <1>1, <1>2, <1>3, <1>4, <1>5 DEF IInv

-----------------------------------------------------------------------------
(* Watch events and restarts, and what users and controllers do around     *)
(* the worker, preserve the invariant.                                     *)

(* What concerns the worker alone. *)
WorkerOK == WorkerType /\ PlanAdmitted /\ AcceptedIsCounted

(* A step that leaves the worker alone keeps what is known of its plan. *)
LEMMA WorkerKept ==
    ASSUME WorkerOK, UNCHANGED worker
    PROVE  WorkerOK'
  BY DEF WorkerOK, WorkerType, PlanAdmitted, AcceptedIsCounted

(* An idle worker has no plan. *)
LEMMA WorkerIdle ==
    ASSUME worker' = Idle
    PROVE  WorkerOK'
  BY RouteValues DEF WorkerOK, WorkerType, PlanAdmitted, AcceptedIsCounted, Idle

(* Children nobody touches stay the ones their routes ask for. *)
LEMMA ChildrenKept ==
    ASSUME ChildrenFaithful, UNCHANGED children
    PROVE  ChildrenFaithful'
  BY DEF ChildrenFaithful

(* Informers. *)
LEMMA DeliverInv == ASSUME IInv, Deliver PROVE IInv'
  <1>1. CASE DeliverGateway
    <2>1. routesForGateway \in SUBSET Routes
      BY DEF routesForGateway
    <2>2. queue' \in Seq(Routes)
      BY <1>1, <2>1, EnqueueType DEF DeliverGateway, IInv
    <2>3. GatewayType' /\ RouteType'
      BY <1>1 DEF DeliverGateway, IInv, GatewayType, RouteType, routeObjs
    <2>4. ChildrenFaithful'
      BY <1>1, ChildrenKept DEF DeliverGateway, IInv, childObjs
    <2>5. WorkerOK'
      BY <1>1, WorkerKept DEF DeliverGateway, IInv, WorkerOK
    <2> QED
      BY <2>2, <2>3, <2>4, <2>5 DEF IInv, WorkerOK
  <1>2. ASSUME NEW r \in Routes, DeliverRoute(r) PROVE IInv'
    <2>2. queue' \in Seq(Routes)
      BY <1>2, EnqueueType DEF DeliverRoute, IInv
    <2>3. GatewayType' /\ RouteType'
      BY <1>2 DEF DeliverRoute, IInv, GatewayType, RouteType, gwObjs
    <2>4. ChildrenFaithful'
      BY <1>2, ChildrenKept DEF DeliverRoute, IInv, childObjs
    <2>5. WorkerOK'
      BY <1>2, WorkerKept DEF DeliverRoute, IInv, WorkerOK
    <2> QED
      BY <2>2, <2>3, <2>4, <2>5 DEF IInv, WorkerOK
  <1>3. ASSUME NEW r \in Routes, DeliverChildren(r) PROVE IInv'
    <2>2. queue' \in Seq(Routes)
      BY <1>3, EnqueueType DEF DeliverChildren, IInv
    <2>3. GatewayType' /\ RouteType'
      BY <1>3 DEF DeliverChildren, IInv, GatewayType, RouteType, gwObjs, routeObjs
    <2>4. ChildrenFaithful'
      BY <1>3, ChildrenKept DEF DeliverChildren, IInv
    <2>5. WorkerOK'
      BY <1>3, WorkerKept DEF DeliverChildren, IInv, WorkerOK
    <2> QED
      BY <2>2, <2>3, <2>4, <2>5 DEF IInv, WorkerOK
  <1> QED
    BY <1>1, <1>2, <1>3 DEF Deliver

(* Users edit the Gateway and the routes. *)
LEMMA EditInv == ASSUME IInv, EditGateway \/ \E r \in Routes : EditRoute(r) PROVE IInv'
  <1>1. CASE EditGateway
    <2>1. GatewayType'
      BY <1>1 DEF EditGateway, IInv, GatewayType, Gateway, NewGateway
    <2>2. RouteType' /\ queue' \in Seq(Routes)
      BY <1>1 DEF EditGateway, IInv, RouteType, routeObjs, work
    <2>3. ChildrenFaithful'
      BY <1>1, ChildrenKept DEF EditGateway, IInv, childObjs
    <2>4. WorkerOK'
      BY <1>1, WorkerKept DEF EditGateway, IInv, WorkerOK, work
    <2> QED
      BY <2>1, <2>2, <2>3, <2>4 DEF IInv, WorkerOK
  <1>2. ASSUME NEW r \in Routes, EditRoute(r) PROVE IInv'
    <2>1. GatewayType' /\ queue' \in Seq(Routes)
      BY <1>2 DEF EditRoute, IInv, GatewayType, gwObjs, work
    <2>2. RouteType'
      <3>1. \A s \in RouteSpecs : NewRoute(s) \in Route
        BY DEF NewRoute, Route
      <3>2. \A o \in Route, s \in RouteSpecs : [o EXCEPT !.spec = s] \in Route
        BY DEF Route
      <3>3. routes' \in [Routes -> Route \cup {None}]
        BY <1>2, <3>1, <3>2 DEF EditRoute, IInv, RouteType
      <3> QED
        BY <1>2, <3>3 DEF EditRoute, IInv, RouteType
    <2>3. ChildrenFaithful'
      BY <1>2, ChildrenKept DEF EditRoute, IInv, childObjs
    <2>4. WorkerOK'
      BY <1>2, WorkerKept DEF EditRoute, IInv, WorkerOK, work
    <2> QED
      BY <2>1, <2>2, <2>3, <2>4 DEF IInv, WorkerOK
  <1> QED
    BY <1>1, <1>2

(* The class, the Gateway's status, and events of the Gateway's proxy. *)
LEMMA GatewayInv ==
    ASSUME IInv, ClassLost \/ ClassEnsure \/ GatewayStatus \/ GatewayTouched
    PROVE  IInv'
  <1>1. UNCHANGED <<routes, routesSeen, children, worker>>
    BY DEF ClassLost, ClassEnsure, GatewayStatus, GatewayTouched, objects, routeObjs, childObjs, work
  <1>2. GatewayType'
    BY DEF ClassLost, ClassEnsure, GatewayStatus, GatewayTouched, objects, gwObjs, IInv,
           GatewayType, Gateway
  <1>3. queue' \in Seq(Routes)
    <2>1. routesForGateway \in SUBSET Routes
      BY DEF routesForGateway
    <2>2. Enqueue(queue, routesForGateway) \in Seq(Routes)
      BY <2>1, EnqueueType DEF IInv
    <2> QED
      BY <2>2 DEF ClassLost, ClassEnsure, GatewayStatus, GatewayTouched, IInv, work
  <1>4. RouteType' /\ ChildrenFaithful' /\ WorkerOK'
    BY <1>1, ChildrenKept, WorkerKept DEF IInv, RouteType, WorkerOK
  <1> QED
    BY <1>2, <1>3, <1>4 DEF IInv, WorkerOK

(* Garbage collection, finalizers and whoever deletes a child. *)
LEMMA ChildInv ==
    ASSUME IInv, NEW r \in Routes, Collect(r) \/ ChildGone(r) \/ Drift(r)
    PROVE  IInv'
  <1>1. UNCHANGED <<gateway, gwSeen, routes, routesSeen, queue, worker>>
    BY DEF Collect, ChildGone, Drift, gwObjs, routeObjs, work
  <1>2. GatewayType' /\ RouteType' /\ queue' \in Seq(Routes) /\ WorkerOK'
    BY <1>1, WorkerKept DEF IInv, GatewayType, RouteType, WorkerOK
  <1>3. ChildrenFaithful'
    <2>1. CASE Collect(r)
      <3>1. children' = [children EXCEPT ![r] = {[c EXCEPT !.dying = TRUE] : c \in children[r]}]
        BY <2>1 DEF Collect
      <3>2. \A d \in {[c EXCEPT !.dying = TRUE] : c \in children[r]} : Faithful(d)
        BY DyingFaithful, Zenon DEF IInv, ChildrenFaithful
      <3> QED
        BY <3>1, <3>2, Zenon DEF IInv, ChildrenFaithful
    <2>2. CASE ChildGone(r)
      BY <2>2, Zenon DEF ChildGone, IInv, ChildrenFaithful
    <2>3. CASE Drift(r)
      <3>1. PICK c \in children[r] :
              children' = [children EXCEPT ![r] = (children[r] \ {c}) \cup {[c EXCEPT !.dying = TRUE]}]
        BY <2>3, Zenon DEF Drift
      <3>2. Faithful([c EXCEPT !.dying = TRUE])
        BY DyingFaithful, Zenon DEF IInv, ChildrenFaithful
      <3> QED
        BY <3>1, <3>2, Zenon DEF IInv, ChildrenFaithful
    <2> QED
      BY <2>1, <2>2, <2>3
  <1> QED
    BY <1>2, <1>3 DEF IInv, WorkerOK

-----------------------------------------------------------------------------
(* Start: the plan of a reconcile, from what the informers hold. *)
LEMMA StartInv == ASSUME IInv, Start PROVE IInv'
  <1> DEFINE r == Head(queue)
             spec == routesSeen[r].spec
             hosts == admittedHostnames(gwSeen.spec, spec)
  <1>1. UNCHANGED <<gateway, gwSeen, routes, routesSeen, children>>
    BY DEF Start, objects, gwObjs, routeObjs, childObjs
  <1>2. r \in Routes /\ queue' \in Seq(Routes)
    BY DEF Start, IInv
  <1>3. GatewayType' /\ RouteType' /\ ChildrenFaithful'
    BY <1>1, ChildrenKept DEF IInv, GatewayType, RouteType
  <1>4. WorkerOK'
    <2>1. CASE routesSeen[r] = None
      BY <2>1, WorkerIdle DEF Start
    <2>2. CASE routesSeen[r] # None
      <3>1. routesSeen[r] \in Route /\ spec \in RouteSpecs
        BY <1>2, <2>2 DEF IInv, RouteType, Route
      <3>2. \/ \E v \in {None, "False"}, b \in BOOLEAN : worker' = Plan(r, {}, v, b)
            \/ /\ worker' = Plan(r, hosts, IF hosts = {} THEN "False" ELSE "True", TRUE)
               /\ resolveGateway(r) /\ Translates(spec.rules)
        BY <2>2, Zenon DEF Start
      <3>3. ASSUME NEW v \in {None, "False"}, NEW b \in BOOLEAN, worker' = Plan(r, {}, v, b)
            PROVE  WorkerOK'
        <4>1. worker' = [step |-> "list", route |-> r, obj |-> routesSeen[r], gw |-> None,
                         todo |-> {}, desired |-> {}, verdict |-> v, requeue |-> b]
          BY <3>3 DEF Plan
        <4> QED
          BY <1>2, <3>1, <4>1, RouteValues
             DEF WorkerOK, WorkerType, PlanAdmitted, AcceptedIsCounted
      <3>4. ASSUME worker' = Plan(r, hosts, IF hosts = {} THEN "False" ELSE "True", TRUE),
                   resolveGateway(r), Translates(spec.rules), hosts # {}
            PROVE  WorkerOK'
        <4>1. gwSeen.spec \in GatewaySpecs /\ spec.parent
          BY <3>4 DEF IInv, GatewayType, Gateway, resolveGateway, NamesGateway
        <4>2. \E l \in listenerStatuses(gwSeen.spec) : listenerAttachedRoutes(l, {spec}) # {}
          BY <3>1, <3>4, <4>1, AdmittedIsCounted
        <4>3. worker' = [step |-> "apply", route |-> r, obj |-> routesSeen[r], gw |-> gwSeen.spec,
                         todo |-> hosts, desired |-> hosts, verdict |-> "True", requeue |-> TRUE]
          BY <3>4, Zenon DEF Plan
        <4> HIDE DEF hosts
        <4>4. WorkerType'
          BY <1>2, <3>1, <4>3 DEF WorkerType
        <4>5. PlanAdmitted'
          <5>1. /\ worker'.gw = gwSeen.spec /\ worker'.obj.spec = spec /\ worker'.todo = hosts
            BY <4>3
          <5>2. hosts \subseteq admittedHostnames(gwSeen.spec, spec)
            BY DEF hosts
          <5> HIDE DEF spec
          <5> QED
            BY <3>4, <4>1, <5>1, <5>2, Zenon DEF PlanAdmitted
        <4>6. AcceptedIsCounted'
          BY <4>2, <4>3 DEF AcceptedIsCounted
        <4> QED
          BY <4>4, <4>5, <4>6 DEF WorkerOK
      <3> QED
        BY <3>2, <3>3, <3>4, Zenon
    <2> QED
      BY <2>1, <2>2
  <1> QED
    BY <1>2, <1>3, <1>4 DEF IInv, WorkerOK

(* Apply: the child is rendered for a hostname that is admitted. *)
LEMMA ApplyInv == ASSUME IInv, Apply PROVE IInv'
  <1> DEFINE h == CHOOSE x \in worker.todo : TRUE
             r == worker.route
             e == Rendered(worker, h)
  <1>1. UNCHANGED <<gateway, gwSeen, routes, routesSeen, queue>>
    BY DEF Apply, gwObjs, routeObjs
  <1>2. GatewayType' /\ RouteType' /\ queue' \in Seq(Routes)
    BY <1>1 DEF IInv, GatewayType, RouteType
  <1>3. h \in worker.todo /\ h \in admittedHostnames(worker.gw, worker.obj.spec)
    BY DEF Apply, IInv, PlanAdmitted
  <1>4. worker.step = "apply" /\ worker' = Applied(worker, h)
        /\ children' = [children EXCEPT ![r] = {c \in children[r] : c.host # h} \cup {e}]
    BY DEF Apply
  <1>5. Faithful(e)
    BY <1>3, <1>4, RenderedFaithful DEF IInv, WorkerType, PlanAdmitted
  <1> HIDE DEF h, e
  <1>6. ChildrenFaithful'
    BY <1>4, <1>5, Zenon DEF IInv, ChildrenFaithful
  <1>7. worker' = [worker EXCEPT !.todo = worker.todo \ {h},
                                 !.step = IF worker.todo = {h} THEN "list" ELSE "apply"]
    BY <1>4 DEF Applied
  <1> DEFINE st == IF worker.todo = {h} THEN "list" ELSE "apply"
  <1>8. worker' = [step |-> st, route |-> worker.route, obj |-> worker.obj,
                   gw |-> worker.gw, todo |-> worker.todo \ {h}, desired |-> worker.desired,
                   verdict |-> worker.verdict, requeue |-> worker.requeue]
    BY <1>7, Zenon DEF IInv, WorkerType
  <1>9. st \in {"list", "apply"} /\ (st = "apply" => worker.todo \ {h} # {})
    BY <1>3
  <1> HIDE DEF st
  <1>10. /\ worker'.gw = worker.gw /\ worker'.obj = worker.obj /\ worker'.verdict = worker.verdict
         /\ worker'.step = st /\ worker'.todo = worker.todo \ {h}
    BY <1>8
  <1>11. PlanAdmitted' /\ AcceptedIsCounted'
    BY <1>4, <1>9, <1>10, Zenon DEF IInv, PlanAdmitted, AcceptedIsCounted
  <1>12. WorkerType'
    BY <1>4, <1>8, <1>9 DEF IInv, WorkerType
  <1> QED
    BY <1>2, <1>6, <1>11, <1>12 DEF IInv

(* List and Delete: what is no longer wanted goes away. *)
LEMMA PruneInv == ASSUME IInv, List \/ Delete PROVE IInv'
  <1>1. UNCHANGED <<gateway, gwSeen, routes, routesSeen, queue>>
    BY DEF List, Delete, objects, gwObjs, routeObjs
  <1>2. GatewayType' /\ RouteType' /\ queue' \in Seq(Routes)
    BY <1>1 DEF IInv, GatewayType, RouteType
  <1>3. PICK todo : worker' = [worker EXCEPT !.step = "delete", !.todo = todo]
    <2>1. CASE List
      BY <2>1, Zenon DEF List
    <2>2. CASE Delete
      <3>1. PICK t : worker' = [worker EXCEPT !.todo = t] /\ worker.step = "delete"
        BY <2>2 DEF Delete
      <3>2. [worker EXCEPT !.todo = t] = [worker EXCEPT !.step = "delete", !.todo = t]
        BY <3>1, Zenon DEF IInv, WorkerType
      <3> QED
        BY <3>1, <3>2, Zenon
    <2> QED
      BY <2>1, <2>2, Zenon
  <1>4. worker.step # "idle"
    BY DEF List, Delete
  <1>5. worker' = [step |-> "delete", route |-> worker.route, obj |-> worker.obj,
                   gw |-> worker.gw, todo |-> todo, desired |-> worker.desired,
                   verdict |-> worker.verdict, requeue |-> worker.requeue]
    BY <1>3, Zenon DEF IInv, WorkerType
  <1>6. WorkerOK'
    BY <1>4, <1>5, Zenon DEF IInv, WorkerOK, WorkerType, PlanAdmitted, AcceptedIsCounted
  <1>7. ChildrenFaithful'
    <2>1. CASE List
      BY <2>1, ChildrenKept DEF List, IInv, objects, childObjs
    <2>2. CASE Delete
      <3>1. PICK x \in worker.todo : children' = [children EXCEPT ![worker.route] =
                        {[c EXCEPT !.dying = @ \/ c.host = x] : c \in children[worker.route]}]
        BY <2>2, Zenon DEF Delete
      <3>2. worker.route \in Routes
        BY <1>4 DEF IInv, WorkerType
      <3>3. \A d \in {[c EXCEPT !.dying = @ \/ c.host = x] : c \in children[worker.route]} : Faithful(d)
        BY <3>2, DyingFaithful, Zenon DEF IInv, ChildrenFaithful
      <3> QED
        BY <3>1, <3>3, Zenon DEF IInv, ChildrenFaithful
    <2> QED
      BY <2>1, <2>2
  <1> QED
    BY <1>2, <1>6, <1>7 DEF IInv, WorkerOK

(* Finish: the condition is written. *)
LEMMA FinishInv == ASSUME IInv, Finish PROVE IInv'
  <1>1. UNCHANGED <<gateway, gwSeen, routesSeen, children>> /\ worker' = Idle
    BY DEF Finish, gwObjs, childObjs
  <1>2. worker.route \in Routes /\ worker.obj \in Route /\ worker.verdict \in {None, "True", "False"}
    BY DEF Finish, IInv, WorkerType
  <1>3. queue' \in Seq(Routes)
    BY <1>2, EnqueueType DEF Finish, IInv
  <1>4. routes' \in [Routes -> Route \cup {None}]
    <2>1. CASE routes' = routes
      BY <2>1 DEF IInv, RouteType
    <2>2. CASE routes' # routes
      <3>1. /\ worker.verdict # None /\ routes[worker.route] = worker.obj
            /\ routes' = [routes EXCEPT ![worker.route].accepted = worker.verdict,
                                        ![worker.route].observed = worker.obj.spec]
        BY <2>2 DEF Finish, setRouteCondition
      <3>2. \A o \in Route, v \in {"True", "False"}, s \in RouteSpecs :
              [[o EXCEPT !.accepted = v] EXCEPT !.observed = s] \in Route
        BY Zenon DEF Route
      <3>3. worker.obj.spec \in RouteSpecs
        BY <1>2 DEF Route
      <3> QED
        BY <1>2, <3>1, <3>2, <3>3, Zenon DEF IInv, RouteType
    <2> QED
      BY <2>1, <2>2
  <1>5. GatewayType' /\ RouteType' /\ ChildrenFaithful' /\ WorkerOK'
    BY <1>1, <1>4, ChildrenKept, WorkerIdle DEF IInv, GatewayType, RouteType
  <1> QED
    BY <1>3, <1>5 DEF IInv, WorkerOK

(* A failed call and a restart end the reconcile. *)
LEMMA FaultInv == ASSUME IInv, CallFails \/ Crash PROVE IInv'
  <1>1. UNCHANGED <<gateway, routes, children>> /\ worker' = Idle
    BY DEF CallFails, Crash, objects, gwObjs, routeObjs, childObjs
  <1>2. GatewayType' /\ RouteType'
    BY DEF CallFails, Crash, IInv, GatewayType, RouteType, objects, gwObjs, routeObjs
  <1>3. queue' \in Seq(Routes)
    <2>1. CASE CallFails
      BY <2>1, EnqueueType DEF CallFails, IInv, WorkerType
    <2>2. CASE Crash
      <3>1. {r \in Routes : routes[r] # None} \in SUBSET Routes /\ <<>> \in Seq(Routes)
        OBVIOUS
      <3> QED
        BY <2>2, <3>1, EnqueueType, Zenon DEF Crash
    <2> QED
      BY <2>1, <2>2
  <1>4. ChildrenFaithful' /\ WorkerOK'
    BY <1>1, ChildrenKept, WorkerIdle DEF IInv
  <1> QED
    BY <1>2, <1>3, <1>4 DEF IInv, WorkerOK

(* A stuttering step. *)
LEMMA StutterInv == ASSUME IInv, UNCHANGED vars PROVE IInv'
  <1>1. UNCHANGED <<gateway, gwSeen, routes, routesSeen, children, queue, worker>>
    BY DEF vars, objects, gwObjs, routeObjs, childObjs, work
  <1> QED
    BY <1>1, ChildrenKept, WorkerKept DEF IInv, GatewayType, RouteType, WorkerOK

-----------------------------------------------------------------------------
(* The invariant holds in every reachable state. *)
THEOREM Invariance == Spec => []IInv
  <1>1. IInv /\ [Next]_vars => IInv'
    <2> SUFFICES ASSUME IInv, [Next]_vars PROVE IInv'
      OBVIOUS
    <2>1. CASE UNCHANGED vars
      BY <2>1, StutterInv
    <2>2. CASE Next
      BY <2>2, DeliverInv, EditInv, GatewayInv, ChildInv, StartInv, ApplyInv, PruneInv,
         FinishInv, FaultInv DEF Next, Step, Others
    <2> QED
      BY <2>1, <2>2
  <1> QED
    BY <1>1, InitInv, PTL DEF Spec

(* allowedRoutes: no hostname is published for a route of another          *)
(* namespace without a listener within the domain that covers it and says  *)
(* All, whatever the informers had missed when the route was reconciled.   *)
THEOREM ForeignNeverClaims == Spec => []NoForeignClaim
  <1>1. IInv => NoForeignClaim
    <2> SUFFICES ASSUME IInv, NEW r \in Routes, NEW c \in children[r], c.from.spec.ns # GatewayNS
                 PROVE  \E l \in ElementsOf(c.from.listeners) :
                          /\ l.from = "All" /\ l.host # <<>>
                          /\ SubSeq(l.host, 1, Len(c.domain)) = c.domain
                          /\ SubSeq(c.host, 1, Len(l.host)) = l.host
                          /\ (c.host # l.host) = l.wild
      BY DEF NoForeignClaim
    <2>1. Faithful(c)
      BY DEF IInv, ChildrenFaithful
    <2> QED
      BY <2>1, ForeignNeedsAll DEF Faithful
  <1> QED
    BY <1>1, Invariance, PTL

(* routeBackends: every published child sends each request path to exactly *)
(* the services that its route's longest matching rules ask for.           *)
THEOREM TrafficExact == Spec => []NothingWidened
  <1>1. IInv => NothingWidened
    <2>1. ASSUME IInv, NEW r \in Routes, NEW c \in children[r], NEW x
          PROVE  Served(c.backends, x) = Asked(c.from.spec.rules, x)
      <3>1. Faithful(c)
        BY <2>1 DEF IInv, ChildrenFaithful
      <3> QED
        BY <3>1, BackendsExact DEF Faithful
    <2> QED
      BY <2>1 DEF NothingWidened
  <1> QED
    BY <1>1, Invariance, PTL

(* setRouteCondition: a route that is about to be Accepted is counted by a *)
(* listener that the Gateway's status does not mark unused.                *)
THEOREM AcceptedCounted == Spec => []AcceptedIsCounted
  <1>1. IInv => AcceptedIsCounted
    BY DEF IInv
  <1> QED
    BY <1>1, Invariance, PTL

-----------------------------------------------------------------------------
(* No wake-up of a route is lost (RoutesRestSettled). *)

(* A Gateway with a proxy, and rules it cannot serve. *)
Hopeless(r) == /\ NamesGateway(r) /\ HasProxy(gwSeen.spec)
               /\ ~Translates(routesSeen[r].spec.rules)

(* The worker has the route in hand. *)
Held(r) == worker.step # "idle" /\ worker.route = r

(* What prune has seen of a route's children is being deleted, or is still *)
(* to be.                                                                  *)
Pruned(r, todo) ==
    \A c \in children[r] : c.dying \/ c.host \notin HostsOf(childSeen[r]) \/ c.host \in todo

(* A route that no one will reconcile was last reconciled for good reason. *)
Rested(r) ==
    routesSeen[r] # None /\ r \notin ElementsOf(queue) /\ ~Held(r) =>
        \/ r \in orphaned
        \/ /\ Pruned(r, {})
           /\ \/ ~NamesGateway(r)
              \/ /\ Hopeless(r)
                 /\ routes[r] # None => /\ routes[r].accepted = "False"
                                        /\ routes[r].observed = routesSeen[r].spec

(* The plan in progress is the one that the informers ask for. *)
InHand(r) ==
    routesSeen[r] # None /\ r \notin ElementsOf(queue) /\ Held(r) =>
        /\ worker.obj = routesSeen[r]
        /\ \/ worker.requeue
           \/ /\ worker.step # "apply" /\ worker.desired = {}
              /\ worker.step = "delete" => Pruned(r, worker.todo)
              /\ r \in orphaned \/ ~NamesGateway(r) \/ (Hopeless(r) /\ worker.verdict = "False")

(* A route is created once: one that was deleted does not come back. *)
MadeOnce == \A r \in Routes : routes[r] # None \/ routesSeen[r] # None => r \in made

(* The informer has a list of children for every route. *)
SeenType == childSeen = [r \in Routes |-> childSeen[r]]

RInv == MadeOnce /\ SeenType /\ \A r \in Routes : Rested(r) /\ InHand(r)

(* A route that is queued, or gone from the informer, owes nothing. *)
LEMMA Queued ==
    ASSUME NEW r, r \in ElementsOf(queue)' \/ routesSeen'[r] = None
    PROVE  Rested(r)' /\ InHand(r)'
  BY DEF Rested, InHand

(* Nothing that the last reconcile of a route has relied on has changed. *)
Quiet(r) ==
    /\ routesSeen'[r] = routesSeen[r] /\ childSeen'[r] = childSeen[r]
    /\ r \in ElementsOf(queue) => r \in ElementsOf(queue)'
    /\ r \in orphaned => r \in orphaned'
    /\ gwSeen' = gwSeen \/ (routesSeen[r] # None => ~routesSeen[r].spec.parent)
    /\ \A d \in children'[r] : d.dying \/ \E c \in children[r] : c.host = d.host /\ ~c.dying
    /\ routes'[r] # None /\ routesSeen[r] # None =>
         /\ routes[r] # None /\ routes'[r].accepted = routes[r].accepted
         /\ routes'[r].observed = routes[r].observed

(* What has been pruned stays pruned. *)
LEMMA PrunedKept ==
    ASSUME NEW r, Quiet(r), NEW t, Pruned(r, t)
    PROVE  \A d \in children'[r] : d.dying \/ d.host \notin HostsOf(childSeen'[r]) \/ d.host \in t
  <1> SUFFICES ASSUME NEW d \in children'[r], ~d.dying
               PROVE  d.host \notin HostsOf(childSeen'[r]) \/ d.host \in t
    OBVIOUS
  <1>1. PICK c \in children[r] : c.host = d.host /\ ~c.dying
    BY DEF Quiet
  <1>2. c.host \notin HostsOf(childSeen[r]) \/ c.host \in t
    BY <1>1 DEF Pruned
  <1>3. HostsOf(childSeen'[r]) = HostsOf(childSeen[r])
    BY Zenon DEF Quiet
  <1> QED
    BY <1>1, <1>2, <1>3, Zenon

(* The same Gateway is named, with the same outcome. *)
LEMMA NamesKept ==
    ASSUME NEW r, Quiet(r), routesSeen[r] # None
    PROVE  (~NamesGateway(r) => ~NamesGateway(r)') /\ (Hopeless(r) => Hopeless(r)')
  <1>1. CASE gwSeen' = gwSeen
    BY <1>1, Zenon DEF Quiet, NamesGateway, Hopeless
  <1>2. CASE ~routesSeen[r].spec.parent
    BY <1>2, Zenon DEF Quiet, NamesGateway, Hopeless
  <1> QED
    BY <1>1, <1>2 DEF Quiet

(* A step of others, or of the reconcile of another route. *)
LEMMA RouteKept ==
    ASSUME NEW r, Rested(r), InHand(r), Quiet(r),
           UNCHANGED worker \/ (~Held(r) /\ ~Held(r)')
    PROVE  Rested(r)' /\ InHand(r)'
  <1> SUFFICES ASSUME routesSeen'[r] # None, r \notin ElementsOf(queue)'
               PROVE  Rested(r)' /\ InHand(r)'
    BY Queued
  <1>1. /\ routesSeen[r] # None /\ r \notin ElementsOf(queue) /\ routesSeen'[r] = routesSeen[r]
        /\ r \in orphaned => r \in orphaned'
    BY DEF Quiet
  <1>2. /\ ~NamesGateway(r) => ~NamesGateway(r)'
        /\ Hopeless(r) => Hopeless(r)'
    BY <1>1, NamesKept, Zenon
  <1>3. CASE ~Held(r) /\ ~Held(r)'
    <2>1. CASE r \in orphaned
      BY <1>1, <1>3, <2>1 DEF Rested, InHand
    <2>2. CASE r \notin orphaned
      <3>1. Pruned(r, {})
        BY <1>1, <1>3, <2>2, Zenon DEF Rested
      <3>2. Pruned(r, {})'
        <4> DEFINE none == {}
        <4>1. Pruned(r, none)
          BY <3>1
        <4> HIDE DEF none
        <4>2. \A d \in children'[r] :
                d.dying \/ d.host \notin HostsOf(childSeen'[r]) \/ d.host \in none
          BY <4>1, PrunedKept, Zenon
        <4> QED
          BY <4>2, Zenon DEF Pruned, none
      <3>3. CASE ~NamesGateway(r)
        BY <1>2, <1>3, <3>2, <3>3, Zenon DEF Rested, InHand
      <3>4. CASE /\ Hopeless(r)
                 /\ routes[r] # None => /\ routes[r].accepted = "False"
                                        /\ routes[r].observed = routesSeen[r].spec
        <4>1. routes'[r] # None => /\ routes'[r].accepted = "False"
                                   /\ routes'[r].observed = routesSeen'[r].spec
          BY <1>1, <3>4, Zenon DEF Quiet
        <4> QED
          BY <1>2, <1>3, <3>2, <3>4, <4>1, Zenon DEF Rested, InHand
      <3> QED
        BY <1>1, <1>3, <2>2, <3>3, <3>4, Zenon DEF Rested
    <2> QED
      BY <2>1, <2>2
  <1>4. CASE Held(r) /\ UNCHANGED worker
    <2>1. Held(r)'
      BY <1>4 DEF Held
    <2>2. worker'.obj = routesSeen'[r]
      BY <1>1, <1>4, Zenon DEF InHand
    <2>3. CASE worker.requeue
      BY <1>4, <2>1, <2>2, <2>3, Zenon DEF Rested, InHand
    <2>4. CASE ~worker.requeue
      <3>1. /\ worker.step # "apply" /\ worker.desired = {}
            /\ worker.step = "delete" => Pruned(r, worker.todo)
            /\ r \in orphaned \/ ~NamesGateway(r) \/ (Hopeless(r) /\ worker.verdict = "False")
        BY <1>1, <1>4, <2>4, Zenon DEF InHand
      <3>2. worker'.step = "delete" => Pruned(r, worker.todo)'
        <4> SUFFICES ASSUME worker.step = "delete" PROVE Pruned(r, worker.todo)'
          BY <1>4
        <4>1. \A d \in children'[r] :
                d.dying \/ d.host \notin HostsOf(childSeen'[r]) \/ d.host \in worker.todo
          BY <3>1, PrunedKept, Zenon
        <4> QED
          BY <1>4, <4>1, Zenon DEF Pruned
      <3> QED
        BY <1>1, <1>2, <1>4, <2>1, <2>2, <3>1, <3>2, Zenon DEF Rested, InHand
    <2> QED
      BY <2>3, <2>4
  <1>5. CASE ~Held(r) /\ UNCHANGED worker
    BY <1>3, <1>5 DEF Held
  <1> QED
    BY <1>3, <1>4, <1>5

(* A step that changes neither the route nor what it has. *)
LEMMA Unchanged ==
    ASSUME NEW r, routesSeen'[r] = routesSeen[r], childSeen'[r] = childSeen[r],
           ElementsOf(queue) \subseteq ElementsOf(queue)', r \in orphaned => r \in orphaned',
           gwSeen' = gwSeen \/ (routesSeen[r] # None => ~routesSeen[r].spec.parent),
           children'[r] = children[r], routes'[r] = routes[r]
    PROVE  Quiet(r)
  <1>1. \A d \in children'[r] : d.dying \/ \E c \in children[r] : c.host = d.host /\ ~c.dying
    BY Zenon
  <1> QED
    BY <1>1, Zenon DEF Quiet

(* Watch events wake the routes they concern. *)
LEMMA DeliverRested == ASSUME IInv, RInv, Deliver PROVE RInv'
  <1>0. RouteType /\ queue \in Seq(Routes)
    BY DEF IInv
  <1>1. ASSUME DeliverGateway PROVE RInv'
    <2>1. /\ gwSeen' = gateway /\ queue' = Enqueue(queue, routesForGateway)
          /\ UNCHANGED <<routes, routesSeen, children, childSeen, worker, orphaned, made>>
      BY <1>1 DEF DeliverGateway, routeObjs, childObjs, bounds
    <2>2. ElementsOf(queue) \cup routesForGateway \subseteq ElementsOf(queue)'
      BY <1>0, <2>1, EnqueueType DEF routesForGateway
    <2>3. ASSUME NEW r \in Routes PROVE Rested(r)' /\ InHand(r)'
      <3>1. CASE r \in routesForGateway
        BY <2>2, <3>1, Queued
      <3>2. CASE r \notin routesForGateway
        <4>1. routesSeen[r] # None => ~routesSeen[r].spec.parent
          BY <3>2 DEF routesForGateway
        <4>2. Quiet(r)
          BY <2>1, <2>2, <4>1, Unchanged
        <4> QED
          BY <2>1, <4>2, RouteKept DEF RInv
      <3> QED
        BY <3>1, <3>2
    <2>4. MadeOnce' /\ SeenType'
      BY <2>1 DEF RInv, MadeOnce, SeenType
    <2> QED
      BY <2>3, <2>4, Zenon DEF RInv
  <1>2. ASSUME NEW x \in Routes, DeliverRoute(x) PROVE RInv'
    <2>1. /\ routesSeen' = [routesSeen EXCEPT ![x] = routes[x]] /\ queue' = Enqueue(queue, {x})
          /\ UNCHANGED <<gwSeen, routes, children, childSeen, worker, orphaned, made>>
      BY <1>2 DEF DeliverRoute, gwObjs, childObjs, bounds
    <2>2. ElementsOf(queue) \cup {x} \subseteq ElementsOf(queue)'
      BY <1>0, <2>1, EnqueueType
    <2>3. \A r \in Routes : routesSeen'[r] = IF r = x THEN routes[r] ELSE routesSeen[r]
      BY <1>0, <2>1 DEF RouteType
    <2>4. ASSUME NEW r \in Routes PROVE Rested(r)' /\ InHand(r)'
      <3>1. CASE r = x
        BY <2>2, <3>1, Queued
      <3>2. CASE r # x
        <4>1. Quiet(r)
          BY <2>1, <2>2, <2>3, <3>2, Unchanged
        <4> QED
          BY <2>1, <4>1, RouteKept DEF RInv
      <3> QED
        BY <3>1, <3>2
    <2>5. MadeOnce' /\ SeenType'
      BY <2>1, <2>3 DEF RInv, MadeOnce, SeenType
    <2> QED
      BY <2>4, <2>5, Zenon DEF RInv
  <1>3. ASSUME NEW x \in Routes, DeliverChildren(x) PROVE RInv'
    <2>1. /\ childSeen' = [childSeen EXCEPT ![x] = children[x]] /\ queue' = Enqueue(queue, {x})
          /\ UNCHANGED <<gwSeen, routes, routesSeen, children, worker, orphaned, made>>
      BY <1>3 DEF DeliverChildren, gwObjs, routeObjs, bounds
    <2>2. ElementsOf(queue) \cup {x} \subseteq ElementsOf(queue)'
      BY <1>0, <2>1, EnqueueType
    <2>3. ASSUME NEW r \in Routes PROVE Rested(r)' /\ InHand(r)'
      <3>1. CASE r = x
        BY <2>2, <3>1, Queued
      <3>2. CASE r # x
        <4>1. childSeen'[r] = childSeen[r]
          BY <2>1, <3>2 DEF RInv, SeenType
        <4>2. Quiet(r)
          BY <2>1, <2>2, <4>1, Unchanged
        <4> QED
          BY <2>1, <4>2, RouteKept DEF RInv
      <3> QED
        BY <3>1, <3>2
    <2> QED
      BY <2>1, <2>3 DEF RInv, MadeOnce, SeenType
  <1> QED
    BY <1>1, <1>2, <1>3 DEF Deliver

(* Users: the informers tell the controller of an edit when they see it. *)
LEMMA EditRested == ASSUME IInv, RInv, EditGateway \/ \E r \in Routes : EditRoute(r) PROVE RInv'
  <1>0. RouteType
    BY DEF IInv
  <1>1. UNCHANGED <<gwSeen, routesSeen, children, childSeen, queue, worker, orphaned>>
    BY DEF EditGateway, EditRoute, routeObjs, childObjs, gwObjs, work
  <1>2. ElementsOf(queue) \subseteq ElementsOf(queue)'
    BY <1>1
  <1>3. CASE EditGateway
    <2>1. UNCHANGED routes /\ made \subseteq made'
      BY <1>3 DEF EditGateway, routeObjs
    <2>2. ASSUME NEW r \in Routes PROVE Rested(r)' /\ InHand(r)'
      <3>1. Quiet(r)
        BY <1>1, <1>2, <2>1, Unchanged
      <3> QED
        BY <1>1, <3>1, RouteKept DEF RInv
    <2> QED
      BY <1>1, <2>1, <2>2 DEF RInv, MadeOnce, SeenType
  <1>4. ASSUME NEW x \in Routes, EditRoute(x) PROVE RInv'
    <2>1. /\ made \subseteq made' /\ \A r \in Routes : r # x => routes'[r] = routes[r]
          /\ routes'[x] # None => x \in made'
      BY <1>0, <1>4 DEF EditRoute, RouteType, RInv, MadeOnce
    <2>2. routes'[x] # None /\ routesSeen[x] # None =>
            /\ routes[x] # None /\ routes'[x].accepted = routes[x].accepted
            /\ routes'[x].observed = routes[x].observed
      <3> SUFFICES ASSUME routes'[x] # None, routesSeen[x] # None
                   PROVE  /\ routes[x] # None /\ routes'[x].accepted = routes[x].accepted
                          /\ routes'[x].observed = routes[x].observed
        OBVIOUS
      <3>1. x \in made
        BY DEF RInv, MadeOnce
      <3>2. routes[x] # None /\ \E s \in RouteSpecs : routes' = [routes EXCEPT ![x].spec = s]
        BY <1>0, <1>4, <3>1 DEF EditRoute, RouteType
      <3>3. routes[x] \in Route
        BY <1>0, <3>2 DEF RouteType
      <3> QED
        BY <1>0, <3>2, <3>3 DEF RouteType, Route
    <2>3. ASSUME NEW r \in Routes PROVE Rested(r)' /\ InHand(r)'
      <3>1. \A d \in children'[r] : d.dying \/ \E c \in children[r] : c.host = d.host /\ ~c.dying
        BY <1>1, Zenon
      <3>2. Quiet(r)
        BY <1>1, <1>2, <2>1, <2>2, <3>1, Zenon DEF Quiet
      <3> QED
        BY <1>1, <3>2, RouteKept DEF RInv
    <2>4. MadeOnce'
      BY <1>1, <2>1 DEF RInv, MadeOnce
    <2> QED
      BY <1>1, <2>3, <2>4 DEF RInv, SeenType
  <1> QED
    BY <1>3, <1>4

(* The class and the Gateway's status say nothing new of a route. *)
LEMMA GatewayRested ==
    ASSUME IInv, RInv, ClassLost \/ ClassEnsure \/ GatewayStatus \/ GatewayTouched \/ UNCHANGED vars
    PROVE  RInv'
  <1>1. UNCHANGED <<gwSeen, routes, routesSeen, children, childSeen, worker, orphaned, made>>
    BY DEF ClassLost, ClassEnsure, GatewayStatus, GatewayTouched, vars, objects, gwObjs, routeObjs,
           childObjs, work, bounds, Fault
  <1>2. ElementsOf(queue) \subseteq ElementsOf(queue)'
    <2>1. CASE queue' = queue
      BY <2>1
    <2>2. CASE GatewayTouched
      BY <2>2, EnqueueType DEF IInv, GatewayTouched, routesForGateway
    <2> QED
      BY <2>1, <2>2 DEF ClassLost, ClassEnsure, GatewayStatus, vars, work
  <1>3. ASSUME NEW r \in Routes PROVE Rested(r)' /\ InHand(r)'
    <2>1. Quiet(r)
      BY <1>1, <1>2, Unchanged
    <2> QED
      BY <1>1, <2>1, RouteKept DEF RInv
  <1> QED
    BY <1>1, <1>3 DEF RInv, MadeOnce, SeenType

(* A child that is deleted is dying. *)
LEMMA DyingField ==
    ASSUME NEW c, Faithful(c), NEW d
    PROVE  [c EXCEPT !.dying = d].dying = d
  <1>1. c = [host |-> c.host, domain |-> c.domain, backends |-> c.backends,
             from |-> c.from, dying |-> c.dying]
    BY DEF Faithful
  <1>2. [c EXCEPT !.dying = d] = [host |-> c.host, domain |-> c.domain, backends |-> c.backends,
                                  from |-> c.from, dying |-> d]
    BY <1>1
  <1> QED
    BY <1>2

(* A child that starts to go, or is gone, needs no one to prune it. *)
LEMMA ChildRested ==
    ASSUME IInv, RInv, NEW x \in Routes, Collect(x) \/ ChildGone(x) \/ Drift(x)
    PROVE  RInv'
  <1>1. UNCHANGED <<gwSeen, routes, routesSeen, childSeen, queue, worker, orphaned, made>>
    BY DEF Collect, ChildGone, Drift, gwObjs, routeObjs, work, bounds, Fault
  <1>2. ChildrenFaithful
    BY DEF IInv
  <1>3. \A c : Faithful(c) => [c EXCEPT !.dying = TRUE].dying = TRUE
    BY DyingField
  <1>4. /\ \A r \in Routes : r # x => children'[r] = children[r]
        /\ \A d \in children'[x] : d.dying \/ d \in children[x]
    <2>1. CASE Collect(x)
      <3>1. /\ \A r \in Routes : r # x => children'[r] = children[r]
            /\ children'[x] = {[c EXCEPT !.dying = TRUE] : c \in children[x]}
        BY <1>2, <2>1, Zenon DEF Collect, ChildrenFaithful
      <3> QED
        BY <1>2, <1>3, <3>1, Zenon DEF ChildrenFaithful
    <2>2. CASE ChildGone(x)
      BY <1>2, <2>2, Zenon DEF ChildGone, ChildrenFaithful
    <2>3. CASE Drift(x)
      <3>1. PICK c \in children[x] :
              children' = [children EXCEPT ![x] = (children[x] \ {c}) \cup {[c EXCEPT !.dying = TRUE]}]
        BY <2>3, Zenon DEF Drift
      <3>2. /\ \A r \in Routes : r # x => children'[r] = children[r]
            /\ children'[x] = (children[x] \ {c}) \cup {[c EXCEPT !.dying = TRUE]}
        BY <1>2, <3>1, Zenon DEF ChildrenFaithful
      <3> QED
        BY <1>2, <1>3, <3>2, Zenon DEF ChildrenFaithful
    <2> QED
      BY <2>1, <2>2, <2>3
  <1>5. ASSUME NEW r \in Routes PROVE Rested(r)' /\ InHand(r)'
    <2>1. \A d \in children'[r] : d.dying \/ \E c \in children[r] : c.host = d.host /\ ~c.dying
      BY <1>4, Zenon
    <2>2. Quiet(r)
      BY <1>1, <2>1, Zenon DEF Quiet
    <2> QED
      BY <1>1, <2>2, RouteKept DEF RInv
  <1>6. MadeOnce' /\ SeenType'
    BY <1>1 DEF RInv, MadeOnce, SeenType
  <1> QED
    BY <1>5, <1>6, Zenon DEF RInv

(* Start: a plan that is not for a return has its reason. *)
LEMMA StartRested == ASSUME IInv, RInv, Start PROVE RInv'
  <1>0. PICK x \in Routes : x = Head(queue)
    BY DEF Start, IInv
  <1>1. /\ UNCHANGED <<gwSeen, routes, routesSeen, children, childSeen, made>>
        /\ worker.step = "idle" /\ queue' = Tail(queue)
        /\ queue \in Seq(Routes) /\ queue # <<>>
    BY DEF Start, IInv, objects, gwObjs, routeObjs, childObjs, bounds
  <1>2. ElementsOf(queue) \subseteq ElementsOf(queue)' \cup {x}
    <2>1. \A i \in 2..Len(queue) : queue[i] = queue'[i - 1] /\ i - 1 \in 1..Len(queue')
      BY <1>1
    <2>2. \A i \in 1..Len(queue) : queue[i] = x \/ queue[i] \in ElementsOf(queue')
      BY <1>0, <1>1, <2>1 DEF ElementsOf
    <2> QED
      BY <2>2 DEF ElementsOf
  <1>3. orphaned' = IF NamesGateway(x) /\ ~class THEN orphaned \cup {x} ELSE orphaned \ {x}
    BY <1>0 DEF Start
  <1>4. CASE routesSeen[x] = None
    <2>1. worker' = Idle
      BY <1>0, <1>4, Zenon DEF Start
    <2>2. ASSUME NEW r \in Routes, r # x PROVE Rested(r)' /\ InHand(r)'
      <3>1. \A d \in children'[r] : d.dying \/ \E c \in children[r] : c.host = d.host /\ ~c.dying
        BY <1>1, Zenon
      <3>2. /\ r \in ElementsOf(queue) => r \in ElementsOf(queue)'
            /\ r \in orphaned => r \in orphaned'
        BY <1>2, <1>3, <2>2
      <3>3. Quiet(r)
        BY <1>1, <3>1, <3>2, Zenon DEF Quiet
      <3>4. ~Held(r) /\ ~Held(r)'
        BY <1>1, <2>1 DEF Held, Idle
      <3> QED
        BY <3>3, <3>4, RouteKept DEF RInv
    <2>3. Rested(x)' /\ InHand(x)'
      BY <1>1, <1>4, Queued
    <2>4. MadeOnce' /\ SeenType'
      BY <1>1 DEF RInv, MadeOnce, SeenType
    <2> QED
      BY <2>2, <2>3, <2>4, Zenon DEF RInv
  <1>5. CASE routesSeen[x] # None
    <2>1. \/ worker' = Plan(x, {}, None, FALSE) /\ ~resolveGateway(x)
          \/ worker' = Plan(x, {}, "False", FALSE) /\ Hopeless(x)
          \/ \E h, v : worker' = Plan(x, h, v, TRUE)
      <3>1. CASE ~resolveGateway(x)
        BY <1>0, <1>5, <3>1, Zenon DEF Start
      <3>2. CASE resolveGateway(x) /\ ~HasProxy(gwSeen.spec)
        BY <1>0, <1>5, <3>2, Zenon DEF Start
      <3>3. CASE /\ resolveGateway(x) /\ HasProxy(gwSeen.spec)
                 /\ ~Translates(routesSeen[x].spec.rules)
        BY <1>0, <1>5, <3>3, Zenon DEF Start, Hopeless, resolveGateway
      <3>4. CASE /\ resolveGateway(x) /\ HasProxy(gwSeen.spec)
                 /\ Translates(routesSeen[x].spec.rules)
        BY <1>0, <1>5, <3>4, Zenon DEF Start
      <3> QED
        BY <3>1, <3>2, <3>3, <3>4
    <2>2. /\ worker'.route = x /\ worker'.obj = routesSeen[x] /\ worker'.step \in {"list", "apply"}
          /\ \/ worker'.requeue
             \/ /\ worker'.step = "list" /\ worker'.desired = {}
                /\ ~resolveGateway(x) \/ (Hopeless(x) /\ worker'.verdict = "False")
      <3>1. CASE worker' = Plan(x, {}, None, FALSE) /\ ~resolveGateway(x)
        BY <3>1 DEF Plan
      <3>2. CASE worker' = Plan(x, {}, "False", FALSE) /\ Hopeless(x)
        BY <3>2 DEF Plan
      <3>3. ASSUME NEW h, NEW v, worker' = Plan(x, h, v, TRUE)
            PROVE  /\ worker'.route = x /\ worker'.obj = routesSeen[x]
                   /\ worker'.step \in {"list", "apply"} /\ worker'.requeue
        BY <3>3 DEF Plan
      <3> QED
        BY <2>1, <3>1, <3>2, <3>3, Zenon
    <2>3. ASSUME NEW r \in Routes, r # x PROVE Rested(r)' /\ InHand(r)'
      <3>1. \A d \in children'[r] : d.dying \/ \E c \in children[r] : c.host = d.host /\ ~c.dying
        BY <1>1, Zenon
      <3>2. /\ r \in ElementsOf(queue) => r \in ElementsOf(queue)'
            /\ r \in orphaned => r \in orphaned'
        BY <1>2, <1>3, <2>3
      <3>3. Quiet(r)
        BY <1>1, <3>1, <3>2, Zenon DEF Quiet
      <3>4. ~Held(r) /\ ~Held(r)'
        BY <1>1, <2>2, <2>3 DEF Held
      <3> QED
        BY <3>3, <3>4, RouteKept DEF RInv
    <2>4. Rested(x)'
      BY <2>2 DEF Rested, Held
    <2>5. InHand(x)'
      <3>1. (NamesGateway(x)' <=> NamesGateway(x)) /\ (Hopeless(x)' <=> Hopeless(x))
        BY <1>1, Zenon DEF NamesGateway, Hopeless
      <3>2. ~resolveGateway(x) => x \in orphaned' \/ ~NamesGateway(x)
        BY <1>3 DEF resolveGateway
      <3>3. worker'.obj = routesSeen'[x]
        BY <1>1, <2>2
      <3>4. worker'.step # "delete" /\ (worker'.step = "list" => worker'.step # "apply")
        BY <2>2
      <3> QED
        BY <2>2, <3>1, <3>2, <3>3, <3>4, Zenon DEF InHand
    <2>6. MadeOnce' /\ SeenType'
      BY <1>1 DEF RInv, MadeOnce, SeenType
    <2> QED
      BY <2>3, <2>4, <2>5, <2>6, Zenon DEF RInv
  <1> QED
    BY <1>4, <1>5

(* The reconcile of one route leaves the others alone. *)
LEMMA OthersKept ==
    ASSUME RInv, NEW r \in Routes, r # worker.route,
           UNCHANGED <<gwSeen, routesSeen, childSeen, orphaned>>,
           ElementsOf(queue) \subseteq ElementsOf(queue)',
           children'[r] = children[r], routes'[r] = routes[r],
           worker'.step = "idle" \/ worker'.route = worker.route
    PROVE  Rested(r)' /\ InHand(r)'
  <1>1. Quiet(r)
    BY Unchanged
  <1>2. ~Held(r) /\ ~Held(r)'
    BY DEF Held
  <1> QED
    BY <1>1, <1>2, RouteKept DEF RInv

(* Apply: there is something to publish, so the plan is for a return. *)
LEMMA ApplyRested == ASSUME IInv, RInv, Apply PROVE RInv'
  <1>0. PICK x \in Routes : x = worker.route
    BY DEF Apply, IInv, WorkerType
  <1>1. /\ UNCHANGED <<gwSeen, routes, routesSeen, childSeen, queue, orphaned, made>>
        /\ worker.step = "apply"
    BY DEF Apply, gwObjs, routeObjs, bounds
  <1>2. /\ worker'.route = x /\ worker'.obj = worker.obj /\ worker'.requeue = worker.requeue
        /\ worker'.step # "idle"
    BY <1>0, <1>1, Zenon DEF Apply, Applied, IInv, WorkerType
  <1>3. \A r \in Routes : r # x => children'[r] = children[r]
    BY <1>0, Zenon DEF Apply, IInv, ChildrenFaithful
  <1>4. ASSUME NEW r \in Routes, r # x PROVE Rested(r)' /\ InHand(r)'
    <2>1. /\ worker'.route = worker.route /\ r # worker.route /\ children'[r] = children[r]
          /\ ElementsOf(queue) \subseteq ElementsOf(queue)' /\ routes'[r] = routes[r]
      BY <1>0, <1>1, <1>2, <1>3, <1>4
    <2> QED
      BY <1>1, <2>1, OthersKept
  <1>5. Rested(x)' /\ InHand(x)'
    <2>1. CASE routesSeen[x] = None \/ x \in ElementsOf(queue)
      BY <1>1, <2>1, Queued
    <2>2. CASE routesSeen[x] # None /\ x \notin ElementsOf(queue)
      <3>1. worker.obj = routesSeen[x] /\ worker.requeue
        BY <1>0, <1>1, <2>2 DEF RInv, InHand, Held
      <3>2. worker'.obj = routesSeen'[x] /\ worker'.requeue /\ Held(x)'
        BY <1>1, <1>2, <3>1 DEF Held
      <3> QED
        BY <3>2, Zenon DEF Rested, InHand
    <2> QED
      BY <2>1, <2>2
  <1>6. MadeOnce' /\ SeenType'
    BY <1>1 DEF RInv, MadeOnce, SeenType
  <1> QED
    BY <1>4, <1>5, <1>6, Zenon DEF RInv

(* List: a plan that publishes nothing prunes all that the informer has. *)
LEMMA ListRested == ASSUME IInv, RInv, List PROVE RInv'
  <1>0. PICK x \in Routes : x = worker.route
    BY DEF List, IInv, WorkerType
  <1>1. /\ UNCHANGED <<gwSeen, routes, routesSeen, children, childSeen, queue, orphaned, made>>
        /\ worker.step = "list"
    BY DEF List, objects, gwObjs, routeObjs, childObjs, bounds
  <1>2. /\ worker'.route = x /\ worker'.obj = worker.obj /\ worker'.requeue = worker.requeue
        /\ worker'.step = "delete" /\ worker'.desired = worker.desired
        /\ worker'.verdict = worker.verdict
        /\ worker'.todo = HostsOf(childSeen[x]) \ worker.desired
    BY <1>0, <1>1, Zenon DEF List, IInv, WorkerType
  <1>3. ASSUME NEW r \in Routes, r # x PROVE Rested(r)' /\ InHand(r)'
    <2>1. /\ worker'.route = worker.route /\ r # worker.route /\ children'[r] = children[r]
          /\ ElementsOf(queue) \subseteq ElementsOf(queue)' /\ routes'[r] = routes[r]
      BY <1>0, <1>1, <1>2, <1>3
    <2> QED
      BY <1>1, <2>1, OthersKept
  <1>4. Rested(x)' /\ InHand(x)'
    <2>1. CASE routesSeen[x] = None \/ x \in ElementsOf(queue)
      BY <1>1, <2>1, Queued
    <2>2. CASE routesSeen[x] # None /\ x \notin ElementsOf(queue)
      <3>1. Held(x) /\ Held(x)'
        BY <1>0, <1>1, <1>2 DEF Held
      <3>2. /\ worker.obj = routesSeen[x]
            /\ \/ worker.requeue
               \/ /\ worker.desired = {}
                  /\ \/ x \in orphaned \/ ~NamesGateway(x)
                     \/ Hopeless(x) /\ worker.verdict = "False"
        BY <2>2, <3>1, Zenon DEF RInv, InHand
      <3>3. worker.desired = {} => Pruned(x, worker.todo)'
        <4> SUFFICES ASSUME worker.desired = {} PROVE Pruned(x, worker.todo)'
          OBVIOUS
        <4>1. worker'.todo = HostsOf(childSeen'[x])
          BY <1>1, <1>2
        <4> QED
          BY <4>1, Zenon DEF Pruned
      <3>4. (~NamesGateway(x) => ~NamesGateway(x)') /\ (Hopeless(x) => Hopeless(x)')
        BY <1>1, Zenon DEF NamesGateway, Hopeless
      <3>5. Rested(x)'
        BY <3>1, Zenon DEF Rested
      <3>6. worker'.step # "apply" /\ worker'.obj = routesSeen'[x]
        BY <1>1, <1>2, <3>2
      <3>7. InHand(x)'
        BY <1>1, <1>2, <3>2, <3>3, <3>4, <3>6, Zenon DEF InHand
      <3> QED
        BY <3>5, <3>7
    <2> QED
      BY <2>1, <2>2
  <1>5. MadeOnce' /\ SeenType'
    BY <1>1 DEF RInv, MadeOnce, SeenType
  <1> QED
    BY <1>3, <1>4, <1>5, Zenon DEF RInv

(* Delete: one child less to prune. *)
LEMMA DeleteRested == ASSUME IInv, RInv, Delete PROVE RInv'
  <1>0. PICK x \in Routes : x = worker.route
    BY DEF Delete, IInv, WorkerType
  <1>1. /\ UNCHANGED <<gwSeen, routes, routesSeen, childSeen, queue, orphaned, made>>
        /\ worker.step = "delete"
    BY DEF Delete, gwObjs, routeObjs, bounds
  <1>2. PICK h \in worker.todo :
          /\ children' = [children EXCEPT ![x] =
                            {[c EXCEPT !.dying = c.dying \/ c.host = h] : c \in children[x]}]
          /\ worker' = [worker EXCEPT !.todo = worker.todo \ {h}]
    BY <1>0, Zenon DEF Delete
  <1>3. /\ worker'.route = x /\ worker'.obj = worker.obj /\ worker'.requeue = worker.requeue
        /\ worker'.step = "delete" /\ worker'.desired = worker.desired
        /\ worker'.verdict = worker.verdict /\ worker'.todo = worker.todo \ {h}
    BY <1>0, <1>1, <1>2, Zenon DEF IInv, WorkerType
  <1>4. /\ \A r \in Routes : r # x => children'[r] = children[r]
        /\ children'[x] = {[c EXCEPT !.dying = c.dying \/ c.host = h] : c \in children[x]}
    BY <1>2, Zenon DEF IInv, ChildrenFaithful
  <1>5. ASSUME NEW r \in Routes, r # x PROVE Rested(r)' /\ InHand(r)'
    <2>1. /\ worker'.route = worker.route /\ r # worker.route /\ children'[r] = children[r]
          /\ ElementsOf(queue) \subseteq ElementsOf(queue)' /\ routes'[r] = routes[r]
      BY <1>0, <1>1, <1>3, <1>4, <1>5
    <2> QED
      BY <1>1, <2>1, OthersKept
  <1>6. Pruned(x, worker.todo) => Pruned(x, worker.todo)'
    <2> SUFFICES ASSUME Pruned(x, worker.todo), NEW d \in children'[x]
                 PROVE  d.dying \/ d.host \notin HostsOf(childSeen'[x]) \/ d.host \in worker'.todo
      BY Zenon DEF Pruned
    <2>1. PICK c \in children[x] : d = [c EXCEPT !.dying = c.dying \/ c.host = h]
      BY <1>4, Zenon
    <2>2. Faithful(c)
      BY DEF IInv, ChildrenFaithful
    <2>3. d.host = c.host /\ d.dying = (c.dying \/ c.host = h)
      BY <2>1, <2>2, DyingFaithful, DyingField, Zenon
    <2>4. c.dying \/ c.host \notin HostsOf(childSeen[x]) \/ c.host \in worker.todo
      BY DEF Pruned
    <2>5. HostsOf(childSeen'[x]) = HostsOf(childSeen[x])
      BY <1>1, Zenon
    <2> QED
      BY <1>3, <2>3, <2>4, <2>5, Zenon
  <1>7. Rested(x)' /\ InHand(x)'
    <2>1. CASE routesSeen[x] = None \/ x \in ElementsOf(queue)
      BY <1>1, <2>1, Queued
    <2>2. CASE routesSeen[x] # None /\ x \notin ElementsOf(queue)
      <3>1. Held(x) /\ Held(x)'
        BY <1>0, <1>1, <1>3 DEF Held
      <3>2. /\ worker.obj = routesSeen[x]
            /\ \/ worker.requeue
               \/ /\ worker.desired = {} /\ Pruned(x, worker.todo)
                  /\ \/ x \in orphaned \/ ~NamesGateway(x)
                     \/ Hopeless(x) /\ worker.verdict = "False"
        BY <1>1, <2>2, <3>1, Zenon DEF RInv, InHand
      <3>3. (~NamesGateway(x) => ~NamesGateway(x)') /\ (Hopeless(x) => Hopeless(x)')
        BY <1>1, Zenon DEF NamesGateway, Hopeless
      <3>4. Rested(x)'
        BY <3>1, Zenon DEF Rested
      <3>5. worker'.step # "apply" /\ worker'.obj = routesSeen'[x]
        BY <1>1, <1>3, <3>2
      <3>6. InHand(x)'
        BY <1>1, <1>3, <1>6, <3>2, <3>3, <3>5, Zenon DEF InHand
      <3> QED
        BY <3>4, <3>6
    <2> QED
      BY <2>1, <2>2
  <1>8. MadeOnce' /\ SeenType'
    BY <1>1 DEF RInv, MadeOnce, SeenType
  <1> QED
    BY <1>5, <1>7, <1>8, Zenon DEF RInv

(* Finish: a route that is not enqueued has been pruned, and its condition *)
(* written for the spec in the informer.                                   *)
LEMMA FinishRested == ASSUME IInv, RInv, Finish PROVE RInv'
  <1>0. PICK x \in Routes : x = worker.route
    BY DEF Finish, IInv, WorkerType
  <1>1. /\ UNCHANGED <<gwSeen, routesSeen, children, childSeen, orphaned, made>>
        /\ worker.step = "delete" /\ worker.todo = {} /\ worker'.step = "idle"
    BY DEF Finish, gwObjs, childObjs, bounds, Idle
  <1>2. /\ ElementsOf(queue) \subseteq ElementsOf(queue)'
        /\ worker.requeue \/ (worker.verdict # None /\ routes[x] # worker.obj)
             => x \in ElementsOf(queue)'
    BY <1>0, EnqueueType DEF Finish, IInv
  <1>3. routes' = IF worker.verdict = None \/ routes[x] # worker.obj THEN routes
                  ELSE [routes EXCEPT ![x].accepted = worker.verdict,
                                      ![x].observed = worker.obj.spec]
    BY <1>0, Zenon DEF Finish, setRouteCondition
  <1>4. /\ \A r \in Routes : r # x => routes'[r] = routes[r]
        /\ routes'[x] # None => routes[x] # None
    <2>1. CASE worker.verdict = None \/ routes[x] # worker.obj
      BY <1>3, <2>1
    <2>2. CASE ~(worker.verdict = None \/ routes[x] # worker.obj)
      <3>1. worker.obj # None
        BY NoRoute DEF Finish, IInv, WorkerType
      <3>2. routes' = [routes EXCEPT ![x].accepted = worker.verdict,
                                     ![x].observed = worker.obj.spec]
        BY <1>3, <2>2, Zenon
      <3>3. \A r \in Routes : r # x => routes'[r] = routes[r]
        BY <3>2, Zenon DEF IInv, RouteType
      <3> QED
        BY <2>2, <3>1, <3>3
    <2> QED
      BY <2>1, <2>2
  <1>5. ASSUME NEW r \in Routes, r # x PROVE Rested(r)' /\ InHand(r)'
    <2>1. r # worker.route /\ children'[r] = children[r] /\ routes'[r] = routes[r]
      BY <1>0, <1>1, <1>4, <1>5
    <2> QED
      BY <1>1, <1>2, <2>1, OthersKept
  <1>6. Rested(x)' /\ InHand(x)'
    <2>1. CASE routesSeen[x] = None \/ x \in ElementsOf(queue)'
      BY <1>1, <2>1, Queued
    <2>2. CASE routesSeen[x] # None /\ x \notin ElementsOf(queue)'
      <3>1. Held(x) /\ ~Held(x)'
        BY <1>0, <1>1 DEF Held
      <3>2. /\ ~worker.requeue /\ x \notin ElementsOf(queue)
            /\ worker.verdict = None \/ routes[x] = worker.obj
        BY <1>2, <2>2
      <3>3. /\ worker.obj = routesSeen[x] /\ Pruned(x, worker.todo)
            /\ \/ x \in orphaned \/ ~NamesGateway(x)
               \/ Hopeless(x) /\ worker.verdict = "False"
        BY <1>1, <2>2, <3>1, <3>2, Zenon DEF RInv, InHand
      <3>4. Pruned(x, {})'
        <4>1. Pruned(x, {})
          BY <1>1, <3>3
        <4> QED
          BY <1>1, <4>1, Zenon DEF Pruned
      <3>5. (~NamesGateway(x) => ~NamesGateway(x)') /\ (Hopeless(x) => Hopeless(x)')
        BY <1>1, Zenon DEF NamesGateway, Hopeless
      <3>6. worker.verdict = "False" => /\ routes'[x].accepted = "False"
                                        /\ routes'[x].observed = routesSeen'[x].spec
        <4> SUFFICES ASSUME worker.verdict = "False"
                     PROVE  /\ routes'[x].accepted = "False"
                            /\ routes'[x].observed = routesSeen'[x].spec
          OBVIOUS
        <4>1. routes[x] = worker.obj /\ worker.verdict # None
          BY <3>2, RouteValues
        <4>2. routes[x] \in Route
          BY <1>1, <4>1 DEF Finish, IInv, WorkerType
        <4>3. routes'[x] = [[routes[x] EXCEPT !.accepted = "False"] EXCEPT !.observed = worker.obj.spec]
          BY <1>3, <4>1, Zenon DEF IInv, RouteType
        <4>4. routes'[x].accepted = "False" /\ routes'[x].observed = worker.obj.spec
          BY <4>2, <4>3 DEF Route
        <4> QED
          BY <1>1, <3>3, <4>4
      <3>7. Rested(x)'
        BY <1>1, <3>3, <3>4, <3>5, <3>6, Zenon DEF Rested
      <3>8. InHand(x)'
        BY <3>1, Zenon DEF InHand
      <3> QED
        BY <3>7, <3>8
    <2> QED
      BY <2>1, <2>2
  <1>7. MadeOnce' /\ SeenType'
    BY <1>1, <1>4 DEF RInv, MadeOnce, SeenType
  <1> QED
    BY <1>5, <1>6, <1>7, Zenon DEF RInv

(* A failed call is retried; a restart lists everything. *)
LEMMA FaultRested == ASSUME IInv, RInv, CallFails \/ Crash PROVE RInv'
  <1>1. CASE CallFails
    <2>0. PICK x \in Routes : x = worker.route
      BY <1>1, SMTT(20) DEF CallFails, IInv, WorkerType
    <2>1. /\ UNCHANGED <<gwSeen, routes, routesSeen, children, childSeen, orphaned, made>>
          /\ worker'.step = "idle" /\ queue' = Enqueue(queue, {x})
      BY <1>1, <2>0 DEF CallFails, Fault, objects, gwObjs, routeObjs, childObjs, Idle
    <2>2. ElementsOf(queue) \cup {x} \subseteq ElementsOf(queue)'
      BY <2>1, EnqueueType DEF IInv
    <2>3. ASSUME NEW r \in Routes PROVE Rested(r)' /\ InHand(r)'
      <3>1. CASE r = x
        BY <2>2, <3>1, Queued
      <3>2. CASE r # x
        <4>1. r # worker.route /\ children'[r] = children[r] /\ routes'[r] = routes[r]
              /\ ElementsOf(queue) \subseteq ElementsOf(queue)'
          BY <2>0, <2>1, <2>2, <3>2
        <4> QED
          BY <2>1, <4>1, OthersKept
      <3> QED
        BY <3>1, <3>2
    <2>4. MadeOnce' /\ SeenType'
      BY <2>1 DEF RInv, MadeOnce, SeenType
    <2> QED
      BY <2>3, <2>4, Zenon DEF RInv
  <1>2. CASE Crash
    <2> DEFINE there == {r \in Routes : routes[r] # None}
    <2>1. /\ UNCHANGED <<routes, children, made>> /\ routesSeen' = routes /\ childSeen' = children
          /\ queue' = Enqueue(<<>>, there)
      BY <1>2 DEF Crash, Fault
    <2>2. there \subseteq ElementsOf(queue)'
      <3>1. there \in SUBSET Routes /\ <<>> \in Seq(Routes)
        OBVIOUS
      <3> HIDE DEF there
      <3> QED
        BY <2>1, <3>1, EnqueueType
    <2>3. ASSUME NEW r \in Routes PROVE Rested(r)' /\ InHand(r)'
      BY <2>1, <2>2, Queued
    <2>4. MadeOnce' /\ SeenType'
      BY <2>1 DEF RInv, MadeOnce, SeenType, IInv, ChildrenFaithful
    <2> QED
      BY <2>3, <2>4, Zenon DEF RInv
  <1> QED
    BY <1>1, <1>2

(* HTTPRoute reconciles that are not requeued: no wake-up of a route is    *)
(* lost.  One that nothing will reconcile again is rightly unpublished,    *)
(* what it had is being deleted, and its condition says so, whatever was   *)
(* edited, deleted, delivered late or interrupted before.                  *)
THEOREM NoRouteForgotten == Spec => []RoutesRestSettled
  <1>1. Init => RInv
    BY DEF Init, RInv, MadeOnce, SeenType, Rested, InHand
  <1>2. IInv /\ RInv /\ [Next]_vars => RInv'
    <2> SUFFICES ASSUME IInv, RInv, [Next]_vars PROVE RInv'
      OBVIOUS
    <2> QED
      BY DeliverRested, EditRested, GatewayRested, ChildRested, StartRested, ApplyRested,
         ListRested, DeleteRested, FinishRested, FaultRested DEF Next, Step, Others
  <1>3. IInv /\ RInv => RoutesRestSettled
    <2> SUFFICES ASSUME IInv, RInv, NEW r \in Routes, RouteAtRest(r), r \notin orphaned
                 PROVE  /\ Desired(r) = {} /\ \A c \in children[r] : c.dying
                        /\ Attached(r) => /\ routes[r].observed = routes[r].spec
                                          /\ routes[r].accepted = "False"
      BY DEF RoutesRestSettled
    <2>1. /\ routes[r] # None /\ ~Held(r) /\ r \notin ElementsOf(queue)
          /\ routesSeen[r] = routes[r] /\ gwSeen = gateway /\ childSeen[r] = children[r]
      BY DEF RouteAtRest, Held
    <2>2. /\ Pruned(r, {})
          /\ \/ ~NamesGateway(r)
             \/ /\ Hopeless(r) /\ routes[r].accepted = "False"
                /\ routes[r].observed = routesSeen[r].spec
      BY <2>1, Zenon DEF RInv, Rested
    <2>3. \A c \in children[r] : c.dying
      BY <2>1, <2>2 DEF Pruned, HostsOf
    <2>4. Attached(r) => NamesGateway(r)
      BY <2>1 DEF Attached, NamesGateway
    <2>5. Desired(r) = {}
      <3>1. ~(Attached(r) /\ Translates(routes[r].spec.rules))
        BY <2>1, <2>2, <2>4 DEF Hopeless
      <3> QED
        BY <3>1, Zenon DEF Desired
    <2> QED
      BY <2>1, <2>2, <2>3, <2>4, <2>5
  <1> QED
    BY <1>1, <1>2, <1>3, Invariance, PTL DEF Spec

-----------------------------------------------------------------------------
(* The registrations of the ReverseProxyClusters (ProxyRegistration).  No  *)
(* ReverseProxyCluster takes one away from another.                        *)
CONSTANTS CRs, Domains, Addresses, First, Later, MaxRegs
VARIABLES api, seen, deployed, domains, clusters, nextReg, regWorker, regMade, regFaults

Reg == INSTANCE ProxyRegistration
           WITH worker <- regWorker, made <- regMade, faults <- regFaults

(* A worker has these fields. *)
RegWorker(w) == w = [step |-> w.step, cr |-> w.cr, obj |-> w.obj, status |-> w.status,
                  reg |-> w.reg, target |-> w.target, blind |-> w.blind]

(* NetBird never hands out an id again. *)
FreshIDs ==
    /\ domains = [r \in Reg!Regs |-> domains[r]] /\ nextReg \in Nat
    /\ \A r \in Reg!Regs : r >= nextReg => domains[r] = None

(* The registration to be deleted has been handed out: its id will not be  *)
(* the one of another registration when the call arrives.                  *)
Handed ==
    (regWorker.step = "domDel" /\ regWorker.status.domainID \in Reg!Regs) => regWorker.status.domainID < nextReg

RegInv ==
    /\ api = [c \in CRs |-> api[c]] /\ RegWorker(regWorker)
    /\ FreshIDs /\ Handed /\ Reg!RegistrationGuard

-----------------------------------------------------------------------------
(* The initial state satisfies the invariant. *)
LEMMA RegInitInv == Reg!Init => RegInv
  <1> SUFFICES ASSUME Reg!Init PROVE RegInv
    OBVIOUS
  <1>1. RegWorker(regWorker) /\ regWorker.step = "idle"
    BY DEF Reg!Init, Reg!Idle, RegWorker
  <1>2. FreshIDs
    BY DEF Reg!Init, FreshIDs
  <1>3. Handed /\ Reg!RegistrationGuard
    BY <1>1 DEF Handed, Reg!RegistrationGuard
  <1>4. api = [c \in CRs |-> api[c]]
    BY DEF Reg!Init
  <1> QED
    BY <1>1, <1>2, <1>3, <1>4 DEF RegInv

(* A worker that is not about to delete a registration needs no guard. *)
LEMMA Unguarded ==
    ASSUME regWorker'.step \notin Reg!Guarded
    PROVE  Handed' /\ Reg!RegistrationGuard'
  BY DEF Reg!Guarded, Handed, Reg!RegistrationGuard

(* A CR the informer is not behind on, and that is live, is one of Others. *)
LEMMA SeenIsStored ==
    ASSUME NEW c \in CRs \ ({regWorker.cr} \cup Reg!Behind), Reg!Live(c)
    PROVE  c \in Reg!Others /\ seen[c] = api[c]
  BY DEF Reg!Behind, Reg!Others, Reg!Live

(* GuardCluster: the cluster registration is deleted only when no other CR *)
(* has its address.                                                        *)
LEMMA GuardClusterOK ==
    ASSUME RegWorker(regWorker), regWorker' = Reg!GuardCluster(regWorker), UNCHANGED api
    PROVE  RegWorker(regWorker') /\ Handed' /\ Reg!RegistrationGuard'
  <1> DEFINE a  == regWorker.status.address
             st == IF a # None /\ \A c \in Reg!Others : ~Reg!UsesAddress(seen[c], a)
                   THEN "cluDel" ELSE "unfinalize"
  <1>1. regWorker' = [regWorker EXCEPT !.blind = Reg!Behind, !.step = st]
    BY DEF Reg!GuardCluster
  <1>2. regWorker' = [step |-> st, cr |-> regWorker.cr, obj |-> regWorker.obj, status |-> regWorker.status,
                   reg |-> regWorker.reg, target |-> regWorker.target, blind |-> Reg!Behind]
    BY <1>1, Zenon DEF RegWorker
  <1>3. st \in {"cluDel", "unfinalize"}
        /\ (st = "cluDel" => \A c \in Reg!Others : ~Reg!UsesAddress(seen[c], a))
    OBVIOUS
  <1> HIDE DEF st
  <1>4. /\ regWorker'.step = st /\ regWorker'.cr = regWorker.cr /\ regWorker'.blind = Reg!Behind
        /\ regWorker'.status = regWorker.status
    BY <1>2
  <1>5. RegWorker(regWorker')
    BY <1>2 DEF RegWorker
  <1>6. Handed'
    BY <1>3, <1>4 DEF Handed
  <1>7. Reg!RegistrationGuard'
    <2> SUFFICES ASSUME NEW c \in CRs \ ({regWorker.cr} \cup Reg!Behind), Reg!Live(c), st = "cluDel"
                 PROVE  ~Reg!UsesAddress(api[c], a)
      BY <1>3, <1>4 DEF Reg!RegistrationGuard, Reg!Live, Reg!UsesAddress
    <2> QED
      BY <1>3, SeenIsStored, SMTT(20)
  <1> QED
    BY <1>5, <1>6, <1>7

(* GuardDomain: the domain's registration is deleted only when no other CR *)
(* has its domain or its id.                                               *)
LEMMA GuardDomainOK ==
    ASSUME RegWorker(regWorker), FreshIDs, regWorker' = Reg!GuardDomain(regWorker),
           UNCHANGED <<api, domains, nextReg>>
    PROVE  RegWorker(regWorker') /\ Handed' /\ Reg!RegistrationGuard'
  <1> DEFINE r == regWorker.status.domainID
  <1>1. CASE ~(r # None /\ domains[r] # None
               /\ \A c \in Reg!Others : ~Reg!UsesDomain(seen[c], r, domains[r].domain))
    <2>1. regWorker' = Reg!GuardCluster(regWorker)
      BY <1>1 DEF Reg!GuardDomain
    <2> QED
      BY <2>1, GuardClusterOK
  <1>2. CASE r # None /\ domains[r] # None
             /\ \A c \in Reg!Others : ~Reg!UsesDomain(seen[c], r, domains[r].domain)
    <2>1. regWorker' = [regWorker EXCEPT !.step = "domDel", !.blind = Reg!Behind]
      BY <1>2 DEF Reg!GuardDomain
    <2>2. regWorker' = [step |-> "domDel", cr |-> regWorker.cr, obj |-> regWorker.obj,
                     status |-> regWorker.status, reg |-> regWorker.reg, target |-> regWorker.target,
                     blind |-> Reg!Behind]
      BY <2>1, Zenon DEF RegWorker
    <2>3. /\ regWorker'.step = "domDel" /\ regWorker'.cr = regWorker.cr /\ regWorker'.blind = Reg!Behind
          /\ regWorker'.status = regWorker.status
      BY <2>2
    <2>4. RegWorker(regWorker')
      BY <2>2 DEF RegWorker
    <2>5. Handed'
      BY <1>2, <2>3, SMTT(20) DEF Handed, FreshIDs, Reg!Regs
    <2>6. Reg!RegistrationGuard'
      <3> SUFFICES ASSUME NEW c \in CRs \ ({regWorker.cr} \cup Reg!Behind), Reg!Live(c)
                   PROVE  ~Reg!UsesDomain(api[c], r, domains[r].domain)
        BY <2>3 DEF Reg!RegistrationGuard, Reg!Live, Reg!UsesDomain
      <3> QED
        BY <1>2, SeenIsStored
    <2> QED
      BY <2>4, <2>5, <2>6
  <1> QED
    BY <1>1, <1>2

-----------------------------------------------------------------------------
(* The worker with another status, or none of a registration in hand. *)
LEMMA WithStatus ==
    ASSUME NEW w, RegWorker(w), NEW v
    PROVE  /\ RegWorker([w EXCEPT !.status.ready = v])
           /\ RegWorker([w EXCEPT !.status.domainID = v, !.reg = None])
  <1> DEFINE a == [w EXCEPT !.status.ready = v]
             b == [w EXCEPT !.status.domainID = v]
             c == [b EXCEPT !.reg = None]
  <1>1. a = [step |-> w.step, cr |-> w.cr, obj |-> w.obj, status |-> [w.status EXCEPT !.ready = v],
             reg |-> w.reg, target |-> w.target, blind |-> w.blind]
    BY DEF RegWorker
  <1>2. b = [step |-> w.step, cr |-> w.cr, obj |-> w.obj, status |-> [w.status EXCEPT !.domainID = v],
             reg |-> w.reg, target |-> w.target, blind |-> w.blind]
    BY DEF RegWorker
  <1>3. c = [w EXCEPT !.status.domainID = v, !.reg = None]
    BY DEF RegWorker
  <1> HIDE DEF a, b
  <1>4. c = [step |-> b.step, cr |-> b.cr, obj |-> b.obj, status |-> b.status,
             reg |-> None, target |-> b.target, blind |-> b.blind]
    BY <1>2
  <1> HIDE DEF c
  <1>5. RegWorker(a) /\ RegWorker(c)
    BY <1>1, <1>4 DEF RegWorker
  <1> QED
    BY <1>3, <1>5 DEF a

(* A patch ends in a step that deletes nothing. *)
LEMMA PatchOK ==
    ASSUME api = [c \in CRs |-> api[c]], NEW w, RegWorker(w),
           NEW after \in {"idle", "validate"}, Reg!Patch(w, after)
    PROVE  api' = [c \in CRs |-> api'[c]] /\ RegWorker(regWorker') /\ regWorker'.step \notin Reg!Guarded
  <1>1. CASE regWorker' = Reg!Idle
    BY <1>1 DEF Reg!Patch, Reg!Idle, RegWorker, Reg!Guarded
  <1>2. CASE regWorker' # Reg!Idle
    <2>1. regWorker' = [w EXCEPT !.step = after, !.obj.status = w.status] /\ after = "validate"
      BY <1>2 DEF Reg!Patch
    <2>2. regWorker' = [step |-> "validate", cr |-> w.cr, obj |-> [w.obj EXCEPT !.status = w.status],
                     status |-> w.status, reg |-> w.reg, target |-> w.target, blind |-> w.blind]
      BY <2>1, Zenon DEF RegWorker
    <2>3. RegWorker(regWorker') /\ regWorker'.step = "validate"
      BY <2>2 DEF RegWorker
    <2> QED
      BY <2>3 DEF Reg!Patch, Reg!Guarded
  <1> QED
    BY <1>1, <1>2

(* A failed call ends in a step that deletes nothing. *)
LEMMA NotReadyOK ==
    ASSUME api = [c \in CRs |-> api[c]], RegWorker(regWorker), Reg!NotReady(regWorker)
    PROVE  api' = [c \in CRs |-> api'[c]] /\ RegWorker(regWorker') /\ regWorker'.step \notin Reg!Guarded
  <1>1. RegWorker([regWorker EXCEPT !.status.ready = FALSE])
    BY WithStatus, Zenon
  <1> QED
    BY <1>1, PatchOK DEF Reg!NotReady

-----------------------------------------------------------------------------
(* What happens around the worker. *)

(* Deliver, Collect, Enroll, Leave and a failed call. *)
LEMMA RegAroundInv ==
    ASSUME RegInv, UNCHANGED <<api, domains, nextReg>>, regWorker' \in {regWorker, Reg!Idle}
    PROVE  RegInv'
  <1>1. CASE regWorker' = regWorker
    BY <1>1 DEF RegInv, RegWorker, FreshIDs, Handed, Reg!RegistrationGuard, Reg!Live, Reg!UsesAddress, Reg!UsesDomain
  <1>2. CASE regWorker' = Reg!Idle
    <2>1. RegWorker(regWorker') /\ regWorker'.step \notin Reg!Guarded
      BY <1>2 DEF Reg!Idle, RegWorker, Reg!Guarded
    <2> QED
      BY <2>1, Unguarded DEF RegInv, FreshIDs, RegWorker
  <1> QED
    BY <1>1, <1>2

(* User: whoever is changed after the guard counts as not seen by it. *)
LEMMA RegUserInv == ASSUME RegInv, NEW c \in CRs, Reg!User(c) PROVE RegInv'
  <1>1. \A d \in CRs \ {c} : api'[d] = api[d]
    BY Zenon DEF Reg!User, RegInv
  <1>2. api' = [d \in CRs |-> api'[d]]
    BY Zenon DEF Reg!User, RegInv
  <1>3. UNCHANGED <<domains, nextReg>> /\ Reg!Touched(c)
    BY DEF Reg!User, Reg!netbird
  <1>4. CASE regWorker.step \in Reg!Guarded
    <2>1. regWorker' = [step |-> regWorker.step, cr |-> regWorker.cr, obj |-> regWorker.obj,
                     status |-> regWorker.status, reg |-> regWorker.reg, target |-> regWorker.target,
                     blind |-> regWorker.blind \cup {c}]
      BY <1>3, <1>4, Zenon DEF Reg!Touched, RegInv, RegWorker
    <2>2. /\ RegWorker(regWorker') /\ regWorker'.step = regWorker.step /\ regWorker'.cr = regWorker.cr
          /\ regWorker'.status = regWorker.status /\ regWorker'.target = regWorker.target
          /\ regWorker'.blind = regWorker.blind \cup {c}
      BY <2>1 DEF RegWorker
    <2>3. FreshIDs' /\ Handed'
      BY <1>3, <2>2 DEF RegInv, FreshIDs, Handed
    <2>4. Reg!RegistrationGuard'
      BY <1>1, <1>3, <2>2 DEF RegInv, Reg!RegistrationGuard, Reg!Live, Reg!UsesAddress, Reg!UsesDomain
    <2> QED
      BY <1>2, <2>2, <2>3, <2>4 DEF RegInv, RegWorker
  <1>5. CASE regWorker.step \notin Reg!Guarded
    <2>1. regWorker' = regWorker
      BY <1>3, <1>5 DEF Reg!Touched
    <2>2. Handed' /\ Reg!RegistrationGuard'
      BY <1>5, <2>1, Unguarded
    <2> QED
      BY <1>2, <1>3, <2>1, <2>2 DEF RegInv, RegWorker, FreshIDs
  <1> QED
    BY <1>4, <1>5

(* NetBird gives a new registration an id that nobody holds. *)
LEMMA RegisterOK ==
    ASSUME FreshIDs, NEW d, NEW a, Reg!Register(d, a)
    PROVE  /\ FreshIDs' /\ nextReg' = nextReg + 1
           /\ \A r : (r \in Reg!Regs => r < nextReg) => domains'[r] = domains[r]
  <1>1. nextReg \in Nat /\ nextReg' = nextReg + 1 /\ nextReg <= MaxRegs
        /\ domains' = [domains EXCEPT ![nextReg] = [domain |-> d, target |-> a]]
    BY DEF Reg!Register, FreshIDs
  <1>2. FreshIDs'
    <2>1. domains' = [r \in Reg!Regs |-> domains'[r]] /\ nextReg' \in Nat
      BY <1>1 DEF FreshIDs
    <2>2. ASSUME NEW r \in Reg!Regs, r >= nextReg' PROVE domains'[r] = None
      BY <1>1, <2>2 DEF FreshIDs, Reg!Regs
    <2> QED
      BY <2>1, <2>2 DEF FreshIDs
  <1>3. ASSUME NEW r, r \in Reg!Regs => r < nextReg PROVE domains'[r] = domains[r]
    <2>1. CASE r \in Reg!Regs
      BY <1>1, <1>3, <2>1 DEF FreshIDs, Reg!Regs
    <2>2. CASE r \notin Reg!Regs
      BY <1>1, <2>2 DEF FreshIDs
    <2> QED
      BY <2>1, <2>2
  <1> QED
    BY <1>1, <1>2, <1>3

(* Admin: a registration that someone else makes has another id than the   *)
(* one in hand; one that someone removes is gone.                          *)
LEMMA RegAdminInv == ASSUME RegInv, Reg!Admin PROVE RegInv'
  <1>1. UNCHANGED <<api, regWorker>>
    BY SMTT(20) DEF Reg!Admin, Reg!kube
  <1> DEFINE r == regWorker.status.domainID
  <1> DEFINE Kept == (regWorker.step = "domDel" /\ domains'[r] # None) => domains'[r] = domains[r]
  <1>2. FreshIDs' /\ Handed' /\ Kept
    <2>1. ASSUME NEW d \in Domains, NEW a \in Addresses \cup {None}, Reg!Register(d, a)
          PROVE  FreshIDs' /\ Handed' /\ Kept
      <3>1. /\ FreshIDs' /\ nextReg' = nextReg + 1
            /\ \A q : (q \in Reg!Regs => q < nextReg) => domains'[q] = domains[q]
        BY <2>1, RegisterOK DEF RegInv
      <3>2. (regWorker.step = "domDel" /\ r \in Reg!Regs) => r < nextReg
        BY DEF RegInv, Handed
      <3>3. Handed'
        BY <1>1, <3>1, <3>2 DEF Handed, RegInv, FreshIDs, Reg!Regs
      <3>4. Kept
        BY <3>1, <3>2
      <3> QED
        BY <3>1, <3>3, <3>4
    <2>2. ASSUME NEW q \in Reg!Regs, domains' = [domains EXCEPT ![q] = None], UNCHANGED nextReg
          PROVE  FreshIDs' /\ Handed' /\ Kept
      <3>1. FreshIDs' /\ Handed'
        BY <1>1, <2>2 DEF RegInv, Handed, FreshIDs
      <3>2. domains'[r] # None => domains'[r] = domains[r]
        BY <2>2 DEF RegInv, FreshIDs
      <3> QED
        BY <3>1, <3>2
    <2> QED
      BY <2>1, <2>2 DEF Reg!Admin
  <1>3. Reg!RegistrationGuard'
    BY <1>1, <1>2 DEF RegInv, Reg!RegistrationGuard, Reg!Live, Reg!UsesAddress, Reg!UsesDomain
  <1> QED
    BY <1>1, <1>2, <1>3 DEF RegInv, RegWorker

(* Everything around the worker together. *)
LEMMA RegEnvironmentInv == ASSUME RegInv, Reg!Environment PROVE RegInv'
  <1>1. ASSUME NEW c \in CRs, Reg!Deliver(c) \/ Reg!Collect(c) \/ Reg!Enroll(c) PROVE RegInv'
    BY <1>1, RegAroundInv DEF Reg!Deliver, Reg!Collect, Reg!Enroll, Reg!kube, Reg!netbird
  <1>2. CASE Reg!Leave \/ Reg!CallFails
    BY <1>2, RegAroundInv DEF Reg!Leave, Reg!CallFails, Reg!kube, Reg!netbird
  <1> QED
    BY <1>1, <1>2, RegUserInv, RegAdminInv DEF Reg!Environment

-----------------------------------------------------------------------------
(* The worker. *)

(* Start reads the informer's copy and deletes nothing. *)
LEMMA RegStartInv == ASSUME RegInv, NEW c \in CRs, Reg!Start(c) PROVE RegInv'
  <1>1. UNCHANGED <<api, domains, nextReg>>
    BY DEF Reg!Start, Reg!kube, Reg!netbird
  <1>2. PICK st \in {"revoke", "deploy", "finalize"} :
          regWorker' = [step |-> st, cr |-> c, obj |-> seen[c], status |-> seen[c].status,
                     reg |-> None, target |-> None, blind |-> {}]
    BY Zenon DEF Reg!Start, Reg!Idle
  <1>3. RegWorker(regWorker') /\ regWorker'.step \notin Reg!Guarded
    BY <1>2 DEF RegWorker, Reg!Guarded
  <1> QED
    BY <1>1, <1>3, Unguarded DEF RegInv, FreshIDs, RegWorker

(* Finalize, Deploy, RecordDomain, Validate and Unfinalize delete nothing  *)
(* in NetBird and go on to a step that does not either.                    *)
LEMMA RegKubeInv ==
    ASSUME RegInv, Reg!Finalize \/ Reg!Deploy \/ Reg!RecordDomain \/ Reg!Validate \/ Reg!Unfinalize
    PROVE  RegInv'
  <1>1. UNCHANGED <<domains, nextReg>>
    BY DEF Reg!Finalize, Reg!Deploy, Reg!RecordDomain, Reg!Validate, Reg!Unfinalize, Reg!netbird
  <1>2. RegWorker(regWorker) /\ api = [c \in CRs |-> api[c]]
    BY DEF RegInv
  <1>3. RegWorker(Reg!Idle) /\ Reg!Idle.step \notin Reg!Guarded
    BY DEF Reg!Idle, RegWorker, Reg!Guarded
  <1>4. api' = [c \in CRs |-> api'[c]] /\ RegWorker(regWorker') /\ regWorker'.step \notin Reg!Guarded
    <2>1. CASE Reg!Finalize
      <3>1. CASE regWorker' = Reg!Idle
        BY <1>2, <1>3, <2>1, <3>1 DEF Reg!Finalize
      <3>2. CASE regWorker' # Reg!Idle
        BY <1>2, <2>1, <3>2 DEF Reg!Finalize, RegWorker, Reg!Guarded
      <3> QED
        BY <3>1, <3>2
    <2>2. CASE Reg!Deploy
      <3>1. CASE Reg!NotReady(regWorker)
        BY <1>2, <3>1, NotReadyOK
      <3>2. CASE ~Reg!NotReady(regWorker)
        <4>1. PICK s : regWorker' = [step |-> "domains", cr |-> regWorker.cr, obj |-> regWorker.obj, status |-> s,
                         reg |-> regWorker.reg, target |-> regWorker.target, blind |-> regWorker.blind]
          <5>1. regWorker' = [regWorker EXCEPT !.step = "domains", !.status.address = regWorker.obj.address]
            BY <2>2, <3>2 DEF Reg!Deploy
          <5> QED
            BY <1>2, <5>1, Zenon DEF RegWorker
        <4>2. UNCHANGED api
          BY <2>2, <3>2 DEF Reg!Deploy
        <4> QED
          BY <1>2, <4>1, <4>2 DEF RegWorker, Reg!Guarded
      <3> QED
        BY <3>1, <3>2
    <2>3. CASE Reg!RecordDomain
      <3>1. CASE regWorker.status.domainID = regWorker.reg
        BY <1>2, <2>3, <3>1, Zenon DEF Reg!RecordDomain, RegWorker, Reg!Guarded
      <3>2. CASE regWorker.status.domainID # regWorker.reg
        <4> DEFINE w == [regWorker EXCEPT !.status.domainID = regWorker.reg, !.reg = None]
        <4>1. RegWorker(w)
          BY <1>2, WithStatus, Zenon
        <4>2. Reg!Patch(w, "validate")
          BY <2>3, <3>2 DEF Reg!RecordDomain
        <4> QED
          BY <1>2, <4>1, <4>2, PatchOK
      <3> QED
        BY <3>1, <3>2
    <2>4. CASE Reg!Validate
      <3>1. CASE Reg!NotReady(regWorker)
        BY <1>2, <3>1, NotReadyOK
      <3>2. CASE ~Reg!NotReady(regWorker)
        <4> DEFINE w == [regWorker EXCEPT !.status.ready = TRUE]
        <4>1. RegWorker(w)
          BY <1>2, WithStatus, Zenon
        <4>2. Reg!Patch(w, "idle")
          BY <2>4, <3>2 DEF Reg!Validate
        <4> QED
          BY <1>2, <4>1, <4>2, PatchOK
      <3> QED
        BY <3>1, <3>2
    <2>5. CASE Reg!Unfinalize
      BY <1>2, <1>3, <2>5 DEF Reg!Unfinalize
    <2> QED
      BY <2>1, <2>2, <2>3, <2>4, <2>5
  <1> QED
    BY <1>1, <1>4, Unguarded DEF RegInv, FreshIDs, RegWorker

(* EnsureDomain: a dead registration is dropped only when no other CR has  *)
(* the address it points at.                                               *)
LEMMA RegEnsureInv == ASSUME RegInv, Reg!EnsureDomain PROVE RegInv'
  <1>1. UNCHANGED <<domains, nextReg>> /\ regWorker.step = "domains"
    BY Zenon DEF Reg!EnsureDomain, Reg!netbird
  <1>2. RegWorker(regWorker) /\ api = [c \in CRs |-> api[c]] /\ FreshIDs'
    BY <1>1 DEF RegInv, FreshIDs
  <1>3. ASSUME regWorker' = [regWorker EXCEPT !.step = "create"], UNCHANGED api PROVE RegInv'
    <2>1. RegWorker(regWorker') /\ regWorker'.step \notin Reg!Guarded
      BY <1>2, <1>3 DEF RegWorker, Reg!Guarded
    <2> QED
      BY <1>2, <1>3, <2>1, Unguarded DEF RegInv, RegWorker
  <1>4. ASSUME NEW r, regWorker' = [regWorker EXCEPT !.step = "record", !.reg = r], UNCHANGED api PROVE RegInv'
    <2>1. RegWorker(regWorker') /\ regWorker'.step \notin Reg!Guarded
      BY <1>2, <1>4, Zenon DEF RegWorker, Reg!Guarded
    <2> QED
      BY <1>2, <1>4, <2>1, Unguarded DEF RegInv, RegWorker
  <1>5. ASSUME Reg!NotReady(regWorker) PROVE RegInv'
    BY <1>2, <1>5, NotReadyOK, Unguarded DEF RegInv, RegWorker
  <1>6. ASSUME NEW r, \A c \in Reg!Others : ~Reg!UsesAddress(seen[c], domains[r].target), UNCHANGED api,
               regWorker' = [regWorker EXCEPT !.step = "drop", !.reg = r, !.target = domains[r].target,
                                        !.blind = Reg!Behind]
        PROVE  RegInv'
    <2>1. regWorker' = [step |-> "drop", cr |-> regWorker.cr, obj |-> regWorker.obj, status |-> regWorker.status,
                     reg |-> r, target |-> domains[r].target, blind |-> Reg!Behind]
      BY <1>2, <1>6, Zenon DEF RegWorker
    <2>2. /\ RegWorker(regWorker') /\ regWorker'.step = "drop" /\ regWorker'.cr = regWorker.cr
          /\ regWorker'.blind = Reg!Behind /\ regWorker'.target = domains[r].target
      BY <2>1 DEF RegWorker
    <2>3. Reg!RegistrationGuard'
      <3> SUFFICES ASSUME NEW c \in CRs \ ({regWorker.cr} \cup Reg!Behind), Reg!Live(c)
                   PROVE  ~Reg!UsesAddress(api[c], domains[r].target)
        BY <1>6, <2>2 DEF Reg!RegistrationGuard, Reg!Live, Reg!UsesAddress
      <3> QED
        BY <1>6, SeenIsStored
    <2>4. Handed'
      BY <2>2 DEF Handed
    <2> QED
      BY <1>2, <1>6, <2>2, <2>3, <2>4 DEF RegInv, RegWorker
  <1> QED
    BY <1>3, <1>4, <1>5, <1>6, Zenon DEF Reg!EnsureDomain

(* Drop and CreateDomain. *)
LEMMA RegCreateInv == ASSUME RegInv, Reg!Drop \/ Reg!CreateDomain PROVE RegInv'
  <1>1. UNCHANGED api /\ RegWorker(regWorker) /\ FreshIDs /\ api = [c \in CRs |-> api[c]]
    BY DEF Reg!Drop, Reg!CreateDomain, Reg!kube, RegInv
  <1>2. RegWorker(regWorker') /\ regWorker'.step \notin Reg!Guarded
    <2>1. CASE Reg!Drop
      <3>1. regWorker' = [step |-> "create", cr |-> regWorker.cr, obj |-> regWorker.obj, status |-> regWorker.status,
                       reg |-> None, target |-> None, blind |-> {}]
        BY <1>1, <2>1, Zenon DEF Reg!Drop, RegWorker
      <3> QED
        BY <3>1 DEF RegWorker, Reg!Guarded
    <2>2. CASE Reg!CreateDomain
      <3>1. CASE regWorker' = Reg!Idle
        BY <3>1 DEF Reg!Idle, RegWorker, Reg!Guarded
      <3>2. CASE regWorker' = [regWorker EXCEPT !.step = "record", !.reg = nextReg]
        BY <1>1, <3>2, Zenon DEF RegWorker, Reg!Guarded
      <3> QED
        BY <2>2, <3>1, <3>2 DEF Reg!CreateDomain
    <2> QED
      BY <2>1, <2>2
  <1>3. FreshIDs'
    <2>1. CASE Reg!Drop
      BY <1>1, <2>1 DEF Reg!Drop, FreshIDs
    <2>2. CASE Reg!CreateDomain
      <3>1. CASE Reg!Register(regWorker.obj.domain, regWorker.obj.address)
        BY <1>1, <3>1, RegisterOK
      <3>2. CASE UNCHANGED <<domains, nextReg>>
        BY <1>1, <3>2 DEF FreshIDs
      <3> QED
        BY <2>2, <3>1, <3>2 DEF Reg!CreateDomain
    <2> QED
      BY <2>1, <2>2
  <1> QED
    BY <1>1, <1>2, <1>3, Unguarded DEF RegInv, RegWorker

(* reconcileDelete. *)
LEMMA RegDeleteInv == ASSUME RegInv, Reg!Revoke \/ Reg!DeleteDomain \/ Reg!DeleteCluster PROVE RegInv'
  <1>1. UNCHANGED <<api, nextReg>> /\ RegWorker(regWorker) /\ FreshIDs /\ api = [c \in CRs |-> api[c]]
    BY DEF Reg!Revoke, Reg!DeleteDomain, Reg!DeleteCluster, Reg!kube, Reg!netbird, RegInv
  <1>2. FreshIDs'
    BY <1>1 DEF Reg!Revoke, Reg!DeleteDomain, Reg!DeleteCluster, Reg!netbird, FreshIDs
  <1>3. RegWorker(regWorker') /\ Handed' /\ Reg!RegistrationGuard'
    <2>1. CASE Reg!Revoke
      BY <1>1, <2>1, GuardDomainOK DEF Reg!Revoke, Reg!netbird
    <2>2. CASE Reg!DeleteDomain
      BY <1>1, <2>2, GuardClusterOK DEF Reg!DeleteDomain
    <2>3. CASE Reg!DeleteCluster
      <3>1. RegWorker(regWorker') /\ regWorker'.step \notin Reg!Guarded
        BY <1>1, <2>3, Zenon DEF Reg!DeleteCluster, RegWorker, Reg!Guarded
      <3> QED
        BY <3>1, Unguarded
    <2> QED
      BY <2>1, <2>2, <2>3
  <1> QED
    BY <1>1, <1>2, <1>3 DEF RegInv, RegWorker

(* A stuttering step. *)
LEMMA RegStutterInv == ASSUME RegInv, UNCHANGED Reg!vars PROVE RegInv'
  BY RegAroundInv DEF Reg!vars, Reg!kube, Reg!netbird

-----------------------------------------------------------------------------
(* The invariant holds in every reachable state. *)
THEOREM RegInvariance == Reg!Spec => []RegInv
  <1>1. RegInv /\ [Reg!Next]_(Reg!vars) => RegInv'
    <2> SUFFICES ASSUME RegInv, [Reg!Next]_(Reg!vars) PROVE RegInv'
      OBVIOUS
    <2>1. CASE UNCHANGED Reg!vars
      BY <2>1, RegStutterInv
    <2>2. CASE Reg!Next
      BY <2>2, RegEnvironmentInv, RegStartInv, RegKubeInv, RegEnsureInv, RegCreateInv, RegDeleteInv
         DEF Reg!Next, Reg!Step
    <2> QED
      BY <2>1, <2>2
  <1> QED
    BY <1>1, RegInitInv, PTL DEF Reg!Spec

(* reconcileDelete and ensureDomain: a registration that another live      *)
(* ReverseProxyCluster uses is never about to be destroyed, unless the     *)
(* informer was behind on that one or a user changed it since the guard.   *)
THEOREM RegistrationsGuarded == Reg!Spec => []Reg!RegistrationGuard
  <1>1. RegInv => Reg!RegistrationGuard
    BY DEF RegInv
  <1> QED
    BY <1>1, RegInvariance, PTL
=============================================================================
