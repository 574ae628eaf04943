---------------------------- MODULE ProxyService ----------------------------
(***************************************************************************)
(* The ReverseProxyService kind under MirrorReconciler                     *)
(* (reverseproxyservice_mirror.go).  A service is updated by its recorded  *)
(* id and created when NetBird no longer has it; nothing is adopted, and   *)
(* NetBird keeps one service per domain.                                   *)
(***************************************************************************)
EXTENDS ServiceRequest, FiniteSets

CONSTANTS CRs,
          Backends,   \* states of the backend Service
          AccessGroups, \* states of the access groups
          AtStart,    \* those of both that hold at the start
          MaxIDs,     \* bound: service ids NetBird hands out
          MaxObjects, \* bound: objects created
          MaxFaults   \* bound: edits, failed calls, out-of-band changes

IDs == 1..MaxIDs

Domains  == {ServiceDomain(s, b) : s \in Specs, b \in Backends \ {None}}
Requests == {Request(s, b) : s \in Specs, b \in Backends \ {None}}
Object   == [spec: Specs, id: IDs \cup {None}, domain: Domains \cup {None}, ready: BOOLEAN,
             deleting: BOOLEAN, finalizer: BOOLEAN]

ASSUME ServiceBounds ==
    /\ MaxIDs \in Nat /\ MaxObjects \in Nat /\ MaxFaults \in Nat
    /\ AtStart \subseteq Backends \X AccessGroups /\ Backends \subseteq Backend \cup {None}
    /\ AccessGroups \subseteq GroupState
    /\ {"mesh", "cluster.local"} \cap Resources = {}

ASSUME ServiceValues ==
    None \notin CRs /\ None \notin IDs /\ None \notin Object /\ None \notin Requests

VARIABLES
    api, seen,          \* ReverseProxyServices: etcd, informer
    services, nextID,   \* NetBird: id -> request, or None
    backend,            \* the backend Service; None: it, or the proxy cluster, is missing
    groups,             \* the access groups
    worker,
    orphans,            \* history: services no status names
    objects, faults

netbird == <<services, nextID>>
deps    == <<backend, groups>>
bounds  == <<objects, faults>>
vars    == <<api, seen, netbird, deps, worker, orphans, bounds>>

Idle == [step |-> "idle", cr |-> None, obj |-> None, req |-> None, id |-> None]

New(s) == [spec |-> s, id |-> None, domain |-> None, ready |-> FALSE,
           deleting |-> FALSE, finalizer |-> FALSE]

Exists(c) == api[c] # None
Live(c)   == api[c] # None /\ ~api[c].deleting
Held(d)   == {i \in IDs : services[i] # None /\ services[i].domain = d}

Init ==
    /\ api = [c \in CRs |-> None] /\ seen = api
    /\ services = [i \in IDs |-> None] /\ nextID = 1
    /\ (\E d \in AtStart : backend = d[1] /\ groups = d[2]) /\ worker = Idle /\ orphans = {}
    /\ objects = 0 /\ faults = 0

-----------------------------------------------------------------------------
Deliver(c) ==
    /\ seen[c] # api[c] /\ seen' = [seen EXCEPT ![c] = api[c]]
    /\ UNCHANGED <<api, netbird, deps, worker, orphans, bounds>>

Spend == faults < MaxFaults /\ faults' = faults + 1

User(c) ==
    /\ \/ /\ api[c] = None /\ objects < MaxObjects /\ objects' = objects + 1 /\ UNCHANGED faults
          /\ \E s \in Specs : api' = [api EXCEPT ![c] = New(s)]
       \/ /\ Live(c) /\ Spend /\ UNCHANGED objects
          /\ \E s \in Specs \ {api[c].spec} : api' = [api EXCEPT ![c].spec = s]
       \/ /\ Live(c) /\ UNCHANGED bounds
          /\ api' = [api EXCEPT ![c] = IF @.finalizer THEN [@ EXCEPT !.deleting = TRUE] ELSE None]
    /\ orphans' = orphans \cup (IF Exists(c) /\ api'[c] = None THEN {api[c].id} \ {None} ELSE {})
    /\ UNCHANGED <<seen, netbird, deps, worker>>

(* The backend or the access groups change, or a service is deleted in     *)
(* NetBird; none of them is watched.                                       *)
Outside ==
    /\ Spend
    /\ \/ backend' \in Backends \ {backend} /\ UNCHANGED <<services, groups>>
       \/ groups' \in AccessGroups \ {groups} /\ UNCHANGED <<services, backend>>
       \/ \E i \in IDs : /\ services[i] # None /\ services' = [services EXCEPT ![i] = None]
                         /\ UNCHANGED deps
    /\ UNCHANGED <<api, seen, nextID, worker, orphans, objects>>

-----------------------------------------------------------------------------
Start(c) ==
    /\ worker.step = "idle" /\ seen[c] # None
    /\ worker' = [Idle EXCEPT !.cr = c, !.obj = seen[c],
                    !.step = IF seen[c].deleting THEN "delete"
                             ELSE IF seen[c].finalizer THEN "resolve" ELSE "finalize"]
    /\ UNCHANGED <<api, seen, netbird, deps, orphans, bounds>>

Finalize ==
    /\ worker.step = "finalize"
    /\ IF Exists(worker.cr)
       THEN /\ api' = [api EXCEPT ![worker.cr].finalizer = TRUE]
            /\ worker' = [worker EXCEPT !.step = "resolve"]
       ELSE worker' = Idle /\ UNCHANGED api
    /\ UNCHANGED <<seen, netbird, deps, orphans, bounds>>

(* Mutant: every failure to render is an error, which leaves the status.   *)
Resolve_silent ==
    /\ worker.step = "resolve"
    /\ LET t == Outcome(worker.obj.spec, backend, groups) IN
       IF t \in {"error", "dependency"} THEN worker' = Idle /\ UNCHANGED api
       ELSE /\ worker' = [worker EXCEPT !.req = Request(worker.obj.spec, backend),
                                        !.step = IF worker.obj.id = None THEN "create" ELSE "update"]
            /\ UNCHANGED api
    /\ UNCHANGED <<seen, netbird, deps, orphans, bounds>>

(* The dependencies are read and the request is rendered.  A backend that  *)
(* is missing marks the object not ready; an L4 backend that is no         *)
(* LoadBalancer and an access group that does not resolve are errors,      *)
(* which leave the status as it is.                                        *)
Resolve ==
    /\ worker.step = "resolve"
    /\ LET t == Outcome(worker.obj.spec, backend, groups) IN
       \/ t = "error" /\ worker' = Idle /\ UNCHANGED api
       \/ /\ t = "dependency" /\ worker' = Idle
          /\ api' = IF Exists(worker.cr) /\ worker.obj.ready
                    THEN [api EXCEPT ![worker.cr].ready = FALSE] ELSE api
       \/ /\ t \notin {"error", "dependency"} /\ UNCHANGED api
          /\ worker' = [worker EXCEPT !.req = Request(worker.obj.spec, backend),
                                      !.step = IF worker.obj.id = None THEN "create" ELSE "update"]
    /\ UNCHANGED <<seen, netbird, deps, orphans, bounds>>

(* The update of the recorded id: a 404 falls through to the create, a     *)
(* domain that another service holds is refused.                           *)
Update ==
    /\ worker.step = "update"
    /\ LET i == worker.obj.id IN
       \/ services[i] = None /\ worker' = [worker EXCEPT !.step = "create"] /\ UNCHANGED services
       \/ /\ services[i] # None /\ Held(worker.req.domain) \ {i} # {}
          /\ worker' = Idle /\ UNCHANGED services
       \/ /\ services[i] # None /\ Held(worker.req.domain) \subseteq {i}
          /\ services' = [services EXCEPT ![i] = worker.req]
          /\ worker' = [worker EXCEPT !.step = "patch", !.id = i]
    /\ UNCHANGED <<api, seen, nextID, deps, orphans, bounds>>

(* The create, which NetBird refuses for a domain that is taken. *)
Create ==
    /\ worker.step = "create"
    /\ \/ Held(worker.req.domain) # {} /\ worker' = Idle /\ UNCHANGED netbird
       \/ /\ Held(worker.req.domain) = {} /\ nextID <= MaxIDs /\ nextID' = nextID + 1
          /\ services' = [services EXCEPT ![nextID] = worker.req]
          /\ worker' = [worker EXCEPT !.step = "patch", !.id = nextID]
    /\ UNCHANGED <<api, seen, deps, orphans, bounds>>

(* The patch sends the fields that differ from the copy.  A service is     *)
(* lost when the object is gone, or when the copy missed the id that is    *)
(* overwritten.                                                            *)
Patch ==
    /\ worker.step = "patch" /\ worker' = Idle
    /\ LET c == worker.cr
           o == worker.obj
           n == worker.req.domain IN
       IF Exists(c)
       THEN /\ api' = [api EXCEPT ![c].id = IF worker.id = o.id THEN @ ELSE worker.id,
                                  ![c].domain = IF n = o.domain THEN @ ELSE n,
                                  ![c].ready = IF o.ready THEN @ ELSE TRUE]
            /\ orphans' = orphans \cup ({api[c].id} \ {None, o.id, worker.id})
       ELSE UNCHANGED api /\ orphans' = orphans \cup {worker.id}
    /\ UNCHANGED <<seen, netbird, deps, bounds>>

(* Mutant: the finalizer goes although NetBird did not delete. *)
Delete_skips ==
    /\ worker.step = "delete" /\ worker' = [worker EXCEPT !.step = "unfinalize"]
    /\ UNCHANGED <<api, seen, netbird, deps, orphans, bounds>>

Delete ==
    /\ worker.step = "delete" /\ worker' = [worker EXCEPT !.step = "unfinalize"]
    /\ services' = IF worker.obj.id = None THEN services
                   ELSE [services EXCEPT ![worker.obj.id] = None]
    /\ UNCHANGED <<api, seen, nextID, deps, orphans, bounds>>

(* The copy may have missed an id that was recorded after the deletion; an *)
(* object made since then loses its finalizer.                             *)
Unfinalize ==
    /\ worker.step = "unfinalize" /\ worker' = Idle
    /\ LET c == worker.cr IN
       /\ api' = [api EXCEPT ![c] = IF Live(c) THEN [@ EXCEPT !.finalizer = FALSE] ELSE None]
       /\ orphans' = orphans \cup (IF Exists(c) /\ ~Live(c) THEN {api[c].id} \ {None, worker.obj.id}
                                   ELSE {})
    /\ UNCHANGED <<seen, netbird, deps, bounds>>

CallFails ==
    /\ worker.step # "idle" /\ Spend /\ worker' = Idle
    /\ orphans' = orphans \cup
                    (IF worker.step = "patch" /\ worker.id # worker.obj.id THEN {worker.id} ELSE {})
    /\ UNCHANGED <<api, seen, netbird, deps, objects>>

Step == Finalize \/ Resolve \/ Update \/ Create \/ Patch \/ Delete \/ Unfinalize

Next ==
    \/ \E c \in CRs : Deliver(c) \/ User(c) \/ Start(c)
    \/ Outside \/ CallFails \/ Step

Spec == Init /\ [][Next]_vars

Fairness == WF_vars(Step) /\ \A c \in CRs : WF_vars(Deliver(c)) /\ SF_vars(Start(c))

FairSpec == Spec /\ Fairness

-----------------------------------------------------------------------------
TypeOK ==
    /\ api \in [CRs -> Object \cup {None}] /\ seen \in [CRs -> Object \cup {None}]
    /\ services \in [IDs -> Requests \cup {None}] /\ nextID \in 1..(MaxIDs + 1)
    /\ worker \in [step: {"idle", "finalize", "resolve", "update", "create", "patch", "delete",
                          "unfinalize"},
                   cr: CRs \cup {None}, obj: Object \cup {None},
                   req: Requests \cup {None}, id: IDs \cup {None}]
    /\ backend \in Backends /\ groups \in AccessGroups /\ orphans \subseteq IDs
    /\ objects \in 0..MaxObjects /\ faults \in 0..MaxFaults

(* Whatever the CRD's rules let through, and whenever the backend changes  *)
(* its kind, applyReverseProxyService only sends services NetBird can      *)
(* serve: access groups exactly on the private ones ("Attaching them to a  *)
(* non-private service flips it into the NetBird-Only state with no        *)
(* effective ACL"), L4 targets that are mesh resources.                    *)
ServicesServable == \A i \in IDs : services[i] # None => Servable(services[i])

(* No service is left behind in NetBird except by a failure between the    *)
(* create and the patch, or by a reconcile whose copy missed the id: every *)
(* other one is recorded by its object or in hand.                         *)
ServicesAccounted ==
    \A i \in IDs : services[i] # None =>
        \/ i \in orphans
        \/ \E c \in CRs : Exists(c) /\ api[c].id = i
        \/ worker.step = "patch" /\ worker.id = i

(* The domain this object needs is held by a service that is not its own:  *)
(* another object's, or one left behind, which is never adopted.           *)
Blocked(c) ==
    LET held == Held(ServiceDomain(api[c].spec, backend)) IN held # {} /\ held # {api[c].id}

Spent == worker.step = "create" /\ nextID > MaxIDs

(* Once interference stops, objects being deleted are gone; an object      *)
(* without its backend is not ready; any other that is not blocked is      *)
(* ready, and its service is what its spec and its backend render to now,  *)
(* although neither the backend nor the groups are watched.  Nothing is    *)
(* asked while the render ends in an error, of an L4 backend that is no    *)
(* LoadBalancer or an access group that does not resolve: the object keeps *)
(* its Ready condition and its old service as long as the error lasts.     *)
ServicesConverge ==
    <>[](Spent \/ \A c \in CRs : Exists(c) =>
            /\ Live(c)
            /\ CASE Outcome(api[c].spec, backend, groups) = "error" -> TRUE
                 [] Outcome(api[c].spec, backend, groups) = "dependency" -> ~api[c].ready
                 [] OTHER -> Blocked(c) \/ /\ api[c].ready /\ api[c].id # None
                                           /\ services[api[c].id] = Request(api[c].spec, backend)
                                           /\ api[c].domain = services[api[c].id].domain)
=============================================================================
