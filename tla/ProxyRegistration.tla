------------------------- MODULE ProxyRegistration -------------------------
(***************************************************************************)
(* ReverseProxyClusters against NetBird's registrations                    *)
(* (reverseproxycluster_controller.go): the cluster that a proxy enrolls   *)
(* at its address, and the custom domain, both of which several objects    *)
(* may share.  The enrollment token, the Secret, the workload and the DNS  *)
(* records of one object are in ProxyRollout.                              *)
(***************************************************************************)
EXTENDS Naturals, FiniteSets

CONSTANTS CRs,        \* names of ReverseProxyClusters
          Domains, Addresses,
          First, Later, \* First[c], Later[c]: the <<domain, clusterAddress>> users
                        \* create c with and may edit it to
          None,
          MaxRegs,    \* bound: domain registrations NetBird hands out
          MaxFaults   \* bound: edits, failed calls, crashes, out-of-band changes

Regs == 1..MaxRegs

ASSUME RegistrationBounds ==
    /\ MaxRegs \in Nat /\ MaxFaults \in Nat
    /\ First \in [CRs -> SUBSET (Domains \X Addresses)]
    /\ Later \in [CRs -> SUBSET (Domains \X Addresses)]
    /\ None \notin CRs \cup Domains \cup Addresses \cup Regs

Status == [domainID: Regs \cup {None}, address: Addresses \cup {None}, ready: BOOLEAN]
Object == [domain: Domains, address: Addresses, status: Status,
           deleting: BOOLEAN, finalizer: BOOLEAN]
NoStatus == [domainID |-> None, address |-> None, ready |-> FALSE]

VARIABLES
    api, seen,           \* ReverseProxyClusters: etcd, informer
    deployed,            \* the address in the Deployment
    domains,             \* NetBird: custom domain registrations, id -> record
    clusters,            \* NetBird: enrolled clusters (their list cache: ListCache)
    nextReg, worker,
    made, faults

kube    == <<api, seen, deployed>>
netbird == <<domains, clusters, nextReg>>
bounds  == <<made, faults>>
vars    == <<kube, netbird, worker, bounds>>

(* A step of the worker is a call that writes, with the reads that follow  *)
(* it.  obj is the copy as the patcher last sent it, status what the       *)
(* reconcile has in memory, reg and target a registration in hand; blind   *)
(* (history) are the CRs the guard before a deletion saw an old version of.*)
Idle == [step |-> "idle", cr |-> None, obj |-> None, status |-> NoStatus,
         reg |-> None, target |-> None, blind |-> {}]

Exists(c) == api[c] # None
Live(c)   == api[c] # None /\ ~api[c].deleting

Init ==
    /\ api = [c \in CRs |-> None] /\ seen = api
    /\ deployed = [c \in CRs |-> None]
    /\ domains = [r \in Regs |-> None] /\ clusters = {}
    /\ nextReg = 1 /\ worker = Idle
    /\ made = {} /\ faults = 0

-----------------------------------------------------------------------------
(* Around the worker. *)
Deliver(c) ==
    /\ seen[c] # api[c] /\ seen' = [seen EXCEPT ![c] = api[c]]
    /\ UNCHANGED <<api, deployed, netbird, worker, bounds>>

Guarded == {"drop", "domDel", "cluDel"}
Touched(c) == worker' = IF worker.step \in Guarded THEN [worker EXCEPT !.blind = @ \cup {c}] ELSE worker

User(c) ==
    /\ \/ \E s \in First[c] :
            /\ c \notin made /\ made' = made \cup {c}
            /\ api' = [api EXCEPT ![c] = [domain |-> s[1], address |-> s[2], status |-> NoStatus,
                                          deleting |-> FALSE, finalizer |-> FALSE]]
            /\ UNCHANGED faults
       \/ \E s \in Later[c] :
            /\ Live(c) /\ s # <<api[c].domain, api[c].address>>
            /\ faults < MaxFaults /\ faults' = faults + 1
            /\ api' = [api EXCEPT ![c].domain = s[1], ![c].address = s[2]] /\ UNCHANGED made
       \/ /\ Live(c) /\ UNCHANGED bounds
          /\ api' = [api EXCEPT ![c] = IF @.finalizer THEN [@ EXCEPT !.deleting = TRUE] ELSE None]
    /\ Touched(c)
    /\ UNCHANGED <<seen, deployed, netbird>>

(* Garbage collection of the owned Deployment. *)
Collect(c) ==
    /\ ~Exists(c) /\ deployed[c] # None /\ deployed' = [deployed EXCEPT ![c] = None]
    /\ UNCHANGED <<api, seen, netbird, worker, bounds>>

(* A running proxy registers its cluster. *)
Enroll(c) ==
    /\ Exists(c) /\ deployed[c] # None /\ deployed[c] \notin clusters
    /\ clusters' = clusters \cup {deployed[c]}
    /\ UNCHANGED <<kube, domains, nextReg, worker, bounds>>

(* NetBird forgets a cluster no proxy serves; nobody may rely on it. *)
Leave ==
    /\ \E a \in clusters : (\A c \in CRs : deployed[c] # a) /\ clusters' = clusters \ {a}
    /\ UNCHANGED <<kube, domains, nextReg, worker, bounds>>

Registered(d) == {r \in Regs : domains[r] # None /\ domains[r].domain = d}

(* NetBird registers a domain once. *)
Register(d, a) ==
    /\ Registered(d) = {} /\ nextReg <= MaxRegs /\ nextReg' = nextReg + 1
    /\ domains' = [domains EXCEPT ![nextReg] = [domain |-> d, target |-> a]]

(* Someone else registers a domain, with or without a target, or removes a *)
(* registration.                                                           *)
Admin ==
    /\ faults < MaxFaults /\ faults' = faults + 1
    /\ \/ \E d \in Domains, a \in Addresses \cup {None} : Register(d, a)
       \/ \E r \in Regs : /\ domains[r] # None /\ domains' = [domains EXCEPT ![r] = None]
                          /\ UNCHANGED nextReg
    /\ UNCHANGED <<kube, clusters, worker, made>>

-----------------------------------------------------------------------------
(* anotherClusterMatches, with the informer's list. *)
Others == {c \in CRs \ {worker.cr} : seen[c] # None /\ ~seen[c].deleting}
UsesAddress(o, a) == o.address = a \/ o.status.address = a
UsesDomain(o, r, d) == o.domain = d \/ o.status.domainID = r
Behind == {c \in CRs : seen[c] # api[c]}

(* The patcher sends the fields that differ from what it sent before. *)
Merged(o, w) ==
    [o EXCEPT !.status = [f \in DOMAIN NoStatus |-> IF w.status[f] = w.obj.status[f] THEN o.status[f]
                                                    ELSE w.status[f]]]

(* A patch, and the step after it; of an object that is gone, an error. *)
Patch(w, after) ==
    IF Exists(w.cr)
    THEN /\ api' = [api EXCEPT ![w.cr] = Merged(@, w)]
         /\ worker' = IF after = "idle" THEN Idle ELSE [w EXCEPT !.step = after, !.obj.status = w.status]
    ELSE worker' = Idle /\ UNCHANGED api

NotReady(w) == Patch([w EXCEPT !.status.ready = FALSE], "idle")

(* The step that deletes the cluster registration, when no other CR has    *)
(* the address, and the one that deletes the domain's, when no other CR    *)
(* has its live domain or its id.                                          *)
GuardCluster(w) ==
    LET a == w.status.address IN
    [w EXCEPT !.blind = Behind, !.step = IF a # None /\ \A c \in Others : ~UsesAddress(seen[c], a)
                                         THEN "cluDel" ELSE "unfinalize"]

(* Mutant: the survivors are compared with the spec's domain. *)
GuardDomain_specDomain(w) ==
    LET r == w.status.domainID IN
    IF /\ r # None /\ domains[r] # None
       /\ \A c \in Others : ~UsesDomain(seen[c], r, w.obj.domain)
    THEN [w EXCEPT !.step = "domDel", !.blind = Behind]
    ELSE GuardCluster(w)

GuardDomain(w) ==
    LET r == w.status.domainID IN
    IF /\ r # None /\ domains[r] # None
       /\ \A c \in Others : ~UsesDomain(seen[c], r, domains[r].domain)
    THEN [w EXCEPT !.step = "domDel", !.blind = Behind]
    ELSE GuardCluster(w)

-----------------------------------------------------------------------------
(* Reconcile.  An event, a requeue or a backoff starts one. *)
Start(c) ==
    /\ worker.step = "idle" /\ seen[c] # None
    /\ LET w == [Idle EXCEPT !.cr = c, !.obj = seen[c], !.status = seen[c].status] IN
       worker' = IF seen[c].deleting THEN [w EXCEPT !.step = "revoke"]
                 ELSE IF seen[c].finalizer THEN [w EXCEPT !.step = "deploy"]
                 ELSE [w EXCEPT !.step = "finalize"]
    /\ UNCHANGED <<kube, netbird, bounds>>

Finalize ==
    /\ worker.step = "finalize"
    /\ IF Exists(worker.cr)
       THEN api' = [api EXCEPT ![worker.cr].finalizer = TRUE] /\ worker' = [worker EXCEPT !.step = "deploy"]
       ELSE worker' = Idle /\ UNCHANGED api
    /\ UNCHANGED <<seen, deployed, netbird, bounds>>

(* The workload is applied; then the proxy has enrolled, or has not. *)
Deploy ==
    /\ worker.step = "deploy"
    /\ LET a == worker.obj.address IN
       /\ deployed' = [deployed EXCEPT ![worker.cr] = a]
       /\ IF a \in clusters
          THEN worker' = [worker EXCEPT !.step = "domains", !.status.address = a] /\ UNCHANGED api
          ELSE NotReady(worker)
    /\ UNCHANGED <<seen, netbird, bounds>>

(* ensureDomain: adopt a registration without a target or with this one; a *)
(* target that another CR owns, or that exists, is a conflict; a dead one  *)
(* is replaced.                                                            *)
EnsureDomain ==
    /\ worker.step = "domains"
    /\ LET d == worker.obj.domain
           In(r) == domains[r].target \in {None, worker.obj.address}
           Owned(r) == \E c \in Others : UsesAddress(seen[c], domains[r].target) IN
       \/ Registered(d) = {} /\ worker' = [worker EXCEPT !.step = "create"] /\ UNCHANGED api
       \/ \E r \in Registered(d) :
            \/ In(r) /\ worker' = [worker EXCEPT !.step = "record", !.reg = r] /\ UNCHANGED api
            \/ ~In(r) /\ (Owned(r) \/ domains[r].target \in clusters) /\ NotReady(worker)
            \/ /\ ~In(r) /\ ~Owned(r) /\ domains[r].target \notin clusters /\ UNCHANGED api
               /\ worker' = [worker EXCEPT !.step = "drop", !.reg = r, !.target = domains[r].target,
                                           !.blind = Behind]
    /\ UNCHANGED <<seen, deployed, netbird, bounds>>

Drop ==
    /\ worker.step = "drop"
    /\ domains' = [domains EXCEPT ![worker.reg] = None]
    /\ worker' = [worker EXCEPT !.step = "create", !.reg = None, !.target = None, !.blind = {}]
    /\ UNCHANGED <<kube, clusters, nextReg, bounds>>

(* A second registration of the domain is refused: an error. *)
CreateDomain ==
    /\ worker.step = "create"
    /\ \/ /\ Register(worker.obj.domain, worker.obj.address)
          /\ worker' = [worker EXCEPT !.step = "record", !.reg = nextReg]
       \/ /\ Registered(worker.obj.domain) # {} /\ worker' = Idle
          /\ UNCHANGED <<domains, nextReg>>
    /\ UNCHANGED <<kube, clusters, bounds>>

(* Mutant: the id is recorded once and kept. *)
RecordDomain_once ==
    /\ worker.step = "record"
    /\ IF worker.status.domainID # None
       THEN worker' = [worker EXCEPT !.step = "validate", !.reg = None] /\ UNCHANGED api
       ELSE Patch([worker EXCEPT !.status.domainID = worker.reg, !.reg = None], "validate")
    /\ UNCHANGED <<seen, deployed, netbird, bounds>>

RecordDomain ==
    /\ worker.step = "record"
    /\ IF worker.status.domainID = worker.reg
       THEN worker' = [worker EXCEPT !.step = "validate", !.reg = None] /\ UNCHANGED api
       ELSE Patch([worker EXCEPT !.status.domainID = worker.reg, !.reg = None], "validate")
    /\ UNCHANGED <<seen, deployed, netbird, bounds>>

Validate ==
    /\ worker.step = "validate"
    /\ IF domains[worker.status.domainID] = None THEN NotReady(worker)
       ELSE Patch([worker EXCEPT !.status.ready = TRUE], "idle")
    /\ UNCHANGED <<seen, deployed, netbird, bounds>>

-----------------------------------------------------------------------------
(* reconcileDelete. *)
(* The token is revoked, then the domain's users are looked for. *)
Revoke ==
    /\ worker.step = "revoke" /\ worker' = GuardDomain(worker)
    /\ UNCHANGED <<kube, netbird, bounds>>

DeleteDomain ==
    /\ worker.step = "domDel"
    /\ domains' = [domains EXCEPT ![worker.status.domainID] = None]
    /\ worker' = GuardCluster(worker)
    /\ UNCHANGED <<kube, clusters, nextReg, bounds>>

DeleteCluster ==
    /\ worker.step = "cluDel"
    /\ clusters' = clusters \ {worker.status.address}
    /\ worker' = [worker EXCEPT !.step = "unfinalize", !.blind = {}]
    /\ UNCHANGED <<kube, domains, nextReg, bounds>>

Unfinalize ==
    /\ worker.step = "unfinalize" /\ worker' = Idle
    /\ api' = [api EXCEPT ![worker.cr] = None]
    /\ UNCHANGED <<seen, deployed, netbird, bounds>>

-----------------------------------------------------------------------------
(* A call fails, or its answer is lost, or the operator restarts: the      *)
(* reconcile is over (the relist after a restart is a Deliver).            *)
CallFails ==
    /\ worker.step # "idle" /\ faults < MaxFaults /\ faults' = faults + 1
    /\ worker' = Idle
    /\ UNCHANGED <<kube, netbird, made>>

Step ==
    \/ Finalize \/ Deploy
    \/ EnsureDomain \/ Drop \/ CreateDomain \/ RecordDomain \/ Validate
    \/ Revoke \/ DeleteDomain \/ DeleteCluster \/ Unfinalize

Environment ==
    \/ \E c \in CRs : Deliver(c) \/ User(c) \/ Collect(c) \/ Enroll(c)
    \/ Leave \/ Admin \/ CallFails

Next == Environment \/ Step \/ \E c \in CRs : Start(c)

Spec == Init /\ [][Next]_vars

Fairness ==
    /\ WF_vars(Step)
    /\ \A c \in CRs : WF_vars(Deliver(c)) /\ WF_vars(Enroll(c)) /\ SF_vars(Start(c))

FairSpec == Spec /\ Fairness

-----------------------------------------------------------------------------
TypeOK ==
    /\ api \in [CRs -> Object \cup {None}] /\ seen \in [CRs -> Object \cup {None}]
    /\ deployed \in [CRs -> Addresses \cup {None}]
    /\ domains \in [Regs -> [domain: Domains, target: Addresses \cup {None}] \cup {None}]
    /\ clusters \subseteq Addresses
    /\ nextReg \in 1..(MaxRegs + 1)
    /\ worker.cr \in CRs \cup {None} /\ worker.status \in Status /\ worker.reg \in Regs \cup {None}
    /\ made \subseteq CRs /\ faults \in 0..MaxFaults

(* reconcileDelete and ensureDomain never destroy a registration that      *)
(* another live ReverseProxyCluster uses, by declaration or by record,     *)
(* unless the informer was behind on that one or a user changed it since.  *)
RegistrationGuard ==
    \A c \in CRs \ ({worker.cr} \cup worker.blind) : Live(c) =>
        /\ worker.step = "drop" => ~UsesAddress(api[c], worker.target)
        /\ (worker.step = "domDel" /\ domains[worker.status.domainID] # None) =>
              ~UsesDomain(api[c], worker.status.domainID, domains[worker.status.domainID].domain)
        /\ worker.step = "cluDel" => ~UsesAddress(api[c], worker.status.address)

(* The domain is held for a cluster that another live CR uses, or that is  *)
(* still registered: ensureDomain reports it and does not fight over it.   *)
Conflict(c) ==
    \E r \in Registered(api[c].domain) :
        LET t == domains[r].target IN
        /\ t \notin {None, api[c].address}
        /\ t \in clusters \/ \E o \in CRs \ {c} : Live(o) /\ UsesAddress(api[o], t)

Spent == worker.step = "create" /\ nextReg > MaxRegs

(* Once interference stops, every ReverseProxyCluster being deleted is     *)
(* gone, and every live one without a conflict is Ready, with its domain   *)
(* registered for its cluster under the id in its status: out-of-band      *)
(* deletions, dead targets and the loss of the owning CR all heal.         *)
RegistrationsConverge ==
    <>[](Spent \/ \A c \in CRs : Exists(c) =>
            /\ Live(c)
            /\ \/ Conflict(c)
               \/ /\ api[c].status.ready /\ api[c].status.domainID \in Registered(api[c].domain)
                  /\ domains[api[c].status.domainID].target \in {None, api[c].address})
=============================================================================
