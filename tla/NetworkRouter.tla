--------------------------- MODULE NetworkRouter ---------------------------
(***************************************************************************)
(* The NetworkRouter controller (networkrouter_controller.go) for one      *)
(* NetworkRouter, composed with the Group controller.  With peers.deploy   *)
(* the router's peer group comes from an owned Group, and its peers from   *)
(* an owned SetupKey (module SetupKey) and DaemonSet.                      *)
(***************************************************************************)
EXTENDS Groups

CONSTANTS Named,       \* the NetBird group peers.group names
          Unset,       \* the empty group id
          MaxRouters,  \* bound: router ids NetBird hands out
          MaxNets      \* bound: ids of the NetBird network

RouterIDs == 1..MaxRouters
Nets      == 1..MaxNets

PeerGroups == GroupIDs \cup {Named, Unset}
Status     == [net: Nets \cup {None}, router: RouterIDs \cup {None}, ready: BOOLEAN]
NoStatus   == [net |-> None, router |-> None, ready |-> FALSE]
Router     == [peers: {"deploy", "group"}, status: Status, deleting: BOOLEAN, finalizer: BOOLEAN]

(* The router in NetBird, and the copy of the object a reconcile works on. *)
NBRouter == [net: Nets, group: PeerGroups]
Copy     == [peers: {"deploy", "group"}, status: Status]

ASSUME RouterBounds ==
    /\ MaxRouters \in Nat /\ MaxNets \in Nat \ {0}
    /\ None \notin RouterIDs \cup Nets \cup PeerGroups /\ {Named, Unset} \cap GroupIDs = {}
    /\ Named # Unset /\ None \notin Router /\ None \notin NBRouter /\ None \notin Copy

VARIABLES
    nr, nrSeen,          \* the NetworkRouter: etcd, informer
    key,                 \* the SetupKey: None, or the group it enrolls into (Unset: no id yet)
    ds,                  \* the DaemonSet: None, or its pods that have enrolled
    net,                 \* the id of the network (None: the Network is not ready)
    routers, nextRouter, \* NetBird: id -> network and group, or None
    worker,
    lost                 \* history: routers no status names any more

kube    == <<nr, nrSeen, key, ds, net>>
netbird == <<routers, nextRouter>>
vars    == <<kube, netbird, worker, lost, groupVars, faults>>

Idle == [step |-> "idle", obj |-> None, status |-> NoStatus, group |-> Unset]

Live == nr # None /\ ~nr.deleting

Init ==
    /\ GroupInit /\ faults = 0
    /\ \E p \in {"deploy", "group"} :
         nr = [peers |-> p, status |-> NoStatus, deleting |-> FALSE, finalizer |-> FALSE]
    /\ nrSeen = nr /\ key = None /\ ds = None /\ net = None
    /\ routers = [r \in RouterIDs |-> None] /\ nextRouter = 1
    /\ worker = Idle /\ lost = {}

-----------------------------------------------------------------------------
(* Around the workers.  An old copy of the SetupKey, of the DaemonSet or   *)
(* of the Network is the same as a later change of the object.             *)
Deliver ==
    /\ nrSeen # nr /\ nrSeen' = nr
    /\ UNCHANGED <<nr, key, ds, net, netbird, worker, lost, groupVars, faults>>

User ==
    /\ Live
    /\ \/ Spend /\ nr' = [nr EXCEPT !.peers = IF @ = "deploy" THEN "group" ELSE "deploy"]
       \/ /\ nr' = IF nr.finalizer THEN [nr EXCEPT !.deleting = TRUE] ELSE None
          /\ UNCHANGED faults
    /\ UNCHANGED <<nrSeen, key, ds, net, netbird, worker, lost, groupVars>>

(* Garbage collection of the owned objects. *)
Collect ==
    /\ nr = None
    /\ \/ group # None /\ ~group.deleting /\ DeletedGroup /\ UNCHANGED <<key, ds>>
       \/ key # None /\ key' = None /\ UNCHANGED <<group, lostGroups, ds>>
       \/ ds # None /\ ds' = None /\ UNCHANGED <<group, lostGroups, key>>
    /\ UNCHANGED <<nr, nrSeen, net, netbird, worker, lost,
                   groupSeen, groups, nextGroup, gworker, faults>>

NetworkReady ==
    /\ net = None /\ net' = 1
    /\ UNCHANGED <<nr, nrSeen, key, ds, netbird, worker, lost, groupVars, faults>>

(* The SetupKey controller resolves the auto group and makes the key. *)
KeyReady ==
    /\ key # None /\ groupSeen # None /\ groupSeen.id # None
    /\ groups[groupSeen.id] # None /\ key # groupSeen.id /\ key' = groupSeen.id
    /\ UNCHANGED <<nr, nrSeen, ds, net, netbird, worker, lost,
                   groupVars, faults>>

(* A pod of the DaemonSet enrolls with the key, which puts it in the group.*)
Join ==
    /\ ds # None /\ key \notin {None, Unset} /\ groups[key] # None
    /\ \E p \in Peers \ ds : /\ ds' = ds \cup {p}
                            /\ groups' = [groups EXCEPT ![key] = @ \cup {p}]
    /\ UNCHANGED <<nr, nrSeen, key, net, netbird, worker, lost,
                   group, groupSeen, nextGroup, gworker, lostGroups, faults>>

InUse ==
    {key} \cup {routers[r].group : r \in {q \in RouterIDs : routers[q] # None /\ routers[q].net = net}}

(* Someone deletes the owned Group, the router or the group in NetBird, or *)
(* the network, which comes back with a new id and without its routers.    *)
Outside ==
    /\ Spend
    /\ \/ group # None /\ ~group.deleting /\ DeletedGroup /\ UNCHANGED <<net, routers, groups>>
       \/ /\ \E r \in RouterIDs : routers[r] # None /\ routers' = [routers EXCEPT ![r] = None]
          /\ UNCHANGED <<group, lostGroups, net, groups>>
       \/ /\ \E g \in GroupIDs \ InUse : groups[g] # None /\ groups' = [groups EXCEPT ![g] = None]
          /\ UNCHANGED <<group, lostGroups, net, routers>>
       \/ /\ net \in 1..(MaxNets - 1) /\ net' = net + 1 /\ routers' = [r \in RouterIDs |-> None]
          /\ UNCHANGED <<group, lostGroups, groups>>
    /\ UNCHANGED <<nr, nrSeen, key, ds, nextRouter, worker, lost, groupSeen, nextGroup, gworker>>

-----------------------------------------------------------------------------
(* Reconcile. *)
(* A patch sends the fields that differ from the copy.  A router is lost   *)
(* when the object is gone, or when the copy missed the id that is         *)
(* overwritten.                                                            *)
Patch(w) ==
    LET o == w.obj.status
        sent(new, old, v) == IF new = old THEN v ELSE new IN
    /\ worker' = Idle
    /\ IF nr = None THEN lost' = lost \cup ({w.status.router} \ {None, o.router}) /\ UNCHANGED nr
       ELSE /\ nr' = [nr EXCEPT !.status = [net    |-> sent(w.status.net, o.net, @.net),
                                            router |-> sent(w.status.router, o.router, @.router),
                                            ready  |-> sent(w.status.ready, o.ready, @.ready)]]
            /\ lost' = lost \cup ({nr.status.router} \ {None, o.router, nr'.status.router})

(* dependency: not ready, with what was resolved so far. *)
Dependency ==
    /\ worker.step = "dependency" /\ Patch([worker EXCEPT !.status.ready = FALSE])
    /\ UNCHANGED <<nrSeen, key, ds, net, netbird, groupVars, faults>>

(* A network with a new id drops the recorded router. *)
KeptRouter(s) == IF s.net \notin {None, net} THEN None ELSE s.router

WithNetwork(w) == [w EXCEPT !.status = [@ EXCEPT !.net = net, !.router = KeptRouter(w.status)]]

Has(r, n) == routers[r] # None /\ routers[r].net = n

(* upsertRouter, the GET: the recorded router, where NetBird still has it. *)
Verify(w, g) ==
    [w EXCEPT !.group = g,
              !.step = IF w.status.router # None /\ Has(w.status.router, w.status.net)
                       THEN "update" ELSE "create"]

(* resolveNetworkID, and the way to the peer group. *)
Resolve(w) ==
    IF net = None THEN [w EXCEPT !.step = "dependency"]
    ELSE IF w.obj.peers = "deploy" THEN [WithNetwork(w) EXCEPT !.step = "group"]
    ELSE Verify(WithNetwork(w), Named)

Start ==
    /\ worker.step = "idle" /\ nrSeen # None
    /\ LET w == [Idle EXCEPT !.obj = [peers |-> nrSeen.peers, status |-> nrSeen.status],
                            !.status = nrSeen.status] IN
       worker' = IF nrSeen.deleting THEN [w EXCEPT !.step = "delete"]
                 ELSE IF nrSeen.finalizer THEN Resolve(w) ELSE [w EXCEPT !.step = "finalize"]
    /\ UNCHANGED <<kube, netbird, lost, groupVars, faults>>

Finalize ==
    /\ worker.step = "finalize"
    /\ IF nr = None THEN worker' = Idle /\ UNCHANGED nr
       ELSE nr' = [nr EXCEPT !.finalizer = TRUE] /\ worker' = Resolve(worker)
    /\ UNCHANGED <<nrSeen, key, ds, net, netbird, lost, groupVars, faults>>

(* ensureDeployedPeers: each of the objects is applied and then read from  *)
(* the informer.  One the informer does not have yet ends the function     *)
(* without an error and without a group.                                   *)
Missing == Verify(worker, Unset)

Ensured(ready, next) == IF ready THEN next ELSE [worker EXCEPT !.step = "dependency"]

ApplyGroup ==
    /\ worker.step = "group" /\ group' = IF group = None THEN NewGroup ELSE group
    /\ worker' = IF groupSeen = None THEN Missing
                 ELSE Ensured(groupSeen.id # None,
                              [worker EXCEPT !.step = "key", !.group = groupSeen.id])
    /\ UNCHANGED <<kube, netbird, lost, groupSeen, groups, nextGroup, gworker, lostGroups, faults>>

ApplyKey ==
    /\ worker.step = "key" /\ key' = IF key = None THEN Unset ELSE key
    /\ \/ key = None /\ worker' = Missing
       \/ worker' = Ensured(key \notin {None, Unset}, [worker EXCEPT !.step = "ds"])
    /\ UNCHANGED <<nr, nrSeen, ds, net, netbird, lost, groupVars, faults>>

(* The DaemonSet of the router pods; what is there keeps its pods. *)
ensureDaemonSet == IF ds = None THEN {} ELSE ds

ApplyDaemonSet ==
    /\ worker.step = "ds" /\ ds' = ensureDaemonSet
    /\ \/ ds = None /\ worker' = Missing
       \/ worker' = Ensured(ds = Peers, Verify(worker, worker.group))
    /\ UNCHANGED <<nr, nrSeen, key, net, netbird, lost, groupVars, faults>>

(* upsertRouter, the PUT or POST. *)
(* Mutant: the update keeps the group of the router. *)
Updated_keeps(w) == routers[w.status.router]

Updated(w) == [routers[w.status.router] EXCEPT !.group = w.group]

Update ==
    /\ worker.step = "update"
    /\ LET r == worker.status.router IN
       IF Has(r, worker.status.net)
       THEN /\ routers' = [routers EXCEPT ![r] = Updated(worker)]
            /\ worker' = [worker EXCEPT !.step = "record"]
       ELSE worker' = Idle /\ UNCHANGED routers
    /\ UNCHANGED <<kube, nextRouter, lost, groupVars, faults>>

Create ==
    /\ worker.step = "create"
    /\ IF worker.status.net # net THEN worker' = Idle /\ UNCHANGED netbird
       ELSE /\ nextRouter <= MaxRouters /\ nextRouter' = nextRouter + 1
            /\ routers' = [routers EXCEPT ![nextRouter] = [net |-> net, group |-> worker.group]]
            /\ worker' = [worker EXCEPT !.step = "record", !.status.router = nextRouter]
    /\ UNCHANGED <<kube, lost, groupVars, faults>>

Record ==
    /\ worker.step = "record" /\ Patch([worker EXCEPT !.status.ready = TRUE])
    /\ UNCHANGED <<nrSeen, key, ds, net, netbird, groupVars, faults>>

(* Mutant: the finalizer goes although the router stays. *)
Delete_skips ==
    /\ worker.step = "delete" /\ worker' = [worker EXCEPT !.step = "unfinalize"]
    /\ UNCHANGED <<kube, netbird, lost, groupVars, faults>>

(* reconcileDelete. *)
Delete ==
    /\ worker.step = "delete" /\ worker' = [worker EXCEPT !.step = "unfinalize"]
    /\ LET s == worker.status IN
       routers' = IF s.net # None /\ s.router # None /\ Has(s.router, s.net)
                  THEN [routers EXCEPT ![s.router] = None] ELSE routers
    /\ UNCHANGED <<kube, nextRouter, lost, groupVars, faults>>

Unfinalize ==
    /\ worker.step = "unfinalize" /\ worker' = Idle /\ nr' = None
    /\ lost' = lost \cup (IF nr = None THEN {} ELSE {nr.status.router} \ {None, worker.status.router})
    /\ UNCHANGED <<nrSeen, key, ds, net, netbird, groupVars, faults>>

(* A call fails, its answer is lost, or the operator restarts. *)
CallFails ==
    /\ worker.step # "idle" /\ Spend /\ worker' = Idle
    /\ lost' = lost \cup (IF worker.step = "record" /\ worker.status.router # worker.obj.status.router
                          THEN {worker.status.router} ELSE {})
    /\ UNCHANGED <<kube, netbird, groupVars>>

Step ==
    \/ Finalize \/ Dependency \/ ApplyGroup \/ ApplyKey \/ ApplyDaemonSet
    \/ Update \/ Create \/ Record \/ Delete \/ Unfinalize

Next ==
    \/ Deliver \/ User \/ Collect \/ NetworkReady \/ KeyReady \/ Join \/ Outside \/ Start \/ Step \/ CallFails
    \/ GroupNext(InUse) /\ UNCHANGED <<kube, netbird, worker, lost>>

Spec == Init /\ [][Next]_vars

(* The work queue is served, the informers catch up, the garbage collector *)
(* and the pods make progress.                                             *)
Fairness ==
    /\ WF_vars(Start \/ Step) /\ WF_vars(Deliver \/ NetworkReady \/ Collect \/ KeyReady \/ Join)
    /\ WF_groupVars(DeliverGroup) /\ WF_groupVars(StartGroup \/ GroupStep(InUse))

FairSpec == Spec /\ Fairness

-----------------------------------------------------------------------------
Worker ==
    [step: {"idle", "finalize", "dependency", "group", "key", "ds", "update", "create", "record",
            "delete", "unfinalize"},
     obj: Copy \cup {None}, status: Status, group: PeerGroups]

RouterTypeOK ==
    /\ nr \in Router \cup {None} /\ nrSeen \in Router \cup {None} /\ net \in Nets \cup {None}
    /\ routers \in [RouterIDs -> NBRouter \cup {None}] /\ nextRouter \in 1..(MaxRouters + 1)
    /\ worker \in Worker /\ lost \subseteq RouterIDs

TypeOK ==
    /\ GroupTypeOK /\ RouterTypeOK /\ faults \in 0..MaxFaults
    /\ key \in GroupIDs \cup {None, Unset} /\ ds \in (SUBSET Peers) \cup {None}

(* Every router of the network is recorded, in hand, or lost to a failure  *)
(* between create and patch or to a copy that missed its id: a             *)
(* NetworkRouter is released only when its router is gone.                 *)
RoutersAccounted ==
    \A r \in RouterIDs : routers[r] # None =>
        \/ r \in lost
        \/ nr # None /\ nr.status.router = r
        \/ worker.step = "record" /\ worker.status.router = r

Spent == \/ worker.step = "create" /\ nextRouter > MaxRouters
         \/ gworker.step = "create" /\ nextGroup > MaxGroups

Want == IF nr.peers = "group" THEN Named ELSE group.id

(* Once interference stops: a router is on the network's present id and    *)
(* its peer group is the one asked for, even when it was first created     *)
(* with an empty one from a copy that missed the owned Group; what a       *)
(* deleted NetworkRouter owned is gone, the NetBird group included, unless *)
(* a router that was lost keeps the group in use.                          *)
RouterConverges ==
    <>[](\/ Spent
         \/ /\ Live /\ nr.status.ready /\ nr.status.net = net /\ nr.status.router # None
            /\ nr.peers = "deploy" => group # None
            /\ routers[nr.status.router] = [net |-> net, group |-> Want]
         \/ /\ nr = None /\ key = None /\ ds = None
            /\ \A r \in RouterIDs : routers[r] # None => r \in lost
            /\ group = None \/ group.id \in InUse)
=============================================================================
