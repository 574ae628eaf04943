---------------------------- MODULE NetworkTree ----------------------------
(***************************************************************************)
(* Network and NetworkResource (network_mirror.go, networkresource_mirror  *)
(* .go) under MirrorReconciler: one Network object, the NetworkResources   *)
(* that refer to it, and one worker per kind, running concurrently.  The   *)
(* child reads its parent's status through the parent's own watch, and     *)
(* addresses its NetBird resource by a (network id, resource id) pair.     *)
(***************************************************************************)
EXTENDS Naturals, Sequences

CONSTANTS Res,        \* names of NetworkResource objects
          None,
          MaxNets,    \* bound: network ids NetBird hands out
          MaxResIDs,  \* bound: resource ids NetBird hands out
          MaxLag,     \* bound: events in flight per kind (0: exact informers)
          MaxObjects, \* bound: objects created after the first ones
          MaxFaults   \* bound: failed calls, crashes, out-of-band deletions

NetIDs == 1..MaxNets
ResIDs == 1..MaxResIDs

ASSUME TreeBounds ==
    /\ MaxNets \in Nat /\ MaxResIDs \in Nat /\ MaxLag \in Nat
    /\ MaxObjects \in Nat /\ MaxFaults \in Nat

Network  == [id: NetIDs \cup {None}, deleting: BOOLEAN, finalizer: BOOLEAN]
Resource == [netID: NetIDs \cup {None}, id: ResIDs \cup {None},
             deleting: BOOLEAN, finalizer: BOOLEAN]

ASSUME TreeValues ==
    /\ None \notin NetIDs /\ None \notin ResIDs
    /\ None \notin Network /\ None \notin Resource

VARIABLES
    net, netSeen, netEvents,   \* the Network: etcd, informer, events in flight
    res, resSeen, resEvents,   \* the NetworkResources, likewise
    nets, home, ress,          \* NetBird: the networks and resources that exist,
                               \* and the network each resource was created in
    netWorker, resWorker,      \* the reconciles in progress
    nextNet, nextRes, objects, faults,  \* counters behind the bounds
    excused                    \* history: resources lost to a lagging copy or a
                               \* reconcile cut short after its create call

netKube == <<net, netSeen, netEvents>>
resKube == <<res, resSeen, resEvents>>
netbird == <<nets, home, ress, nextNet, nextRes>>
vars == <<netKube, resKube, netbird, netWorker, resWorker, objects, faults, excused>>

(* obj is the copy Get returned, target the id in hand, netID the parent's *)
(* id as resolved, lagged (a history field) whether the copy was behind.   *)
IdleNet == [step |-> "idle", obj |-> None, target |-> None, lagged |-> FALSE]
IdleRes == [step |-> "idle", cr |-> None, obj |-> None, netID |-> None,
            target |-> None, lagged |-> FALSE]

NewNetwork  == [id |-> None, deleting |-> FALSE, finalizer |-> FALSE]
NewResource == [netID |-> None, id |-> None, deleting |-> FALSE, finalizer |-> FALSE]

Init ==
    /\ net = NewNetwork /\ netSeen = net /\ netEvents = <<>>
    /\ res = [c \in Res |-> NewResource] /\ resSeen = res /\ resEvents = <<>>
    /\ nets = {} /\ ress = {} /\ home = [r \in ResIDs |-> None]
    /\ netWorker = IdleNet /\ resWorker = IdleRes
    /\ nextNet = 1 /\ nextRes = 1 /\ objects = 0 /\ faults = 0
    /\ excused = {}

-----------------------------------------------------------------------------
(* Kubernetes: one watch per kind, each delivering in order. *)
StoreNet(o) ==
    /\ net' = o
    /\ \/ o = net /\ UNCHANGED <<netSeen, netEvents>>
       \/ o # net /\ MaxLag = 0 /\ netSeen' = o /\ UNCHANGED netEvents
       \/ /\ o # net /\ Len(netEvents) < MaxLag
          /\ netEvents' = Append(netEvents, o) /\ UNCHANGED netSeen

StoreRes(c, o) ==
    /\ res' = [res EXCEPT ![c] = o]
    /\ \/ o = res[c] /\ UNCHANGED <<resSeen, resEvents>>
       \/ o # res[c] /\ MaxLag = 0 /\ resSeen' = [resSeen EXCEPT ![c] = o]
          /\ UNCHANGED resEvents
       \/ /\ o # res[c] /\ Len(resEvents) < MaxLag
          /\ resEvents' = Append(resEvents, [cr |-> c, obj |-> o]) /\ UNCHANGED resSeen

Deliver ==
    \/ /\ netEvents # <<>>
       /\ netSeen' = Head(netEvents) /\ netEvents' = Tail(netEvents)
       /\ UNCHANGED <<net, resKube, netbird, netWorker, resWorker, objects, faults, excused>>
    \/ /\ resEvents # <<>>
       /\ resSeen' = [resSeen EXCEPT ![Head(resEvents).cr] = Head(resEvents).obj]
       /\ resEvents' = Tail(resEvents)
       /\ UNCHANGED <<res, netKube, netbird, netWorker, resWorker, objects, faults, excused>>

(* A delete of an object without finalizer removes it at once. *)
Deleted(o) == IF o.finalizer THEN [o EXCEPT !.deleting = TRUE] ELSE None

User ==
    /\ \/ /\ net = None /\ objects < MaxObjects /\ objects' = objects + 1
          /\ StoreNet(NewNetwork) /\ UNCHANGED resKube
       \/ /\ net # None /\ ~net.deleting
          /\ StoreNet(Deleted(net)) /\ UNCHANGED <<resKube, objects>>
       \/ \E c \in Res :
             /\ res[c] = None /\ objects < MaxObjects /\ objects' = objects + 1
             /\ StoreRes(c, NewResource) /\ UNCHANGED netKube
       \/ \E c \in Res :
             /\ res[c] # None /\ ~res[c].deleting
             /\ StoreRes(c, Deleted(res[c])) /\ UNCHANGED <<netKube, objects>>
    /\ UNCHANGED <<netbird, netWorker, resWorker, faults, excused>>

(* NetBird: deleting a network takes its resources with it. *)
DropNetwork(n) ==
    /\ nets' = nets \ {n}
    /\ ress' = {r \in ress : home[r] # n}
    /\ UNCHANGED <<home, nextNet, nextRes>>

Admin ==
    /\ faults < MaxFaults /\ faults' = faults + 1
    /\ \/ \E n \in nets : DropNetwork(n)
       \/ \E r \in ress : ress' = ress \ {r} /\ UNCHANGED <<nets, home, nextNet, nextRes>>
    /\ UNCHANGED <<netKube, resKube, netWorker, resWorker, objects, excused>>

-----------------------------------------------------------------------------
(* The Network worker. *)
NetStart ==
    /\ netWorker.step = "idle" /\ netSeen # None
    /\ netWorker' = [step |-> IF netSeen.deleting
                              THEN IF netSeen.id = None THEN "unfinalize" ELSE "delNet"
                              ELSE IF netSeen.finalizer THEN "verify" ELSE "finalize",
                     obj |-> netSeen, target |-> None, lagged |-> netEvents # <<>>]
    /\ UNCHANGED <<netKube, resKube, netbird, resWorker, objects, faults, excused>>

NetFinalize ==
    /\ netWorker.step = "finalize"
    /\ IF net = None
       THEN netWorker' = IdleNet /\ UNCHANGED netKube
       ELSE /\ StoreNet([net EXCEPT !.finalizer = TRUE])
            /\ netWorker' = [netWorker EXCEPT !.step = "verify"]
    /\ UNCHANGED <<resKube, netbird, resWorker, objects, faults, excused>>

(* Mutant: the recorded id is trusted without a GET. *)
NetVerify_trustsID ==
    /\ netWorker.step = "verify"
    /\ netWorker' = IF netWorker.obj.id # None
                    THEN [netWorker EXCEPT !.step = "update", !.target = netWorker.obj.id]
                    ELSE [netWorker EXCEPT !.step = "create"]
    /\ UNCHANGED <<netKube, resKube, netbird, resWorker, objects, faults, excused>>

(* applyNetwork: the recorded id is kept if NetBird still has it. *)
NetVerify ==
    /\ netWorker.step = "verify"
    /\ netWorker' = IF netWorker.obj.id \in nets
                    THEN [netWorker EXCEPT !.step = "update", !.target = netWorker.obj.id]
                    ELSE [netWorker EXCEPT !.step = "create"]
    /\ UNCHANGED <<netKube, resKube, netbird, resWorker, objects, faults, excused>>

(* Update changes nothing modelled; a 404 is returned as an error. *)
NetUpdate ==
    /\ netWorker.step = "update"
    /\ netWorker' = IF netWorker.target \in nets THEN [netWorker EXCEPT !.step = "patch"]
                    ELSE IdleNet
    /\ UNCHANGED <<netKube, resKube, netbird, resWorker, objects, faults, excused>>

NetCreate ==
    /\ netWorker.step = "create" /\ nextNet <= MaxNets
    /\ nets' = nets \cup {nextNet} /\ nextNet' = nextNet + 1
    /\ netWorker' = [netWorker EXCEPT !.step = "patch", !.target = nextNet]
    /\ UNCHANGED <<netKube, resKube, home, ress, nextRes, resWorker, objects, faults, excused>>

(* The status patch sends the id only if it differs from the copy's. *)
NetPatch ==
    /\ netWorker.step = "patch"
    /\ IF net # None /\ netWorker.target # netWorker.obj.id
       THEN StoreNet([net EXCEPT !.id = netWorker.target])
       ELSE UNCHANGED netKube
    /\ netWorker' = IdleNet
    /\ UNCHANGED <<resKube, netbird, resWorker, objects, faults, excused>>

NetDelete ==
    /\ netWorker.step = "delNet"
    /\ DropNetwork(netWorker.obj.id)
    /\ netWorker' = [netWorker EXCEPT !.step = "unfinalize"]
    /\ UNCHANGED <<netKube, resKube, resWorker, objects, faults, excused>>

(* The patch names the object, not its uid. *)
Unfinalized(o) == IF o = None \/ o.deleting THEN None ELSE [o EXCEPT !.finalizer = FALSE]

NetUnfinalize ==
    /\ netWorker.step = "unfinalize"
    /\ StoreNet(Unfinalized(net))
    /\ netWorker' = IdleNet
    /\ UNCHANGED <<resKube, netbird, resWorker, objects, faults, excused>>

-----------------------------------------------------------------------------
(* The NetworkResource worker.  deleteNetworkResource needs both ids. *)
ResStart(c) ==
    /\ resWorker.step = "idle" /\ resSeen[c] # None
    /\ LET o == resSeen[c] IN
       resWorker' = [IdleRes EXCEPT
           !.step = IF o.deleting
                    THEN IF o.id = None \/ o.netID = None THEN "unfinalize" ELSE "delRes"
                    ELSE IF o.finalizer THEN "resolve" ELSE "finalize",
           !.cr = c, !.obj = o,
           !.lagged = \E i \in 1..Len(resEvents) : resEvents[i].cr = c]
    /\ UNCHANGED <<netKube, resKube, netbird, netWorker, objects, faults, excused>>

ResFinalize ==
    /\ resWorker.step = "finalize"
    /\ LET c == resWorker.cr IN
       IF res[c] = None
       THEN resWorker' = IdleRes /\ UNCHANGED resKube
       ELSE /\ StoreRes(c, [res[c] EXCEPT !.finalizer = TRUE])
            /\ resWorker' = [resWorker EXCEPT !.step = "resolve"]
    /\ UNCHANGED <<netKube, netbird, netWorker, objects, faults, excused>>

(* resolveNetworkID reads the parent through its informer; a parent that   *)
(* is missing or has no id is a dependency that is retried (None).         *)
resolveNetworkID == IF netSeen = None THEN None ELSE netSeen.id

(* Another network id than the recorded one drops the recorded resource. *)
ResResolve ==
    /\ resWorker.step = "resolve"
    /\ LET o == resWorker.obj IN
       resWorker' = IF resolveNetworkID = None THEN IdleRes
                    ELSE [resWorker EXCEPT
                            !.step = "verify", !.netID = resolveNetworkID,
                            !.target = IF o.netID \notin {None, resolveNetworkID} THEN None
                                       ELSE o.id]
    /\ UNCHANGED <<netKube, resKube, netbird, netWorker, objects, faults, excused>>

(* Resources(networkID).Get finds a resource only in its own network. *)
Found(w) == w.target \in ress /\ home[w.target] = w.netID

(* Mutant: any error of the GET counts as a resource that is gone. *)
ResVerify_errorAsMissing ==
    /\ resWorker.step = "verify"
    /\ \/ resWorker' = [resWorker EXCEPT !.step = "create", !.target = None]
       \/ Found(resWorker) /\ resWorker' = [resWorker EXCEPT !.step = "update"]
    /\ UNCHANGED <<netKube, resKube, netbird, netWorker, objects, faults, excused>>

ResVerify ==
    /\ resWorker.step = "verify"
    /\ resWorker' = IF Found(resWorker) THEN [resWorker EXCEPT !.step = "update"]
                    ELSE [resWorker EXCEPT !.step = "create", !.target = None]
    /\ UNCHANGED <<netKube, resKube, netbird, netWorker, objects, faults, excused>>

ResUpdate ==
    /\ resWorker.step = "update"
    /\ resWorker' = IF Found(resWorker) THEN [resWorker EXCEPT !.step = "patch"] ELSE IdleRes
    /\ UNCHANGED <<netKube, resKube, netbird, netWorker, objects, faults, excused>>

(* Create fails with a 404 when the network is gone. *)
ResCreate ==
    /\ resWorker.step = "create"
    /\ \/ /\ resWorker.netID \notin nets
          /\ resWorker' = IdleRes
          /\ UNCHANGED netbird
       \/ /\ resWorker.netID \in nets /\ nextRes <= MaxResIDs
          /\ ress' = ress \cup {nextRes}
          /\ home' = [home EXCEPT ![nextRes] = resWorker.netID]
          /\ nextRes' = nextRes + 1
          /\ resWorker' = [resWorker EXCEPT !.step = "patch", !.target = nextRes]
          /\ UNCHANGED <<nets, nextNet>>
    /\ UNCHANGED <<netKube, resKube, netWorker, objects, faults, excused>>

(* Mutant: the network id is recorded once and not when it changes. *)
Merged_keepsNetwork(o, w) ==
    [o EXCEPT !.netID = IF w.obj.netID # None THEN @ ELSE w.netID,
              !.id    = IF w.target = w.obj.id THEN @ ELSE w.target]

(* A merge patch against the copy: each id is sent only if it differs. *)
Merged(o, w) ==
    [o EXCEPT !.netID = IF w.netID = w.obj.netID THEN @ ELSE w.netID,
              !.id    = IF w.target = w.obj.id   THEN @ ELSE w.target]

ResPatch ==
    /\ resWorker.step = "patch"
    /\ LET c == resWorker.cr IN
       IF res[c] = None
       THEN UNCHANGED resKube /\ excused' = excused \cup {resWorker.target}
       ELSE /\ StoreRes(c, Merged(res[c], resWorker))
            /\ excused' = IF resWorker.lagged THEN excused \cup {res[c].id, resWorker.target}
                          ELSE excused
    /\ resWorker' = IdleRes
    /\ UNCHANGED <<netKube, netbird, netWorker, objects, faults>>

(* DELETE of the recorded pair; a 404 counts as deleted. *)
ResDelete ==
    /\ resWorker.step = "delRes"
    /\ ress' = {r \in ress : r # resWorker.obj.id \/ home[r] # resWorker.obj.netID}
    /\ resWorker' = [resWorker EXCEPT !.step = "unfinalize"]
    /\ UNCHANGED <<netKube, resKube, nets, home, nextNet, nextRes, netWorker, objects,
                   faults, excused>>

ResUnfinalize ==
    /\ resWorker.step = "unfinalize"
    /\ LET c == resWorker.cr IN
       /\ StoreRes(c, Unfinalized(res[c]))
       /\ excused' = IF resWorker.lagged /\ res[c] # None THEN excused \cup {res[c].id}
                     ELSE excused
    /\ resWorker' = IdleRes
    /\ UNCHANGED <<netKube, netbird, netWorker, objects, faults>>

-----------------------------------------------------------------------------
(* A call of one of the workers fails; what it had just created is lost. *)
CallFails ==
    /\ faults < MaxFaults /\ faults' = faults + 1
    /\ \/ netWorker.step # "idle" /\ netWorker' = IdleNet /\ UNCHANGED <<resWorker, excused>>
       \/ /\ resWorker.step # "idle" /\ resWorker' = IdleRes
          /\ excused' = excused \cup {resWorker.target}
          /\ UNCHANGED netWorker
    /\ UNCHANGED <<netKube, resKube, netbird, objects>>

(* The operator restarts and its informers list afresh. *)
Crash ==
    /\ faults < MaxFaults /\ faults' = faults + 1
    /\ netWorker' = IdleNet /\ resWorker' = IdleRes
    /\ netSeen' = net /\ netEvents' = <<>>
    /\ resSeen' = res /\ resEvents' = <<>>
    /\ excused' = excused \cup {resWorker.target}
    /\ UNCHANGED <<net, res, netbird, objects>>

NetStep == NetFinalize \/ NetVerify \/ NetUpdate \/ NetCreate \/ NetPatch
           \/ NetDelete \/ NetUnfinalize
ResStep == ResFinalize \/ ResResolve \/ ResVerify \/ ResUpdate \/ ResCreate \/ ResPatch
           \/ ResDelete \/ ResUnfinalize

Next ==
    \/ User \/ Admin \/ Deliver \/ CallFails \/ Crash
    \/ NetStart \/ NetStep
    \/ (\E c \in Res : ResStart(c)) \/ ResStep

Spec == Init /\ [][Next]_vars

(* Both workers work, the watches deliver, every object is queued again.   *)
Fairness ==
    /\ WF_vars(Deliver)
    /\ WF_vars(NetStart \/ NetStep) /\ WF_vars(ResStep)
    /\ \A c \in Res : SF_vars(ResStart(c))

FairSpec == Spec /\ Fairness

-----------------------------------------------------------------------------
TypeOK ==
    /\ net \in Network \cup {None} /\ netSeen \in Network \cup {None}
    /\ netEvents \in Seq(Network \cup {None})
    /\ res \in [Res -> Resource \cup {None}] /\ resSeen \in [Res -> Resource \cup {None}]
    /\ resEvents \in Seq([cr: Res, obj: Resource \cup {None}])
    /\ nets \subseteq NetIDs /\ ress \subseteq ResIDs
    /\ home \in [ResIDs -> NetIDs \cup {None}]
    /\ netWorker \in [step: {"idle", "finalize", "verify", "update", "create", "patch",
                             "delNet", "unfinalize"},
                      obj: Network \cup {None}, target: NetIDs \cup {None}, lagged: BOOLEAN]
    /\ resWorker \in [step: {"idle", "finalize", "resolve", "verify", "update", "create",
                             "patch", "delRes", "unfinalize"},
                      cr: Res \cup {None}, obj: Resource \cup {None},
                      netID: NetIDs \cup {None}, target: ResIDs \cup {None}, lagged: BOOLEAN]
    /\ nextNet \in 1..(MaxNets + 1) /\ nextRes \in 1..(MaxResIDs + 1)
    /\ objects \in 0..MaxObjects /\ faults \in 0..MaxFaults
    /\ excused \subseteq ResIDs \cup {None}

(* The pair of ids in a NetworkResource's status belongs together: the     *)
(* resource was created in the network recorded beside it, although the    *)
(* two fields are merged into an object that may have moved on.            *)
PairConsistent ==
    \A c \in Res : (res[c] # None /\ res[c].id # None) => home[res[c].id] = res[c].netID

(* applyNetworkResource and deleteNetworkResource lose no NetBird resource *)
(* on their own account: one that exists is recorded by its object, or in  *)
(* the hands of the reconcile that made it, or sits in a network that is   *)
(* no longer its parent's, or was lost to a lagging copy or a fault.       *)
ResourcesAccounted ==
    \A r \in ress :
        \/ r \in excused
        \/ \E c \in Res : res[c] # None /\ res[c].id = r
        \/ resWorker.step = "patch" /\ resWorker.target = r
        \/ net = None \/ home[r] # net.id

(* The bounds on ids stop a create, after creates stale copies provoked. *)
Spent == \/ netWorker.step = "create" /\ nextNet > MaxNets
         \/ resWorker.step = "create" /\ nextRes > MaxResIDs

(* Once interference stops, a live NetworkResource of a live Network       *)
(* records a resource that exists in the network the Network records, and  *)
(* deleted objects are gone, whichever of parent and child went first.     *)
TreeConverges ==
    <>[](\/ Spent
         \/ /\ net # None => ~net.deleting /\ net.id \in nets
            /\ \A c \in Res : res[c] # None =>
                  /\ ~res[c].deleting
                  /\ net # None => /\ res[c].id \in ress /\ home[res[c].id] = net.id
                                   /\ res[c].netID = net.id)
=============================================================================
