--------------------------- MODULE DNSZoneMirror ---------------------------
(***************************************************************************)
(* The DNSZone kind driven by MirrorReconciler (mirror.go,                 *)
(* dnszone_mirror.go): DNSZone objects in the Kubernetes API, the informer *)
(* the operator reads them through, the zones of the NetBird account, the  *)
(* 30s list cache of zone.go, and the one worker controller-runtime gives  *)
(* the kind.  A reconcile is a sequence of API calls; each call is one     *)
(* action, so users, the NetBird administrator, the watch stream and       *)
(* crashes act between any two of them.                                    *)
(***************************************************************************)
EXTENDS Naturals, Sequences

CONSTANTS CRs,        \* namespaced names a DNSZone may have
          Names,      \* zone names (spec.name)
          Domains,    \* zone domains (spec.domain)
          None,       \* no object, no zone, no id, no list cached
          MaxZones,   \* bound: zone ids NetBird hands out
          MaxUIDs,    \* bound: DNSZone objects created
          MaxLag,     \* bound: watch events in flight (0: the informer is exact)
          MaxEdits,   \* bound: spec edits by users, zones created out of band
          MaxFaults   \* bound: failed calls, crashes, zones deleted out of band

ZoneIDs == 1..MaxZones
Specs   == [name: Names, domain: Domains]

(* A DNSZone object as far as the reconciler reads it.  Domain, groups and *)
(* flags travel with the name in one request, so the spec is one value.    *)
Object  == [uid: 1..MaxUIDs, spec: Specs, zoneID: ZoneIDs \cup {None},
            deleting: BOOLEAN, finalizer: BOOLEAN]

ASSUME BoundsAssumption ==
    /\ MaxZones \in Nat /\ MaxUIDs \in Nat /\ MaxLag \in Nat
    /\ MaxEdits \in Nat /\ MaxFaults \in Nat

ASSUME NoneAssumption ==
    /\ None \notin CRs /\ None \notin Names /\ None \notin ZoneIDs
    /\ None \notin Specs /\ None \notin Object
    /\ None \notin [ZoneIDs -> Specs \cup {None}]

VARIABLES
    api,       \* CR name -> object in etcd, or None
    informer,  \* CR name -> object as the manager's cached client returns it
    events,    \* watch events not yet delivered to the informer, oldest first
    zones,     \* NetBird: zone id -> its name and domain, or None
    listCache, \* the cached ListZones answer while it is fresh, or None
    worker,    \* the reconcile in progress
    managed,   \* history: zone ids the operator has created or updated
    nextZone, nextUID, edits, faults   \* counters behind the bounds

vars == <<api, informer, events, zones, listCache, worker, managed,
          nextZone, nextUID, edits, faults>>

Steps == {"idle", "finalize", "verify", "adopt", "update", "create", "patch",
          "delGet", "delScan", "delZone", "unfinalize"}

(* obj is the copy Get returned, target the zone id in hand, liveName what *)
(* GetZone answered, and lagging (a history field) the CRs with a watch    *)
(* event in flight when the delete guard listed the informer.              *)
IdleWorker == [step |-> "idle", cr |-> None, obj |-> None, target |-> None,
               liveName |-> None, lagging |-> {}]

Exists(c)   == api[c] # None
Live(c)     == api[c] # None /\ ~api[c].deleting
Pending(c)  == \E i \in 1..Len(events) : events[i].cr = c

-----------------------------------------------------------------------------
(* Kubernetes: a write to etcd is seen by the informer when its watch      *)
(* event is delivered; events of one kind arrive in the order written.  A  *)
(* write that changes nothing sends no event.                              *)
Store(c, o) ==
    \/ /\ o = api[c]
       /\ UNCHANGED <<api, informer, events>>
    \/ /\ o # api[c]
       /\ api' = [api EXCEPT ![c] = o]
       /\ \/ /\ MaxLag = 0
             /\ informer' = [informer EXCEPT ![c] = o]
             /\ events' = events
          \/ /\ Len(events) < MaxLag
             /\ events' = Append(events, [cr |-> c, obj |-> o])
             /\ informer' = informer

Deliver ==
    /\ events # <<>>
    /\ informer' = [informer EXCEPT ![Head(events).cr] = Head(events).obj]
    /\ events' = Tail(events)
    /\ UNCHANGED <<api, zones, listCache, worker, managed,
                   nextZone, nextUID, edits, faults>>

UserCreate(c, s) ==
    /\ api[c] = None
    /\ nextUID <= MaxUIDs
    /\ Store(c, [uid |-> nextUID, spec |-> s, zoneID |-> None,
                 deleting |-> FALSE, finalizer |-> FALSE])
    /\ nextUID' = nextUID + 1
    /\ UNCHANGED <<zones, listCache, worker, managed, nextZone, edits, faults>>

UserEdit(c, s) ==
    /\ Live(c)
    /\ s # api[c].spec
    /\ edits < MaxEdits
    /\ Store(c, [api[c] EXCEPT !.spec = s])
    /\ edits' = edits + 1
    /\ UNCHANGED <<zones, listCache, worker, managed, nextZone, nextUID, faults>>

(* A delete of an object without finalizer removes it at once. *)
UserDelete(c) ==
    /\ Live(c)
    /\ Store(c, IF api[c].finalizer THEN [api[c] EXCEPT !.deleting = TRUE]
                                    ELSE None)
    /\ UNCHANGED <<zones, listCache, worker, managed,
                   nextZone, nextUID, edits, faults>>

-----------------------------------------------------------------------------
(* The NetBird administrator, working outside the operator. *)
AdminCreateZone(s) ==
    /\ edits < MaxEdits
    /\ nextZone <= MaxZones
    /\ zones' = [zones EXCEPT ![nextZone] = s]
    /\ nextZone' = nextZone + 1
    /\ edits' = edits + 1
    /\ UNCHANGED <<api, informer, events, listCache, worker, managed,
                   nextUID, faults>>

AdminDeleteZone(z) ==
    /\ faults < MaxFaults
    /\ zones[z] # None
    /\ zones' = [zones EXCEPT ![z] = None]
    /\ faults' = faults + 1
    /\ UNCHANGED <<api, informer, events, listCache, worker, managed,
                   nextZone, nextUID, edits>>

-----------------------------------------------------------------------------
(* One reconcile.  Get reads the informer; NotFound ends the reconcile.    *)
(* deleteDNSZone returns at once when no id is recorded.                   *)
Start(c) ==
    /\ worker.step = "idle"
    /\ informer[c] # None
    /\ LET o == informer[c] IN
       worker' = [IdleWorker EXCEPT
                    !.step = IF o.deleting
                             THEN IF o.zoneID = None THEN "unfinalize" ELSE "delGet"
                             ELSE IF o.finalizer THEN "verify" ELSE "finalize",
                    !.cr = c, !.obj = o]
    /\ UNCHANGED <<api, informer, events, zones, listCache, managed,
                   nextZone, nextUID, edits, faults>>

(* AddFinalizer and its patch, which is addressed by name and sends only   *)
(* the difference; it fails with NotFound when the object is gone.         *)
Finalize ==
    /\ worker.step = "finalize"
    /\ IF Exists(worker.cr)
       THEN /\ Store(worker.cr, [api[worker.cr] EXCEPT !.finalizer = TRUE])
            /\ worker' = [worker EXCEPT !.step = "verify", !.obj.finalizer = TRUE]
       ELSE /\ worker' = IdleWorker
            /\ UNCHANGED <<api, informer, events>>
    /\ UNCHANGED <<zones, listCache, managed, nextZone, nextUID, edits, faults>>

(* Mutants: the zone's name passed for its id; a failed GET taken for a 404. *)
Verify_nameForID ==
    /\ worker.step = "verify"
    /\ LET id == worker.obj.zoneID IN
       worker' = IF id # None /\ zones[id] # None
                 THEN [worker EXCEPT !.step = "update", !.target = worker.obj.spec.name]
                 ELSE [worker EXCEPT !.step = "adopt"]
    /\ UNCHANGED <<api, informer, events, zones, listCache, managed,
                   nextZone, nextUID, edits, faults>>

Verify_errorAsMissing ==
    /\ worker.step = "verify"
    /\ LET id == worker.obj.zoneID IN
       \/ worker' = [worker EXCEPT !.step = "adopt"]
       \/ /\ id # None /\ zones[id] # None
          /\ worker' = [worker EXCEPT !.step = "update", !.target = id]
    /\ UNCHANGED <<api, informer, events, zones, listCache, managed,
                   nextZone, nextUID, edits, faults>>

(* verifyNetbirdID: the recorded id if NetBird still has it, else "". *)
Verify ==
    /\ worker.step = "verify"
    /\ LET id == worker.obj.zoneID IN
       worker' = IF id # None /\ zones[id] # None
                 THEN [worker EXCEPT !.step = "update", !.target = id]
                 ELSE [worker EXCEPT !.step = "adopt"]
    /\ UNCHANGED <<api, informer, events, zones, listCache, managed,
                   nextZone, nextUID, edits, faults>>

Named(list, n) == {z \in ZoneIDs : list[z] # None /\ list[z].name = n}

(* Mutant: ErrZoneNotFound returned like any other error. *)
Adopt_missIsError ==
    /\ worker.step = "adopt"
    /\ LET found == Named(zones, worker.obj.spec.name) IN
       /\ listCache' = zones
       /\ worker' \in IF found = {} THEN {IdleWorker}
                     ELSE {[worker EXCEPT !.step = "update", !.target = z] : z \in found}
    /\ UNCHANGED <<api, informer, events, zones, managed,
                   nextZone, nextUID, edits, faults>>

(* GetDNSZoneByName: a hit in a fresh cached list is used as it is; a miss *)
(* is confirmed by fetching the list again.                                *)
Adopt ==
    /\ worker.step = "adopt"
    /\ LET n      == worker.obj.spec.name
           cached == IF listCache = None THEN {} ELSE Named(listCache, n)
           found  == IF cached # {} THEN cached ELSE Named(zones, n)
       IN /\ listCache' = IF cached # {} THEN listCache ELSE zones
          /\ IF found = {}
             THEN worker' = [worker EXCEPT !.step = "create"]
             ELSE \E z \in found :
                    worker' = [worker EXCEPT !.step = "update", !.target = z]
    /\ UNCHANGED <<api, informer, events, zones, managed,
                   nextZone, nextUID, edits, faults>>

(* UpdateZone writes the whole request; a 404 falls through to create. *)
Update ==
    /\ worker.step = "update"
    /\ IF zones[worker.target] # None
       THEN /\ zones' = [zones EXCEPT ![worker.target] = worker.obj.spec]
            /\ managed' = managed \cup {worker.target}
            /\ worker' = [worker EXCEPT !.step = "patch"]
       ELSE /\ worker' = [worker EXCEPT !.step = "create", !.target = None]
            /\ UNCHANGED <<zones, managed>>
    /\ UNCHANGED <<api, informer, events, listCache,
                   nextZone, nextUID, edits, faults>>

Create ==
    /\ worker.step = "create"
    /\ nextZone <= MaxZones
    /\ zones' = [zones EXCEPT ![nextZone] = worker.obj.spec]
    /\ nextZone' = nextZone + 1
    /\ managed' = managed \cup {nextZone}
    /\ worker' = [worker EXCEPT !.step = "patch", !.target = nextZone]
    /\ UNCHANGED <<api, informer, events, listCache, nextUID, edits, faults>>

(* The status patch is a merge patch against the copy Get returned: an id  *)
(* equal to the one that copy carried is not sent.                         *)
PatchStatus ==
    /\ worker.step = "patch"
    /\ IF Exists(worker.cr) /\ worker.target # worker.obj.zoneID
       THEN Store(worker.cr, [api[worker.cr] EXCEPT !.zoneID = worker.target])
       ELSE UNCHANGED <<api, informer, events>>
    /\ worker' = IdleWorker
    /\ UNCHANGED <<zones, listCache, managed, nextZone, nextUID, edits, faults>>

-----------------------------------------------------------------------------
(* deleteDNSZone: read the zone's live name, scan the other DNSZones for   *)
(* one that shares it, delete the zone only when there is none.            *)
DelGet ==
    /\ worker.step = "delGet"
    /\ LET z == zones[worker.obj.zoneID] IN
       worker' = IF z = None
                 THEN [worker EXCEPT !.step = "unfinalize"]
                 ELSE [worker EXCEPT !.step = "delScan", !.liveName = z.name]
    /\ UNCHANGED <<api, informer, events, zones, listCache, managed,
                   nextZone, nextUID, edits, faults>>

(* Mutant: the guard compares the deleting object's own spec.name. *)
SharedByOther_ownSpec(self, name) ==
    \E c \in CRs :
        /\ informer[c] # None
        /\ informer[c].uid # self.uid
        /\ ~informer[c].deleting
        /\ informer[c].spec.name = self.spec.name

(* dnsZoneSharedByOther with anotherLiveMatches, over the informer. *)
SharedByOther(self, name) ==
    \E c \in CRs :
        /\ informer[c] # None
        /\ informer[c].uid # self.uid
        /\ ~informer[c].deleting
        /\ \/ informer[c].spec.name = name
           \/ informer[c].zoneID = self.zoneID

DelScan ==
    /\ worker.step = "delScan"
    /\ worker' = [worker EXCEPT
                    !.step = IF SharedByOther(worker.obj, worker.liveName)
                             THEN "unfinalize" ELSE "delZone",
                    !.lagging = {c \in CRs : Pending(c)}]
    /\ UNCHANGED <<api, informer, events, zones, listCache, managed,
                   nextZone, nextUID, edits, faults>>

(* DeleteZone; a 404 counts as deleted. *)
DelZone ==
    /\ worker.step = "delZone"
    /\ zones' = [zones EXCEPT ![worker.obj.zoneID] = None]
    /\ worker' = [worker EXCEPT !.step = "unfinalize"]
    /\ UNCHANGED <<api, informer, events, listCache, managed,
                   nextZone, nextUID, edits, faults>>

(* RemoveFinalizer and its patch: the object goes if it is being deleted.  *)
(* The patch names the object, not its uid.                                *)
Unfinalize ==
    /\ worker.step = "unfinalize"
    /\ IF Exists(worker.cr)
       THEN Store(worker.cr, IF api[worker.cr].deleting THEN None
                             ELSE [api[worker.cr] EXCEPT !.finalizer = FALSE])
       ELSE UNCHANGED <<api, informer, events>>
    /\ worker' = IdleWorker
    /\ UNCHANGED <<zones, listCache, managed, nextZone, nextUID, edits, faults>>

-----------------------------------------------------------------------------
(* Any call may fail: the reconcile returns the error, or the in-use       *)
(* conflict of DeleteZone, and is queued again without a status patch.     *)
CallFails ==
    /\ worker.step # "idle"
    /\ faults < MaxFaults
    /\ worker' = IdleWorker
    /\ faults' = faults + 1
    /\ UNCHANGED <<api, informer, events, zones, listCache, managed,
                   nextZone, nextUID, edits>>

(* The operator restarts: its memory is lost, the informer lists afresh. *)
Crash ==
    /\ faults < MaxFaults
    /\ worker' = IdleWorker
    /\ listCache' = None
    /\ informer' = api
    /\ events' = <<>>
    /\ faults' = faults + 1
    /\ UNCHANGED <<api, zones, managed, nextZone, nextUID, edits>>

(* listCacheTTL passes. *)
Expire ==
    /\ listCache # None
    /\ listCache' = None
    /\ UNCHANGED <<api, informer, events, zones, worker, managed,
                   nextZone, nextUID, edits, faults>>

-----------------------------------------------------------------------------
Init ==
    /\ api = [c \in CRs |-> None]
    /\ informer = [c \in CRs |-> None]
    /\ events = <<>>
    /\ zones = [z \in ZoneIDs |-> None]
    /\ listCache = None
    /\ worker = IdleWorker
    /\ managed = {}
    /\ nextZone = 1 /\ nextUID = 1 /\ edits = 0 /\ faults = 0

User ==
    \E c \in CRs : \/ \E s \in Specs : UserCreate(c, s) \/ UserEdit(c, s)
                   \/ UserDelete(c)

Admin ==
    \/ \E s \in Specs : AdminCreateZone(s)
    \/ \E z \in ZoneIDs : AdminDeleteZone(z)

Step ==
    \/ Finalize \/ Verify \/ Adopt \/ Update \/ Create \/ PatchStatus
    \/ DelGet \/ DelScan \/ DelZone \/ Unfinalize

Next ==
    \/ User \/ Admin \/ Deliver \/ Expire
    \/ \E c \in CRs : Start(c)
    \/ Step
    \/ CallFails \/ Crash

Spec == Init /\ [][Next]_vars

(* The worker keeps working, watch events arrive, and every object in the  *)
(* informer is reconciled again and again: a success is requeued after     *)
(* resyncInterval, an error after a back-off, a conflict after             *)
(* cleanupRetry.  Users, the administrator and faults owe nothing.         *)
Fairness ==
    /\ WF_vars(Step) /\ WF_vars(Deliver) /\ WF_vars(Expire)
    /\ \A c \in CRs : SF_vars(Start(c))

FairSpec == Spec /\ Fairness

-----------------------------------------------------------------------------
TypeOK ==
    /\ api \in [CRs -> Object \cup {None}]
    /\ informer \in [CRs -> Object \cup {None}]
    /\ events \in Seq([cr: CRs, obj: Object \cup {None}])
    /\ zones \in [ZoneIDs -> Specs \cup {None}]
    /\ listCache \in [ZoneIDs -> Specs \cup {None}] \cup {None}
    /\ worker \in [step: Steps, cr: CRs \cup {None}, obj: Object \cup {None},
                   target: ZoneIDs \cup {None}, liveName: Names \cup {None},
                   lagging: SUBSET CRs]
    /\ managed \subseteq ZoneIDs
    /\ nextZone \in 1..(MaxZones + 1) /\ nextUID \in 1..(MaxUIDs + 1)
    /\ edits \in 0..MaxEdits /\ faults \in 0..MaxFaults

(* The delete guard of deleteDNSZone: when a reconcile is about to call    *)
(* DeleteZone, no other live DNSZone has the zone's id in its status,      *)
(* except one whose watch event was still in flight when the guard listed  *)
(* the informer.  Nothing between the list and the delete can add one.     *)
DeleteGuard ==
    worker.step = "delZone" =>
        \A c \in CRs :
            /\ Live(c)
            /\ api[c].uid # worker.obj.uid
            /\ api[c].zoneID = worker.obj.zoneID
            => c \in worker.lagging

(* applyDNSZone replaces the id recorded in a DNSZone's status only when   *)
(* NetBird no longer has that zone, unless the reconcile worked on a copy  *)
(* of the object in which the id was not the recorded one.                 *)
AbandonsOnlyMissing ==
    [][\A c \in CRs :
         /\ Exists(c) /\ api[c].zoneID # None
         /\ Exists(c)' /\ api'[c].uid = api[c].uid
         /\ api'[c].zoneID # api[c].zoneID
         => \/ zones[api[c].zoneID] = None
            \/ worker.obj.zoneID # api[c].zoneID]_vars

(* The bound on ids stops a create, after creates stale copies provoked. *)
Spent == worker.step = "create" /\ nextZone > MaxZones

(* Once users, the administrator and faults are done, every live DNSZone   *)
(* records a zone that exists: deletions, stale reads, stale list hits and *)
(* crashes along the way are all repaired by a later reconcile.  A deleted *)
(* DNSZone does not stay in Terminating: reconcileDelete removes the       *)
(* finalizer once the zone is deleted, gone or left to a survivor.         *)
ZonesConverge ==
    \A c \in CRs :
        <>[](Exists(c) => \/ Live(c) /\ api[c].zoneID # None /\ zones[api[c].zoneID] # None
                          \/ Spent)

(* architecture.md: "Shared NetBird objects are deleted by the last CR     *)
(* standing."  With no DNSZone left and no reconcile running, no zone the  *)
(* operator managed is left in NetBird.                                    *)
LastCRStandingRemoves ==
    (\A c \in CRs : ~Exists(c)) /\ worker.step = "idle"
        => \A z \in managed : zones[z] = None
=============================================================================
