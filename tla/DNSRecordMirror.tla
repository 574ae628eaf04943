-------------------------- MODULE DNSRecordMirror --------------------------
(***************************************************************************)
(* The DNSRecord kind under MirrorReconciler (dnsrecord_mirror.go).  A     *)
(* DNSRecord belongs to a zone whose id it reads from the DNSZone's status *)
(* and adopts a record with its name, type and content (its key) before it *)
(* creates one, so several DNSRecords may hold one record.                 *)
(***************************************************************************)
EXTENDS Naturals, Sequences

CONSTANTS CRs,       \* names a DNSRecord may have
          Keys,      \* name, type and content of a record, normalised
          None,
          MaxZones,  \* bound: incarnations of the zone in NetBird
          MaxIDs,    \* bound: record ids NetBird hands out
          MaxLag,    \* bound: watch events in flight (0: exact informer)
          MaxObjects,\* bound: DNSRecord objects created
          MaxEdits,  \* bound: edits of a DNSRecord's spec
          MaxFaults  \* bound: failed calls, crashes, records deleted out of band

Zones == 1..MaxZones
IDs   == 1..MaxIDs

ASSUME RecordBounds ==
    /\ MaxZones \in Nat \ {0} /\ MaxIDs \in Nat /\ MaxLag \in Nat
    /\ MaxObjects \in Nat /\ MaxEdits \in Nat /\ MaxFaults \in Nat

Object == [key: Keys, zoneID: Zones \cup {None}, id: IDs \cup {None},
           deleting: BOOLEAN, finalizer: BOOLEAN]

ASSUME RecordValues ==
    /\ None \notin CRs /\ None \notin Keys /\ None \notin Zones /\ None \notin IDs
    /\ None \notin Object

VARIABLES
    api, informer, events, \* DNSRecords: etcd, informer, watch events in flight
    zone,                  \* NetBird: the zone that exists; older ones are gone
    zoneSeen,              \* the zone id in the informer's copy of the DNSZone
    records,               \* NetBird: id -> key of an existing record, or None
    home,                  \* the zone each record was created in
    worker,                \* the reconcile in progress
    nextID, objects, edits, faults

kube    == <<api, informer, events>>
netbird == <<zone, records, home, nextID>>
vars == <<kube, zoneSeen, netbird, worker, objects, edits, faults>>

(* obj is the copy Get returned, zoneID and target the ids in hand, lagged *)
(* (a history field) whether the copy was behind etcd.                     *)
Idle == [step |-> "idle", cr |-> None, obj |-> None, zoneID |-> None,
         target |-> None, lagged |-> FALSE]

Exists(c)  == api[c] # None
Live(c)    == api[c] # None /\ ~api[c].deleting
Pending(c) == \E i \in 1..Len(events) : events[i].cr = c

Init ==
    /\ api = [c \in CRs |-> None] /\ informer = api /\ events = <<>>
    /\ zone = 1 /\ zoneSeen = None
    /\ records = [r \in IDs |-> None] /\ home = [r \in IDs |-> None]
    /\ worker = Idle /\ nextID = 1 /\ objects = 0 /\ edits = 0 /\ faults = 0

-----------------------------------------------------------------------------
(* Kubernetes and NetBird around the worker. *)
Store(c, o) ==
    /\ api' = [api EXCEPT ![c] = o]
    /\ \/ o = api[c] /\ UNCHANGED <<informer, events>>
       \/ o # api[c] /\ MaxLag = 0 /\ informer' = [informer EXCEPT ![c] = o]
          /\ UNCHANGED events
       \/ /\ o # api[c] /\ Len(events) < MaxLag
          /\ events' = Append(events, [cr |-> c, obj |-> o]) /\ UNCHANGED informer

Deliver ==
    \/ /\ events # <<>>
       /\ informer' = [informer EXCEPT ![Head(events).cr] = Head(events).obj]
       /\ events' = Tail(events)
       /\ UNCHANGED <<api, zoneSeen, netbird, worker, objects, edits, faults>>
    \/ /\ zoneSeen # zone /\ zoneSeen' = zone
       /\ UNCHANGED <<kube, netbird, worker, objects, edits, faults>>

User ==
    /\ \E c \in CRs :
         \/ \E k \in Keys :
               /\ api[c] = None /\ objects < MaxObjects /\ objects' = objects + 1
               /\ Store(c, [key |-> k, zoneID |-> None, id |-> None,
                            deleting |-> FALSE, finalizer |-> FALSE])
               /\ UNCHANGED edits
         \/ \E k \in Keys :
               /\ Live(c) /\ api[c].key # k /\ edits < MaxEdits /\ edits' = edits + 1
               /\ Store(c, [api[c] EXCEPT !.key = k]) /\ UNCHANGED objects
         \/ /\ Live(c)
            /\ Store(c, IF api[c].finalizer THEN [api[c] EXCEPT !.deleting = TRUE] ELSE None)
            /\ UNCHANGED <<objects, edits>>
    /\ UNCHANGED <<zoneSeen, netbird, worker, faults>>

(* A record is deleted out of band, or the zone with all its records, and  *)
(* the DNSZone controller has created it again.                            *)
Admin ==
    /\ faults < MaxFaults /\ faults' = faults + 1
    /\ \/ \E r \in IDs : /\ records[r] # None
                         /\ records' = [records EXCEPT ![r] = None] /\ UNCHANGED zone
       \/ /\ zone < MaxZones /\ zone' = zone + 1
          /\ records' = [r \in IDs |-> None]
    /\ UNCHANGED <<kube, zoneSeen, home, nextID, worker, objects, edits>>

(* The record with key k, as NetBird keeps at most one of each. *)
Matching(z, k) == {r \in IDs : records[r] = k /\ home[r] = z}
-----------------------------------------------------------------------------
Start(c) ==
    /\ worker.step = "idle" /\ informer[c] # None
    /\ LET o == informer[c] IN
       worker' = [Idle EXCEPT
           !.step = IF o.deleting
                    THEN IF o.id = None \/ o.zoneID = None THEN "unfinalize" ELSE "delete"
                    ELSE IF o.finalizer THEN "resolve" ELSE "finalize",
           !.cr = c, !.obj = o, !.lagged = Pending(c)]
    /\ UNCHANGED <<kube, zoneSeen, netbird, objects, edits, faults>>

Finalize ==
    /\ worker.step = "finalize"
    /\ IF Exists(worker.cr)
       THEN /\ Store(worker.cr, [api[worker.cr] EXCEPT !.finalizer = TRUE])
            /\ worker' = [worker EXCEPT !.step = "resolve"]
       ELSE worker' = Idle /\ UNCHANGED kube
    /\ UNCHANGED <<zoneSeen, netbird, objects, edits, faults>>

(* resolveZoneID reads the DNSZone through its informer; one that is       *)
(* missing, or has no id, is a dependency that is retried (None).          *)
resolveZoneID == zoneSeen

(* Mutant: the recorded record is kept when the zone's id changes, and is  *)
(* not looked up in the new zone.                                          *)
Resolve_keepsRecord ==
    /\ worker.step = "resolve"
    /\ worker' = IF zoneSeen = None THEN Idle
                 ELSE [worker EXCEPT
                         !.step = IF worker.obj.id = None THEN "list" ELSE "patch",
                         !.zoneID = zoneSeen, !.target = worker.obj.id]
    /\ UNCHANGED <<kube, zoneSeen, netbird, objects, edits, faults>>

(* Another zone id than the recorded one drops the recorded record. *)
Resolve ==
    /\ worker.step = "resolve"
    /\ worker' = IF resolveZoneID = None THEN Idle
                 ELSE [worker EXCEPT
                         !.step = "verify", !.zoneID = resolveZoneID,
                         !.target = IF worker.obj.zoneID \notin {None, resolveZoneID} THEN None
                                    ELSE worker.obj.id]
    /\ UNCHANGED <<kube, zoneSeen, netbird, objects, edits, faults>>

Found(w) == w.target # None /\ records[w.target] # None /\ home[w.target] = w.zoneID

Verify ==
    /\ worker.step = "verify"
    /\ worker' = IF Found(worker) THEN [worker EXCEPT !.step = "update"]
                 ELSE [worker EXCEPT !.step = "list", !.target = None]
    /\ UNCHANGED <<kube, zoneSeen, netbird, objects, edits, faults>>

(* Mutant: nothing is adopted. *)
List_neverAdopts ==
    /\ worker.step = "list"
    /\ worker' = IF worker.zoneID # zone THEN Idle ELSE [worker EXCEPT !.step = "create"]
    /\ UNCHANGED <<kube, zoneSeen, netbird, objects, edits, faults>>

(* ListRecords of a zone that is gone is an error. *)
List ==
    /\ worker.step = "list"
    /\ \/ worker.zoneID # zone /\ worker' = Idle
       \/ /\ worker.zoneID = zone
          /\ LET match == Matching(zone, worker.obj.key) IN
             worker' = IF match = {} THEN [worker EXCEPT !.step = "create"]
                       ELSE [worker EXCEPT !.step = "update",
                                           !.target = CHOOSE r \in match : TRUE]
    /\ UNCHANGED <<kube, zoneSeen, netbird, objects, edits, faults>>

(* UpdateRecord: a 404 falls through to the create; NetBird rejects a      *)
(* request that would make the record a duplicate of another.              *)
Update ==
    /\ worker.step = "update"
    /\ \/ /\ ~Found(worker)
          /\ worker' = [worker EXCEPT !.step = "create"] /\ UNCHANGED records
       \/ /\ Found(worker) /\ Matching(zone, worker.obj.key) \subseteq {worker.target}
          /\ records' = [records EXCEPT ![worker.target] = worker.obj.key]
          /\ worker' = [worker EXCEPT !.step = "patch"]
       \/ /\ Found(worker) /\ ~(Matching(zone, worker.obj.key) \subseteq {worker.target})
          /\ worker' = Idle /\ UNCHANGED records
    /\ UNCHANGED <<kube, zoneSeen, zone, home, nextID, objects, edits, faults>>

(* CreateRecord fails in a zone that is gone and for a duplicate. *)
Create ==
    /\ worker.step = "create"
    /\ \/ /\ worker.zoneID # zone \/ Matching(zone, worker.obj.key) # {}
          /\ worker' = Idle /\ UNCHANGED netbird
       \/ /\ worker.zoneID = zone /\ Matching(zone, worker.obj.key) = {} /\ nextID <= MaxIDs
          /\ records' = [records EXCEPT ![nextID] = worker.obj.key]
          /\ home' = [home EXCEPT ![nextID] = zone]
          /\ nextID' = nextID + 1
          /\ worker' = [worker EXCEPT !.step = "patch", !.target = nextID]
          /\ UNCHANGED zone
    /\ UNCHANGED <<kube, zoneSeen, objects, edits, faults>>

(* A merge patch against the copy: each id is sent only if it differs. *)
Merged(o, w) ==
    [o EXCEPT !.zoneID = IF w.zoneID = w.obj.zoneID THEN @ ELSE w.zoneID,
              !.id     = IF w.target = w.obj.id THEN @ ELSE w.target]

PatchStatus ==
    /\ worker.step = "patch"
    /\ IF Exists(worker.cr) THEN Store(worker.cr, Merged(api[worker.cr], worker))
       ELSE UNCHANGED kube
    /\ worker' = Idle
    /\ UNCHANGED <<zoneSeen, netbird, objects, edits, faults>>

(* Mutant: an error of the DELETE is ignored. *)
Delete_errorIgnored ==
    /\ worker.step = "delete"
    /\ worker' = [worker EXCEPT !.step = "unfinalize"]
    /\ \/ UNCHANGED records
       \/ records' = [records EXCEPT ![worker.obj.id] = None]
    /\ UNCHANGED <<kube, zoneSeen, zone, home, nextID, objects, edits, faults>>

(* DeleteRecord of the recorded pair; a 404 counts as deleted. *)
Delete ==
    /\ worker.step = "delete"
    /\ records' = [r \in IDs |-> IF r = worker.obj.id /\ home[r] = worker.obj.zoneID THEN None
                                 ELSE records[r]]
    /\ worker' = [worker EXCEPT !.step = "unfinalize"]
    /\ UNCHANGED <<kube, zoneSeen, zone, home, nextID, objects, edits, faults>>

Unfinalize ==
    /\ worker.step = "unfinalize"
    /\ LET c == worker.cr IN
       Store(c, IF ~Live(c) THEN None ELSE [api[c] EXCEPT !.finalizer = FALSE])
    /\ worker' = Idle
    /\ UNCHANGED <<zoneSeen, netbird, objects, edits, faults>>

CallFails ==
    /\ faults < MaxFaults /\ faults' = faults + 1
    /\ worker.step # "idle" /\ worker' = Idle
    /\ UNCHANGED <<kube, zoneSeen, netbird, objects, edits>>

Crash ==
    /\ faults < MaxFaults /\ faults' = faults + 1
    /\ worker' = Idle
    /\ informer' = api /\ events' = <<>> /\ zoneSeen' \in {zoneSeen, zone}
    /\ UNCHANGED <<api, netbird, objects, edits>>

Step == Finalize \/ Resolve \/ Verify \/ List \/ Update \/ Create \/ PatchStatus
        \/ Delete \/ Unfinalize

Next ==
    \/ User \/ Admin \/ Deliver \/ CallFails \/ Crash
    \/ (\E c \in CRs : Start(c)) \/ Step

Spec == Init /\ [][Next]_vars

Fairness == WF_vars(Deliver) /\ WF_vars(Step) /\ \A c \in CRs : SF_vars(Start(c))

FairSpec == Spec /\ Fairness
-----------------------------------------------------------------------------
TypeOK ==
    /\ api \in [CRs -> Object \cup {None}] /\ informer \in [CRs -> Object \cup {None}]
    /\ events \in Seq([cr: CRs, obj: Object \cup {None}])
    /\ zone \in Zones /\ zoneSeen \in Zones \cup {None}
    /\ records \in [IDs -> Keys \cup {None}] /\ home \in [IDs -> Zones \cup {None}]
    /\ worker \in [step: {"idle", "finalize", "resolve", "verify", "list", "update",
                          "create", "patch", "delete", "unfinalize"},
                   cr: CRs \cup {None}, obj: Object \cup {None},
                   zoneID: Zones \cup {None}, target: IDs \cup {None}, lagged: BOOLEAN]
    /\ nextID \in 1..(MaxIDs + 1)
    /\ objects \in 0..MaxObjects /\ edits \in 0..MaxEdits /\ faults \in 0..MaxFaults

(* The pair of ids in a DNSRecord's status belongs together: the record    *)
(* was created in the zone recorded beside it.                             *)
RecordInZone ==
    \A c \in CRs : (Exists(c) /\ api[c].id # None) => home[api[c].id] = api[c].zoneID

(* Another live DNSRecord records the record that c's status names.        *)
Shared(c) == \E d \in CRs \ {c} : Live(d) /\ api[d].id = api[c].id

(* deleteDNSRecord: a DNSRecord disappears only when the record its status *)
(* names is gone, unless its copy was behind etcd when the delete began.   *)
(* Nothing is asked of a record that another live DNSRecord uses, which    *)
(* the last one standing is to remove (SkipsDeleteWhileUsed).              *)
DeletionRemoves ==
    [][\A c \in CRs :
         (/\ Exists(c) /\ api'[c] = None /\ ~worker.lagged
          /\ api[c].id # None /\ ~Shared(c))
            => records[api[c].id] = None]_vars

(* The bound on ids stops a create, after records deleted under their CRs. *)
Spent == worker.step = "create" /\ nextID > MaxIDs

(* Once interference stops every live DNSRecord records a record with its  *)
(* key in the zone its DNSZone has, the record that was deleted with       *)
(* another DNSRecord or left behind by a crash included.  Edits make two   *)
(* exceptions: a DNSRecord edited to the key of another record, which      *)
(* NetBird refuses to duplicate, and two that share a record, one edited.  *)
(* A deleted DNSRecord goes away.                                          *)
RecordsConverge ==
    \A c \in CRs :
        <>[](Exists(c) => \/ /\ Live(c) /\ api[c].id # None /\ api[c].zoneID = zone
                             /\ \/ records[api[c].id] = api[c].key
                                \/ /\ records[api[c].id] # None
                                   /\ Matching(zone, api[c].key) # {}
                          \/ Live(c) /\ \E d \in CRs : Live(d) /\ api[d].id = api[c].id
                                                        /\ api[d].key # api[c].key
                          \/ Spent)

(* architecture.md: "Adoption (by name/domain/address) implies shared      *)
(* ownership; a deleting CR skips the NetBird delete while another live CR *)
(* still uses the object."                                                 *)
SkipsDeleteWhileUsed ==
    worker.step = "delete" =>
        \A c \in CRs \ {worker.cr} : ~(Live(c) /\ ~Pending(c) /\ api[c].id = worker.obj.id)
=============================================================================
