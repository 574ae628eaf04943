------------------------ MODULE DNSZoneMirrorProofs ------------------------
(* Proofs of the safety properties of DNSZoneMirror, for any number of     *)
(* DNSZone objects, names, zones, watch events in flight, edits and        *)
(* faults.                                                                 *)
EXTENDS DNSZoneMirror, TLAPS

Events == Seq([cr: CRs, obj: Object \cup {None}])

(* The informer is the API server's state with the pending events undone:  *)
(* an object with no event in flight is exact, and the newest event of an  *)
(* object carries what etcd holds.                                         *)
Synced ==
    /\ Len(events) <= MaxLag
    /\ \A c \in CRs : ~Pending(c) => informer[c] = api[c]
    /\ \A i \in 1..Len(events) :
          (\A j \in 1..Len(events) : j > i => events[j].cr # events[i].cr)
              => events[i].obj = api[events[i].cr]

(* What the reconcile in progress has in hand at each of its steps. *)
WorkerOK ==
    /\ worker.step # "idle" => worker.cr \in CRs /\ worker.obj \in Object
    /\ worker.step \in {"delGet", "delScan", "delZone"} => worker.obj.zoneID \in ZoneIDs
    /\ worker.step \in {"update", "patch"} => worker.target \in ZoneIDs

IDUsed(id) == id # None => id < nextZone
ObjUsed(o) == o # None => IDUsed(o.zoneID)

(* No id that NetBird has not handed out yet is recorded in Kubernetes. *)
IDsUsed ==
    /\ \A c \in CRs : ObjUsed(api[c]) /\ ObjUsed(informer[c])
    /\ \A i \in 1..Len(events) : ObjUsed(events[i].obj)

(* Nor does the reconcile in progress hold one. *)
WorkerIDs == ObjUsed(worker.obj) /\ IDUsed(worker.target)

(* A reconcile that works on another zone than the one its copy records    *)
(* found the recorded one missing, and ids are never handed out again.     *)
NoAbandon ==
    /\ worker.step \in {"adopt", "update", "create", "patch"}
    /\ worker.obj.zoneID # None
    /\ worker.step \in {"update", "patch"} => worker.target # worker.obj.zoneID
    => zones[worker.obj.zoneID] = None

(* Nor does a zone, or a cached list, have one. *)
ZonesUsed ==
    /\ \A z \in ZoneIDs : zones[z] # None => z < nextZone
    /\ listCache # None => \A z \in ZoneIDs : listCache[z] # None => z < nextZone

IInv ==
    /\ TypeOK /\ Synced /\ WorkerOK
    /\ IDsUsed /\ WorkerIDs
    /\ NoAbandon /\ DeleteGuard

-----------------------------------------------------------------------------
(* Appending one watch event. *)
LEMMA AppendFacts ==
    ASSUME TypeOK, NEW e, events' = Append(events, e)
    PROVE  /\ Len(events) \in Nat
           /\ Len(events') = Len(events) + 1
           /\ events'[Len(events) + 1] = e
           /\ \A i \in 1..Len(events) :
                 /\ events'[i] = events[i]
                 /\ events[i] \in [cr: CRs, obj: Object \cup {None}]
                 /\ events[i].cr \in CRs
  <1> DEFINE E == [cr: CRs, obj: Object \cup {None}]
  <1>1. events \in Seq(E)
    BY DEF TypeOK
  <1>2. /\ Len(events) \in Nat
        /\ Len(events') = Len(events) + 1
        /\ events'[Len(events) + 1] = e
        /\ \A i \in 1..Len(events) : events'[i] = events[i] /\ events[i] \in E
    <2> HIDE DEF E
    <2> QED BY <1>1
  <1> QED
    BY <1>2

(* Every write of an object keeps the three views of it well typed. *)
LEMMA StoreTypes ==
    ASSUME TypeOK, NEW c \in CRs, NEW o \in Object \cup {None}, Store(c, o)
    PROVE  /\ api' \in [CRs -> Object \cup {None}]
           /\ informer' \in [CRs -> Object \cup {None}]
           /\ events' \in Events
  <1> DEFINE E == [cr: CRs, obj: Object \cup {None}]
  <1>1. [cr |-> c, obj |-> o] \in E
    OBVIOUS
  <1>2. events \in Seq(E)
    BY DEF TypeOK
  <1>3. events' = events \/ events' = Append(events, [cr |-> c, obj |-> o])
    BY DEF Store
  <1>4. events' \in Seq(E)
    <2> HIDE DEF E
    <2> QED BY <1>1, <1>2, <1>3
  <1> QED
    BY <1>4 DEF TypeOK, Store, Events

(* Every write of an object keeps the informer exact up to the events in   *)
(* flight.                                                                 *)
LEMMA StoreSynced ==
    ASSUME TypeOK, Synced, NEW c \in CRs, NEW o \in Object \cup {None}, Store(c, o)
    PROVE  Synced'
  <1>1. CASE o = api[c]
    BY <1>1 DEF Store, Synced, Pending
  <1>2. CASE o # api[c] /\ MaxLag = 0
    <2>1. Len(events) = 0
      BY <1>2 DEF Synced, TypeOK
    <2>2. /\ api' = [api EXCEPT ![c] = o]
          /\ informer' = [informer EXCEPT ![c] = o]
          /\ events' = events
      BY <1>2, <2>1 DEF Store
    <2> QED
      BY <2>1, <2>2 DEF Synced, Pending, TypeOK
  <1>3. CASE o # api[c] /\ MaxLag # 0
    <2>1. /\ api' = [api EXCEPT ![c] = o]
          /\ informer' = informer
          /\ Len(events) < MaxLag
          /\ events' = Append(events, [cr |-> c, obj |-> o])
      BY <1>3 DEF Store
    <2> DEFINE n == Len(events)
    <2>2. /\ n \in Nat
          /\ Len(events') = n + 1
          /\ events'[n + 1] = [cr |-> c, obj |-> o]
          /\ \A i \in 1..n : events'[i] = events[i] /\ events[i].cr \in CRs
      BY <2>1, AppendFacts DEF TypeOK
    <2>3. Len(events') <= MaxLag
      BY <2>1, <2>2, BoundsAssumption
    <2>4. ASSUME NEW d \in CRs, ~Pending(d)'
          PROVE  informer'[d] = api'[d]
      <3>1. d # c
        BY <2>2, <2>4 DEF Pending
      <3>2. ~Pending(d)
        BY <2>2, <2>4 DEF Pending
      <3> QED
        BY <3>1, <3>2, <2>1 DEF Synced, TypeOK
    <2>5. ASSUME NEW i \in 1..Len(events'),
                 \A j \in 1..Len(events') : j > i => events'[j].cr # events'[i].cr
          PROVE  events'[i].obj = api'[events'[i].cr]
      <3>1. CASE i = n + 1
        BY <3>1, <2>1, <2>2 DEF TypeOK
      <3>2. CASE i # n + 1
        <4>1. i \in 1..n /\ events'[i] = events[i]
          BY <3>2, <2>2
        <4>2. events[i].cr # c
          BY <4>1, <2>2, <2>5
        <4>3. \A j \in 1..n : j > i => events[j].cr # events[i].cr
          BY <4>1, <2>2, <2>5
        <4>4. events[i].obj = api[events[i].cr]
          BY <4>1, <4>3 DEF Synced
        <4> QED
          BY <4>1, <4>2, <4>4, <2>1, <2>2 DEF TypeOK
      <3> QED
        BY <3>1, <3>2
    <2> QED
      BY <2>3, <2>4, <2>5 DEF Synced
  <1> QED
    BY <1>1, <1>2, <1>3

(* A write of an object that records only ids already handed out keeps     *)
(* every recorded id so.                                                   *)
LEMMA StoreIDs ==
    ASSUME TypeOK, NEW c \in CRs, NEW o \in Object \cup {None}, Store(c, o),
           IDsUsed, ObjUsed(o), nextZone' = nextZone
    PROVE  IDsUsed'
  <1> USE DEF ObjUsed, IDUsed
  <1>1. \A d \in CRs : ObjUsed(api[d])' /\ ObjUsed(informer[d])'
    BY DEF Store, TypeOK, IDsUsed
  <1>2. CASE events' = events
    BY <1>1, <1>2 DEF IDsUsed
  <1>3. CASE events' = Append(events, [cr |-> c, obj |-> o])
    <2>1. /\ Len(events) \in Nat
          /\ Len(events') = Len(events) + 1
          /\ events'[Len(events) + 1] = [cr |-> c, obj |-> o]
          /\ \A i \in 1..Len(events) : events'[i] = events[i]
      BY <1>3, AppendFacts
    <2> QED
      BY <1>1, <2>1 DEF IDsUsed
  <1> QED
    BY <1>2, <1>3 DEF Store

(* Steps that write nothing to Kubernetes keep the facts about it. *)
LEMMA KubeUnchanged ==
    ASSUME TypeOK, Synced, IDsUsed, UNCHANGED <<api, informer, events>>,
           nextZone' = nextZone \/ nextZone' = nextZone + 1
    PROVE  Synced' /\ IDsUsed'
  <1>1. Synced'
    BY DEF Synced, Pending
  <1>2. nextZone \in Nat /\ MaxZones \in Nat
    BY BoundsAssumption DEF TypeOK
  <1>3. ASSUME NEW o \in Object \cup {None}, ObjUsed(o)
        PROVE  ObjUsed(o)'
    <2>1. o # None => o.zoneID \in 1..MaxZones \cup {None}
      BY DEF Object, ZoneIDs
    <2> QED
      BY <1>2, <1>3, <2>1 DEF ObjUsed, IDUsed
  <1>4. \A i \in 1..Len(events) : events[i].obj \in Object \cup {None}
    <2> DEFINE E == [cr: CRs, obj: Object \cup {None}]
    <2>1. events \in Seq(E)
      BY DEF TypeOK
    <2>2. \A i \in 1..Len(events) : events[i] \in E
      <3> HIDE DEF E
      <3> QED BY <2>1
    <2> QED
      BY <2>2
  <1> QED
    BY <1>1, <1>3, <1>4 DEF IDsUsed, TypeOK

(* Delivering the oldest event keeps the informer exact. *)
LEMMA DeliverKube ==
    ASSUME TypeOK, Synced, IDsUsed, Deliver
    PROVE  /\ TypeOK' /\ Synced' /\ IDsUsed'
  <1> DEFINE E == [cr: CRs, obj: Object \cup {None}]
             e == Head(events)
             n == Len(events)
  <1>1. events \in Seq(E)
    BY DEF TypeOK
  <1>2. /\ n \in Nat /\ n > 0
        /\ e = events[1] /\ e \in E
        /\ events' \in Seq(E)
        /\ Len(events') = n - 1
        /\ \A i \in 1..(n - 1) : events'[i] = events[i + 1]
        /\ \A i \in 1..n : events[i] \in E
    <2> HIDE DEF E
    <2> QED BY <1>1 DEF Deliver
  <1>3. /\ api' = api /\ nextZone' = nextZone
        /\ informer' = [informer EXCEPT ![e.cr] = e.obj]
        /\ e.cr \in CRs /\ e.obj \in Object \cup {None}
    BY <1>2 DEF Deliver
  <1>4. TypeOK'
    BY <1>2, <1>3 DEF TypeOK, Deliver
  <1>5. Synced'
    <2>1. Len(events') <= MaxLag
      BY <1>2, BoundsAssumption DEF Synced
    <2>2. ASSUME NEW c \in CRs, ~Pending(c)'
          PROVE  informer'[c] = api'[c]
      <3>1. \A j \in 1..n : j > 1 => events[j].cr # c
        <4> SUFFICES ASSUME NEW j \in 1..n, j > 1
                     PROVE  events[j].cr # c
          OBVIOUS
        <4>1. j - 1 \in 1..(n - 1) /\ (j - 1) + 1 = j
          BY <1>2
        <4>2. events'[j - 1] = events[j]
          BY <1>2, <4>1
        <4> QED
          BY <1>2, <2>2, <4>1, <4>2 DEF Pending
      <3>2. CASE e.cr = c
        BY <1>2, <1>3, <3>1, <3>2 DEF Synced, TypeOK
      <3>3. CASE e.cr # c
        <4>1. ~Pending(c)
          BY <1>2, <3>1, <3>3 DEF Pending
        <4> QED
          BY <1>3, <3>3, <4>1 DEF Synced, TypeOK
      <3> QED
        BY <3>2, <3>3
    <2>3. ASSUME NEW i \in 1..Len(events'),
                 \A j \in 1..Len(events') : j > i => events'[j].cr # events'[i].cr
          PROVE  events'[i].obj = api'[events'[i].cr]
      <3>1. i + 1 \in 1..n /\ events'[i] = events[i + 1]
        BY <1>2
      <3>2. ASSUME NEW j \in 1..n, j > i + 1
            PROVE  events[j].cr # events[i + 1].cr
        <4>1. j - 1 \in 1..(n - 1) /\ j - 1 > i /\ (j - 1) + 1 = j
          BY <1>2, <3>2
        <4> QED
          BY <1>2, <2>3, <3>1, <4>1, Zenon
      <3> QED
        BY <1>3, <3>1, <3>2 DEF Synced
    <2> QED
      BY <2>1, <2>2, <2>3 DEF Synced
  <1>6. IDsUsed'
    <2>1. \A i \in 1..n : ObjUsed(events[i].obj)
      BY DEF IDsUsed
    <2>2. ObjUsed(e.obj)
      BY <1>2, <2>1
    <2>3. ASSUME NEW c \in CRs
          PROVE  ObjUsed(api[c])' /\ ObjUsed(informer[c])'
      BY <1>3, <2>2 DEF IDsUsed, ObjUsed, IDUsed, TypeOK
    <2>4. ASSUME NEW i \in 1..Len(events')
          PROVE  ObjUsed(events[i].obj)'
      <3>1. i + 1 \in 1..n /\ events'[i] = events[i + 1]
        BY <1>2
      <3> QED
        BY <1>3, <2>1, <3>1 DEF ObjUsed, IDUsed
    <2> QED
      BY <2>3, <2>4 DEF IDsUsed
  <1> QED
    BY <1>4, <1>5, <1>6

-----------------------------------------------------------------------------
(* The initial state satisfies the inductive invariant. *)
LEMMA InitIInv == Init => IInv
  <1> SUFFICES ASSUME Init PROVE IInv
    OBVIOUS
  <1>1. IdleWorker \in [step: Steps, cr: CRs \cup {None}, obj: Object \cup {None},
                       target: ZoneIDs \cup {None}, liveName: Names \cup {None},
                       lagging: SUBSET CRs]
    BY DEF IdleWorker, Steps
  <1>2. TypeOK
    BY <1>1, BoundsAssumption DEF Init, TypeOK
  <1>3. Synced /\ IDsUsed
    BY BoundsAssumption DEF Init, Synced, IDsUsed, ObjUsed, Pending
  <1>4. WorkerOK /\ WorkerIDs /\ NoAbandon /\ DeleteGuard
    BY DEF Init, IdleWorker, WorkerOK, WorkerIDs, ObjUsed, IDUsed, NoAbandon, DeleteGuard
  <1> QED
    BY <1>2, <1>3, <1>4 DEF IInv

(* The idle worker satisfies everything said about the worker. *)
LEMMA IdleOK ==
    ASSUME worker' = IdleWorker
    PROVE  /\ worker' \in [step: Steps, cr: CRs \cup {None}, obj: Object \cup {None},
                           target: ZoneIDs \cup {None}, liveName: Names \cup {None},
                           lagging: SUBSET CRs]
           /\ WorkerOK' /\ WorkerIDs' /\ NoAbandon' /\ DeleteGuard'
  BY DEF IdleWorker, Steps, WorkerOK, WorkerIDs, ObjUsed, IDUsed, NoAbandon, DeleteGuard

(* A user's write of object o under the name c: it records no id that the  *)
(* object did not record before, so no new claim on a zone appears.        *)
LEMMA UserWrite ==
    ASSUME IInv, NEW c \in CRs, NEW o \in Object \cup {None}, Store(c, o),
           UNCHANGED <<zones, listCache, worker, managed, nextZone, faults>>,
           nextUID' \in 1..(MaxUIDs + 1), edits' \in 0..MaxEdits,
           \/ o = None
           \/ o.zoneID = None
           \/ /\ api[c] # None /\ o.zoneID = api[c].zoneID
              /\ o.uid = api[c].uid /\ (~o.deleting => ~api[c].deleting)
    PROVE  IInv'
  <1> USE DEF IInv
  <1>1. TypeOK'
    BY StoreTypes, Zenon DEF TypeOK, Events
  <1>2. Synced'
    BY StoreSynced
  <1>3. ObjUsed(o)
    BY DEF IDsUsed, ObjUsed, IDUsed
  <1>4. IDsUsed'
    BY <1>3, StoreIDs
  <1>5. WorkerOK' /\ WorkerIDs' /\ NoAbandon'
    BY DEF WorkerOK, WorkerIDs, ObjUsed, IDUsed, NoAbandon
  <1>6. DeleteGuard'
    <2> SUFFICES ASSUME worker.step = "delZone", NEW d \in CRs, Live(d)',
                        api'[d].uid # worker.obj.uid,
                        api'[d].zoneID = worker.obj.zoneID
                 PROVE  d \in worker.lagging
      BY DEF DeleteGuard
    <2>1. worker.obj.zoneID # None
      BY NoneAssumption DEF WorkerOK
    <2>2. api' = api \/ api' = [api EXCEPT ![c] = o]
      BY DEF Store
    <2>3. /\ Live(d)
          /\ api[d].uid # worker.obj.uid
          /\ api[d].zoneID = worker.obj.zoneID
      BY <2>1, <2>2 DEF Live, TypeOK
    <2> QED
      BY <2>3 DEF DeleteGuard
  <1> QED
    BY <1>1, <1>2, <1>4, <1>5, <1>6

(* Users keep the invariant. *)
LEMMA UserSteps == IInv /\ User => IInv'
  <1> SUFFICES ASSUME IInv, User PROVE IInv'
    OBVIOUS
  <1>0. TypeOK
    BY DEF IInv
  <1>1. ASSUME NEW c \in CRs, NEW s \in Specs, UserCreate(c, s)
        PROVE  IInv'
    <2> DEFINE o == [uid |-> nextUID, spec |-> s, zoneID |-> None,
                     deleting |-> FALSE, finalizer |-> FALSE]
    <2>1. o \in Object
      BY <1>0, <1>1, BoundsAssumption DEF UserCreate, TypeOK, Object
    <2>2. nextUID' \in 1..(MaxUIDs + 1) /\ edits' \in 0..MaxEdits
      BY <1>0, <1>1, BoundsAssumption DEF UserCreate, TypeOK
    <2>3. Store(c, o) /\ o.zoneID = None
      BY <1>1 DEF UserCreate
    <2>4. UNCHANGED <<zones, listCache, worker, managed, nextZone, faults>>
      BY <1>1 DEF UserCreate
    <2> HIDE DEF o
    <2> QED
      BY <2>1, <2>2, <2>3, <2>4, UserWrite
  <1>2. ASSUME NEW c \in CRs, NEW s \in Specs, UserEdit(c, s)
        PROVE  IInv'
    <2> DEFINE o == [api[c] EXCEPT !.spec = s]
    <2>1. /\ api[c] \in Object /\ o \in Object
          /\ api[c] # None /\ o.zoneID = api[c].zoneID
          /\ o.uid = api[c].uid /\ o.deleting = api[c].deleting
      BY <1>0, <1>2 DEF UserEdit, Live, TypeOK, Object
    <2>2. nextUID' \in 1..(MaxUIDs + 1) /\ edits' \in 0..MaxEdits
      BY <1>0, <1>2, BoundsAssumption DEF UserEdit, TypeOK
    <2>3. /\ Store(c, o)
          /\ UNCHANGED <<zones, listCache, worker, managed, nextZone, faults>>
      BY <1>2 DEF UserEdit
    <2> HIDE DEF o
    <2> QED
      BY <2>1, <2>2, <2>3, UserWrite
  <1>3. ASSUME NEW c \in CRs, UserDelete(c)
        PROVE  IInv'
    <2> DEFINE o == IF api[c].finalizer THEN [api[c] EXCEPT !.deleting = TRUE] ELSE None
    <2>1. /\ api[c] \in Object /\ api[c] # None
          /\ o = None \/ /\ o \in Object /\ o.zoneID = api[c].zoneID
                         /\ o.uid = api[c].uid /\ o.deleting
      BY <1>0, <1>3, Zenon DEF UserDelete, Live, TypeOK, Object
    <2>2. nextUID' \in 1..(MaxUIDs + 1) /\ edits' \in 0..MaxEdits
      BY <1>0, <1>3 DEF UserDelete, TypeOK
    <2>3. /\ Store(c, o)
          /\ UNCHANGED <<zones, listCache, worker, managed, nextZone, faults>>
      BY <1>3 DEF UserDelete
    <2> HIDE DEF o
    <2> QED
      BY <2>1, <2>2, <2>3, UserWrite
  <1> QED
    BY <1>1, <1>2, <1>3 DEF User

(* The administrator keeps the invariant: a zone deleted out of band can   *)
(* only help NoAbandon, and a new zone takes an id nobody holds.           *)
LEMMA AdminSteps == IInv /\ Admin => IInv'
  <1> SUFFICES ASSUME IInv, Admin PROVE IInv'
    OBVIOUS
  <1> USE DEF IInv
  <1>1. ASSUME NEW s \in Specs, AdminCreateZone(s)
        PROVE  IInv'
    <2>1. /\ UNCHANGED <<api, informer, events, worker>>
          /\ nextZone' = nextZone + 1 /\ nextZone \in ZoneIDs
          /\ zones' = [zones EXCEPT ![nextZone] = s]
      BY <1>1, BoundsAssumption DEF AdminCreateZone, TypeOK, ZoneIDs
    <2>2. TypeOK'
      BY <1>1, <2>1, BoundsAssumption DEF AdminCreateZone, TypeOK
    <2>3. Synced' /\ IDsUsed'
      BY <2>1, KubeUnchanged
    <2>4. WorkerOK' /\ DeleteGuard'
      BY <2>1 DEF WorkerOK, DeleteGuard, Live
    <2>5. WorkerIDs'
      BY <2>1, BoundsAssumption DEF WorkerIDs, ObjUsed, IDUsed, TypeOK, Object, ZoneIDs
    <2>6. NoAbandon'
      <3> SUFFICES ASSUME worker.step \in {"adopt", "update", "create", "patch"},
                          worker.obj.zoneID # None,
                          worker.step \in {"update", "patch"} => worker.target # worker.obj.zoneID
                   PROVE  zones'[worker.obj.zoneID] = None
        BY <2>1 DEF NoAbandon
      <3>1. worker.obj \in Object /\ worker.obj.zoneID \in ZoneIDs
        BY DEF WorkerOK, Object
      <3>2. worker.obj.zoneID < nextZone
        BY <3>1, NoneAssumption DEF WorkerIDs, ObjUsed, IDUsed
      <3>3. worker.obj.zoneID # nextZone
        BY <3>1, <3>2, <2>1 DEF ZoneIDs
      <3> QED
        BY <2>1, <3>1, <3>3 DEF NoAbandon, TypeOK
    <2> QED
      BY <2>2, <2>3, <2>4, <2>5, <2>6
  <1>2. ASSUME NEW z \in ZoneIDs, AdminDeleteZone(z)
        PROVE  IInv'
    <2>1. /\ UNCHANGED <<api, informer, events, worker, nextZone>>
          /\ zones' = [zones EXCEPT ![z] = None]
      BY <1>2 DEF AdminDeleteZone
    <2>2. TypeOK'
      BY <1>2, BoundsAssumption DEF AdminDeleteZone, TypeOK
    <2>3. Synced' /\ IDsUsed'
      BY <2>1, KubeUnchanged
    <2>4. WorkerOK' /\ DeleteGuard' /\ WorkerIDs'
      BY <2>1 DEF WorkerOK, DeleteGuard, Live, WorkerIDs, ObjUsed, IDUsed
    <2>5. NoAbandon'
      BY <2>1 DEF NoAbandon, TypeOK
    <2> QED
      BY <2>2, <2>3, <2>4, <2>5
  <1> QED
    BY <1>1, <1>2 DEF Admin

(* Watch delivery and the expiry of the list cache keep the invariant: the *)
(* delete guard keeps the CRs that lagged when it listed, not now.         *)
LEMMA EnvSteps == IInv /\ (Deliver \/ Expire) => IInv'
  <1> SUFFICES ASSUME IInv, Deliver \/ Expire PROVE IInv'
    OBVIOUS
  <1> USE DEF IInv
  <1>1. UNCHANGED <<api, zones, worker, nextZone>>
    BY DEF Deliver, Expire
  <1>2. WorkerOK' /\ WorkerIDs' /\ NoAbandon' /\ DeleteGuard'
    BY <1>1 DEF WorkerOK, WorkerIDs, ObjUsed, IDUsed, NoAbandon, DeleteGuard, Live
  <1>3. CASE Deliver
    BY <1>2, <1>3, DeliverKube
  <1>4. CASE Expire
    <2>1. TypeOK'
      BY <1>4 DEF Expire, TypeOK
    <2>2. Synced' /\ IDsUsed'
      BY <1>1, <1>4, KubeUnchanged DEF Expire
    <2> QED
      BY <1>2, <2>1, <2>2
  <1> QED
    BY <1>3, <1>4

(* A failed call and a restart keep the invariant. *)
LEMMA FaultSteps == IInv /\ (CallFails \/ Crash) => IInv'
  <1> SUFFICES ASSUME IInv, CallFails \/ Crash PROVE IInv'
    OBVIOUS
  <1> USE DEF IInv
  <1>1. worker' = IdleWorker
    BY DEF CallFails, Crash
  <1>2. CASE CallFails
    <2>1. TypeOK'
      <3>1. faults < MaxFaults /\ faults' = faults + 1 /\ faults \in 0..MaxFaults
        BY <1>2 DEF CallFails, TypeOK
      <3>2. faults' \in 0..MaxFaults
        BY <3>1, BoundsAssumption
      <3> QED
        BY <1>1, <1>2, <3>2, IdleOK DEF CallFails, TypeOK
    <2>2. Synced' /\ IDsUsed'
      BY <1>2, KubeUnchanged DEF CallFails
    <2> QED
      BY <1>1, <2>1, <2>2, IdleOK
  <1>3. CASE Crash
    <2>1. api' = api /\ informer' = api /\ events' = <<>> /\ nextZone' = nextZone
      BY <1>3 DEF Crash
    <2>2. TypeOK'
      BY <1>1, <1>3, IdleOK, BoundsAssumption DEF Crash, TypeOK
    <2>3. Synced'
      BY <2>1, BoundsAssumption DEF Synced, Pending
    <2>4. IDsUsed'
      BY <2>1 DEF IDsUsed, ObjUsed, IDUsed
    <2> QED
      BY <1>1, <2>2, <2>3, <2>4, IdleOK
  <1> QED
    BY <1>2, <1>3

(* What Start does to the worker, with the choice of the first step named. *)
LEMMA StartFacts ==
    ASSUME NEW c \in CRs, Start(c)
    PROVE  /\ informer[c] # None
           /\ \E st \in {"unfinalize", "delGet", "verify", "finalize"} :
                 /\ worker' = [step |-> st, cr |-> c, obj |-> informer[c], target |-> None,
                               liveName |-> None, lagging |-> {}]
                 /\ st = "delGet" => informer[c].zoneID # None
           /\ UNCHANGED <<api, informer, events, zones, listCache, managed,
                          nextZone, nextUID, edits, faults>>
  <1> DEFINE o  == informer[c]
             st == IF o.deleting
                   THEN IF o.zoneID = None THEN "unfinalize" ELSE "delGet"
                   ELSE IF o.finalizer THEN "verify" ELSE "finalize"
  <1>1. /\ o # None
        /\ worker' = [IdleWorker EXCEPT !.step = st, !.cr = c, !.obj = o]
        /\ UNCHANGED <<api, informer, events, zones, listCache, managed,
                       nextZone, nextUID, edits, faults>>
    BY DEF Start
  <1>2. st \in {"unfinalize", "delGet", "verify", "finalize"}
    OBVIOUS
  <1>3. st = "delGet" => o.zoneID # None
    OBVIOUS
  <1> HIDE DEF o, st
  <1>4. worker' = [step |-> st, cr |-> c, obj |-> o, target |-> None,
                   liveName |-> None, lagging |-> {}]
    BY <1>1, Zenon DEF IdleWorker
  <1> QED
    BY <1>1, <1>2, <1>3, <1>4, Zenon DEF o

(* Get: the copy is what the informer holds. *)
LEMMA StartStep == ASSUME IInv, NEW c \in CRs, Start(c) PROVE IInv'
  <1> DEFINE o == informer[c]
  <1>0. /\ o # None
        /\ \E st \in {"unfinalize", "delGet", "verify", "finalize"} :
              /\ worker' = [step |-> st, cr |-> c, obj |-> o, target |-> None,
                            liveName |-> None, lagging |-> {}]
              /\ st = "delGet" => o.zoneID # None
        /\ UNCHANGED <<api, informer, events, zones, listCache, managed,
                       nextZone, nextUID, edits, faults>>
    BY StartFacts, Zenon
  <1> HIDE DEF o
  <1> USE DEF IInv
  <1>1. o \in Object /\ ObjUsed(o)
    BY <1>0, Zenon DEF TypeOK, IDsUsed, o
  <1>2. PICK st \in {"unfinalize", "delGet", "verify", "finalize"} :
          /\ worker' = [step |-> st, cr |-> c, obj |-> o, target |-> None,
                        liveName |-> None, lagging |-> {}]
          /\ st = "delGet" => o.zoneID # None
    BY <1>0, Zenon
  <1>3. worker' = [step |-> st, cr |-> c, obj |-> o, target |-> None,
                   liveName |-> None, lagging |-> {}]
    BY <1>2, Zenon
  <1>4. TypeOK'
    BY <1>0, <1>1, <1>3 DEF TypeOK, Steps
  <1>5. Synced' /\ IDsUsed'
    BY <1>0, KubeUnchanged, Zenon
  <1>6. WorkerOK' /\ WorkerIDs'
    <2>1. st = "delGet" => o.zoneID \in ZoneIDs
      BY <1>1, <1>2 DEF Object
    <2>2. WorkerOK'
      BY <1>1, <1>3, <2>1 DEF WorkerOK
    <2>3. nextZone' = nextZone
      BY <1>0
    <2> QED
      BY <1>1, <1>3, <2>2, <2>3 DEF WorkerIDs, ObjUsed, IDUsed
  <1>7. NoAbandon' /\ DeleteGuard'
    BY <1>3 DEF NoAbandon, DeleteGuard
  <1> QED
    BY <1>4, <1>5, <1>6, <1>7, Zenon

-----------------------------------------------------------------------------
(* The steps of an apply. *)
LEMMA FinalizeStep == ASSUME IInv, Finalize PROVE IInv'
  <1> USE DEF IInv
  <1> DEFINE c == worker.cr
             o == [api[c] EXCEPT !.finalizer = TRUE]
  <1>1. c \in CRs /\ worker.obj \in Object /\ worker.step = "finalize"
    BY DEF Finalize, WorkerOK
  <1>2. CASE ~Exists(c)
    <2>1. worker' = IdleWorker /\ UNCHANGED <<api, informer, events, nextZone>>
      BY <1>2 DEF Finalize
    <2>2. TypeOK'
      BY <2>1, IdleOK DEF Finalize, TypeOK
    <2> QED
      BY <2>1, <2>2, IdleOK, KubeUnchanged
  <1>3. CASE Exists(c)
    <2>1. /\ api[c] \in Object /\ o \in Object /\ o # None
          /\ o.zoneID = api[c].zoneID
      <3>1. api[c] \in Object
        BY <1>1, <1>3 DEF Exists, TypeOK
      <3>2. o \in Object /\ o.zoneID = api[c].zoneID
        BY <3>1, Zenon DEF Object
      <3> QED
        BY <3>1, <3>2, NoneAssumption, Zenon
    <2>2. Store(c, o) /\ nextZone' = nextZone
      BY <1>3 DEF Finalize
    <2> DEFINE wo == [worker.obj EXCEPT !.finalizer = TRUE]
    <2>3. /\ worker' = [worker EXCEPT !.step = "verify", !.obj = wo]
          /\ wo \in Object
          /\ wo.zoneID = worker.obj.zoneID
      <3>1. worker' = [worker EXCEPT !.step = "verify", !.obj.finalizer = TRUE]
        BY <1>3 DEF Finalize
      <3>2. worker' = [worker EXCEPT !.step = "verify", !.obj = wo]
        BY <3>1 DEF TypeOK
      <3> QED
        BY <1>1, <3>2, Zenon DEF Object
    <2> HIDE DEF wo
    <2>4. ObjUsed(o)
      BY <1>1, <1>3, <2>1 DEF IDsUsed, ObjUsed, Exists
    <2>5. Synced' /\ IDsUsed'
      <3> HIDE DEF o, c
      <3> QED BY <1>1, <2>1, <2>2, <2>4, StoreSynced, StoreIDs
    <2>6. /\ api' \in [CRs -> Object \cup {None}]
          /\ informer' \in [CRs -> Object \cup {None}]
          /\ events' \in Events
      <3> HIDE DEF o, c
      <3> QED BY <1>1, <2>1, <2>2, StoreTypes
    <2>7. TypeOK'
      BY <2>3, <2>6, Zenon DEF Finalize, TypeOK, Steps, Events
    <2>8. /\ worker'.step = "verify" /\ worker'.obj = wo
          /\ worker'.cr = worker.cr /\ worker'.target = worker.target
      BY <2>3 DEF TypeOK
    <2>9. WorkerOK' /\ NoAbandon' /\ DeleteGuard'
      BY <1>1, <2>3, <2>8 DEF WorkerOK, NoAbandon, DeleteGuard
    <2>10. worker.obj # None
      BY <1>1, NoneAssumption
    <2>11. WorkerIDs'
      BY <2>2, <2>3, <2>8, <2>10 DEF WorkerIDs, ObjUsed, IDUsed
    <2> QED
      BY <2>5, <2>7, <2>9, <2>11
  <1> QED
    BY <1>2, <1>3

(* Verify goes to adopt only when the recorded zone is missing. *)
LEMMA VerifyStep == ASSUME IInv, Verify PROVE IInv'
  <1> USE DEF IInv
  <1>1. worker.obj \in Object /\ worker.step = "verify"
    BY DEF Verify, WorkerOK
  <1>2. UNCHANGED <<api, informer, events, zones, nextZone>>
    BY DEF Verify
  <1>3. Synced' /\ IDsUsed'
    BY <1>2, KubeUnchanged
  <1>4. \/ /\ worker' = [worker EXCEPT !.step = "update", !.target = worker.obj.zoneID]
           /\ worker.obj.zoneID \in ZoneIDs
        \/ /\ worker' = [worker EXCEPT !.step = "adopt"]
           /\ worker.obj.zoneID # None => zones[worker.obj.zoneID] = None
    BY <1>1 DEF Verify, Object
  <1>5. TypeOK'
    BY <1>4, Zenon DEF Verify, TypeOK, Steps
  <1>6. worker'.obj = worker.obj /\ worker'.cr = worker.cr
    BY <1>4, Zenon DEF TypeOK
  <1>7. worker.obj # None
    BY <1>1, NoneAssumption
  <1>8. WorkerOK'
    BY <1>1, <1>4, <1>6, Zenon DEF TypeOK, WorkerOK
  <1>9. WorkerIDs'
    BY <1>2, <1>4, <1>6, <1>7, Zenon DEF TypeOK, WorkerIDs, ObjUsed, IDUsed
  <1>10. NoAbandon' /\ DeleteGuard'
    BY <1>2, <1>4, <1>6, Zenon DEF TypeOK, NoAbandon, DeleteGuard
  <1> QED
    BY <1>3, <1>5, <1>8, <1>9, <1>10

(* Adopt picks a zone of the list, cached or fetched, or goes on to create *)
(* one; in both cases the zone the copy records was found missing.         *)
LEMMA AdoptStep == ASSUME IInv, ZonesUsed, Adopt PROVE IInv'
  <1> USE DEF IInv
  <1>1. worker.obj \in Object /\ worker.step = "adopt"
    BY Zenon DEF Adopt, WorkerOK
  <1>2. UNCHANGED <<api, informer, events, zones, nextZone>>
    BY Zenon DEF Adopt
  <1>3. Synced' /\ IDsUsed'
    BY <1>2, KubeUnchanged
  <1>4. listCache' \in [ZoneIDs -> Specs \cup {None}] \cup {None}
    BY Zenon DEF Adopt, TypeOK
  <1>5. \/ worker' = [worker EXCEPT !.step = "create"]
        \/ \E z \in ZoneIDs : /\ worker' = [worker EXCEPT !.step = "update", !.target = z]
                              /\ z < nextZone
    <2> DEFINE cached == IF listCache = None THEN {} ELSE Named(listCache, worker.obj.spec.name)
               fetched == Named(zones, worker.obj.spec.name)
    <2>1. \A z \in cached : z \in ZoneIDs /\ z < nextZone
      BY DEF Named, ZonesUsed
    <2>2. \A z \in fetched : z \in ZoneIDs /\ z < nextZone
      BY DEF Named, ZonesUsed
    <2>3. \/ worker' = [worker EXCEPT !.step = "create"]
          \/ \E z \in cached \cup fetched :
                worker' = [worker EXCEPT !.step = "update", !.target = z]
      BY Zenon DEF Adopt
    <2> QED
      BY <2>1, <2>2, <2>3, Zenon
  <1>6. TypeOK'
    BY <1>4, <1>5, Zenon DEF Adopt, TypeOK, Steps
  <1>7. worker'.obj = worker.obj /\ worker'.cr = worker.cr
    BY <1>5, Zenon DEF TypeOK
  <1>8. WorkerOK'
    BY <1>1, <1>5, <1>7, Zenon DEF TypeOK, WorkerOK
  <1>9. WorkerIDs'
    BY <1>2, <1>5, <1>7, Zenon DEF TypeOK, WorkerIDs, ObjUsed, IDUsed
  <1>10. NoAbandon' /\ DeleteGuard'
    BY <1>1, <1>2, <1>5, <1>7, Zenon DEF TypeOK, NoAbandon, DeleteGuard
  <1> QED
    BY <1>3, <1>6, <1>8, <1>9, <1>10

(* Update overwrites the zone in hand, or finds it missing and drops it. *)
LEMMA UpdateStep == ASSUME IInv, Update PROVE IInv'
  <1> USE DEF IInv
  <1>1. /\ worker.obj \in Object /\ worker.step = "update" /\ worker.target \in ZoneIDs
        /\ worker.obj.spec \in Specs
    BY DEF Update, WorkerOK, Object
  <1>2. UNCHANGED <<api, informer, events, nextZone>>
    BY DEF Update
  <1>3. Synced' /\ IDsUsed'
    BY <1>2, KubeUnchanged
  <1>4. CASE zones[worker.target] # None
    <2>1. /\ zones' = [zones EXCEPT ![worker.target] = worker.obj.spec]
          /\ managed' = managed \cup {worker.target}
          /\ worker' = [worker EXCEPT !.step = "patch"]
      BY <1>4 DEF Update
    <2>2. TypeOK'
      BY <1>1, <2>1, Zenon DEF Update, TypeOK, Steps
    <2>3. /\ worker'.obj = worker.obj /\ worker'.cr = worker.cr
          /\ worker'.step = "patch" /\ worker'.target = worker.target
      BY <2>1 DEF TypeOK
    <2>4. WorkerOK' /\ WorkerIDs'
      BY <1>1, <1>2, <2>3 DEF WorkerOK, WorkerIDs, ObjUsed, IDUsed
    <2>5. NoAbandon' /\ DeleteGuard'
      BY <1>1, <2>1, <2>3 DEF TypeOK, Object, NoAbandon, DeleteGuard
    <2> QED
      BY <1>3, <2>2, <2>4, <2>5
  <1>5. CASE zones[worker.target] = None
    <2>1. /\ zones' = zones /\ managed' = managed
          /\ worker' = [worker EXCEPT !.step = "create", !.target = None]
      BY <1>5 DEF Update
    <2>2. TypeOK'
      BY <2>1, Zenon DEF Update, TypeOK, Steps
    <2>3. /\ worker'.obj = worker.obj /\ worker'.cr = worker.cr
          /\ worker'.step = "create" /\ worker'.target = None
      BY <2>1 DEF TypeOK
    <2>4. WorkerOK' /\ WorkerIDs'
      BY <1>1, <1>2, <2>3 DEF WorkerOK, WorkerIDs, ObjUsed, IDUsed
    <2>5. NoAbandon' /\ DeleteGuard'
      BY <1>1, <1>5, <2>1, <2>3 DEF NoAbandon, DeleteGuard
    <2> QED
      BY <1>3, <2>2, <2>4, <2>5
  <1> QED
    BY <1>4, <1>5

(* Create takes an id nobody holds. *)
LEMMA CreateStep == ASSUME IInv, Create PROVE IInv'
  <1> USE DEF IInv
  <1>1. /\ worker.obj \in Object /\ worker.step = "create"
        /\ worker.obj.spec \in Specs /\ nextZone \in ZoneIDs
    BY BoundsAssumption DEF Create, WorkerOK, Object, TypeOK, ZoneIDs
  <1>2. UNCHANGED <<api, informer, events>> /\ nextZone' = nextZone + 1
    BY DEF Create
  <1>3. Synced' /\ IDsUsed'
    BY <1>2, KubeUnchanged
  <1>4. /\ zones' = [zones EXCEPT ![nextZone] = worker.obj.spec]
        /\ worker' = [worker EXCEPT !.step = "patch", !.target = nextZone]
    BY DEF Create
  <1>5. TypeOK'
    <2>1. nextZone' \in 1..(MaxZones + 1)
      BY <1>1, <1>2, BoundsAssumption DEF ZoneIDs
    <2>2. managed' \subseteq ZoneIDs
      BY <1>1 DEF Create, TypeOK
    <2>3. worker' \in [step: Steps, cr: CRs \cup {None}, obj: Object \cup {None},
                      target: ZoneIDs \cup {None}, liveName: Names \cup {None},
                      lagging: SUBSET CRs]
      BY <1>1, <1>4, Zenon DEF TypeOK, Steps
    <2>4. zones' \in [ZoneIDs -> Specs \cup {None}]
      BY <1>1, <1>4 DEF TypeOK
    <2> QED
      BY <2>1, <2>2, <2>3, <2>4 DEF Create, TypeOK
  <1>6. /\ worker'.obj = worker.obj /\ worker'.cr = worker.cr
        /\ worker'.step = "patch" /\ worker'.target = nextZone
    BY <1>4 DEF TypeOK
  <1>7. WorkerOK' /\ DeleteGuard'
    BY <1>1, <1>6 DEF WorkerOK, DeleteGuard
  <1>8. worker.obj.zoneID # None => worker.obj.zoneID \in ZoneIDs /\ worker.obj.zoneID < nextZone
    BY <1>1, NoneAssumption DEF WorkerIDs, ObjUsed, IDUsed, Object
  <1>9. WorkerIDs'
    <2>1. nextZone < nextZone + 1
      BY <1>1 DEF ZoneIDs
    <2>2. worker.obj.zoneID # None => worker.obj.zoneID < nextZone + 1
      BY <1>1, <1>8 DEF ZoneIDs
    <2> QED
      BY <1>2, <1>6, <2>1, <2>2 DEF WorkerIDs, ObjUsed, IDUsed
  <1>10. NoAbandon'
    BY <1>1, <1>4, <1>6, <1>8 DEF NoAbandon, TypeOK, ZoneIDs
  <1> QED
    BY <1>3, <1>5, <1>7, <1>9, <1>10

(* The status patch records an id that NetBird has handed out. *)
LEMMA PatchStep == ASSUME IInv, PatchStatus PROVE IInv'
  <1> USE DEF IInv
  <1> DEFINE c == worker.cr
             o == [api[c] EXCEPT !.zoneID = worker.target]
  <1>1. c \in CRs /\ worker.target \in ZoneIDs /\ worker' = IdleWorker /\ nextZone' = nextZone
    BY DEF PatchStatus, WorkerOK
  <1>2. CASE UNCHANGED <<api, informer, events>>
    <2>1. TypeOK'
      BY <1>1, <1>2, IdleOK DEF PatchStatus, TypeOK
    <2> QED
      BY <1>1, <1>2, <2>1, IdleOK, KubeUnchanged
  <1>3. CASE Exists(c) /\ Store(c, o)
    <2>1. o \in Object /\ o.zoneID = worker.target
      BY <1>1, <1>3 DEF Exists, TypeOK, Object
    <2>2. ObjUsed(o)
      BY <2>1 DEF WorkerIDs, ObjUsed
    <2>3. /\ Synced' /\ IDsUsed'
          /\ api' \in [CRs -> Object \cup {None}]
          /\ informer' \in [CRs -> Object \cup {None}]
          /\ events' \in Events
      <3> HIDE DEF o, c
      <3> QED BY <1>1, <1>3, <2>1, <2>2, StoreSynced, StoreIDs, StoreTypes
    <2>4. TypeOK'
      BY <1>1, <2>3, IdleOK DEF PatchStatus, TypeOK, Events
    <2> QED
      BY <1>1, <2>3, <2>4, IdleOK
  <1> QED
    BY <1>2, <1>3 DEF PatchStatus

-----------------------------------------------------------------------------
(* The steps of a delete.  DelScan establishes the guard: a live DNSZone   *)
(* that records the zone and has no event in flight is in the informer as  *)
(* it is in etcd, so the scan would have found it.                         *)
LEMMA DelGetStep == ASSUME IInv, DelGet PROVE IInv'
  <1> USE DEF IInv
  <1>1. /\ worker.obj \in Object /\ worker.cr \in CRs /\ worker.step = "delGet"
        /\ worker.obj.zoneID \in ZoneIDs
    BY DEF DelGet, WorkerOK
  <1>2. UNCHANGED <<api, informer, events, zones, nextZone>>
    BY DEF DelGet
  <1>3. PICK n \in Names \cup {None}, st \in {"unfinalize", "delScan"} :
            worker' = [worker EXCEPT !.step = st, !.liveName = n]
    <2>1. CASE zones[worker.obj.zoneID] = None
      <3>1. worker' = [worker EXCEPT !.step = "unfinalize", !.liveName = worker.liveName]
        BY <2>1, Zenon DEF DelGet, TypeOK
      <3> QED
        BY <3>1, Zenon DEF TypeOK
    <2>2. CASE zones[worker.obj.zoneID] # None
      BY <1>1, <2>2, Zenon DEF DelGet, TypeOK, Specs
    <2> QED
      BY <2>1, <2>2, Zenon
  <1>4. TypeOK'
    BY <1>3, Zenon DEF DelGet, TypeOK, Steps
  <1>5. /\ worker'.obj = worker.obj /\ worker'.cr = worker.cr
        /\ worker'.step = st /\ worker'.target = worker.target
    BY <1>3 DEF TypeOK
  <1>6. WorkerOK' /\ WorkerIDs' /\ NoAbandon' /\ DeleteGuard'
    BY <1>1, <1>2, <1>5 DEF WorkerOK, WorkerIDs, ObjUsed, IDUsed, NoAbandon, DeleteGuard
  <1> QED
    BY <1>2, <1>4, <1>6, KubeUnchanged

(* The scan of the other DNSZones establishes the delete guard: a live    *)
(* owner it missed has an event in flight, which the worker remembers.     *)
LEMMA DelScanStep == ASSUME IInv, DelScan PROVE IInv'
  <1> USE DEF IInv
  <1> DEFINE lag == {c \in CRs : Pending(c)}
  <1>1. /\ worker.obj \in Object /\ worker.cr \in CRs /\ worker.step = "delScan"
        /\ worker.obj.zoneID \in ZoneIDs
    BY DEF DelScan, WorkerOK
  <1>2. UNCHANGED <<api, informer, events, zones, nextZone>>
    BY DEF DelScan
  <1>3. PICK st \in {"unfinalize", "delZone"} :
            /\ worker' = [worker EXCEPT !.step = st, !.lagging = lag]
            /\ st = "delZone" => ~SharedByOther(worker.obj, worker.liveName)
    BY Zenon DEF DelScan
  <1>4. TypeOK'
    BY <1>3, Zenon DEF DelScan, TypeOK, Steps
  <1>5. /\ worker'.obj = worker.obj /\ worker'.cr = worker.cr /\ worker'.lagging = lag
        /\ worker'.step = st /\ worker'.target = worker.target
    BY <1>3 DEF TypeOK
  <1>6. WorkerOK' /\ WorkerIDs' /\ NoAbandon'
    BY <1>1, <1>2, <1>5 DEF WorkerOK, WorkerIDs, ObjUsed, IDUsed, NoAbandon
  <1>7. DeleteGuard'
    <2> SUFFICES ASSUME st = "delZone", NEW c \in CRs, Live(c),
                        api[c].uid # worker.obj.uid,
                        api[c].zoneID = worker.obj.zoneID, ~Pending(c)
                 PROVE  FALSE
      BY <1>2, <1>5 DEF DeleteGuard, Live
    <2>1. informer[c] = api[c]
      BY DEF Synced
    <2>2. SharedByOther(worker.obj, worker.liveName)
      BY <2>1 DEF SharedByOther, Live
    <2> QED
      BY <1>3, <2>2
  <1> QED
    BY <1>2, <1>4, <1>6, <1>7, KubeUnchanged

(* The NetBird delete touches no Kubernetes object; the zone it removes is *)
(* the one the guard was about.                                            *)
LEMMA DelZoneStep == ASSUME IInv, DelZone PROVE IInv'
  <1> USE DEF IInv
  <1>1. /\ worker.obj \in Object /\ worker.cr \in CRs /\ worker.step = "delZone"
        /\ worker.obj.zoneID \in ZoneIDs
    BY DEF DelZone, WorkerOK
  <1>2. /\ UNCHANGED <<api, informer, events, nextZone>>
        /\ worker' = [worker EXCEPT !.step = "unfinalize"]
        /\ zones' = [zones EXCEPT ![worker.obj.zoneID] = None]
    BY DEF DelZone
  <1>3. TypeOK'
    BY <1>1, <1>2 DEF DelZone, TypeOK, Steps
  <1>4. /\ worker'.obj = worker.obj /\ worker'.cr = worker.cr
        /\ worker'.step = "unfinalize" /\ worker'.target = worker.target
    BY <1>2 DEF TypeOK
  <1>5. WorkerOK' /\ WorkerIDs' /\ NoAbandon' /\ DeleteGuard'
    BY <1>1, <1>2, <1>4 DEF WorkerOK, WorkerIDs, ObjUsed, IDUsed, NoAbandon, DeleteGuard
  <1> QED
    BY <1>2, <1>3, <1>5, KubeUnchanged

(* Removing the finalizer drops the object or clears the field. *)
LEMMA UnfinalizeStep == ASSUME IInv, Unfinalize PROVE IInv'
  <1> USE DEF IInv
  <1> DEFINE c == worker.cr
             o == IF api[c].deleting THEN None ELSE [api[c] EXCEPT !.finalizer = FALSE]
  <1>1. c \in CRs /\ worker' = IdleWorker /\ nextZone' = nextZone
    BY DEF Unfinalize, WorkerOK
  <1>2. CASE UNCHANGED <<api, informer, events>>
    <2>1. TypeOK'
      BY <1>1, <1>2, IdleOK DEF Unfinalize, TypeOK
    <2> QED
      BY <1>1, <1>2, <2>1, IdleOK, KubeUnchanged
  <1>3. CASE Exists(c) /\ Store(c, o)
    <2>1. o = None \/ (o \in Object /\ o.zoneID = api[c].zoneID)
      <3>1. api[c] \in Object
        BY <1>1, <1>3 DEF Exists, TypeOK
      <3>2. LET p == [api[c] EXCEPT !.finalizer = FALSE]
            IN  p \in Object /\ p.zoneID = api[c].zoneID
        BY <3>1, Zenon DEF Object
      <3> QED
        BY <3>2
    <2>2. ObjUsed(o)
      <3>1. ObjUsed(api[c]) /\ api[c] # None
        BY <1>1, <1>3 DEF IDsUsed, Exists
      <3> HIDE DEF o
      <3> QED BY <2>1, <3>1 DEF ObjUsed
    <2>3. /\ Synced' /\ IDsUsed'
          /\ api' \in [CRs -> Object \cup {None}]
          /\ informer' \in [CRs -> Object \cup {None}]
          /\ events' \in Events
      <3> HIDE DEF o, c
      <3> QED BY <1>1, <1>3, <2>1, <2>2, StoreSynced, StoreIDs, StoreTypes
    <2>4. TypeOK'
      BY <1>1, <2>3, IdleOK DEF Unfinalize, TypeOK, Events
    <2> QED
      BY <1>1, <2>3, <2>4, IdleOK
  <1> QED
    BY <1>2, <1>3 DEF Unfinalize

-----------------------------------------------------------------------------
(* Zones and cached lists have ids that were handed out. *)
LEMMA ZonesUsedStep == IInv /\ ZonesUsed /\ [Next]_vars => ZonesUsed'
  <1> SUFFICES ASSUME IInv, ZonesUsed, [Next]_vars PROVE ZonesUsed'
    OBVIOUS
  <1> USE DEF ZonesUsed
  <1>0. TypeOK /\ nextZone \in Nat
    BY BoundsAssumption DEF IInv, TypeOK
  <1>1. CASE UNCHANGED <<zones, listCache, nextZone>>
    BY <1>1
  <1>2. CASE Adopt
    BY <1>2, Zenon DEF Adopt
  <1>3. CASE Update
    BY <1>0, <1>3 DEF Update, TypeOK
  <1>4. ASSUME NEW s \in Specs, AdminCreateZone(s) \/ Create
        PROVE  ZonesUsed'
    <2>1. PICK t : zones' = [zones EXCEPT ![nextZone] = t]
      BY <1>4 DEF AdminCreateZone, Create
    <2>2. nextZone' = nextZone + 1 /\ listCache' = listCache
      BY <1>4 DEF AdminCreateZone, Create
    <2>3. \A z \in ZoneIDs : z \in Nat
      BY BoundsAssumption DEF ZoneIDs
    <2> QED
      BY <1>0, <2>1, <2>2, <2>3 DEF TypeOK
  <1>5. ASSUME NEW z, zones' = [zones EXCEPT ![z] = None],
               UNCHANGED <<listCache, nextZone>>
        PROVE  ZonesUsed'
    BY <1>0, <1>5 DEF TypeOK
  <1>6. CASE listCache' = None /\ UNCHANGED <<zones, nextZone>>
    BY <1>6
  <1>7. CASE User
    BY <1>1, <1>7, Zenon DEF User, UserCreate, UserEdit, UserDelete
  <1>8. CASE Admin
    BY <1>4, <1>5, <1>8 DEF Admin, AdminDeleteZone
  <1>9. CASE Deliver \/ Expire \/ CallFails \/ Crash \/ \E c \in CRs : Start(c)
    BY <1>1, <1>6, <1>9, Zenon DEF Deliver, Expire, CallFails, Crash, Start
  <1>10. CASE Create
    <2>1. worker.obj.spec \in Specs
      BY <1>10 DEF IInv, WorkerOK, Create, Object
    <2> QED
      BY <1>4, <1>10, <2>1
  <1>11. CASE Finalize \/ Verify \/ PatchStatus \/ DelGet \/ DelScan \/ Unfinalize
    BY <1>1, <1>11 DEF Finalize, Verify, PatchStatus, DelGet, DelScan, Unfinalize
  <1>12. CASE DelZone
    BY <1>5, <1>12 DEF DelZone
  <1>13. CASE UNCHANGED vars
    BY <1>1, <1>13 DEF vars
  <1> QED
    BY <1>2, <1>3, <1>7, <1>8, <1>9, <1>10, <1>11, <1>12, <1>13 DEF Next, Step

(* Every step keeps the invariant. *)
LEMMA NextIInv == IInv /\ ZonesUsed /\ [Next]_vars => IInv'
  <1> SUFFICES ASSUME IInv, ZonesUsed, [Next]_vars PROVE IInv'
    OBVIOUS
  <1>1. CASE Step
    BY <1>1, FinalizeStep, VerifyStep, AdoptStep, UpdateStep, CreateStep, PatchStep,
       DelGetStep, DelScanStep, DelZoneStep, UnfinalizeStep DEF Step
  <1>2. CASE UNCHANGED vars
    BY <1>2, ZenonT(40) DEF vars, IInv, TypeOK, Synced, Pending, WorkerOK, IDsUsed, WorkerIDs,
                ObjUsed, IDUsed, NoAbandon, DeleteGuard, Live
  <1> QED
    BY <1>1, <1>2, UserSteps, AdminSteps, EnvSteps, FaultSteps, StartStep DEF Next

(* The inductive invariant holds throughout. *)
THEOREM Invariance == Spec => [](IInv /\ ZonesUsed)
  <1>1. Init => ZonesUsed
    BY DEF Init, ZonesUsed
  <1>2. QED
    BY <1>1, InitIInv, NextIInv, ZonesUsedStep, PTL DEF Spec

(* Type correctness of the DNSZone mirror. *)
THEOREM TypeCorrect == Spec => []TypeOK
  <1>1. IInv => TypeOK
    BY DEF IInv
  <1>2. QED
    BY <1>1, Invariance, PTL

(* deleteDNSZone never deletes a zone whose id another live DNSZone has    *)
(* recorded, unless that DNSZone's watch event was still in flight when    *)
(* the guard listed the informer.                                          *)
THEOREM DeleteGuarded == Spec => []DeleteGuard
  <1>1. IInv => DeleteGuard
    BY DEF IInv
  <1>2. QED
    BY <1>1, Invariance, PTL

(* Only the status patch changes the id an object records. *)
LEMMA OnlyPatchRecords ==
    ASSUME IInv, [Next]_vars, NEW c \in CRs,
           Exists(c), Exists(c)', api'[c].uid = api[c].uid,
           api'[c].zoneID # api[c].zoneID
    PROVE  PatchStatus /\ c = worker.cr
  <1>0. /\ api \in [CRs -> Object \cup {None}] /\ api[c] \in Object
        /\ worker.step # "idle" => worker.cr \in CRs
    BY DEF IInv, TypeOK, WorkerOK, Exists
  <1>1. ~UNCHANGED api
    OBVIOUS
  <1>2. ASSUME NEW d \in CRs, NEW o, Store(d, o)
        PROVE  d = c /\ api'[c] = o
    BY <1>0, <1>1, <1>2 DEF Store
  <1>3. ~User
    <2>1. ASSUME NEW d \in CRs, NEW s \in Specs, UserCreate(d, s) PROVE FALSE
      BY <1>2, <2>1 DEF UserCreate, Exists
    <2>2. ASSUME NEW d \in CRs, NEW s \in Specs, UserEdit(d, s) PROVE FALSE
      BY <1>0, <1>2, <2>2 DEF UserEdit, Object
    <2>3. ASSUME NEW d \in CRs, UserDelete(d) PROVE FALSE
      BY <1>0, <1>2, <2>3 DEF UserDelete, Object, Exists
    <2> QED
      BY <2>1, <2>2, <2>3 DEF User
  <1>4. ~Finalize
    BY <1>0, <1>1, <1>2 DEF Finalize, Object
  <1>5. ~Unfinalize
    BY <1>0, <1>1, <1>2 DEF Unfinalize, Object, Exists
  <1>6. ~(\/ Admin \/ Deliver \/ Expire \/ CallFails \/ Crash \/ UNCHANGED vars
          \/ \E d \in CRs : Start(d))
    BY <1>1, Zenon DEF Admin, AdminCreateZone, AdminDeleteZone, Deliver, Expire, CallFails,
                Crash, Start, vars
  <1>7. ~(Verify \/ Adopt \/ Update \/ Create \/ DelGet \/ DelScan \/ DelZone)
    BY <1>1, Zenon DEF Verify, Adopt, Update, Create, DelGet, DelScan, DelZone
  <1>8. PatchStatus
    BY <1>3, <1>4, <1>5, <1>6, <1>7 DEF Next, Step
  <1>9. c = worker.cr
    BY <1>0, <1>1, <1>2, <1>8 DEF PatchStatus
  <1> QED
    BY <1>8, <1>9

(* applyDNSZone gives up a recorded zone only when NetBird no longer has   *)
(* it, unless the copy it worked on recorded another id.                   *)
THEOREM AbandonsOnlyMissingHolds == Spec => AbandonsOnlyMissing
  <1> DEFINE P == \A c \in CRs :
                     /\ Exists(c) /\ api[c].zoneID # None
                     /\ Exists(c)' /\ api'[c].uid = api[c].uid
                     /\ api'[c].zoneID # api[c].zoneID
                     => \/ zones[api[c].zoneID] = None
                        \/ worker.obj.zoneID # api[c].zoneID
  <1>1. IInv /\ [Next]_vars => [P]_vars
    <2> SUFFICES ASSUME IInv, [Next]_vars, NEW c \in CRs,
                        Exists(c), api[c].zoneID # None,
                        Exists(c)', api'[c].uid = api[c].uid,
                        api'[c].zoneID # api[c].zoneID,
                        worker.obj.zoneID = api[c].zoneID
                 PROVE  zones[api[c].zoneID] = None
      OBVIOUS
    <2>1. PatchStatus /\ c = worker.cr
      BY OnlyPatchRecords
    <2>2. worker.step = "patch" /\ worker.target # worker.obj.zoneID
      BY <2>1 DEF PatchStatus
    <2> QED
      BY <2>2 DEF IInv, NoAbandon
  <1>2. QED
    BY <1>1, Invariance, PTL DEF Spec, AbandonsOnlyMissing

-----------------------------------------------------------------------------
(* The list of zones that the lookup by name searches is a listCache       *)
(* (ListCache).  What a lookup may return, for any number of callers and   *)
(* items and any TTL.                                                      *)
CONSTANTS Callers, Items, TTL, MaxTime
VARIABLES clock, server, cache, holder, call, present, absent

Cache == INSTANCE ListCache

Call == [step: Cache!Steps, item: Items \cup {None}, now: Cache!Times,
         again: BOOLEAN, reply: SUBSET Items]

AtLeast(h, t) == h # None /\ h >= t

(* The histories are up to date and of the past. *)
HistoryNow ==
    \A i \in Items : /\ i \in server => present[i] = clock
                     /\ i \notin server => absent[i] = clock
                     /\ present[i] # None => present[i] <= clock
                     /\ absent[i] # None => absent[i] <= clock

(* A caller's time is past, and a running lookup seeks an item. *)
CallOK ==
    \A c \in Callers : /\ call[c].now <= clock
                       /\ call[c].step # "idle" => call[c].item \in Items

(* The cached list expires at most TTL after each of its items existed. *)
CacheRecent ==
    \A i \in cache.items : present[i] # None /\ present[i] + TTL >= cache.expires

(* An answer in flight was true at some time since the call began. *)
ReplyRecent ==
    \A c \in Callers : call[c].step = "reply" =>
        \A i \in Items : /\ i \in call[c].reply => AtLeast(present[i], call[c].now)
                         /\ i \notin call[c].reply => AtLeast(absent[i], call[c].now)

CacheInv ==
    /\ Cache!TypeOK /\ HistoryNow /\ CallOK /\ CacheRecent /\ ReplyRecent
    /\ Cache!HitsAreRecent /\ Cache!MissesAreConfirmed

(* Histories only move forward. *)
Forward ==
    \A i \in Items :
        /\ present[i] # None => present'[i] # None /\ present'[i] >= present[i]
        /\ absent[i] # None => absent'[i] # None /\ absent'[i] >= absent[i]

-----------------------------------------------------------------------------
(* The initial state satisfies the invariant. *)
LEMMA CacheInit ==
    ASSUME Cache!TimeAssumption, Cache!NoneAssumption, Cache!Init
    PROVE  CacheInv
  <1>0. 0 \in Cache!Times
    BY Cache!TimeAssumption DEF Cache!Times
  <1>1. Cache!IdleCall \in Call /\ Cache!IdleCall.now = 0 /\ Cache!IdleCall.step = "idle"
    BY <1>0 DEF Cache!IdleCall, Call, Cache!Steps
  <1>2. Cache!TypeOK
    BY <1>0, <1>1 DEF Cache!Init, Cache!TypeOK, Call
  <1>3. HistoryNow /\ CacheRecent
    BY Cache!NoneAssumption DEF Cache!Init, HistoryNow, CacheRecent
  <1>4. CallOK /\ ReplyRecent /\ Cache!HitsAreRecent /\ Cache!MissesAreConfirmed
    <2>1. clock = 0 /\ \A c \in Callers : call[c].now = 0 /\ call[c].step = "idle"
      BY <1>1 DEF Cache!Init
    <2> QED
      BY <2>1 DEF CallOK, ReplyRecent, Cache!HitsAreRecent, Cache!MissesAreConfirmed
  <1> QED
    BY <1>2, <1>3, <1>4 DEF CacheInv

(* When only the clock, the server and the histories move, and they move   *)
(* forward, what was said of the past stays true.                          *)
LEMMA PastStays ==
    ASSUME Cache!TimeAssumption, Cache!NoneAssumption, CacheInv, Forward, UNCHANGED <<cache, call>>,
           clock' \in Cache!Times, clock' >= clock, present' \in [Items -> Cache!Times \cup {None}],
           absent' \in [Items -> Cache!Times \cup {None}]
    PROVE  CallOK' /\ CacheRecent' /\ ReplyRecent' /\ Cache!HitsAreRecent' /\ Cache!MissesAreConfirmed'
  <1> USE DEF CacheInv
  <1>0. /\ TTL \in Nat /\ Cache!Times \subseteq Nat /\ clock \in Nat /\ clock' \in Nat
        /\ \A i \in Items : /\ present[i] # None => present[i] \in Nat /\ present'[i] \in Nat
                            /\ absent[i] # None => absent[i] \in Nat /\ absent'[i] \in Nat
        /\ \A c \in Callers : call[c].now \in Nat /\ call[c].now \in Cache!Times
        /\ cache.expires \in Nat /\ cache.items \subseteq Items
    BY Cache!TimeAssumption DEF Cache!TypeOK, Cache!Times, Forward
  <1>1. CallOK'
    BY <1>0 DEF CallOK
  <1>2. CacheRecent'
    BY <1>0 DEF CacheRecent, Forward
  <1>3. ReplyRecent'
    BY <1>0 DEF ReplyRecent, AtLeast, Forward
  <1>4. Cache!HitsAreRecent'
    <2> SUFFICES ASSUME NEW c \in Callers, call[c].step = "found"
                 PROVE  /\ present'[call[c].item] # None
                        /\ \/ present'[call[c].item] + TTL > call[c].now
                           \/ present'[call[c].item] >= call[c].now
      BY DEF Cache!HitsAreRecent
    <2>1. call[c].item \in Items
      BY DEF CallOK
    <2> QED
      BY <1>0, <2>1 DEF Cache!HitsAreRecent, Forward
  <1>5. Cache!MissesAreConfirmed'
    <2> SUFFICES ASSUME NEW c \in Callers, call[c].step = "notFound"
                 PROVE  /\ absent'[call[c].item] # None
                        /\ absent'[call[c].item] >= call[c].now
      BY DEF Cache!MissesAreConfirmed
    <2>1. call[c].item \in Items
      BY DEF CallOK
    <2> QED
      BY <1>0, <2>1 DEF Cache!MissesAreConfirmed, Forward
  <1> QED
    BY <1>1, <1>2, <1>3, <1>4, <1>5

(* Time and changes in NetBird keep the invariant. *)
LEMMA CacheEnvironment ==
    ASSUME Cache!TimeAssumption, Cache!NoneAssumption, CacheInv, Cache!Tick \/ \E i \in Items : Cache!Change(i)
    PROVE  CacheInv'
  <1> USE DEF CacheInv
  <1>0. /\ clock \in Nat /\ clock \in Cache!Times /\ MaxTime \in Nat
        /\ \A i \in Items : /\ present[i] # None => present[i] \in Nat
                            /\ absent[i] # None => absent[i] \in Nat
    BY Cache!TimeAssumption DEF Cache!TypeOK, Cache!Times
  <1>1. CASE Cache!Tick
    <2>1. clock' \in Cache!Times /\ clock' >= clock /\ clock' = clock + 1
      BY <1>0, <1>1 DEF Cache!Tick, Cache!Times
    <2>2. /\ present' \in [Items -> Cache!Times \cup {None}]
          /\ absent' \in [Items -> Cache!Times \cup {None}]
      BY <1>1, <2>1 DEF Cache!Tick, Cache!TypeOK
    <2>3. Forward
      BY <1>0, <1>1, <2>1, Cache!NoneAssumption DEF Cache!Tick, Forward, HistoryNow
    <2>4. HistoryNow'
      <3> SUFFICES ASSUME NEW i \in Items
                   PROVE  /\ i \in server => present'[i] = clock'
                          /\ i \notin server => absent'[i] = clock'
                          /\ present'[i] # None => present'[i] <= clock'
                          /\ absent'[i] # None => absent'[i] <= clock'
        BY <1>1 DEF Cache!Tick, HistoryNow
      <3>1. /\ present'[i] = IF i \in server THEN clock' ELSE present[i]
            /\ absent'[i] = IF i \in server THEN absent[i] ELSE clock'
        BY <1>1 DEF Cache!Tick
      <3>2. /\ present[i] # None => present[i] \in Nat /\ present[i] <= clock
            /\ absent[i] # None => absent[i] \in Nat /\ absent[i] <= clock
        BY <1>0 DEF HistoryNow
      <3> QED
        BY <1>0, <2>1, <3>1, <3>2
    <2>5. Cache!TypeOK'
      BY <1>1, <2>1, <2>2 DEF Cache!Tick, Cache!TypeOK
    <2> QED
      BY <1>1, <2>1, <2>2, <2>3, <2>4, <2>5, PastStays DEF Cache!Tick
  <1>2. ASSUME NEW i \in Items, Cache!Change(i) PROVE CacheInv'
    <2>1. /\ present' = [present EXCEPT ![i] = clock]
          /\ absent' = [absent EXCEPT ![i] = clock]
          /\ clock' = clock /\ UNCHANGED <<cache, call, holder>>
          /\ server' \subseteq Items
          /\ \A j \in Items \ {i} : j \in server' <=> j \in server
      BY <1>2 DEF Cache!Change, Cache!TypeOK
    <2>2. /\ present' \in [Items -> Cache!Times \cup {None}]
          /\ absent' \in [Items -> Cache!Times \cup {None}]
      BY <1>0, <2>1 DEF Cache!TypeOK
    <2>3. Forward
      <3> SUFFICES ASSUME NEW j \in Items
                   PROVE  /\ present[j] # None => present'[j] # None /\ present'[j] >= present[j]
                          /\ absent[j] # None => absent'[j] # None /\ absent'[j] >= absent[j]
        BY DEF Forward
      <3>1. /\ present'[j] = present[j] \/ present'[j] = clock
            /\ absent'[j] = absent[j] \/ absent'[j] = clock
        BY <2>1 DEF Cache!TypeOK
      <3>2. /\ present[j] # None => present[j] \in Nat /\ present[j] <= clock
            /\ absent[j] # None => absent[j] \in Nat /\ absent[j] <= clock
        BY <1>0 DEF HistoryNow
      <3>3. clock # None
        BY <1>0, Cache!NoneAssumption
      <3> QED
        BY <1>0, <3>1, <3>2, <3>3
    <2>4. HistoryNow'
      BY <1>0, <2>1, Cache!NoneAssumption DEF HistoryNow, Cache!TypeOK
    <2>5. Cache!TypeOK'
      BY <2>1, <2>2 DEF Cache!TypeOK
    <2>6. clock' \in Cache!Times /\ clock' >= clock
      BY <1>0, <2>1
    <2> QED
      BY <2>1, <2>2, <2>3, <2>4, <2>5, <2>6, PastStays
  <1> QED
    BY <1>1, <1>2

(* A step that only moves call c to k keeps what is said of the others. *)
LEMMA CallStep ==
    ASSUME Cache!TimeAssumption, Cache!NoneAssumption, CacheInv, NEW c \in Callers, NEW k \in Call,
           call' = [call EXCEPT ![c] = k],
           UNCHANGED <<clock, server, present, absent>>,
           cache' \in [ok: BOOLEAN, items: SUBSET Items, expires: Nat],
           holder' \in Callers \cup {None},
           CacheRecent',
           k.now <= clock, k.step # "idle" => k.item \in Items,
           k.step = "reply" =>
               \A i \in Items : /\ i \in k.reply => AtLeast(present[i], k.now)
                                /\ i \notin k.reply => AtLeast(absent[i], k.now),
           k.step = "found" =>
               /\ present[k.item] # None
               /\ present[k.item] + TTL > k.now \/ present[k.item] >= k.now,
           k.step = "notFound" => AtLeast(absent[k.item], k.now)
    PROVE  CacheInv'
  <1> USE DEF CacheInv
  <1>0. \A d \in Callers : call'[d] = IF d = c THEN k ELSE call[d]
    BY DEF Cache!TypeOK
  <1>1. Cache!TypeOK'
    BY DEF Cache!TypeOK, Call
  <1>2. HistoryNow' /\ CallOK'
    BY <1>0 DEF HistoryNow, CallOK
  <1>3. ReplyRecent'
    BY <1>0 DEF ReplyRecent, AtLeast
  <1>4. Cache!HitsAreRecent'
    BY <1>0 DEF Cache!HitsAreRecent
  <1>5. Cache!MissesAreConfirmed'
    BY <1>0 DEF Cache!MissesAreConfirmed, AtLeast
  <1> QED
    BY <1>1, <1>2, <1>3, <1>4, <1>5, Zenon

(* Each step of a lookup keeps the invariant. *)
LEMMA CacheCallers ==
    ASSUME Cache!TimeAssumption, Cache!NoneAssumption, CacheInv, NEW c \in Callers,
           \/ \E i \in Items : Cache!Lookup(c, i)
           \/ Cache!List(c) \/ Cache!Refresh(c) \/ Cache!Answer(c) \/ Cache!Fetched(c) \/ Cache!FetchFails(c)
    PROVE  CacheInv'
  <1> USE DEF CacheInv
  <1> DEFINE o == call[c]
  <1>0. /\ o \in Call /\ o.now \in Nat /\ o.now <= clock /\ clock \in Nat /\ clock \in Cache!Times
        /\ TTL \in Nat /\ UNCHANGED <<clock, server, present, absent>>
        /\ \A i \in Items : /\ present[i] # None => present[i] \in Nat
                            /\ absent[i] # None => absent[i] \in Nat
    <2>1. UNCHANGED <<clock, server, present, absent>>
      BY Zenon DEF Cache!Lookup, Cache!List, Cache!Refresh, Cache!Answer, Cache!Fetched, Cache!FetchFails
    <2>2. o \in Call /\ o.now \in Cache!Times
      BY DEF Cache!TypeOK, Call
    <2>3. Cache!Times \subseteq Nat
      BY Cache!TimeAssumption DEF Cache!Times
    <2> QED
      BY <2>1, <2>2, <2>3, Cache!TimeAssumption, Zenon DEF Cache!TypeOK, CallOK
  <1>1. /\ cache \in [ok: BOOLEAN, items: SUBSET Items, expires: Nat]
        /\ holder \in Callers \cup {None}
    BY DEF Cache!TypeOK
  <1>2. cache' = cache => CacheRecent'
    BY <1>0 DEF CacheRecent
  <1>3. Cache!IdleCall \in Call /\ Cache!IdleCall.now = 0 /\ Cache!IdleCall.step = "idle"
    BY Cache!TimeAssumption DEF Cache!IdleCall, Call, Cache!Steps, Cache!Times
  <1>4. ASSUME NEW i \in Items, Cache!Lookup(c, i) PROVE CacheInv'
    <2> DEFINE k == [Cache!IdleCall EXCEPT !.step = "list", !.item = i, !.now = clock]
    <2>1. k \in Call /\ k.now = clock /\ k.step = "list" /\ k.item = i
      BY <1>0, Zenon DEF Cache!IdleCall, Call, Cache!Steps
    <2>2. call' = [call EXCEPT ![c] = k] /\ UNCHANGED <<cache, holder>>
      BY <1>4, Zenon DEF Cache!Lookup
    <2>3. k.now <= clock
      BY <1>0, <2>1
    <2> HIDE DEF k
    <2> QED
      BY <1>0, <1>1, <1>2, <2>1, <2>2, <2>3, CallStep, Zenon
  <1>5. CASE Cache!List(c)
    <2>1. o.step = "list" /\ cache' = cache
      BY <1>5 DEF Cache!List
    <2>2. o.item \in Items
      BY <2>1 DEF CallOK
    <2>3. CASE Cache!Fresh(o.now)
      <3> DEFINE st == IF o.item \in cache.items THEN "found" ELSE "refresh"
                 k == [o EXCEPT !.step = st]
      <3>1. call' = [call EXCEPT ![c] = k] /\ holder' = holder
        BY <1>5, <2>3 DEF Cache!List
      <3>2. k \in Call /\ k.now = o.now /\ k.item = o.item /\ k.step = st
        BY <1>0 DEF Call, Cache!Steps
      <3>3. o.item \in cache.items => present[o.item] # None /\ present[o.item] + TTL > o.now
        <4> SUFFICES ASSUME o.item \in cache.items
                     PROVE  present[o.item] # None /\ present[o.item] + TTL > o.now
          OBVIOUS
        <4>1. present[o.item] # None /\ present[o.item] + TTL >= cache.expires
          BY DEF CacheRecent
        <4>2. o.now < cache.expires /\ cache.expires \in Nat
          BY <1>1, <2>3 DEF Cache!Fresh
        <4>3. present[o.item] \in Nat /\ TTL \in Nat /\ o.now \in Nat
          BY <1>0, <2>2, <4>1
        <4> QED
          BY <4>1, <4>2, <4>3
      <3>4. /\ k.step = "found" => present[k.item] # None /\ present[k.item] + TTL > k.now
            /\ k.step \in {"found", "refresh"}
        BY <3>2, <3>3
      <3> HIDE DEF k
      <3> QED
        BY <1>0, <1>1, <1>2, <2>1, <2>2, <3>1, <3>2, <3>4, CallStep, Zenon
    <2>4. CASE ~Cache!Fresh(o.now)
      <3> DEFINE k == [o EXCEPT !.step = "fetch"]
      <3>1. call' = [call EXCEPT ![c] = k] /\ holder' = c
        BY <1>5, <2>4 DEF Cache!List
      <3>2. k \in Call /\ k.now = o.now /\ k.item = o.item /\ k.step = "fetch"
        BY <1>0 DEF Call, Cache!Steps
      <3> HIDE DEF k
      <3> QED
        BY <1>0, <1>1, <1>2, <2>1, <2>2, <3>1, <3>2, CallStep, Zenon
    <2> QED
      BY <2>3, <2>4
  <1>6. CASE Cache!Refresh(c)
    <2> DEFINE k == [o EXCEPT !.step = "fetch", !.again = TRUE]
    <2>1. call' = [call EXCEPT ![c] = k] /\ holder' = c /\ cache' = cache
      BY <1>6, Zenon DEF Cache!Refresh, Cache!TypeOK
    <2>2. k \in Call /\ k.now = o.now /\ k.item = o.item /\ k.step = "fetch"
      BY <1>0, Zenon DEF Call, Cache!Steps
    <2>3. o.item \in Items
      BY <1>6 DEF CallOK, Cache!Refresh
    <2> HIDE DEF k
    <2> QED
      BY <1>0, <1>1, <1>2, <2>1, <2>2, <2>3, CallStep, Zenon
  <1>7. CASE Cache!Answer(c)
    <2> DEFINE k == [o EXCEPT !.step = "reply", !.reply = server]
    <2>1. call' = [call EXCEPT ![c] = k] /\ UNCHANGED <<cache, holder>>
      BY <1>7, Zenon DEF Cache!Answer, Cache!TypeOK
    <2>2. k \in Call /\ k.now = o.now /\ k.item = o.item /\ k.step = "reply" /\ k.reply = server
      BY <1>0, Zenon DEF Call, Cache!Steps, Cache!TypeOK
    <2>3. o.item \in Items
      BY <1>7 DEF CallOK, Cache!Answer
    <2>4. \A i \in Items : /\ i \in k.reply => AtLeast(present[i], k.now)
                           /\ i \notin k.reply => AtLeast(absent[i], k.now)
      BY <1>0, <2>2, Cache!NoneAssumption DEF HistoryNow, AtLeast
    <2> HIDE DEF k
    <2> QED
      BY <1>0, <1>1, <1>2, <2>1, <2>2, <2>3, <2>4, CallStep, Zenon
  <1>8. CASE Cache!Fetched(c)
    <2> DEFINE st == IF o.item \in o.reply THEN "found"
                     ELSE IF o.again THEN "notFound" ELSE "refresh"
               k == [o EXCEPT !.step = st]
    <2>1. /\ call' = [call EXCEPT ![c] = k] /\ holder' = None
          /\ cache' = [ok |-> TRUE, items |-> o.reply, expires |-> o.now + TTL]
      BY <1>8 DEF Cache!Fetched, Cache!TypeOK
    <2>2. /\ k \in Call /\ k.now = o.now /\ k.item = o.item /\ k.step = st
          /\ o.reply \subseteq Items
      BY <1>0 DEF Call, Cache!Steps
    <2>3. o.item \in Items
      BY <1>8 DEF CallOK, Cache!Fetched
    <2>4. \A i \in Items : /\ i \in o.reply => AtLeast(present[i], o.now)
                           /\ i \notin o.reply => AtLeast(absent[i], o.now)
      BY <1>8 DEF ReplyRecent, Cache!Fetched
    <2>5. cache' \in [ok: BOOLEAN, items: SUBSET Items, expires: Nat]
      BY <1>0, <2>1, <2>2
    <2>6. CacheRecent'
      BY <1>0, <2>1, <2>2, <2>4 DEF CacheRecent, AtLeast
    <2>7. /\ k.step = "found" => AtLeast(present[k.item], k.now)
          /\ k.step = "notFound" => AtLeast(absent[k.item], k.now)
          /\ k.step \in {"found", "notFound", "refresh"}
      BY <2>2, <2>3, <2>4
    <2> HIDE DEF k
    <2> QED
      BY <1>0, <2>1, <2>2, <2>3, <2>5, <2>6, <2>7, CallStep, Zenon DEF AtLeast
  <1>9. CASE Cache!FetchFails(c)
    <2>1. call' = [call EXCEPT ![c] = Cache!IdleCall] /\ holder' = None /\ cache' = cache
      BY <1>9 DEF Cache!FetchFails
    <2>2. Cache!IdleCall.now <= clock
      BY <1>0, <1>3
    <2> QED
      BY <1>0, <1>1, <1>2, <1>3, <2>1, <2>2, CallStep, Zenon
  <1> QED
    BY <1>4, <1>5, <1>6, <1>7, <1>8, <1>9

(* The invariant holds throughout. *)
THEOREM CacheInvariance ==
    ASSUME Cache!TimeAssumption, Cache!NoneAssumption
    PROVE  Cache!Spec => []CacheInv
  <1>1. CacheInv /\ [Cache!Next]_(Cache!vars) => CacheInv'
    <2> SUFFICES ASSUME CacheInv, [Cache!Next]_(Cache!vars) PROVE CacheInv'
      OBVIOUS
    <2>1. CASE UNCHANGED Cache!vars
      BY <2>1, Zenon DEF Cache!vars, CacheInv, Cache!TypeOK, HistoryNow, CallOK, CacheRecent, ReplyRecent, AtLeast,
                  Cache!HitsAreRecent, Cache!MissesAreConfirmed
    <2> QED
      BY <2>1, CacheEnvironment, CacheCallers DEF Cache!Next
  <1>2. QED
    BY <1>1, CacheInit, PTL DEF Cache!Spec

(* lookup never returns an item that had ceased to exist a TTL or more     *)
(* before the call.                                                        *)
THEOREM HitsRecent ==
    ASSUME Cache!TimeAssumption, Cache!NoneAssumption
    PROVE  Cache!Spec => []Cache!HitsAreRecent
  <1>1. CacheInv => Cache!HitsAreRecent
    BY DEF CacheInv
  <1>2. QED
    BY <1>1, CacheInvariance, PTL

(* lookup never reports as missing an item that existed ever since the     *)
(* call began.                                                             *)
THEOREM MissesConfirmed ==
    ASSUME Cache!TimeAssumption, Cache!NoneAssumption
    PROVE  Cache!Spec => []Cache!MissesAreConfirmed
  <1>1. CacheInv => Cache!MissesAreConfirmed
    BY DEF CacheInv
  <1>2. QED
    BY <1>1, CacheInvariance, PTL
=============================================================================
