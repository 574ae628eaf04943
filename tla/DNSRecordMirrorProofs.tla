----------------------- MODULE DNSRecordMirrorProofs -----------------------
(* Proofs about the ids of DNSRecords, for any number of objects, ids and  *)
(* zones, events in flight and faults.                                     *)
EXTENDS DNSRecordMirror, TLAPS

Version == Object \cup {None}
Event   == [cr: CRs, obj: Version]

(* The types the argument needs. *)
KubeType ==
    /\ api \in [CRs -> Version] /\ informer \in [CRs -> Version] /\ events \in Seq(Event)

Workers ==
    [step: {"idle", "finalize", "resolve", "verify", "list", "update", "create", "patch",
            "delete", "unfinalize"},
     cr: CRs \cup {None}, obj: Version, zoneID: Zones \cup {None}, target: IDs \cup {None},
     lagged: BOOLEAN]

(* The zones that anyone has seen are no newer than NetBird's, records     *)
(* that exist were handed out, and those handed out have a zone.           *)
RecordType ==
    /\ zone \in Zones /\ zoneSeen \in Zones \cup {None} /\ (zoneSeen # None => zoneSeen <= zone)
    /\ nextID \in 1..(MaxIDs + 1) /\ worker \in Workers
    /\ records \in [IDs -> Keys \cup {None}] /\ home \in [IDs -> Zones \cup {None}]
    /\ \A r \in IDs : /\ records[r] # None => r < nextID
                      /\ r < nextID => home[r] \in Zones

(* No zone id that anyone holds is above the one the informer shows. *)
Below(z) == z # None => zoneSeen # None /\ z <= zoneSeen

(* What every version of a DNSRecord satisfies: its pair of ids belongs    *)
(* together, and without the finalizer it is blank.                        *)
VersionOK(v) ==
    v # None =>
        /\ v.id # None => v.id < nextID /\ v.zoneID # None /\ home[v.id] = v.zoneID
        /\ ~v.finalizer => v.id = None /\ v.zoneID = None /\ ~v.deleting
        /\ Below(v.zoneID)

Blank(v) == v = None \/ ~v.finalizer
Dying(v) == v # None /\ v.finalizer /\ v.deleting

(* b comes after a.  The zone id is not dropped while the finalizer is     *)
(* there, and goes up.  Going up, an object is blank, then has its         *)
(* finalizer, then is being deleted; going down, it is removed and stays   *)
(* blank, because the reconcile has not seen a successor yet.              *)
Mono(a, b) == a # None /\ b # None /\ a.zoneID # None /\ b.finalizer => b.zoneID # None /\ a.zoneID <= b.zoneID
Up(a, b)   == (~Blank(a) => ~Blank(b)) /\ (Dying(a) => Dying(b))
Down(a, b) == (Blank(a) \/ Dying(a)) /\ (Blank(b) \/ Dying(b)) /\ (Dying(b) => Dying(a))

Ord(m, a, b) == Mono(a, b) /\ (m = "up" => Up(a, b)) /\ (m = "down" => Down(a, b))

Chain(m, c) ==
    /\ Ord(m, informer[c], api[c])
    /\ \A i \in 1..Len(events) : events[i].cr = c =>
          /\ Ord(m, informer[c], events[i].obj) /\ Ord(m, events[i].obj, api[c])
          /\ \A j \in 1..Len(events) : i < j /\ events[j].cr = c =>
                Ord(m, events[i].obj, events[j].obj)

Applying == {"resolve", "verify", "list", "update", "create", "patch"}
Deleting == {"delete", "unfinalize"}

(* The objects that are going down. *)
Mode(c) == IF Dying(informer[c]) THEN "down" ELSE "up"

Chains ==
    /\ \A c \in CRs : Chain(Mode(c), c)
    /\ worker.step \in Applying \cup {"finalize"} => Chain("up", worker.cr)
    /\ worker.step \in Deleting => Chain("down", worker.cr)

(* The versions of DNSRecords that exist. *)
Vs == {api[c] : c \in CRs} \cup {informer[c] : c \in CRs} \cup {events[i].obj : i \in 1..Len(events)}

Versions == \A v \in Vs : VersionOK(v)

(* The informer is exact up to the events in flight. *)
Synced ==
    /\ Len(events) <= MaxLag
    /\ \A c \in CRs : (\A i \in 1..Len(events) : events[i].cr # c) => informer[c] = api[c]
    /\ \A i \in 1..Len(events) :
          (\A j \in 1..Len(events) : j > i => events[j].cr # events[i].cr)
              => events[i].obj = api[events[i].cr]

(* What the reconcile in progress knows of the object o in etcd.  A copy   *)
(* that was exact when a delete began still is.                            *)
WorkerOK ==
    LET w == worker
        o == api[w.cr]
    IN
    /\ w.step # "idle" => w.cr \in CRs /\ w.obj \in Object /\ VersionOK(w.obj)
    /\ Below(w.zoneID)
    /\ w.step = "finalize" => ~w.obj.finalizer
    /\ w.step \in Applying =>
          ~Blank(o) /\ (w.obj.zoneID # None => o.zoneID # None /\ w.obj.zoneID <= o.zoneID)
    /\ w.step \in Applying \ {"resolve"} =>
          w.zoneID \in Zones /\ (o.zoneID # None => o.zoneID <= w.zoneID)
    /\ w.step = "verify" => (w.target # None => w.target < nextID /\ home[w.target] = w.zoneID)
    /\ w.step \in {"update", "patch"} =>
          w.target \in IDs /\ w.target < nextID /\ home[w.target] = w.zoneID
    /\ w.step \in Deleting => Dying(w.obj) /\ (~w.lagged => o = w.obj)
    /\ w.step = "unfinalize" /\ w.obj.id # None => records[w.obj.id] = None

IInv ==
    /\ KubeType /\ RecordType /\ Versions /\ Chains /\ Synced /\ WorkerOK

-----------------------------------------------------------------------------
(* Ids are naturals, and None is none of the values beside it. *)
LEMMA Values ==
    /\ \A z \in Zones : z \in Nat /\ z # None
    /\ \A r \in IDs : r \in Nat /\ r # None
    /\ None \notin Zones /\ None \notin IDs /\ None \notin Object
  BY RecordValues DEF Zones, IDs

(* The fields of a version of a DNSRecord. *)
LEMMA ObjectID ==
    \A v \in Version : v # None => /\ v \in Object /\ v.id \in IDs \cup {None}
                                   /\ v.zoneID \in Zones \cup {None}
                                   /\ v.deleting \in BOOLEAN /\ v.finalizer \in BOOLEAN
  BY DEF Version, Object

(* The events in flight have their type. *)
LEMMA EventType ==
    ASSUME KubeType
    PROVE  /\ Len(events) \in Nat
           /\ \A i \in 1..Len(events) :
                 events[i] \in Event /\ events[i].cr \in CRs /\ events[i].obj \in Version
  <1>1. events \in Seq(Event)
    BY DEF KubeType
  <1>2. Len(events) \in Nat /\ \A i \in 1..Len(events) : events[i] \in Event
    <2> HIDE DEF Event
    <2> QED
      BY <1>1
  <1>3. \A e \in Event : e.cr \in CRs /\ e.obj \in Version
    BY DEF Event
  <1> QED
    BY <1>2, <1>3

(* The versions of DNSRecords have their type. *)
LEMMA VsType == ASSUME KubeType PROVE Vs \subseteq Version
  <1>1. \A c \in CRs : api[c] \in Version /\ informer[c] \in Version
    BY DEF KubeType
  <1> QED
    BY <1>1, EventType DEF Vs

(* Next-state forms of the order, so that it need not be expanded again. *)
LEMMA PrimedOrd ==
    \A m, c, i, j :
        /\ Ord(m, informer[c], api[c])' <=> Ord(m, informer'[c], api'[c])
        /\ Ord(m, informer[c], events[i].obj)' <=> Ord(m, informer'[c], events'[i].obj)
        /\ Ord(m, events[i].obj, api[c])' <=> Ord(m, events'[i].obj, api'[c])
        /\ Ord(m, events[i].obj, events[j].obj)' <=> Ord(m, events'[i].obj, events'[j].obj)
  BY DEF Ord, Mono, Up, Down, Blank, Dying

(* The order of all versions of an object, in the next state. *)
LEMMA PrimedChain ==
    \A m, c :
        Chain(m, c)' <=> /\ Ord(m, informer'[c], api'[c])
                         /\ \A i \in 1..Len(events') : events'[i].cr = c =>
                               /\ Ord(m, informer'[c], events'[i].obj) /\ Ord(m, events'[i].obj, api'[c])
                               /\ \A j \in 1..Len(events') : i < j /\ events'[j].cr = c =>
                                     Ord(m, events'[i].obj, events'[j].obj)
  BY PrimedOrd DEF Chain

(* The orders of versions depend on the versions only. *)
LEMMA ChainSame ==
    ASSUME UNCHANGED <<api, informer, events>>
    PROVE  (\A d \in CRs : Mode(d)' = Mode(d)) /\ \A m, d : Chain(m, d)' <=> Chain(m, d)
  <1>1. \A d \in CRs : Mode(d)' = Mode(d)
    BY DEF Mode, Dying
  <1>2. \A m, d : Chain(m, d)' <=> Chain(m, d)
    BY PrimedChain DEF Chain
  <1> QED
    BY <1>1, <1>2

(* One more event. *)
LEMMA AppendEvent ==
    ASSUME KubeType, NEW e \in Event, events' = Append(events, e)
    PROVE  /\ events' \in Seq(Event) /\ Len(events') = Len(events) + 1
           /\ events'[Len(events) + 1] = e
           /\ \A i \in 1..Len(events) : events'[i] = events[i]
           /\ \A i \in 1..Len(events') : i \in 1..Len(events) \/ i = Len(events) + 1
  <1>1. events \in Seq(Event)
    BY DEF KubeType
  <1> HIDE DEF Event
  <1> QED
    BY <1>1

(* The oldest event is taken. *)
LEMMA TailEvent ==
    ASSUME KubeType, events # <<>>, events' = Tail(events)
    PROVE  /\ events' \in Seq(Event) /\ Len(events') = Len(events) - 1
           /\ Len(events) > 0 /\ Head(events) = events[1] /\ 1 \in 1..Len(events)
           /\ \A i \in 1..Len(events') : /\ i + 1 \in 1..Len(events) /\ 1 < i + 1
                                            /\ events'[i] = events[i + 1]
  <1>1. events \in Seq(Event)
    BY DEF KubeType
  <1> HIDE DEF Event
  <1> QED
    BY <1>1

(* The three forms of a write of a DNSRecord. *)
LEMMA StoreForms ==
    ASSUME KubeType, Synced, NEW c \in CRs, NEW o \in Version, Store(c, o)
    PROVE  /\ api' = [api EXCEPT ![c] = o] /\ api'[c] = o
           /\ \A d \in CRs : d # c => api'[d] = api[d]
           /\ [cr |-> c, obj |-> o] \in Event
           /\ \/ o = api[c] /\ UNCHANGED <<api, informer, events>>
              \/ /\ MaxLag = 0 /\ events = <<>> /\ events' = <<>> /\ Len(events) = 0
                 /\ informer' = [informer EXCEPT ![c] = o]
              \/ /\ events' = Append(events, [cr |-> c, obj |-> o]) /\ informer' = informer
                 /\ Len(events) < MaxLag
  <1>1. api \in [CRs -> Version] /\ events \in Seq(Event)
    BY DEF KubeType
  <1>2. api' = [api EXCEPT ![c] = o]
    BY DEF Store
  <1>3. api'[c] = o /\ \A d \in CRs : d # c => api'[d] = api[d]
    BY <1>1, <1>2
  <1>4. [cr |-> c, obj |-> o] \in Event
    BY DEF Event
  <1>5. o = api[c] => api' = api
    BY <1>1, <1>2
  <1>6. MaxLag = 0 => events = <<>> /\ Len(events) = 0
    <2> HIDE DEF Event
    <2> QED
      BY <1>1 DEF Synced
  <1> QED
    BY <1>2, <1>3, <1>4, <1>5, <1>6 DEF Store

(* A write keeps the types, adds one version, and keeps the informer exact *)
(* up to the events in flight.                                             *)
LEMMA StoreOK ==
    ASSUME KubeType, Synced, NEW c \in CRs, NEW o \in Version, Store(c, o)
    PROVE  /\ KubeType' /\ Vs' \subseteq Vs \cup {o} /\ Synced'
           /\ \A d \in CRs : d # c => informer'[d] = informer[d]
           /\ informer'[c] = informer[c] \/ (informer'[c] = o /\ events' = <<>>)
  <1>1. /\ api' = [api EXCEPT ![c] = o] /\ api'[c] = o
        /\ \A d \in CRs : d # c => api'[d] = api[d]
        /\ [cr |-> c, obj |-> o] \in Event
    BY StoreForms
  <1>2. api \in [CRs -> Version] /\ informer \in [CRs -> Version]
    BY DEF KubeType
  <1>3. api' \in [CRs -> Version]
    BY <1>1, <1>2
  <1>4. {api'[d] : d \in CRs} \subseteq {api[d] : d \in CRs} \cup {o}
    BY <1>1
  <1>5. CASE o = api[c] /\ UNCHANGED <<api, informer, events>>
    <2>1. KubeType' /\ Synced'
      BY <1>5 DEF KubeType, Synced
    <2>2. Vs' = Vs
      BY <1>5 DEF Vs
    <2> QED
      BY <1>5, <2>1, <2>2
  <1>6. CASE /\ MaxLag = 0 /\ events = <<>> /\ events' = <<>> /\ Len(events) = 0
             /\ informer' = [informer EXCEPT ![c] = o]
    <2>1. informer' \in [CRs -> Version] /\ informer'[c] = o /\ \A d \in CRs : d # c => informer'[d] = informer[d]
      BY <1>2, <1>6
    <2>2. KubeType' /\ Vs' \subseteq Vs \cup {o}
      BY <1>3, <1>4, <1>6, <2>1 DEF KubeType, Vs
    <2>3. Synced'
      BY <1>1, <1>6, <2>1 DEF Synced
    <2> QED
      BY <1>6, <2>1, <2>2, <2>3
  <1>7. CASE /\ events' = Append(events, [cr |-> c, obj |-> o]) /\ informer' = informer
             /\ Len(events) < MaxLag
    <2>1. /\ events' \in Seq(Event) /\ Len(events') = Len(events) + 1
          /\ events'[Len(events) + 1] = [cr |-> c, obj |-> o]
          /\ \A i \in 1..Len(events) : events'[i] = events[i]
          /\ \A i \in 1..Len(events') : i \in 1..Len(events) \/ i = Len(events) + 1
          /\ Len(events) \in Nat
      BY <1>1, <1>7, AppendEvent, EventType
    <2>2. KubeType'
      BY <1>2, <1>3, <1>7, <2>1 DEF KubeType
    <2>3. Vs' \subseteq Vs \cup {o}
      <3>1. \A i \in 1..Len(events') : events'[i].obj \in {events[k].obj : k \in 1..Len(events)} \cup {o}
        BY <2>1
      <3> QED
        BY <1>4, <1>7, <3>1 DEF Vs
    <2>4. Len(events') <= MaxLag /\ Len(events) + 1 \in 1..Len(events')
      BY <1>7, <2>1, RecordBounds
    <2>5. ASSUME NEW d \in CRs, \A i \in 1..Len(events') : events'[i].cr # d
          PROVE  informer'[d] = api'[d]
      <3>1. d # c
        BY <2>1, <2>4, <2>5
      <3>2. \A i \in 1..Len(events) : events[i].cr # d
        BY <2>1, <2>5
      <3> QED
        BY <1>1, <1>7, <3>1, <3>2 DEF Synced
    <2>6. ASSUME NEW i \in 1..Len(events'),
                 \A j \in 1..Len(events') : j > i => events'[j].cr # events'[i].cr
          PROVE  events'[i].obj = api'[events'[i].cr]
      <3>1. CASE i = Len(events) + 1
        BY <1>1, <2>1, <3>1
      <3>2. CASE i \in 1..Len(events)
        <4>1. events'[i] = events[i] /\ events[i].cr \in CRs /\ events[i].cr # c
          BY <2>1, <2>4, <2>6, <3>2, EventType
        <4>2. \A j \in 1..Len(events) : j > i => events[j].cr # events[i].cr
          BY <2>1, <2>6, <4>1
        <4> QED
          BY <1>1, <3>2, <4>1, <4>2 DEF Synced
      <3> QED
        BY <2>1, <3>1, <3>2
    <2>7. Synced'
      BY <2>4, <2>5, <2>6 DEF Synced
    <2> QED
      BY <1>7, <2>2, <2>3, <2>7
  <1> QED
    BY <1>5, <1>6, <1>7, StoreForms

(* A version that comes after all those after which the last one came. *)
LEMMA StoreChain ==
    ASSUME KubeType, Synced, NEW c \in CRs, NEW o \in Version, Store(c, o),
           NEW m, Chain(m, c), Ord(m, o, o), \A a \in Vs : Ord(m, a, api[c]) => Ord(m, a, o)
    PROVE  Chain(m, c)'
  <1>1. api'[c] = o /\ [cr |-> c, obj |-> o] \in Event
    BY StoreForms
  <1>2. informer[c] \in Vs /\ Ord(m, informer[c], o)
    BY DEF Vs, Chain
  <1>3. \A i \in 1..Len(events) : events[i].cr = c => Ord(m, events[i].obj, o)
    BY DEF Vs, Chain
  <1>4. Chain(m, c)' <=> /\ Ord(m, informer'[c], o)
                         /\ \A i \in 1..Len(events') : events'[i].cr = c =>
                               /\ Ord(m, informer'[c], events'[i].obj) /\ Ord(m, events'[i].obj, o)
                               /\ \A j \in 1..Len(events') : i < j /\ events'[j].cr = c =>
                                     Ord(m, events'[i].obj, events'[j].obj)
    BY <1>1, PrimedChain
  <1>5. CASE o = api[c] /\ UNCHANGED <<api, informer, events>>
    BY <1>4, <1>5 DEF Chain
  <1>6. CASE /\ MaxLag = 0 /\ events = <<>> /\ events' = <<>> /\ Len(events) = 0
             /\ informer' = [informer EXCEPT ![c] = o]
    <2>1. informer'[c] = o
      BY <1>6 DEF KubeType
    <2> QED
      BY <1>4, <1>6, <2>1
  <1>7. CASE /\ events' = Append(events, [cr |-> c, obj |-> o]) /\ informer' = informer
             /\ Len(events) < MaxLag
    <2>1. /\ Len(events') = Len(events) + 1
          /\ events'[Len(events) + 1] = [cr |-> c, obj |-> o]
          /\ \A i \in 1..Len(events) : events'[i] = events[i]
          /\ \A i \in 1..Len(events') : i \in 1..Len(events) \/ i = Len(events) + 1
          /\ Len(events) \in Nat
      BY <1>1, <1>7, AppendEvent, EventType
    <2>2. ASSUME NEW i \in 1..Len(events'), events'[i].cr = c
          PROVE  /\ Ord(m, informer[c], events'[i].obj) /\ Ord(m, events'[i].obj, o)
                 /\ \A j \in 1..Len(events') : i < j /\ events'[j].cr = c =>
                       Ord(m, events'[i].obj, events'[j].obj)
      <3>1. CASE i = Len(events) + 1
        BY <1>2, <2>1, <3>1
      <3>2. CASE i \in 1..Len(events)
        <4>1. events'[i] = events[i] /\ events[i].cr = c
          BY <2>1, <2>2, <3>2
        <4>2. ASSUME NEW j \in 1..Len(events'), i < j, events'[j].cr = c
              PROVE  Ord(m, events'[i].obj, events'[j].obj)
          <5>1. CASE j = Len(events) + 1
            BY <1>3, <2>1, <3>2, <4>1, <5>1
          <5>2. CASE j \in 1..Len(events)
            BY <2>1, <3>2, <4>1, <4>2, <5>2 DEF Chain
          <5> QED
            BY <2>1, <5>1, <5>2
        <4> QED
          BY <1>3, <3>2, <4>1, <4>2 DEF Chain
      <3> QED
        BY <2>1, <3>1, <3>2
    <2> QED
      BY <1>2, <1>4, <1>7, <2>2
  <1> QED
    BY <1>5, <1>6, <1>7, StoreForms

(* The order of another object's versions. *)
LEMMA OtherChain ==
    ASSUME KubeType, Synced, NEW c \in CRs, NEW o \in Version, Store(c, o),
           NEW d \in CRs, d # c, NEW m, Chain(m, d)
    PROVE  Chain(m, d)'
  <1>1. api'[d] = api[d] /\ informer'[d] = informer[d] /\ [cr |-> c, obj |-> o] \in Event
    BY StoreForms, StoreOK
  <1>2. Chain(m, d)' <=> /\ Ord(m, informer[d], api[d])
                         /\ \A i \in 1..Len(events') : events'[i].cr = d =>
                               /\ Ord(m, informer[d], events'[i].obj) /\ Ord(m, events'[i].obj, api[d])
                               /\ \A j \in 1..Len(events') : i < j /\ events'[j].cr = d =>
                                     Ord(m, events'[i].obj, events'[j].obj)
    BY <1>1, PrimedChain
  <1>3. CASE events' = events
    BY <1>2, <1>3 DEF Chain
  <1>4. CASE events' = Append(events, [cr |-> c, obj |-> o])
    <2>1. /\ events'[Len(events) + 1] = [cr |-> c, obj |-> o]
          /\ \A i \in 1..Len(events) : events'[i] = events[i]
          /\ \A i \in 1..Len(events') : i \in 1..Len(events) \/ i = Len(events) + 1
      BY <1>1, <1>4, AppendEvent
    <2>2. \A i \in 1..Len(events') : events'[i].cr = d =>
              i \in 1..Len(events) /\ events'[i] = events[i]
      BY <2>1
    <2> QED
      BY <1>2, <2>2 DEF Chain
  <1> QED
    BY <1>3, <1>4, StoreForms

(* An object of which the informer shows that it is being deleted, with    *)
(* nothing but that ahead, and one that it shows as removed.               *)
LEMMA Switch ==
    ASSUME NEW c \in CRs
    PROVE  /\ Chain("up", c)' /\ Dying(informer'[c]) => Chain("down", c)'
           /\ Chain("down", c)' /\ ~Dying(informer'[c]) => Chain("up", c)'
  <1>1. ASSUME NEW m PROVE
           Chain(m, c)' <=> /\ Ord(m, informer'[c], api'[c])
                            /\ \A i \in 1..Len(events') : events'[i].cr = c =>
                                  /\ Ord(m, informer'[c], events'[i].obj) /\ Ord(m, events'[i].obj, api'[c])
                                  /\ \A j \in 1..Len(events') : i < j /\ events'[j].cr = c =>
                                        Ord(m, events'[i].obj, events'[j].obj)
    BY PrimedChain
  <1>2. \A a, b : Ord("up", a, b) /\ Dying(a) => Dying(b) /\ Ord("down", a, b)
    BY DEF Ord, Up, Down
  <1>3. \A a, b : Ord("down", a, b) /\ ~Dying(a) => ~Dying(b) /\ Ord("up", a, b)
    BY DEF Ord, Up, Down, Blank, Dying
  <1> QED
    BY <1>1, <1>2, <1>3

(* The order after itself. *)
LEMMA OrdSame ==
    ASSUME NEW o \in Version
    PROVE  /\ Ord("up", o, o) /\ (Blank(o) \/ Dying(o) => Ord("down", o, o))
           /\ Ord(IF Dying(o) THEN "down" ELSE "up", o, o)
  <1>1. Mono(o, o)
    BY ObjectID, Values DEF Mono
  <1> QED
    BY <1>1 DEF Ord, Up, Down

(* What a write has to show for the order of all versions to be kept. *)
LEMMA StoreModes ==
    ASSUME KubeType, Synced, \A d \in CRs : Chain(Mode(d), d),
           NEW c \in CRs, NEW o \in Version, Store(c, o),
           \A a \in Vs : Ord(Mode(c), a, api[c]) => Ord(Mode(c), a, o)
    PROVE  \A d \in CRs : Chain(Mode(d), d)'
  <1>1. ASSUME NEW d \in CRs, d # c PROVE Chain(Mode(d), d)'
    <2>1. informer'[d] = informer[d]
      BY <1>1, StoreOK
    <2>2. PICK m \in {"up", "down"} : m = Mode(d) /\ m = Mode(d)'
      BY <2>1 DEF Mode, Dying
    <2>3. Chain(m, d)'
      BY <1>1, <2>2, OtherChain, Zenon
    <2> QED
      BY <2>2, <2>3
  <1>2. Chain(Mode(c), c)'
    <2>1. PICK m \in {"up", "down"} : m = Mode(c)
      BY DEF Mode
    <2>2. informer[c] \in Vs /\ Ord(m, informer[c], o)
      BY <2>1 DEF Vs, Chain
    <2>3. Ord(m, o, o)
      BY <2>2, OrdSame DEF Ord, Down
    <2>4. Chain(m, c)'
      BY <2>1, <2>3, StoreChain
    <2>5. CASE informer'[c] = informer[c]
      <3>1. Mode(c)' = m
        BY <2>1, <2>5 DEF Mode, Dying
      <3> QED
        BY <2>4, <3>1
    <2>6. CASE informer'[c] = o /\ events' = <<>>
      <3>1. api'[c] = o /\ Len(events') = 0
        BY <2>6, StoreForms, Zenon
      <3>2. PICK k \in {"up", "down"} : k = (IF Dying(o) THEN "down" ELSE "up")
        OBVIOUS
      <3>3. Mode(c)' = k
        BY <2>6, <3>2 DEF Mode, Dying
      <3>4. Ord(k, o, o)
        BY <3>2, OrdSame
      <3>5. Chain(k, c)' <=> /\ Ord(k, o, o)
                             /\ \A i \in 1..Len(events') : events'[i].cr = c =>
                                   /\ Ord(k, o, events'[i].obj) /\ Ord(k, events'[i].obj, o)
                                   /\ \A j \in 1..Len(events') : i < j /\ events'[j].cr = c =>
                                         Ord(k, events'[i].obj, events'[j].obj)
        BY <2>6, <3>1, PrimedChain
      <3>6. Chain(k, c)'
        BY <3>1, <3>4, <3>5
      <3> QED
        BY <3>3, <3>6
    <2> QED
      BY <2>5, <2>6, StoreOK
  <1> QED
    BY <1>1, <1>2

(* The oldest event reaches the informer. *)
LEMMA DeliverOK ==
    ASSUME KubeType, Synced, Chains, events # <<>>, api' = api,
           informer' = [informer EXCEPT ![Head(events).cr] = Head(events).obj],
           events' = Tail(events), worker' = worker,
           worker.step # "idle" => worker.cr \in CRs
    PROVE  KubeType' /\ Synced' /\ Vs' \subseteq Vs /\ Chains'
  <1> DEFINE e == events[1]
  <1>1. /\ events' \in Seq(Event) /\ Len(events') = Len(events) - 1
        /\ Len(events) > 0 /\ Head(events) = e /\ 1 \in 1..Len(events)
        /\ \A i \in 1..Len(events') : /\ i + 1 \in 1..Len(events) /\ 1 < i + 1
                                         /\ events'[i] = events[i + 1]
    BY TailEvent
  <1>2. e.cr \in CRs /\ e.obj \in Version /\ Len(events) \in Nat
    BY <1>1, EventType
  <1>3. /\ informer' \in [CRs -> Version] /\ informer'[e.cr] = e.obj
        /\ \A d \in CRs : d # e.cr => informer'[d] = informer[d]
    BY <1>1, <1>2 DEF KubeType
  <1>4. KubeType'
    BY <1>1, <1>3 DEF KubeType
  <1>5. Vs' \subseteq Vs
    BY <1>1, <1>2, <1>3 DEF Vs
  <1>6. Synced'
    <2>1. Len(events') <= MaxLag
      BY <1>1, <1>2, RecordBounds DEF Synced
    <2>2. ASSUME NEW i \in 1..Len(events), i > 1 PROVE i - 1 \in 1..Len(events') /\ (i - 1) + 1 = i
      BY <1>1, <1>2, <2>2
    <2>3. ASSUME NEW d \in CRs, \A i \in 1..Len(events') : events'[i].cr # d
          PROVE  informer'[d] = api[d]
      <3>1. ASSUME NEW i \in 1..Len(events), i > 1 PROVE events[i].cr # d
        BY <1>1, <2>2, <2>3, <3>1
      <3>2. CASE e.cr = d
        BY <1>1, <1>3, <3>1, <3>2 DEF Synced
      <3>3. CASE e.cr # d
        <4>1. \A i \in 1..Len(events) : events[i].cr # d
          BY <1>2, <3>1, <3>3
        <4> QED
          BY <1>3, <3>3, <4>1 DEF Synced
      <3> QED
        BY <3>2, <3>3
    <2>4. ASSUME NEW i \in 1..Len(events'),
                 \A j \in 1..Len(events') : j > i => events'[j].cr # events'[i].cr
          PROVE  events'[i].obj = api[events'[i].cr]
      <3>1. i + 1 \in 1..Len(events) /\ events'[i] = events[i + 1]
        BY <1>1
      <3>2. ASSUME NEW j \in 1..Len(events), j > i + 1 PROVE events[j].cr # events[i + 1].cr
        <4>1. j > 1 /\ j - 1 > i
          BY <1>2, <3>2
        <4>2. j - 1 \in 1..Len(events') /\ (j - 1) + 1 = j
          BY <2>2, <4>1
        <4>3. events'[j - 1] = events[j]
          BY <1>1, <4>2
        <4> QED
          BY <2>4, <3>1, <4>1, <4>2, <4>3, Zenon
      <3> QED
        BY <3>1, <3>2 DEF Synced
    <2> QED
      BY <2>1, <2>3, <2>4 DEF Synced
  <1>7. ASSUME NEW d \in CRs, NEW m, Chain(m, d) PROVE Chain(m, d)'
    <2>1. Chain(m, d)' <=> /\ Ord(m, informer'[d], api[d])
                           /\ \A i \in 1..Len(events') : events'[i].cr = d =>
                                 /\ Ord(m, informer'[d], events'[i].obj) /\ Ord(m, events'[i].obj, api[d])
                                 /\ \A j \in 1..Len(events') : i < j /\ events'[j].cr = d =>
                                       Ord(m, events'[i].obj, events'[j].obj)
      BY PrimedChain
    <2>2. Ord(m, informer'[d], api[d])
      BY <1>1, <1>3, <1>7 DEF Chain
    <2>3. ASSUME NEW i \in 1..Len(events'), events'[i].cr = d
          PROVE  /\ Ord(m, informer'[d], events'[i].obj) /\ Ord(m, events'[i].obj, api[d])
                 /\ \A j \in 1..Len(events') : i < j /\ events'[j].cr = d =>
                       Ord(m, events'[i].obj, events'[j].obj)
      <3>1. i + 1 \in 1..Len(events) /\ 1 < i + 1 /\ events'[i] = events[i + 1]
        BY <1>1
      <3>2. Ord(m, informer'[d], events'[i].obj) /\ Ord(m, events'[i].obj, api[d])
        BY <1>1, <1>3, <1>7, <2>3, <3>1 DEF Chain
      <3>3. ASSUME NEW j \in 1..Len(events'), i < j, events'[j].cr = d
            PROVE  Ord(m, events'[i].obj, events'[j].obj)
        <4>1. j + 1 \in 1..Len(events) /\ i + 1 < j + 1 /\ events'[j] = events[j + 1]
          BY <1>1, <3>3
        <4> QED
          BY <1>7, <2>3, <3>1, <3>3, <4>1 DEF Chain
      <3> QED
        BY <3>2, <3>3
    <2> QED
      BY <2>1, <2>2, <2>3
  <1>8. ASSUME NEW d \in CRs PROVE Chain(Mode(d), d)'
    <2>1. PICK m \in {"up", "down"} : m = Mode(d)
      BY DEF Mode
    <2>2. Chain(m, d)'
      BY <1>7, <2>1 DEF Chains
    <2>3. CASE Dying(informer'[d])
      <3>1. Mode(d)' = "down"
        BY <2>3 DEF Mode, Dying
      <3>2. Chain("down", d)'
        BY <2>2, <2>3, Switch
      <3> QED
        BY <3>1, <3>2
    <2>4. CASE ~Dying(informer'[d])
      <3>1. Mode(d)' = "up"
        BY <2>4 DEF Mode, Dying
      <3>2. Chain("up", d)'
        BY <2>2, <2>4, Switch
      <3> QED
        BY <3>1, <3>2
    <2> QED
      BY <2>3, <2>4
  <1>9. worker.step \in Applying \cup {"finalize"} => Chain("up", worker.cr)'
    <2> SUFFICES ASSUME worker.step \in Applying \cup {"finalize"} PROVE Chain("up", worker.cr)'
      OBVIOUS
    <2>1. PICK d \in CRs : d = worker.cr
      BY DEF Applying
    <2>2. Chain("up", d)'
      BY <1>7, <2>1 DEF Chains
    <2> QED
      BY <2>1, <2>2
  <1>10. worker.step \in Deleting => Chain("down", worker.cr)'
    <2> SUFFICES ASSUME worker.step \in Deleting PROVE Chain("down", worker.cr)'
      OBVIOUS
    <2>1. PICK d \in CRs : d = worker.cr
      BY DEF Deleting
    <2>2. Chain("down", d)'
      BY <1>7, <2>1 DEF Chains
    <2> QED
      BY <2>1, <2>2
  <1>11. Chains'
    BY <1>8, <1>9, <1>10 DEF Chains
  <1> QED
    BY <1>4, <1>5, <1>6, <1>11

-----------------------------------------------------------------------------
(* What a version satisfies survives newer zones and new records. *)
LEMMA VersionKept ==
    ASSUME \A z \in Zones \cup {None} : Below(z) => Below(z)',
           nextID \in Nat, nextID' \in Nat, nextID <= nextID',
           \A r \in IDs : r < nextID => home'[r] = home[r],
           NEW v \in Version, VersionOK(v)
    PROVE  VersionOK(v)'
  <1>1. v # None => /\ v.id \in IDs \cup {None} /\ v.zoneID \in Zones \cup {None}
    BY ObjectID
  <1>2. v # None /\ v.id # None => v.id \in Nat
    BY <1>1, Values
  <1>3. v # None => Below(v.zoneID)'
    BY <1>1 DEF VersionOK
  <1>4. v # None /\ v.id # None => v.id < nextID' /\ home'[v.id] = v.zoneID
    BY <1>1, <1>2 DEF VersionOK
  <1>5. VersionOK(v)' <=> (v # None =>
           /\ v.id # None => v.id < nextID' /\ v.zoneID # None /\ home'[v.id] = v.zoneID
           /\ ~v.finalizer => v.id = None /\ v.zoneID = None /\ ~v.deleting
           /\ Below(v.zoneID)')
    BY DEF VersionOK
  <1> QED
    BY <1>3, <1>4, <1>5 DEF VersionOK

(* What is known of the versions and of the reconcile. *)
LEMMA Facts ==
    ASSUME IInv
    PROVE  /\ worker \in Workers /\ WorkerOK /\ nextID \in Nat /\ zone \in Nat
           /\ zoneSeen \in Zones \cup {None} /\ (zoneSeen # None => zoneSeen \in Nat)
           /\ worker.step # "idle" => worker.cr \in CRs /\ worker.obj \in Object
                                      /\ worker.obj \in Version /\ VersionOK(worker.obj)
           /\ \A c \in CRs : /\ api[c] \in Version /\ informer[c] \in Version
                             /\ api[c] \in Vs /\ informer[c] \in Vs
                             /\ VersionOK(api[c]) /\ VersionOK(informer[c])
  <1>1. worker \in Workers /\ WorkerOK /\ nextID \in Nat /\ zone \in Zones /\ zoneSeen \in Zones \cup {None}
    BY RecordBounds DEF IInv, RecordType
  <1>2. \A c \in CRs : api[c] \in Vs /\ informer[c] \in Vs
    BY DEF Vs
  <1>3. \A c \in CRs : api[c] \in Version /\ informer[c] \in Version
    BY DEF IInv, KubeType
  <1>4. \A c \in CRs : VersionOK(api[c]) /\ VersionOK(informer[c])
    BY <1>2, Zenon DEF IInv, Versions
  <1>5. worker.step # "idle" => worker.cr \in CRs /\ worker.obj \in Object /\ VersionOK(worker.obj)
    BY <1>1 DEF WorkerOK
  <1> QED
    BY <1>1, <1>2, <1>3, <1>4, <1>5, Values DEF Version

(* A zone the informer comes to show, and records handed out, keep what    *)
(* was known of the ids.                                                   *)
LEMMA BelowKept ==
    ASSUME IInv, zoneSeen' = zoneSeen \/ zoneSeen' = zone
    PROVE  \A z \in Zones \cup {None} : Below(z) => Below(z)'
  <1>1. zone \in Zones /\ (zoneSeen # None => zoneSeen \in Zones /\ zoneSeen <= zone)
    BY DEF IInv, RecordType
  <1> SUFFICES ASSUME NEW z \in Zones, z <= zoneSeen, zoneSeen # None
               PROVE  zoneSeen' # None /\ z <= zoneSeen'
    BY DEF Below
  <1>2. z \in Nat /\ zone \in Nat /\ zoneSeen \in Nat /\ zone # None
    BY <1>1, Values
  <1> QED
    BY <1>1, <1>2

(* What a version satisfies depends on the ids handed out only. *)
LEMMA VersionSame ==
    ASSUME UNCHANGED <<zoneSeen, home, nextID>>
    PROVE  \A v : (VersionOK(v)' <=> VersionOK(v)) /\ (Below(v)' <=> Below(v))
  BY DEF VersionOK, Below

(* What the next step of the reconcile knows, while the ids stay. *)
LEMMA WorkerVersion ==
    ASSUME UNCHANGED <<zoneSeen, home, nextID>>
    PROVE  /\ VersionOK(worker'.obj) => VersionOK(worker.obj)'
           /\ Below(worker'.zoneID) => Below(worker.zoneID)'
  <1>1. Below(worker'.zoneID) => Below(worker.zoneID)'
    BY DEF Below
  <1>2. ASSUME VersionOK(worker'.obj) PROVE VersionOK(worker.obj)'
    <2>1. PICK v : v = worker'.obj
      OBVIOUS
    <2>2. VersionOK(v)'
      BY <1>2, <2>1, VersionSame
    <2> QED
      BY <2>1, <2>2
  <1> QED
    BY <1>1, <1>2

(* A write of a DNSRecord. *)
LEMMA StoreInv ==
    ASSUME IInv, NEW c \in CRs, NEW o \in Version, Store(c, o), VersionOK(o),
           UNCHANGED <<zoneSeen, zone, records, home, nextID>>,
           \A a \in Vs : Ord(Mode(c), a, api[c]) => Ord(Mode(c), a, o),
           worker' \in Workers, WorkerOK',
           (worker.step \in Applying \cup {"finalize"} => Chain("up", worker.cr))',
           (worker.step \in Deleting => Chain("down", worker.cr))'
    PROVE  IInv'
  <1>1. KubeType' /\ Vs' \subseteq Vs \cup {o} /\ Synced'
    BY StoreOK DEF IInv
  <1>2. \A d \in CRs : Chain(Mode(d), d)'
    BY StoreModes DEF IInv, Chains
  <1>3. Chains'
    BY <1>2 DEF Chains
  <1>4. Versions'
    BY <1>1, VersionSame DEF IInv, Versions
  <1>5. RecordType'
    BY DEF IInv, RecordType
  <1> QED
    BY <1>1, <1>3, <1>4, <1>5 DEF IInv

(* A step of a reconcile that writes no object and hands out no id. *)
LEMMA QuietInv ==
    ASSUME IInv, UNCHANGED <<api, informer, events, zoneSeen, home, nextID>>,
           zone' = zone \/ (zone < MaxZones /\ zone' = zone + 1),
           worker' \in Workers, WorkerOK', records' \in [IDs -> Keys \cup {None}],
           \A r \in IDs : records'[r] # None => r < nextID,
           worker'.step \in Applying \cup {"finalize"} => Chain("up", worker'.cr),
           worker'.step \in Deleting => Chain("down", worker'.cr)
    PROVE  IInv'
  <1>1. KubeType' /\ Synced' /\ Vs' = Vs
    <2>1. KubeType'
      BY DEF IInv, KubeType
    <2>2. Synced'
      BY DEF IInv, Synced
    <2> QED
      BY <2>1, <2>2 DEF Vs
  <1>2. Chains'
    <2>1. \A c \in CRs : Chain(Mode(c), c)'
      BY ChainSame DEF Chains, IInv
    <2>2. \A m : Chain(m, worker.cr)' <=> Chain(m, worker'.cr)
      BY ChainSame
    <2> QED
      BY <2>1, <2>2 DEF Chains
  <1>3. Versions'
    BY <1>1, VersionSame DEF IInv, Versions
  <1>4. RecordType'
    <2>1. zone' \in Zones /\ zone <= zone' /\ zone \in Nat /\ zone' \in Nat
      BY RecordBounds DEF IInv, RecordType, Zones
    <2>2. zoneSeen # None => zoneSeen \in Nat
      BY Facts
    <2> QED
      BY <2>1, <2>2 DEF IInv, RecordType
  <1> QED
    BY <1>1, <1>2, <1>3, <1>4 DEF IInv

(* Records that stay are those there were. *)
LEMMA RecordsSame ==
    ASSUME IInv, UNCHANGED <<records, nextID>>
    PROVE  records' \in [IDs -> Keys \cup {None}] /\ \A r \in IDs : records'[r] # None => r < nextID
  BY DEF IInv, RecordType

(* A reconcile that has ended. *)
LEMMA IdleOK ==
    ASSUME worker' = Idle
    PROVE  /\ worker' \in Workers /\ worker'.zoneID = None /\ worker'.step = "idle"
           /\ worker'.step \notin Applying \cup {"finalize"} /\ worker'.step \notin Deleting /\ WorkerOK'
  <1>1. /\ worker' \in Workers /\ worker'.zoneID = None /\ worker'.step = "idle"
        /\ worker'.step \notin Applying /\ worker'.step # "finalize" /\ worker'.step \notin Deleting
    BY DEF Idle, Workers, Applying, Deleting, Version
  <1>2. Below(worker.zoneID)'
    BY <1>1 DEF Below
  <1> QED
    BY <1>1, <1>2 DEF WorkerOK, Applying, Deleting

(* A reconcile that ends without a write. *)
LEMMA EndInv ==
    ASSUME IInv, worker' = Idle, UNCHANGED <<api, informer, events, zoneSeen, zone, home, nextID, records>>
    PROVE  IInv'
  BY IdleOK, QuietInv, RecordsSame

-----------------------------------------------------------------------------
(* Get returns a copy. *)
LEMMA StartInv == ASSUME IInv, NEW c \in CRs, Start(c) PROVE IInv'
  <1> DEFINE o  == informer[c]
             st == IF o.deleting
                   THEN IF o.id = None \/ o.zoneID = None THEN "unfinalize" ELSE "delete"
                   ELSE IF o.finalizer THEN "resolve" ELSE "finalize"
  <1>1. /\ worker' = [Idle EXCEPT !.step = st, !.cr = c, !.obj = o, !.lagged = Pending(c)]
        /\ worker.step = "idle" /\ o # None
        /\ UNCHANGED <<api, informer, events, zoneSeen, zone, records, home, nextID>>
    BY DEF Start, kube, netbird
  <1>2. o \in Object /\ VersionOK(o) /\ o.id \in IDs \cup {None} /\ o.deleting \in BOOLEAN /\ o.finalizer \in BOOLEAN
    BY <1>1, Facts, ObjectID
  <1>3. st \in {"unfinalize", "delete", "resolve", "finalize"}
    OBVIOUS
  <1>4. /\ st \in Deleting => Dying(o)
        /\ st = "unfinalize" => o.id = None
        /\ st = "resolve" => ~Dying(o) /\ ~Blank(o)
        /\ st = "finalize" => ~Dying(o) /\ ~o.finalizer
    BY <1>1, <1>2 DEF Dying, Blank, VersionOK, Deleting
  <1>5. ~Pending(c) => o = api[c]
    BY DEF IInv, Synced, Pending
  <1> HIDE DEF st
  <1>6. PICK lag \in BOOLEAN : lag = Pending(c)
    BY Zenon DEF Pending
  <1>7. /\ worker' \in Workers /\ worker'.step = st /\ worker'.cr = c /\ worker'.obj = o
        /\ worker'.zoneID = None /\ worker'.target = None /\ worker'.lagged = lag
    <2> HIDE DEF o
    <2> QED
      BY <1>1, <1>2, <1>3, <1>6, Zenon DEF Idle, Workers, Version
  <1>8. /\ st \in Deleting => Chain("down", c)
        /\ st \in {"resolve", "finalize"} => Chain("up", c)
    <2>1. Chain(Mode(c), c)
      BY DEF IInv, Chains
    <2> QED
      BY <1>4, <2>1 DEF Mode
  <1>9. /\ worker'.step \in Applying \cup {"finalize"} => Chain("up", worker'.cr)
        /\ worker'.step \in Deleting => Chain("down", worker'.cr)
    BY <1>3, <1>7, <1>8 DEF Applying
  <1>10. st = "resolve" => /\ ~Blank(api[c])
                           /\ o.zoneID # None => api[c].zoneID # None /\ o.zoneID <= api[c].zoneID
    <2> SUFFICES ASSUME st = "resolve"
                 PROVE  /\ ~Blank(api[c])
                        /\ o.zoneID # None => api[c].zoneID # None /\ o.zoneID <= api[c].zoneID
      OBVIOUS
    <2>1. Ord("up", o, api[c])
      BY <1>8 DEF Chain
    <2> QED
      BY <1>1, <1>4, <2>1 DEF Ord, Up, Mono, Blank
  <1>11. VersionOK(worker.obj)' /\ Below(worker.zoneID)'
    BY <1>1, <1>2, <1>7, WorkerVersion DEF Below
  <1>12. WorkerOK'
    BY <1>1, <1>2, <1>3, <1>4, <1>5, <1>6, <1>7, <1>10, <1>11 DEF WorkerOK, Applying, Deleting, Blank, Dying
  <1> QED
    BY <1>1, <1>7, <1>9, <1>12, QuietInv, RecordsSame

(* resolveZoneID shows a zone that no recorded one is above; a recorded    *)
(* record is kept only with its zone.                                      *)
LEMMA ResolveInv == ASSUME IInv, Resolve PROVE IInv'
  <1> DEFINE w == worker
             o == worker.obj
             t == IF o.zoneID \notin {None, zoneSeen} THEN None ELSE o.id
  <1>1. w.step = "resolve" /\ UNCHANGED <<api, informer, events, zoneSeen, zone, records, home, nextID>>
    BY DEF Resolve, kube, netbird
  <1>2. CASE zoneSeen = None
    BY <1>1, <1>2, EndInv DEF Resolve, resolveZoneID
  <1>3. CASE zoneSeen # None
    <2>1. /\ w \in Workers /\ WorkerOK /\ w.cr \in CRs /\ o \in Object /\ VersionOK(o) /\ o # None
          /\ VersionOK(api[w.cr]) /\ ~Blank(api[w.cr]) /\ zoneSeen \in Zones /\ zoneSeen \in Nat
      BY <1>1, <1>3, Facts, Values DEF WorkerOK, Applying
    <2>2. Below(zoneSeen) /\ (api[w.cr].zoneID # None => api[w.cr].zoneID <= zoneSeen)
      BY <1>3, <2>1 DEF VersionOK, Blank, Below
    <2>3. t \in IDs \cup {None} /\ (t # None => t < nextID /\ home[t] = zoneSeen)
      <3>1. o.id \in IDs \cup {None}
        BY <2>1 DEF Object
      <3>2. o.id # None => o.zoneID # None /\ o.id < nextID /\ home[o.id] = o.zoneID
        BY <2>1 DEF VersionOK
      <3> QED
        BY <3>1, <3>2
    <2>4. worker' = [worker EXCEPT !.step = "verify", !.zoneID = zoneSeen, !.target = t]
      BY <1>3 DEF Resolve, resolveZoneID
    <2> HIDE DEF t
    <2>5. /\ worker' \in Workers /\ worker'.step = "verify" /\ worker'.cr = w.cr
          /\ worker'.obj = o /\ worker'.zoneID = zoneSeen /\ worker'.target = t /\ worker'.lagged = w.lagged
      BY <2>1, <2>3, <2>4, Zenon DEF Workers
    <2>6. VersionOK(worker.obj)' /\ Below(worker.zoneID)'
      BY <1>1, <2>1, <2>2, <2>5, WorkerVersion
    <2>7. WorkerOK'
      BY <1>1, <2>1, <2>2, <2>3, <2>5, <2>6 DEF WorkerOK, Applying, Deleting, Blank
    <2>8. /\ worker'.step \in Applying \cup {"finalize"} => Chain("up", worker'.cr)
          /\ worker'.step \notin Deleting
      BY <1>1, <2>5 DEF IInv, Chains, Applying, Deleting
    <2> QED
      BY <1>1, <2>5, <2>7, <2>8, QuietInv, RecordsSame
  <1> QED
    BY <1>2, <1>3

(* A step from one call of applyDNSRecord to the next: the zone in hand    *)
(* stays, and a target to be updated or recorded is one of its records.    *)
LEMMA ApplyingInv ==
    ASSUME IInv, worker.step \in Applying \ {"resolve"},
           UNCHANGED <<api, informer, events, zoneSeen, zone, home, nextID>>,
           records' \in [IDs -> Keys \cup {None}], \A r \in IDs : records'[r] # None => r < nextID,
           NEW st \in {"list", "update", "create", "patch"}, NEW t \in IDs \cup {None},
           worker' = [worker EXCEPT !.step = st, !.target = t],
           st \in {"update", "patch"} => t \in IDs /\ t < nextID /\ home[t] = worker.zoneID
    PROVE  IInv'
  <1> DEFINE w == worker
  <1>1. w \in Workers /\ WorkerOK /\ w.cr \in CRs /\ w.obj \in Object /\ VersionOK(w.obj) /\ Below(w.zoneID)
    BY Facts DEF WorkerOK, Applying
  <1>2. /\ worker' \in Workers /\ worker'.step = st /\ worker'.cr = w.cr /\ worker'.obj = w.obj
        /\ worker'.zoneID = w.zoneID /\ worker'.target = t /\ worker'.lagged = w.lagged
    BY <1>1, Zenon DEF Workers
  <1>3. VersionOK(worker.obj)' /\ Below(worker.zoneID)'
    BY <1>1, <1>2, WorkerVersion
  <1>4. st \in Applying \ {"resolve"} /\ st \notin Deleting /\ st \notin {"verify", "finalize", "unfinalize"}
    BY DEF Applying, Deleting
  <1>5. /\ ~Blank(api[w.cr]) /\ w.zoneID \in Zones /\ (api[w.cr].zoneID # None => api[w.cr].zoneID <= w.zoneID)
        /\ w.obj.zoneID # None => api[w.cr].zoneID # None /\ w.obj.zoneID <= api[w.cr].zoneID
    BY <1>1 DEF WorkerOK
  <1>6. WorkerOK'
    BY <1>1, <1>2, <1>3, <1>4, <1>5 DEF WorkerOK, Blank
  <1>7. Chain("up", worker'.cr)
    BY <1>2 DEF IInv, Chains
  <1> QED
    BY <1>2, <1>4, <1>6, <1>7, QuietInv

(* The GET decides whether the recorded record is kept. *)
LEMMA VerifyInv == ASSUME IInv, Verify PROVE IInv'
  <1>1. worker.step = "verify" /\ UNCHANGED <<api, informer, events, zoneSeen, zone, records, home, nextID>>
    BY DEF Verify, kube, netbird
  <1>2. worker.step \in Applying \ {"resolve"} /\ worker \in Workers /\ WorkerOK
    BY <1>1, Facts DEF Applying
  <1>3. CASE Found(worker)
    <2>1. /\ worker.target \in IDs /\ worker.target < nextID /\ home[worker.target] = worker.zoneID
      BY <1>1, <1>2, <1>3 DEF Found, Workers, WorkerOK
    <2>2. worker' = [worker EXCEPT !.step = "update", !.target = worker.target]
      BY <1>2, <1>3, Zenon DEF Verify, Workers
    <2> QED
      BY <1>1, <1>2, <2>1, <2>2, ApplyingInv, RecordsSame, Zenon
  <1>4. CASE ~Found(worker)
    <2>1. worker' = [worker EXCEPT !.step = "list", !.target = None]
      BY <1>4 DEF Verify
    <2> QED
      BY <1>1, <1>2, <2>1, ApplyingInv, RecordsSame, Zenon
  <1> QED
    BY <1>3, <1>4

(* An adopted record is one of the zone in hand. *)
LEMMA ListInv == ASSUME IInv, List PROVE IInv'
  <1>1. worker.step = "list" /\ UNCHANGED <<api, informer, events, zoneSeen, zone, records, home, nextID>>
    BY DEF List, kube, netbird
  <1>2. worker.step \in Applying \ {"resolve"} /\ worker \in Workers
    BY <1>1, Facts DEF Applying
  <1> DEFINE match == Matching(zone, worker.obj.key)
  <1>3. CASE worker' = Idle
    BY <1>1, <1>3, EndInv
  <1>4. CASE worker' = [worker EXCEPT !.step = "create"]
    <2>1. worker.target \in IDs \cup {None} /\ worker' = [worker EXCEPT !.step = "create", !.target = worker.target]
      BY <1>2, <1>4, Zenon DEF Workers
    <2> QED
      BY <1>1, <1>2, <2>1, ApplyingInv, RecordsSame, Zenon
  <1>5. CASE /\ worker.zoneID = zone /\ match # {}
             /\ worker' = [worker EXCEPT !.step = "update", !.target = CHOOSE r \in match : TRUE]
    <2>1. PICK t \in match : t = (CHOOSE r \in match : TRUE)
      BY <1>5
    <2>2. t \in IDs /\ records[t] = worker.obj.key /\ home[t] = worker.zoneID
      BY <1>5 DEF Matching
    <2>3. worker.obj.key # None
      <3>1. worker.obj \in Object
        BY <1>1, Facts
      <3> QED
        BY <3>1, RecordValues DEF Object
    <2>4. t < nextID
      BY <2>2, <2>3 DEF IInv, RecordType
    <2>5. worker' = [worker EXCEPT !.step = "update", !.target = t]
      BY <1>5, <2>1
    <2> QED
      BY <1>1, <1>2, <2>2, <2>4, <2>5, ApplyingInv, RecordsSame, Zenon
  <1> QED
    BY <1>3, <1>4, <1>5 DEF List

(* An update writes a record that exists. *)
LEMMA UpdateInv == ASSUME IInv, Update PROVE IInv'
  <1>1. worker.step = "update" /\ UNCHANGED <<api, informer, events, zoneSeen, zone, home, nextID>>
    BY DEF Update, kube
  <1>2. /\ worker.step \in Applying \ {"resolve"} /\ worker \in Workers /\ WorkerOK /\ worker.obj \in Object
        /\ worker.target \in IDs /\ worker.target < nextID /\ home[worker.target] = worker.zoneID
    BY <1>1, Facts DEF Applying, WorkerOK
  <1>3. CASE worker' = [worker EXCEPT !.step = "create"] /\ UNCHANGED records
    <2>1. worker' = [worker EXCEPT !.step = "create", !.target = worker.target]
      BY <1>2, <1>3, Zenon DEF Workers
    <2> QED
      BY <1>1, <1>2, <1>3, <2>1, ApplyingInv, RecordsSame, Zenon
  <1>4. CASE /\ worker' = [worker EXCEPT !.step = "patch"]
             /\ records' = [records EXCEPT ![worker.target] = worker.obj.key]
    <2>1. worker' = [worker EXCEPT !.step = "patch", !.target = worker.target]
      BY <1>2, <1>4, Zenon DEF Workers
    <2>2. worker.obj.key \in Keys
      BY <1>2 DEF Object
    <2>3. records \in [IDs -> Keys \cup {None}] /\ \A r \in IDs : records[r] # None => r < nextID
      BY DEF IInv, RecordType
    <2>4. records' \in [IDs -> Keys \cup {None}] /\ \A r \in IDs : records'[r] # None => r < nextID
      BY <1>2, <1>4, <2>2, <2>3
    <2> QED
      BY <1>1, <1>2, <2>1, <2>4, ApplyingInv, Zenon
  <1>5. CASE worker' = Idle /\ UNCHANGED records
    BY <1>1, <1>5, EndInv
  <1> QED
    BY <1>3, <1>4, <1>5 DEF Update

(* A create hands out the next id, in the zone that exists. *)
LEMMA CreateInv == ASSUME IInv, Create PROVE IInv'
  <1> DEFINE w == worker
             o == worker.obj
  <1>1. w.step = "create" /\ UNCHANGED <<api, informer, events, zoneSeen>>
    BY DEF Create, kube
  <1>2. CASE worker' = Idle /\ UNCHANGED netbird
    BY <1>1, <1>2, EndInv DEF netbird
  <1>3. CASE /\ w.zoneID = zone /\ nextID <= MaxIDs
             /\ records' = [records EXCEPT ![nextID] = o.key]
             /\ home' = [home EXCEPT ![nextID] = zone]
             /\ nextID' = nextID + 1
             /\ worker' = [worker EXCEPT !.step = "patch", !.target = nextID]
             /\ UNCHANGED zone
    <2>1. /\ w \in Workers /\ WorkerOK /\ w.cr \in CRs /\ o \in Object /\ o \in Version /\ VersionOK(o)
          /\ Below(w.zoneID) /\ nextID \in Nat
      BY <1>1, Facts DEF WorkerOK
    <2>2. /\ ~Blank(api[w.cr]) /\ w.zoneID \in Zones /\ (api[w.cr].zoneID # None => api[w.cr].zoneID <= w.zoneID)
          /\ o.zoneID # None => api[w.cr].zoneID # None /\ o.zoneID <= api[w.cr].zoneID
      BY <1>1, <2>1 DEF WorkerOK, Applying
    <2>3. nextID \in IDs /\ nextID' \in 1..(MaxIDs + 1) /\ nextID' \in Nat /\ nextID <= nextID' /\ nextID < nextID'
      BY <1>3, <2>1, RecordBounds DEF IInv, RecordType, IDs
    <2>4. /\ home' \in [IDs -> Zones \cup {None}] /\ home'[nextID] = w.zoneID
          /\ \A r \in IDs : r # nextID => home'[r] = home[r]
      BY <1>3, <2>2, <2>3 DEF IInv, RecordType
    <2>5. /\ records' \in [IDs -> Keys \cup {None}] /\ \A r \in IDs : r # nextID => records'[r] = records[r]
      <3>1. o.key \in Keys
        BY <2>1 DEF Object
      <3> QED
        BY <1>3, <2>3, <3>1 DEF IInv, RecordType
    <2>6. /\ worker' \in Workers /\ worker'.cr = w.cr /\ worker'.obj = o /\ worker'.zoneID = w.zoneID
          /\ worker'.step = "patch" /\ worker'.target = nextID /\ worker'.lagged = w.lagged
      BY <1>3, <2>1, <2>3, Zenon DEF Workers
    <2>7. RecordType'
      <3>1. \A r \in IDs : r \in Nat
        BY Values
      <3>2. \A r \in IDs : r < nextID' => r < nextID \/ r = nextID
        BY <1>3, <2>1, <3>1
      <3>3. \A r \in IDs : r < nextID => r < nextID'
        BY <1>3, <2>1, <3>1
      <3>4. \A r \in IDs : /\ records'[r] # None => r < nextID'
                           /\ r < nextID' => home'[r] \in Zones
        BY <2>2, <2>3, <2>4, <2>5, <3>2, <3>3 DEF IInv, RecordType
      <3> QED
        BY <1>1, <1>3, <2>3, <2>4, <2>5, <2>6, <3>4 DEF IInv, RecordType
    <2>8. \A z : Below(z)' <=> Below(z)
      BY <1>1 DEF Below
    <2>9. \A r \in IDs : r < nextID => home'[r] = home[r]
      BY <2>1, <2>4
    <2>10. ASSUME NEW v \in Version, VersionOK(v) PROVE VersionOK(v)'
      BY <2>1, <2>3, <2>8, <2>9, <2>10, VersionKept, Zenon
    <2>11. KubeType' /\ Synced' /\ Vs' = Vs
      BY <1>1 DEF IInv, KubeType, Synced, Vs
    <2>12. Versions'
      BY <2>10, <2>11, VsType DEF IInv, Versions
    <2>13. worker'.step \in Applying \ {"resolve"} /\ worker'.step \notin Deleting
           /\ worker'.step \notin {"finalize", "verify", "idle"}
      BY <2>6 DEF Applying, Deleting
    <2>14. Chains'
      <3>1. Chain("up", worker'.cr)
        BY <1>1, <2>6 DEF IInv, Chains, Applying
      <3>2. \A c \in CRs : Chain(Mode(c), c)'
        BY <1>1, ChainSame DEF IInv, Chains
      <3>3. Chain("up", worker.cr)'
        BY <1>1, <3>1, ChainSame
      <3> QED
        BY <2>13, <3>2, <3>3 DEF Chains
    <2>15. VersionOK(worker.obj)' /\ Below(worker.zoneID)'
      <3>1. PICK v \in Version : v = o /\ v = worker'.obj
        BY <2>1, <2>6
      <3>2. VersionOK(v)'
        BY <2>1, <2>10, <3>1
      <3>3. VersionOK(worker.obj)'
        BY <3>1, <3>2
      <3>4. Below(worker.zoneID)'
        BY <1>1, <2>1, <2>6 DEF Below
      <3> QED
        BY <3>3, <3>4
    <2>16. WorkerOK'
      BY <1>1, <2>1, <2>2, <2>3, <2>4, <2>6, <2>13, <2>15, Zenon DEF WorkerOK, Blank
    <2> QED
      BY <2>7, <2>11, <2>12, <2>14, <2>16 DEF IInv
  <1> QED
    BY <1>2, <1>3 DEF Create

(* The merge patch of the status: the zone id it leaves is the one that    *)
(* was resolved, whether or not the patch sends it, and the record it      *)
(* leaves is one of that zone.                                             *)
LEMMA MergedOK ==
    ASSUME IInv, worker.step = "patch", NEW o \in Version, o = api[worker.cr]
    PROVE  /\ o \in Object /\ ~Blank(o) /\ VersionOK(o) /\ worker.zoneID \in Zones
           /\ o.zoneID # None => o.zoneID <= worker.zoneID
           /\ Merged(o, worker) \in Object
           /\ Merged(o, worker).zoneID = worker.zoneID
           /\ Merged(o, worker).finalizer = o.finalizer
           /\ Merged(o, worker).deleting = o.deleting
           /\ VersionOK(Merged(o, worker))
  <1> DEFINE w  == worker
             n2 == IF w.zoneID = w.obj.zoneID THEN o.zoneID ELSE w.zoneID
             i2 == IF w.target = w.obj.id THEN o.id ELSE w.target
             m  == [o EXCEPT !.zoneID = n2, !.id = i2]
  <1>1. /\ w \in Workers /\ WorkerOK /\ w.cr \in CRs /\ w.obj \in Object /\ VersionOK(w.obj)
        /\ Below(w.zoneID) /\ w.obj # None /\ VersionOK(o)
    BY Facts, Values, Zenon DEF WorkerOK
  <1>2. /\ ~Blank(o) /\ (w.obj.zoneID # None => o.zoneID # None /\ w.obj.zoneID <= o.zoneID)
        /\ w.zoneID \in Zones /\ (o.zoneID # None => o.zoneID <= w.zoneID)
    BY <1>1 DEF WorkerOK, Applying
  <1>3. w.target \in IDs /\ w.target < nextID /\ home[w.target] = w.zoneID
    BY <1>1 DEF WorkerOK
  <1>4. /\ o # None /\ o.finalizer /\ o \in Object
        /\ o.zoneID \in Zones \cup {None} /\ o.id \in IDs \cup {None}
    BY <1>2, ObjectID DEF Blank
  <1>5. w.zoneID = w.obj.zoneID => o.zoneID = w.zoneID
    <2> SUFFICES ASSUME w.zoneID = w.obj.zoneID PROVE o.zoneID = w.zoneID
      OBVIOUS
    <2>1. w.zoneID # None /\ w.zoneID \in Nat
      BY <1>2, Values
    <2>2. o.zoneID # None /\ w.zoneID <= o.zoneID /\ o.zoneID <= w.zoneID
      BY <1>2, <2>1
    <2>3. o.zoneID \in Nat
      BY <1>4, <2>2, Values
    <2> QED
      BY <2>1, <2>2, <2>3
  <1>6. n2 = w.zoneID /\ i2 \in IDs \cup {None}
    BY <1>3, <1>4, <1>5
  <1>7. i2 # None => i2 < nextID /\ home[i2] = w.zoneID
    <2>1. CASE w.target = w.obj.id
      <3>1. w.obj.zoneID = w.zoneID
        BY <1>1, <1>3, <2>1, Values DEF VersionOK
      <3> QED
        BY <1>1, <1>4, <1>5, <2>1, <3>1 DEF VersionOK
    <2>2. CASE w.target # w.obj.id
      BY <1>3, <2>2
    <2> QED
      BY <2>1, <2>2
  <1>8. Merged(o, w) = m
    BY <1>4 DEF Merged, Object
  <1> HIDE DEF n2, i2
  <1>9. /\ m \in Object /\ m.zoneID = n2 /\ m.id = i2 /\ m.finalizer = o.finalizer /\ m.deleting = o.deleting
    BY <1>2, <1>4, <1>6, Zenon DEF Object
  <1>10. m # None /\ w.zoneID # None
    BY <1>2, <1>9, Values
  <1>11. VersionOK(m)
    <2> HIDE DEF m
    <2> QED
      BY <1>1, <1>4, <1>6, <1>7, <1>9, <1>10 DEF VersionOK
  <1> QED
    BY <1>1, <1>2, <1>4, <1>6, <1>8, <1>9, <1>11, Zenon

(* The status patch. *)
LEMMA PatchInv == ASSUME IInv, PatchStatus PROVE IInv'
  <1> DEFINE w == worker
  <1>1. /\ w.step = "patch" /\ worker' = Idle
        /\ UNCHANGED <<zoneSeen, zone, records, home, nextID>>
    BY DEF PatchStatus, netbird
  <1>2. PICK c \in CRs : c = w.cr
    BY <1>1, Facts
  <1>3. PICK o \in Version : o = api[c]
    BY Facts
  <1> DEFINE m == Merged(o, w)
  <1>4. /\ o \in Object /\ ~Blank(o) /\ VersionOK(o) /\ w.zoneID \in Zones
        /\ o.zoneID # None => o.zoneID <= w.zoneID
        /\ m \in Object /\ m.zoneID = w.zoneID /\ m.finalizer = o.finalizer /\ m.deleting = o.deleting
        /\ VersionOK(m)
    BY <1>1, <1>2, <1>3, MergedOK
  <1> HIDE DEF m
  <1>5. o # None /\ m # None /\ m \in Version /\ o.zoneID \in Zones \cup {None}
    BY <1>4, Values DEF Version, Object
  <1>6. Store(c, m)
    BY <1>2, <1>3, <1>5 DEF PatchStatus, Exists, m
  <1>7. ASSUME NEW a \in Vs, NEW k, Ord(k, a, o) PROVE Ord(k, a, m)
    <2>1. Mono(a, m)
      <3> SUFFICES ASSUME a # None, a.zoneID # None PROVE w.zoneID # None /\ a.zoneID <= w.zoneID
        BY <1>4 DEF Mono
      <3>1. o.zoneID # None /\ a.zoneID <= o.zoneID /\ o.zoneID <= w.zoneID
        BY <1>4, <1>5, <1>7 DEF Ord, Mono, Blank
      <3>2. a \in Version
        BY VsType DEF IInv
      <3>3. a.zoneID \in Nat /\ o.zoneID \in Nat /\ w.zoneID \in Nat /\ w.zoneID # None
        BY <1>4, <1>5, <3>1, <3>2, ObjectID, Values
      <3> QED
        BY <3>1, <3>3
    <2>2. (Blank(m) <=> Blank(o)) /\ (Dying(m) <=> Dying(o))
      BY <1>4, <1>5 DEF Blank, Dying
    <2> QED
      BY <1>7, <2>1, <2>2 DEF Ord, Up, Down
  <1>8. \A a \in Vs : Ord(Mode(c), a, api[c]) => Ord(Mode(c), a, m)
    BY <1>3, <1>7
  <1>9. /\ (worker.step \in Applying \cup {"finalize"} => Chain("up", worker.cr))'
        /\ (worker.step \in Deleting => Chain("down", worker.cr))'
    BY <1>1, IdleOK
  <1> QED
    BY <1>1, <1>4, <1>5, <1>6, <1>8, <1>9, IdleOK, StoreInv

(* The finalizer is set on what was blank, or is there already. *)
LEMMA FinalizeInv == ASSUME IInv, Finalize PROVE IInv'
  <1> DEFINE w == worker
  <1>1. w.step = "finalize" /\ UNCHANGED <<zoneSeen, zone, records, home, nextID>>
    BY DEF Finalize, netbird
  <1>2. /\ w \in Workers /\ WorkerOK /\ w.cr \in CRs /\ w.obj \in Object /\ VersionOK(w.obj)
        /\ Below(w.zoneID) /\ w.obj # None
    BY <1>1, Facts, Values, Zenon DEF WorkerOK
  <1>3. PICK c \in CRs : c = w.cr
    BY <1>2
  <1>4. CASE api[c] = None
    BY <1>1, <1>3, <1>4, EndInv DEF Finalize, Exists, kube
  <1>5. CASE api[c] # None
    <2>1. PICK o \in Object : o = api[c] /\ VersionOK(o)
      BY <1>5, Facts, ObjectID
    <2> DEFINE m == [o EXCEPT !.finalizer = TRUE]
    <2>2. /\ m \in Object /\ m.id = o.id /\ m.zoneID = o.zoneID /\ m.deleting = o.deleting /\ m.finalizer
          /\ (o.finalizer => m = o) /\ o # None
      BY <2>1, Values, Zenon DEF Object
    <2>3. Store(c, m) /\ worker' = [w EXCEPT !.step = "resolve"]
      BY <1>3, <1>5, <2>1 DEF Finalize, Exists
    <2> HIDE DEF m
    <2>4. m # None /\ m \in Version
      BY <2>2, Values, Zenon DEF Version
    <2>5. VersionOK(m)
      BY <2>1, <2>2, <2>4 DEF VersionOK
    <2>6. ASSUME NEW a \in Vs, Ord("up", a, o) PROVE Ord("up", a, m)
      <3>1. CASE o.finalizer
        BY <2>2, <2>6, <3>1
      <3>2. CASE ~o.finalizer
        <4>1. Blank(a)
          BY <2>6, <3>2 DEF Ord, Up, Blank
        <4>2. a # None => a.zoneID = None
          BY <4>1 DEF IInv, Versions, VersionOK, Blank
        <4> QED
          BY <4>1, <4>2 DEF Ord, Up, Mono, Blank, Dying
      <3> QED
        BY <3>1, <3>2
    <2>7. Chain("up", c)
      BY <1>1, <1>3 DEF IInv, Chains
    <2>8. \A a \in Vs : Ord(Mode(c), a, api[c]) => Ord(Mode(c), a, m)
      <3>1. CASE Mode(c) = "up"
        BY <2>1, <2>6, <3>1
      <3>2. CASE Dying(informer[c])
        <4>1. Dying(o)
          BY <2>1, <2>7, <3>2 DEF Chain, Ord, Up
        <4> QED
          BY <2>1, <2>2, <4>1 DEF Dying
      <3> QED
        BY <3>1, <3>2 DEF Mode
    <2>9. Chain("up", c)'
      <3>1. Ord("up", m, m)
        BY <2>4, OrdSame
      <3> QED
        BY <2>1, <2>3, <2>4, <2>6, <2>7, <3>1, StoreChain DEF IInv
    <2>10. /\ worker' \in Workers /\ worker'.cr = c /\ worker'.obj = w.obj
           /\ worker'.zoneID = w.zoneID /\ worker'.step = "resolve"
      BY <1>2, <1>3, <2>3, Zenon DEF Workers
    <2>11. worker'.step \notin Deleting /\ worker'.step \notin Applying \ {"resolve"}
           /\ worker'.step \notin {"idle", "finalize", "verify", "update", "patch", "unfinalize"}
      BY <2>10 DEF Deleting
    <2>12. /\ (worker.step \in Applying \cup {"finalize"} => Chain("up", worker.cr))'
           /\ (worker.step \in Deleting => Chain("down", worker.cr))'
      BY <2>9, <2>10, <2>11
    <2>13. api'[c] = m
      BY <2>3, <2>4, StoreForms, Zenon DEF IInv
    <2>14. WorkerOK'
      <3>1. VersionOK(worker.obj)' /\ Below(worker.zoneID)'
        BY <1>1, <1>2, <2>10, WorkerVersion
      <3>2. w.obj.zoneID = None
        BY <1>1, <1>2 DEF WorkerOK, VersionOK
      <3> QED
        BY <1>2, <2>2, <2>4, <2>10, <2>11, <2>13, <3>1, <3>2, Zenon DEF WorkerOK, Blank
    <2> QED
      BY <1>1, <2>3, <2>4, <2>5, <2>8, <2>10, <2>12, <2>14, StoreInv
  <1> QED
    BY <1>4, <1>5

(* The recorded record is gone after the delete. *)
LEMMA DeleteInv == ASSUME IInv, Delete PROVE IInv'
  <1> DEFINE w == worker
  <1>1. /\ w.step = "delete" /\ UNCHANGED <<api, informer, events, zoneSeen, zone, home, nextID>>
        /\ worker' = [worker EXCEPT !.step = "unfinalize"]
    BY DEF Delete, kube
  <1>2. /\ w \in Workers /\ WorkerOK /\ w.cr \in CRs /\ w.obj \in Object /\ VersionOK(w.obj)
        /\ Below(w.zoneID) /\ w.obj # None /\ w.obj.id \in IDs \cup {None}
    BY <1>1, Facts, Values DEF WorkerOK, Object
  <1>3. /\ worker' \in Workers /\ worker'.cr = w.cr /\ worker'.obj = w.obj /\ worker'.zoneID = w.zoneID
        /\ worker'.step = "unfinalize" /\ worker'.lagged = w.lagged
    BY <1>1, <1>2, Zenon DEF Workers
  <1>4. records' = [r \in IDs |-> IF r = w.obj.id /\ home[r] = w.obj.zoneID THEN None ELSE records[r]]
    BY DEF Delete
  <1>5. records' \in [IDs -> Keys \cup {None}] /\ \A r \in IDs : records'[r] \in {records[r], None}
    BY <1>4 DEF IInv, RecordType
  <1>6. \A r \in IDs : records'[r] # None => r < nextID
    BY <1>5 DEF IInv, RecordType
  <1>7. w.obj.id # None => records'[w.obj.id] = None
    BY <1>2, <1>4 DEF VersionOK
  <1>8. worker'.step \notin Applying /\ worker'.step \in Deleting /\ w.step \in Deleting
        /\ worker'.step \notin {"idle", "finalize", "verify", "update", "patch"}
    BY <1>1, <1>3 DEF Applying, Deleting
  <1>9. VersionOK(worker.obj)' /\ Below(worker.zoneID)'
    BY <1>1, <1>2, <1>3, WorkerVersion
  <1>10. WorkerOK'
    BY <1>1, <1>2, <1>3, <1>7, <1>8, <1>9 DEF WorkerOK, Dying
  <1>11. Chain("down", worker'.cr)
    BY <1>3, <1>8 DEF IInv, Chains
  <1> QED
    BY <1>1, <1>3, <1>5, <1>6, <1>8, <1>10, <1>11, QuietInv

(* The finalizer is taken from an object that is being deleted; a          *)
(* successor that was created meanwhile is blank and stays as it is.       *)
LEMMA UnfinalizeInv == ASSUME IInv, Unfinalize PROVE IInv'
  <1> DEFINE w == worker
  <1>1. w.step = "unfinalize" /\ worker' = Idle /\ UNCHANGED <<zoneSeen, zone, records, home, nextID>>
    BY DEF Unfinalize, netbird
  <1>2. PICK c \in CRs : c = w.cr
    BY <1>1, Facts
  <1>3. PICK o \in Version : o = api[c] /\ VersionOK(o)
    BY Facts
  <1>4. Chain("down", c)
    BY <1>1, <1>2 DEF IInv, Chains, Deleting
  <1>5. (Blank(o) \/ Dying(o)) /\ (Dying(o) => Dying(informer[c]))
    BY <1>3, <1>4 DEF Chain, Ord, Down
  <1> DEFINE m == IF ~Live(c) THEN None ELSE [o EXCEPT !.finalizer = FALSE]
  <1>6. m = IF Dying(o) THEN None ELSE o
    <2>1. CASE Dying(o)
      BY <1>3, <2>1 DEF Live, Dying
    <2>2. CASE o = None
      BY <1>3, <2>2 DEF Live, Dying
    <2>3. CASE o # None /\ ~o.finalizer
      <3>1. o \in Object /\ o.finalizer = FALSE /\ ~o.deleting
        BY <1>3, <2>3, ObjectID DEF VersionOK
      <3>2. [o EXCEPT !.finalizer = FALSE] = o
        BY <3>1 DEF Object
      <3> QED
        BY <1>3, <2>3, <3>1, <3>2 DEF Live, Dying
    <2> QED
      BY <1>5, <2>1, <2>2, <2>3 DEF Blank
  <1>7. Store(c, m)
    BY <1>2, <1>3 DEF Unfinalize
  <1> HIDE DEF m
  <1>8. m \in Version /\ VersionOK(m)
    BY <1>3, <1>6 DEF Version, VersionOK
  <1>9. \A a \in Vs : Ord(Mode(c), a, api[c]) => Ord(Mode(c), a, m)
    <2>1. CASE Dying(o)
      BY <1>3, <1>5, <1>6, <2>1 DEF Mode, Ord, Mono, Down, Blank, Dying
    <2>2. CASE ~Dying(o)
      BY <1>3, <1>6, <2>2
    <2> QED
      BY <2>1, <2>2
  <1>10. /\ (worker.step \in Applying \cup {"finalize"} => Chain("up", worker.cr))'
         /\ (worker.step \in Deleting => Chain("down", worker.cr))'
    BY <1>1, IdleOK
  <1> QED
    BY <1>1, <1>7, <1>8, <1>9, <1>10, IdleOK, StoreInv

-----------------------------------------------------------------------------
(* What a user writes, by what was there. *)
UserWrite(old, o) ==
    \/ /\ old = None
       /\ \E k \in Keys : o = [key |-> k, zoneID |-> None, id |-> None,
                               deleting |-> FALSE, finalizer |-> FALSE]
    \/ old # None /\ ~old.deleting /\ \E k \in Keys : o = [old EXCEPT !.key = k]
    \/ /\ old # None /\ ~old.deleting
       /\ o = IF old.finalizer THEN [old EXCEPT !.deleting = TRUE] ELSE None

(* A new object is blank, an edit changes the key only, and an object that *)
(* is deleted keeps its ids while it has its finalizer.                    *)
LEMMA UserWriteOK ==
    ASSUME NEW old \in Version, VersionOK(old), NEW o, UserWrite(old, o)
    PROVE  /\ o \in Version /\ VersionOK(o) /\ (Blank(old) => Blank(o)) /\ ~Dying(old)
           /\ ~Blank(old) => ~Blank(o) /\ o.zoneID = old.zoneID
           /\ \A k \in {"up", "down"} : \A a : Ord(k, a, old) => Ord(k, a, o)
  <1>1. CASE old = None /\ \E k \in Keys : o = [key |-> k, zoneID |-> None, id |-> None,
                                                deleting |-> FALSE, finalizer |-> FALSE]
    <2>1. /\ o \in Object /\ o # None /\ o.id = None /\ o.zoneID = None /\ ~o.finalizer /\ ~o.deleting
      <3>1. PICK k \in Keys : o = [key |-> k, zoneID |-> None, id |-> None,
                                   deleting |-> FALSE, finalizer |-> FALSE]
        BY <1>1, Zenon
      <3>2. o \in Object /\ o.id = None /\ o.zoneID = None /\ ~o.finalizer /\ ~o.deleting
        BY <3>1 DEF Object
      <3> QED
        BY <3>2, Values
    <2>2. VersionOK(o)
      BY <2>1 DEF VersionOK, Below
    <2>3. Blank(o) /\ ~Dying(o) /\ Blank(old) /\ ~Dying(old)
      BY <1>1, <2>1 DEF Blank, Dying
    <2>4. \A k \in {"up", "down"} : \A a : Ord(k, a, old) => Ord(k, a, o)
      BY <2>1, <2>3 DEF Ord, Mono, Up, Down, Blank, Dying
    <2> QED
      BY <1>1, <2>1, <2>2, <2>3, <2>4, Zenon DEF Version
  <1>2. CASE old # None /\ ~old.deleting /\ \E k \in Keys : o = [old EXCEPT !.key = k]
    <2>1. PICK k \in Keys : o = [old EXCEPT !.key = k]
      BY <1>2
    <2>2. old \in Object
      BY <1>2, ObjectID
    <2>3. /\ o \in Object /\ o.id = old.id /\ o.zoneID = old.zoneID
          /\ o.deleting = old.deleting /\ o.finalizer = old.finalizer
      BY <2>1, <2>2, Zenon DEF Object
    <2>4. o # None
      BY <2>3, Values
    <2>5. VersionOK(o) /\ (Blank(o) <=> Blank(old)) /\ (Dying(o) <=> Dying(old)) /\ ~Dying(old)
      BY <1>2, <2>3, <2>4 DEF VersionOK, Blank, Dying
    <2>6. \A k2 \in {"up", "down"} : \A a : Ord(k2, a, old) => Ord(k2, a, o)
      <3>1. \A a : Mono(a, old) => Mono(a, o)
        BY <1>2, <2>3 DEF Mono
      <3> QED
        BY <2>5, <3>1 DEF Ord, Up, Down
    <2> QED
      BY <1>2, <2>3, <2>5, <2>6 DEF Version
  <1>3. CASE /\ old # None /\ ~old.deleting /\ ~old.finalizer
             /\ o = IF old.finalizer THEN [old EXCEPT !.deleting = TRUE] ELSE None
    <2>1. o = None /\ Blank(old) /\ ~Dying(old)
      BY <1>3 DEF Blank, Dying
    <2>2. \A k \in {"up", "down"} : \A a : Ord(k, a, old) => Ord(k, a, o)
      BY <2>1 DEF Ord, Mono, Up, Down, Blank, Dying
    <2> QED
      BY <2>1, <2>2 DEF Version, VersionOK, Blank
  <1>4. CASE /\ old # None /\ ~old.deleting /\ old.finalizer
             /\ o = IF old.finalizer THEN [old EXCEPT !.deleting = TRUE] ELSE None
    <2>1. old \in Object /\ o = [old EXCEPT !.deleting = TRUE]
      BY <1>4, ObjectID
    <2>2. /\ o \in Object /\ o # None /\ o.id = old.id /\ o.zoneID = old.zoneID /\ o.deleting /\ o.finalizer
      BY <1>4, <2>1, Values, Zenon DEF Object
    <2>3. VersionOK(o) /\ ~Blank(o) /\ Dying(o) /\ ~Blank(old) /\ ~Dying(old)
      BY <1>4, <2>2 DEF VersionOK, Blank, Dying
    <2>4. \A k \in {"up", "down"} : \A a : Ord(k, a, old) => Ord(k, a, o)
      <3>1. \A a : Mono(a, old) => Mono(a, o)
        BY <1>4, <2>2 DEF Mono
      <3> QED
        BY <2>3, <3>1 DEF Ord, Up, Down
    <2> QED
      BY <1>4, <2>2, <2>3, <2>4, Zenon DEF Version
  <1> QED
    BY <1>1, <1>2, <1>3, <1>4 DEF UserWrite

(* A user creates, edits or deletes a DNSRecord. *)
LEMMA WriteInv ==
    ASSUME IInv, NEW c \in CRs, NEW o, UserWrite(api[c], o), Store(c, o),
           UNCHANGED <<zoneSeen, zone, records, home, nextID, worker>>
    PROVE  IInv'
  <1> DEFINE w == worker
  <1>1. PICK old \in Version : old = api[c] /\ VersionOK(old)
    BY Facts
  <1>2. /\ o \in Version /\ VersionOK(o) /\ (Blank(old) => Blank(o)) /\ ~Dying(old)
        /\ ~Blank(old) => ~Blank(o) /\ o.zoneID = old.zoneID
        /\ \A k \in {"up", "down"} : \A a : Ord(k, a, old) => Ord(k, a, o)
    BY <1>1, UserWriteOK
  <1>3. api'[c] = o /\ \A d \in CRs : d # c => api'[d] = api[d]
    BY <1>2, StoreForms, Zenon DEF IInv
  <1>4. \A a \in Vs : Ord(Mode(c), a, api[c]) => Ord(Mode(c), a, o)
    BY <1>1, <1>2 DEF Mode
  <1>5. ASSUME NEW d \in CRs, NEW k \in {"up", "down"}, Chain(k, d) PROVE Chain(k, d)'
    <2>1. CASE d # c
      BY <1>2, <1>5, <2>1, OtherChain DEF IInv
    <2>2. CASE d = c
      <3>1. Ord(k, informer[c], o)
        BY <1>1, <1>2, <1>5, <2>2 DEF Chain
      <3>2. Ord(k, o, o)
        BY <1>2, <3>1, OrdSame, Zenon DEF Ord, Down
      <3> QED
        BY <1>1, <1>2, <1>5, <2>2, <3>2, StoreChain DEF IInv
    <2> QED
      BY <2>1, <2>2
  <1>6. w \in Workers /\ WorkerOK /\ (w.step # "idle" => w.cr \in CRs)
    BY Facts, Zenon DEF WorkerOK
  <1>7. (worker.step \in Applying \cup {"finalize"} => Chain("up", worker.cr))'
    <2> SUFFICES ASSUME w.step \in Applying \cup {"finalize"} PROVE Chain("up", worker.cr)'
      OBVIOUS
    <2>1. PICK d \in CRs : d = w.cr
      BY <1>6 DEF Applying
    <2>2. Chain("up", d)'
      BY <1>5, <2>1 DEF IInv, Chains
    <2> QED
      BY <2>1, <2>2
  <1>8. (worker.step \in Deleting => Chain("down", worker.cr))'
    <2> SUFFICES ASSUME w.step \in Deleting PROVE Chain("down", worker.cr)'
      OBVIOUS
    <2>1. PICK d \in CRs : d = w.cr
      BY <1>6 DEF Deleting
    <2>2. Chain("down", d)'
      BY <1>5, <2>1 DEF IInv, Chains
    <2> QED
      BY <2>1, <2>2
  <1>9. WorkerOK'
    <2>1. (w.step # "idle" => VersionOK(worker.obj)') /\ Below(worker.zoneID)'
      BY <1>6, WorkerVersion, Zenon DEF WorkerOK
    <2>2. CASE w.step \in {"idle", "finalize"}
      BY <1>6, <2>1, <2>2, Zenon DEF WorkerOK, Applying, Deleting
    <2>3. CASE w.step # "idle" /\ w.cr # c
      <3>1. api'[w.cr] = api[w.cr]
        BY <1>3, <1>6, <2>3
      <3> QED
        BY <1>6, <2>1, <2>3, <3>1, Zenon DEF WorkerOK, Blank, Dying
    <2>4. CASE w.step \in Applying /\ w.cr = c
      <3>1. ~Blank(o) /\ o.zoneID = old.zoneID
        BY <1>1, <1>2, <1>6, <2>4, Zenon DEF WorkerOK
      <3>2. api'[w.cr] = o /\ api[w.cr] = old
        BY <1>1, <1>3, <2>4, Zenon
      <3>3. w.step \notin Deleting /\ w.step \notin {"idle", "finalize", "unfinalize"}
        BY <2>4 DEF Applying, Deleting
      <3> QED
        BY <1>6, <2>1, <2>4, <3>1, <3>2, <3>3, Zenon DEF WorkerOK, Blank
    <2>5. CASE w.step \in Deleting /\ w.cr = c
      <3>1. w.lagged
        BY <1>1, <1>2, <1>6, <2>5, Zenon DEF WorkerOK
      <3>2. w.step \notin Applying /\ w.step \notin {"idle", "finalize", "verify", "update", "patch"}
        BY <2>5 DEF Applying, Deleting
      <3> QED
        BY <1>6, <2>1, <2>5, <3>1, <3>2, Zenon DEF WorkerOK, Dying
    <2> QED
      BY <1>6, <2>2, <2>3, <2>4, <2>5 DEF Workers, Applying, Deleting
  <1> QED
    BY <1>2, <1>4, <1>6, <1>7, <1>8, <1>9, StoreInv, Zenon

(* A user's steps are such writes. *)
LEMMA UserInv == ASSUME IInv, User PROVE IInv'
  <1>1. UNCHANGED <<zoneSeen, zone, records, home, nextID, worker>>
    BY DEF User, netbird
  <1>2. \E c \in CRs : \E o : UserWrite(api[c], o) /\ Store(c, o)
    BY Zenon DEF User, UserWrite, Live
  <1> QED
    BY <1>1, <1>2, WriteInv

(* What the reconcile knows stays while it takes no step, DNSRecords stay  *)
(* and no record comes to be.                                              *)
LEMMA WorkerSame ==
    ASSUME IInv, UNCHANGED <<api, worker, home, nextID>>, zoneSeen' = zoneSeen \/ zoneSeen' = zone,
           \A r \in IDs : records[r] = None => records'[r] = None
    PROVE  WorkerOK' /\ \A v \in Version : VersionOK(v) => VersionOK(v)'
  <1>1. /\ worker \in Workers /\ WorkerOK /\ nextID \in Nat
        /\ (worker.step # "idle" => worker.cr \in CRs /\ worker.obj \in Object
                                    /\ worker.obj \in Version /\ VersionOK(worker.obj))
    BY Facts
  <1>2. \A z \in Zones \cup {None} : Below(z) => Below(z)'
    BY BelowKept
  <1>3. nextID' \in Nat /\ nextID <= nextID'
    BY <1>1
  <1>4. ASSUME NEW v \in Version, VersionOK(v) PROVE VersionOK(v)'
    BY <1>1, <1>2, <1>3, <1>4, VersionKept
  <1>5. worker.step # "idle" => VersionOK(worker.obj)'
    <2> SUFFICES ASSUME worker.step # "idle" PROVE VersionOK(worker.obj)'
      OBVIOUS
    <2>1. PICK v \in Version : v = worker.obj /\ VersionOK(v)
      BY <1>1
    <2>2. VersionOK(v)'
      BY <1>4, <2>1
    <2> QED
      BY <2>1, <2>2
  <1>6. Below(worker.zoneID)'
    <2>1. PICK z \in Zones \cup {None} : z = worker.zoneID /\ Below(z)
      BY <1>1 DEF Workers, WorkerOK
    <2>2. Below(z)'
      BY <1>2, <2>1
    <2> QED
      BY <2>1, <2>2
  <1>7. worker.step # "idle" => worker.obj.id \in IDs \cup {None}
    BY <1>1 DEF Object
  <1>8. WorkerOK'
    BY <1>1, <1>5, <1>6, <1>7, Zenon DEF WorkerOK, Blank, Dying, Applying, Deleting
  <1> QED
    BY <1>4, <1>8, Zenon

(* An event, or the DNSZone's id, reaches an informer. *)
LEMMA DeliverInv == ASSUME IInv, Deliver PROVE IInv'
  <1>1. UNCHANGED <<api, zone, records, home, nextID, worker>>
    BY DEF Deliver, kube, netbird
  <1>2. zoneSeen' = zoneSeen \/ zoneSeen' = zone
    BY DEF Deliver
  <1>3. WorkerOK' /\ \A v \in Version : VersionOK(v) => VersionOK(v)'
    BY <1>1, <1>2, WorkerSame
  <1>4. RecordType'
    <2>1. zone \in Zones /\ zone \in Nat /\ zone <= zone
      BY Facts DEF IInv, RecordType
    <2> QED
      BY <1>1, <1>2, <2>1 DEF IInv, RecordType
  <1>5. KubeType' /\ Synced' /\ Vs' \subseteq Vs /\ Chains'
    <2>1. CASE /\ events # <<>> /\ informer' = [informer EXCEPT ![Head(events).cr] = Head(events).obj]
               /\ events' = Tail(events)
      <3>1. worker.step # "idle" => worker.cr \in CRs
        BY Facts
      <3> QED
        BY <1>1, <2>1, <3>1, DeliverOK DEF IInv
    <2>2. CASE UNCHANGED <<informer, events>>
      <3>1. KubeType' /\ Synced' /\ Vs' = Vs
        BY <1>1, <2>2 DEF IInv, KubeType, Synced, Vs
      <3>2. Chains'
        BY <1>1, <2>2, ChainSame DEF IInv, Chains
      <3> QED
        BY <3>1, <3>2
    <2> QED
      BY <2>1, <2>2 DEF Deliver, kube
  <1>6. Versions'
    BY <1>3, <1>5, VsType DEF IInv, Versions
  <1> QED
    BY <1>3, <1>4, <1>5, <1>6 DEF IInv

(* A record, or the zone with its records, is deleted in NetBird. *)
LEMMA AdminInv == ASSUME IInv, Admin PROVE IInv'
  <1>1. UNCHANGED <<api, informer, events, zoneSeen, home, nextID, worker>>
    BY DEF Admin, kube
  <1>2. zone' = zone \/ (zone < MaxZones /\ zone' = zone + 1)
    BY DEF Admin
  <1>3. records' \in [IDs -> Keys \cup {None}] /\ \A r \in IDs : records'[r] \in {records[r], None}
    BY DEF Admin, IInv, RecordType
  <1>4. \A r \in IDs : records'[r] # None => r < nextID
    BY <1>3 DEF IInv, RecordType
  <1>5. WorkerOK' /\ worker' \in Workers
    BY <1>1, <1>3, WorkerSame, Facts
  <1>6. /\ worker'.step \in Applying \cup {"finalize"} => Chain("up", worker'.cr)
        /\ worker'.step \in Deleting => Chain("down", worker'.cr)
    BY <1>1 DEF IInv, Chains
  <1> QED
    BY <1>1, <1>2, <1>3, <1>4, <1>5, <1>6, QuietInv

(* After a restart the informers show what is in etcd. *)
LEMMA CrashInv == ASSUME IInv, Crash PROVE IInv'
  <1>1. /\ worker' = Idle /\ informer' = api /\ events' = <<>>
        /\ zoneSeen' = zoneSeen \/ zoneSeen' = zone
        /\ UNCHANGED <<api, zone, records, home, nextID>>
    BY DEF Crash, netbird
  <1>2. Len(events') = 0
    BY <1>1
  <1>3. KubeType' /\ WorkerOK' /\ worker'.step = "idle" /\ worker' \in Workers
    BY <1>1, IdleOK DEF IInv, KubeType
  <1>4. RecordType'
    <2>1. zone \in Zones /\ zone \in Nat /\ zone <= zone
      BY Facts DEF IInv, RecordType
    <2> QED
      BY <1>1, <1>3, <2>1 DEF IInv, RecordType
  <1>5. Vs' \subseteq Vs /\ Vs \subseteq Version
    <2>1. \A v \in Vs' : \E c \in CRs : v = api[c]
      BY <1>1, <1>2 DEF Vs
    <2>2. Vs \subseteq Version
      BY VsType DEF IInv
    <2> QED
      BY <2>1, <2>2, Zenon DEF Vs
  <1>6. Synced'
    BY <1>1, <1>2, RecordBounds DEF Synced
  <1>7. Versions'
    <2>1. nextID \in Nat /\ nextID' \in Nat /\ nextID <= nextID'
      BY <1>1, Facts
    <2>2. \A z \in Zones \cup {None} : Below(z) => Below(z)'
      BY <1>1, BelowKept
    <2>3. ASSUME NEW v \in Version, VersionOK(v) PROVE VersionOK(v)'
      BY <1>1, <2>1, <2>2, <2>3, VersionKept
    <2> QED
      BY <1>5, <2>3 DEF IInv, Versions
  <1>8. Chains'
    <2>1. ASSUME NEW c \in CRs PROVE Chain(Mode(c), c)'
      <3>1. PICK o \in Version : o = api[c]
        BY Facts
      <3>2. PICK k \in {"up", "down"} : k = (IF Dying(o) THEN "down" ELSE "up")
        OBVIOUS
      <3>3. Mode(c)' = k
        BY <1>1, <3>1, <3>2 DEF Mode, Dying
      <3>4. Ord(k, o, o)
        BY <3>2, OrdSame
      <3>5. Chain(k, c)'
        <4>1. \A i \in 1..Len(events') : FALSE
          BY <1>2
        <4>2. Ord(k, informer'[c], api'[c])
          BY <1>1, <3>1, <3>4
        <4> QED
          BY <4>1, <4>2, PrimedChain
      <3> QED
        BY <3>3, <3>5
    <2> QED
      BY <1>3, <2>1 DEF Chains, Applying, Deleting
  <1> QED
    BY <1>3, <1>4, <1>6, <1>7, <1>8 DEF IInv

-----------------------------------------------------------------------------
(* At first there is no DNSRecord and nothing is recorded or seen. *)
LEMMA InitInv == ASSUME Init PROVE IInv
  <1>1. events = <<>> /\ Len(events) = 0 /\ worker = Idle
    BY DEF Init
  <1>2. api = [c \in CRs |-> None] /\ informer = [c \in CRs |-> None]
    BY DEF Init
  <1>3. \A c \in CRs : api[c] = None /\ informer[c] = None
    BY <1>2, Zenon
  <1>4. KubeType
    BY <1>1, <1>2 DEF KubeType, Version
  <1>5. Idle \in Workers /\ Idle.step = "idle" /\ Idle.zoneID = None
    BY DEF Idle, Workers, Version
  <1>6. RecordType
    <2>1. 1 \in 1..(MaxIDs + 1) /\ 1 \in Zones /\ \A r \in IDs : ~(r < 1)
      BY RecordBounds DEF Zones, IDs
    <2> QED
      BY <1>1, <1>5, <2>1 DEF Init, RecordType
  <1>7. Versions
    <2>1. \A v \in Vs : v = None
      BY <1>1, <1>3 DEF Vs
    <2> QED
      BY <2>1 DEF Versions, VersionOK
  <1>8. Chains
    <2>1. ~Dying(None) /\ Ord("up", None, None)
      BY OrdSame DEF Dying, Version
    <2>2. ASSUME NEW c \in CRs PROVE Chain(Mode(c), c)
      <3>1. Mode(c) = "up"
        BY <1>3, <2>1 DEF Mode
      <3>2. Chain("up", c)
        BY <1>1, <1>3, <2>1 DEF Chain
      <3> QED
        BY <3>1, <3>2
    <2> QED
      BY <1>1, <1>5, <2>2 DEF Chains, Applying, Deleting
  <1>9. Synced
    <2>1. 0 <= MaxLag
      BY RecordBounds
    <2>2. \A i \in 1..Len(events) : FALSE
      BY <1>1
    <2> QED
      BY <1>1, <1>3, <2>1, <2>2 DEF Synced
  <1>10. WorkerOK
    BY <1>1, <1>5 DEF WorkerOK, Applying, Deleting, Below
  <1> QED
    BY <1>4, <1>6, <1>7, <1>8, <1>9, <1>10 DEF IInv

(* A step that changes nothing. *)
LEMMA StutterInv == ASSUME IInv, UNCHANGED vars PROVE IInv'
  <1>1. UNCHANGED <<api, informer, events, zoneSeen, zone, records, home, nextID, worker>>
    BY DEF vars, kube, netbird
  <1>2. WorkerOK' /\ worker' \in Workers
    BY <1>1, WorkerSame, Facts
  <1>3. /\ worker'.step \in Applying \cup {"finalize"} => Chain("up", worker'.cr)
        /\ worker'.step \in Deleting => Chain("down", worker'.cr)
    BY <1>1 DEF IInv, Chains
  <1> QED
    BY <1>1, <1>2, <1>3, QuietInv, RecordsSame

(* Every step keeps the invariant. *)
LEMMA NextInv == ASSUME IInv, [Next]_vars PROVE IInv'
  <1>1. CASE User \/ Admin \/ Deliver \/ Crash
    BY <1>1, UserInv, AdminInv, DeliverInv, CrashInv
  <1>2. CASE CallFails
    BY <1>2, EndInv DEF CallFails, kube, netbird
  <1>3. CASE \E c \in CRs : Start(c)
    BY <1>3, StartInv
  <1>4. CASE Finalize \/ Resolve \/ Verify \/ List \/ Update
    BY <1>4, FinalizeInv, ResolveInv, VerifyInv, ListInv, UpdateInv
  <1>5. CASE Create \/ PatchStatus \/ Delete \/ Unfinalize
    BY <1>5, CreateInv, PatchInv, DeleteInv, UnfinalizeInv
  <1>6. CASE UNCHANGED vars
    BY <1>6, StutterInv
  <1> QED
    BY <1>1, <1>2, <1>3, <1>4, <1>5, <1>6 DEF Next, Step

(* The invariant holds of every behaviour, with any number of objects, ids *)
(* and incarnations of the zone, any lag, and faults at any step.          *)
THEOREM Invariance == Spec => []IInv
  <1>1. Init => IInv
    BY InitInv
  <1>2. IInv /\ [Next]_vars => IInv'
    BY NextInv
  <1> QED
    BY <1>1, <1>2, PTL DEF Spec

(* The two ids in a DNSRecord's status always belong together, although    *)
(* the merge patch of applyDNSRecord sends each only if it differs from    *)
(* the copy's, and the zone may be replaced during the reconcile.          *)
THEOREM RecordsInTheirZone == Spec => []RecordInZone
  <1>1. IInv => RecordInZone
    BY Facts DEF RecordInZone, VersionOK, Exists
  <1> QED
    BY <1>1, Invariance, PTL

(* One step of the theorem below. *)
LEMMA RemovedStep ==
    ASSUME IInv, [Next]_vars, NEW c \in CRs, api[c] # None, api'[c] = None,
           ~worker.lagged, api[c].id # None
    PROVE  records[api[c].id] = None
  <1>1. PICK o \in Version : o = api[c] /\ VersionOK(o) /\ o # None /\ o.id # None
    BY Facts
  <1>2. ~Blank(o)
    BY <1>1 DEF Blank, VersionOK
  <1>3. ASSUME NEW d \in CRs, NEW v \in Version, Store(d, v) PROVE d = c /\ v = None
    BY <1>3, StoreForms, Zenon DEF IInv
  <1>4. CASE User
    <2>1. PICK d \in CRs : \E v : UserWrite(api[d], v) /\ Store(d, v)
      BY <1>4, Zenon DEF User, UserWrite, Live
    <2>2. PICK v : UserWrite(api[d], v) /\ Store(d, v)
      BY <2>1
    <2>3. api[d] \in Version /\ VersionOK(api[d])
      BY Facts
    <2>4. v \in Version /\ (~Blank(api[d]) => ~Blank(v))
      BY <2>2, <2>3, UserWriteOK
    <2> QED
      BY <1>1, <1>2, <1>3, <2>2, <2>4 DEF Blank
  <1>5. CASE Finalize
    <2>1. worker.cr \in CRs /\ api[worker.cr] \in Version
      BY <1>5, Facts DEF Finalize
    <2>2. PICK v : v = [api[worker.cr] EXCEPT !.finalizer = TRUE]
      OBVIOUS
    <2>3. api[worker.cr] # None => v \in Object /\ v # None /\ v \in Version
      BY <2>1, <2>2, ObjectID, Values, Zenon DEF Object, Version
    <2> QED
      BY <1>1, <1>3, <1>5, <2>1, <2>2, <2>3 DEF Finalize, Exists, kube
  <1>6. CASE PatchStatus
    <2>1. worker.cr \in CRs /\ api[worker.cr] \in Version /\ worker.step = "patch"
      BY <1>6, Facts DEF PatchStatus
    <2>2. PICK v : v = Merged(api[worker.cr], worker)
      OBVIOUS
    <2>3. v \in Object /\ v # None /\ v \in Version
      BY <2>1, <2>2, MergedOK, Values DEF Version
    <2> QED
      BY <1>1, <1>3, <1>6, <2>1, <2>2, <2>3 DEF PatchStatus, Exists, kube
  <1>7. CASE Unfinalize
    <2>1. worker.cr \in CRs /\ worker.step = "unfinalize" /\ WorkerOK
      BY <1>7, Facts DEF Unfinalize
    <2>2. PICK d \in CRs : d = worker.cr
      BY <2>1
    <2>3. PICK v : Store(d, v)
      BY <1>7, <2>2 DEF Unfinalize
    <2>4. d = c
      <3>1. api' = [api EXCEPT ![d] = v] /\ api \in [CRs -> Version]
        BY <2>3 DEF Store, IInv, KubeType
      <3> QED
        BY <1>1, <3>1
    <2> QED
      BY <1>1, <2>1, <2>2, <2>4, Zenon DEF WorkerOK, Deleting
  <1>8. CASE UNCHANGED api
    BY <1>8
  <1>9. ASSUME Next, ~User, ~Finalize, ~PatchStatus, ~Unfinalize PROVE UNCHANGED api
    BY <1>9, Zenon DEF Next, Step, Admin, Deliver, CallFails, Crash, Start, Resolve, Verify, List, Update,
                Create, Delete, kube
  <1> QED
    BY <1>4, <1>5, <1>6, <1>7, <1>8, <1>9 DEF vars, kube

(* deleteDNSRecord: a DNSRecord disappears only when the record its status *)
(* names is gone, unless the copy was behind etcd when the delete began or *)
(* another live DNSRecord uses the record.  An exact copy stays exact,     *)
(* because nobody else writes an object that is being deleted.             *)
THEOREM RemovedWithRecord == Spec => DeletionRemoves
  <1>1. IInv /\ [Next]_vars
          => [\A c \in CRs : (/\ Exists(c) /\ api'[c] = None /\ ~worker.lagged
                              /\ api[c].id # None /\ ~Shared(c))
                                => records[api[c].id] = None]_vars
    BY RemovedStep DEF Exists
  <1> QED
    BY <1>1, Invariance, PTL DEF Spec, DeletionRemoves

=============================================================================
