------------------------ MODULE NetworkTreeLemmas -------------------------
(* The inductive invariant behind the ids of NetworkResources, for any     *)
(* number of objects, ids, events in flight and faults, the lemmas about   *)
(* versions of objects it rests on, and that the Network controller's      *)
(* steps keep it.                                                          *)
EXTENDS NetworkTree, TLAPS

NetVersion == Network \cup {None}
ResVersion == Resource \cup {None}
Event      == [cr: Res, obj: ResVersion]

(* The types the argument needs. *)
NetWorkers ==
    [step: {"idle", "finalize", "verify", "update", "create", "patch", "delNet", "unfinalize"},
     obj: NetVersion, target: NetIDs \cup {None}, lagged: BOOLEAN]

NetType ==
    /\ net \in NetVersion /\ netSeen \in NetVersion /\ netEvents \in Seq(NetVersion)
    /\ nets \subseteq NetIDs /\ nextNet \in 1..(MaxNets + 1)
    /\ netWorker \in NetWorkers

ResKubeType ==
    /\ res \in [Res -> ResVersion] /\ resSeen \in [Res -> ResVersion] /\ resEvents \in Seq(Event)

ResWorkers ==
    [step: {"idle", "finalize", "resolve", "verify", "update", "create", "patch", "delRes", "unfinalize"},
     cr: Res \cup {None}, obj: ResVersion,
     netID: NetIDs \cup {None}, target: ResIDs \cup {None}, lagged: BOOLEAN]

ResType ==
    /\ ress \subseteq ResIDs /\ home \in [ResIDs -> NetIDs \cup {None}]
    /\ nextRes \in 1..(MaxResIDs + 1) /\ resWorker \in ResWorkers

(* The versions of the Network that exist, of which the ids were handed    *)
(* out and, from the informer's to etcd's, never go back.                  *)
NetVs == {net, netSeen} \cup {netEvents[i] : i \in 1..Len(netEvents)}

NetLeq(a, b) == a # None /\ b # None /\ a.id # None /\ b.id # None => a.id <= b.id

NetChain ==
    /\ \A v \in NetVs : v # None /\ v.id # None => v.id < nextNet
    /\ NetLeq(netSeen, net) /\ Len(netEvents) <= MaxLag
    /\ \A i \in 1..Len(netEvents) :
          /\ NetLeq(netSeen, netEvents[i]) /\ NetLeq(netEvents[i], net)
          /\ \A j \in 1..Len(netEvents) : i < j => NetLeq(netEvents[i], netEvents[j])

(* n is not above any id that the Network records or will be seen with. *)
Below(n) == n # None => n < nextNet /\ \A v \in NetVs : v # None /\ v.id # None => n <= v.id

(* A network that was created is the newest, and in no status until it is  *)
(* recorded.                                                               *)
Unrecorded(t) == \A v \in NetVs : v # None => v.id # t

NetFresh ==
    netWorker.step = "patch" /\ netWorker.target # netWorker.obj.id =>
        /\ netWorker.target + 1 = nextNet /\ Unrecorded(netWorker.target)
        /\ resWorker.netID # netWorker.target
        /\ \A r \in ResIDs : home[r] # netWorker.target

NetWorkerOK ==
    /\ netWorker.step # "idle" => netWorker.obj \in Network
    /\ netWorker.step \in {"update", "patch"} => netWorker.target \in NetIDs
    /\ netWorker.step = "update" => netWorker.target = netWorker.obj.id

(* The resources handed out have a network. *)
HomeOK == \A r \in ResIDs : IF r < nextRes THEN home[r] \in NetIDs /\ home[r] < nextNet ELSE home[r] = None
RessUsed == \A r \in ress : r < nextRes

(* What every version of a NetworkResource satisfies: its pair of ids      *)
(* belongs together, and without the finalizer it is blank.                *)
VersionOK(v) ==
    v # None =>
        /\ v.id # None => v.id < nextRes /\ v.netID # None /\ home[v.id] = v.netID
        /\ ~v.finalizer => v.id = None /\ v.netID = None /\ ~v.deleting
        /\ Below(v.netID)

Blank(v) == v = None \/ ~v.finalizer
Dying(v) == v # None /\ v.finalizer /\ v.deleting

(* b comes after a.  The network id is not dropped while the finalizer is  *)
(* there, and goes up.  Going up, an object is blank, then has its         *)
(* finalizer, then is being deleted; going down, it is removed and stays   *)
(* blank, because the reconcile has not seen a successor yet.              *)
Mono(a, b) == a # None /\ b # None /\ a.netID # None /\ b.finalizer => b.netID # None /\ a.netID <= b.netID
Up(a, b)   == (~Blank(a) => ~Blank(b)) /\ (Dying(a) => Dying(b))
Down(a, b) == (Blank(a) \/ Dying(a)) /\ (Blank(b) \/ Dying(b)) /\ (Dying(b) => Dying(a))

Ord(m, a, b) == Mono(a, b) /\ (m = "up" => Up(a, b)) /\ (m = "down" => Down(a, b))

Chain(m, c) ==
    /\ Ord(m, resSeen[c], res[c])
    /\ \A i \in 1..Len(resEvents) : resEvents[i].cr = c =>
          /\ Ord(m, resSeen[c], resEvents[i].obj) /\ Ord(m, resEvents[i].obj, res[c])
          /\ \A j \in 1..Len(resEvents) : i < j /\ resEvents[j].cr = c =>
                Ord(m, resEvents[i].obj, resEvents[j].obj)

Applying == {"resolve", "verify", "update", "create", "patch"}

(* The objects that are going down. *)
Mode(c) == IF Dying(resSeen[c]) THEN "down" ELSE "up"

Chains ==
    /\ \A c \in Res : Chain(Mode(c), c)
    /\ resWorker.step \in Applying \cup {"finalize"} => Chain("up", resWorker.cr)
    /\ resWorker.step \in {"delRes", "unfinalize"} => Chain("down", resWorker.cr)

(* The versions of NetworkResources that exist. *)
ResVs == {res[c] : c \in Res} \cup {resSeen[c] : c \in Res} \cup {resEvents[i].obj : i \in 1..Len(resEvents)}

Versions == \A v \in ResVs : VersionOK(v)

(* The informer is exact up to the events in flight. *)
Synced ==
    /\ Len(resEvents) <= MaxLag
    /\ \A c \in Res : (\A i \in 1..Len(resEvents) : resEvents[i].cr # c) => resSeen[c] = res[c]
    /\ \A i \in 1..Len(resEvents) :
          (\A j \in 1..Len(resEvents) : j > i => resEvents[j].cr # resEvents[i].cr)
              => resEvents[i].obj = res[resEvents[i].cr]

(* What the reconcile in progress knows. *)
ResCopyOK ==
    LET w == resWorker
        o == res[w.cr]
    IN
    /\ w.step # "idle" => w.cr \in Res /\ w.obj \in Resource /\ VersionOK(w.obj)
    /\ Below(w.netID)
    /\ w.step = "finalize" => ~w.obj.finalizer /\ (~w.lagged => Blank(o))
    /\ w.step \in Applying =>
          /\ ~Blank(o)
          /\ w.obj.netID # None => o.netID # None /\ w.obj.netID <= o.netID
          /\ ~w.lagged => o.id = w.obj.id
    /\ w.step \in {"delRes", "unfinalize"} =>
          Dying(w.obj) /\ (~w.lagged /\ o # None => o.id \in {w.obj.id, None})
    /\ w.step = "unfinalize" /\ w.obj.id # None => w.obj.id \notin ress

(* What it knows of the network and of the resource it has in hand. *)
ResTargetOK ==
    LET w == resWorker
        o == res[w.cr]
    IN
    /\ w.step \in {"verify", "update", "create", "patch"} =>
          w.netID \in NetIDs /\ (o.netID # None => o.netID <= w.netID)
    /\ w.step \in {"verify", "update"} => w.target \in {w.obj.id, None}
    /\ w.step = "verify" => (w.target # None => w.obj.netID = w.netID)
    /\ w.step \in {"verify", "create", "patch"} /\ w.obj.id # None /\ w.target # w.obj.id
          => w.obj.id \notin ress \/ w.obj.netID # w.netID
    /\ w.step = "create" => w.target = None
    /\ w.step \in {"update", "patch"} =>
          w.target \in ResIDs /\ w.target < nextRes /\ home[w.target] = w.netID
    /\ w.step = "patch" => (w.netID = w.obj.netID \/ w.target # w.obj.id)

ResWorkerOK == ResCopyOK /\ ResTargetOK

IInv ==
    /\ NetType /\ ResKubeType /\ ResType
    /\ NetChain /\ NetFresh /\ NetWorkerOK /\ HomeOK /\ RessUsed
    /\ Versions /\ Chains /\ Synced /\ ResWorkerOK /\ ResourcesAccounted

-----------------------------------------------------------------------------
(* Ids are naturals, and None is none of the values beside it. *)
LEMMA Values ==
    /\ \A n \in NetIDs : n \in Nat /\ n # None
    /\ \A r \in ResIDs : r \in Nat /\ r # None
    /\ None \notin NetIDs /\ None \notin ResIDs /\ None \notin Network /\ None \notin Resource
  BY TreeValues DEF NetIDs, ResIDs

(* The id in a version of the Network. *)
LEMMA NetID == \A v \in NetVersion : v # None => v \in Network /\ v.id \in NetIDs \cup {None}
  BY DEF NetVersion, Network

(* The ids in a version of a NetworkResource. *)
LEMMA ResID ==
    \A v \in ResVersion : v # None => /\ v \in Resource /\ v.id \in ResIDs \cup {None}
                                     /\ v.netID \in NetIDs \cup {None}
                                     /\ v.deleting \in BOOLEAN /\ v.finalizer \in BOOLEAN
  BY DEF ResVersion, Resource

(* The versions of the Network have their type. *)
LEMMA NetVsType == ASSUME NetType PROVE NetVs \subseteq NetVersion /\ nextNet \in Nat
  <1>1. netEvents \in Seq(NetVersion) /\ net \in NetVersion /\ netSeen \in NetVersion
    BY DEF NetType
  <1> HIDE DEF NetVersion
  <1>2. \A i \in 1..Len(netEvents) : netEvents[i] \in NetVersion
    BY <1>1
  <1>3. nextNet \in Nat
    BY TreeBounds DEF NetType
  <1> QED
    BY <1>1, <1>2, <1>3 DEF NetVs

(* Fewer versions of the Network, or one more that has etcd's id or the    *)
(* newest one.                                                             *)
LEMMA NetVersions ==
    ASSUME NetType, NetChain, nextNet' = nextNet, NEW o \in NetVersion, NetVs' \subseteq NetVs \cup {o},
           o # None /\ o.id # None => \/ net # None /\ o.id = net.id
                                    \/ o.id + 1 = nextNet
    PROVE  /\ \A v \in NetVs' : v # None /\ v.id # None => v.id < nextNet
           /\ \A n \in NetIDs \cup {None} : Below(n) => Below(n)'
           /\ \A t : Unrecorded(t) /\ (o # None => o.id # t) => Unrecorded(t)'
  <1>1. net \in NetVs /\ nextNet \in Nat /\ NetVs \subseteq NetVersion
    BY NetVsType DEF NetVs
  <1>2. o # None /\ o.id # None => o.id < nextNet
    <2>1. CASE o # None /\ o.id # None /\ net # None /\ o.id = net.id
      BY <1>1, <2>1 DEF NetChain
    <2>2. CASE o # None /\ o.id # None /\ o.id + 1 = nextNet
      <3>1. o.id \in Nat
        BY <2>2, NetID, Values
      <3> QED
        BY <1>1, <2>2, <3>1
    <2> QED
      BY <2>1, <2>2
  <1>3. \A v \in NetVs' : v # None /\ v.id # None => v.id < nextNet
    BY <1>2 DEF NetChain
  <1>4. ASSUME NEW n \in NetIDs \cup {None}, Below(n) PROVE Below(n)'
    <2>1. CASE n = None
      BY <2>1 DEF Below
    <2>2. CASE n # None
      <3>1. n \in Nat /\ n < nextNet
        BY <1>4, <2>2, Values DEF Below
      <3>2. o # None /\ o.id # None => n <= o.id
        <4>1. CASE o # None /\ o.id # None /\ net # None /\ o.id = net.id
          BY <1>1, <1>4, <2>2, <4>1 DEF Below
        <4>2. CASE o # None /\ o.id # None /\ o.id + 1 = nextNet
          <5>1. o.id \in Nat
            BY <4>2, NetID, Values
          <5> QED
            BY <1>1, <3>1, <4>2, <5>1
        <4> QED
          BY <4>1, <4>2
      <3> QED
        BY <1>4, <2>2, <3>1, <3>2 DEF Below
    <2> QED
      BY <2>1, <2>2
  <1>5. \A t : Unrecorded(t) /\ (o # None => o.id # t) => Unrecorded(t)'
    BY DEF Unrecorded
  <1> QED
    BY <1>3, <1>4, <1>5

(* Every write of the Network keeps the order of its ids. *)
LEMMA StoreNetOK ==
    ASSUME NetType, NetChain, nextNet' = nextNet, NEW o \in NetVersion, StoreNet(o),
           o # None /\ o.id # None => \/ net # None /\ o.id = net.id
                                    \/ o.id + 1 = nextNet
    PROVE  /\ net' = o /\ netSeen' \in NetVersion /\ netEvents' \in Seq(NetVersion) /\ NetChain'
           /\ NetVs' \subseteq NetVs \cup {o}
  <1>1. /\ net' = o /\ netEvents \in Seq(NetVersion) /\ Len(netEvents) \in Nat
        /\ netSeen \in NetVersion /\ net \in NetVersion
    BY DEF StoreNet, NetType
  <1>2. \A v \in NetVs : NetLeq(v, net) => NetLeq(v, o)
    <2> SUFFICES ASSUME NEW v \in NetVs, NetLeq(v, net), v # None, o # None, v.id # None, o.id # None
                 PROVE  v.id <= o.id
      BY DEF NetLeq
    <2>1. v \in NetVersion /\ v.id < nextNet /\ nextNet \in Nat
      BY NetVsType DEF NetChain
    <2>2. v.id \in Nat /\ o.id \in Nat
      BY <2>1, NetID, Values
    <2> QED
      BY <2>1, <2>2 DEF NetLeq
  <1>3. netSeen \in NetVs /\ net \in NetVs /\ \A i \in 1..Len(netEvents) : netEvents[i] \in NetVs
    BY DEF NetVs
  <1>4. NetLeq(o, o)
    BY NetID, Values DEF NetLeq
  <1> HIDE DEF NetVersion
  <1>5. CASE o = net
    <2>1. UNCHANGED <<net, netSeen, netEvents>>
      BY <1>5 DEF StoreNet
    <2> QED
      BY <1>1, <2>1 DEF NetChain, NetVs
  <1>6. CASE o # net /\ MaxLag = 0 /\ netSeen' = o /\ netEvents' = netEvents
    <2>1. NetVs' \subseteq NetVs \cup {o}
      BY <1>1, <1>6 DEF NetVs
    <2>2. \A v \in NetVs' : v # None /\ v.id # None => v.id < nextNet
      BY <2>1, NetVersions
    <2>3. netEvents = <<>>
      BY <1>1, <1>6 DEF NetChain
    <2> QED
      BY <1>1, <1>4, <1>6, <2>1, <2>2, <2>3 DEF NetChain
  <1>7. CASE /\ o # net /\ Len(netEvents) < MaxLag
             /\ netEvents' = Append(netEvents, o) /\ netSeen' = netSeen
    <2>1. /\ netEvents' \in Seq(NetVersion) /\ Len(netEvents') = Len(netEvents) + 1
          /\ netEvents'[Len(netEvents) + 1] = o
          /\ \A i \in 1..Len(netEvents) : netEvents'[i] = netEvents[i]
      BY <1>1, <1>7
    <2>2. \A i \in 1..Len(netEvents') : i \in 1..Len(netEvents) \/ i = Len(netEvents) + 1
      BY <1>1, <2>1
    <2>3. NetVs' \subseteq NetVs \cup {o}
      BY <1>1, <1>7, <2>1, <2>2 DEF NetVs
    <2>4. \A v \in NetVs' : v # None /\ v.id # None => v.id < nextNet
      BY <2>3, NetVersions
    <2>5. NetLeq(netSeen, o) /\ \A i \in 1..Len(netEvents) : NetLeq(netEvents[i], o)
      BY <1>2, <1>3 DEF NetChain
    <2>6. ASSUME NEW i \in 1..Len(netEvents')
          PROVE  /\ NetLeq(netSeen, netEvents'[i]) /\ NetLeq(netEvents'[i], o)
                 /\ \A j \in 1..Len(netEvents') : i < j => NetLeq(netEvents'[i], netEvents'[j])
      <3>1. CASE i = Len(netEvents) + 1
        BY <1>1, <1>4, <2>1, <2>5, <3>1
      <3>2. CASE i \in 1..Len(netEvents)
        BY <2>1, <2>2, <2>5, <3>2 DEF NetChain
      <3> QED
        BY <2>2, <3>1, <3>2
    <2>7. Len(netEvents') <= MaxLag
      BY <1>1, <1>7, <2>1, TreeBounds
    <2> QED
      BY <1>1, <1>7, <2>1, <2>3, <2>4, <2>5, <2>6, <2>7 DEF NetChain, NetLeq
  <1> QED
    BY <1>5, <1>6, <1>7 DEF StoreNet

(* The Network's oldest event, or all of them, reach the informer. *)
LEMMA DeliverNetOK ==
    ASSUME NetType, NetChain, UNCHANGED <<net, nextNet>>,
           \/ netEvents # <<>> /\ netSeen' = Head(netEvents) /\ netEvents' = Tail(netEvents)
           \/ netSeen' = net /\ netEvents' = <<>>
    PROVE  /\ netSeen' \in NetVersion /\ netEvents' \in Seq(NetVersion) /\ NetChain'
           /\ NetVs' \subseteq NetVs
  <1>1. netEvents \in Seq(NetVersion) /\ net \in NetVersion /\ Len(netEvents) \in Nat
    BY DEF NetType
  <1>2. net \in NetVs /\ \A i \in 1..Len(netEvents) : netEvents[i] \in NetVs
    BY DEF NetVs
  <1> HIDE DEF NetVersion
  <1>3. CASE netEvents # <<>> /\ netSeen' = Head(netEvents) /\ netEvents' = Tail(netEvents)
    <2>1. /\ Len(netEvents) > 0 /\ netSeen' = netEvents[1] /\ netEvents' \in Seq(NetVersion)
          /\ Len(netEvents') = Len(netEvents) - 1
          /\ \A i \in 1..(Len(netEvents) - 1) : netEvents'[i] = netEvents[i + 1]
          /\ netEvents[1] \in NetVersion
      BY <1>1, <1>3
    <2>2. \A i \in 1..(Len(netEvents) - 1) : i + 1 \in 1..Len(netEvents) /\ 1 < i + 1
      BY <1>1
    <2>3. 1 \in 1..Len(netEvents) /\ Len(netEvents') <= MaxLag
      BY <1>1, <2>1, TreeBounds DEF NetChain
    <2>4. NetVs' \subseteq NetVs
      BY <1>2, <2>1, <2>2, <2>3 DEF NetVs
    <2>5. NetLeq(netEvents[1], net)
      BY <2>3 DEF NetChain
    <2>6. ASSUME NEW i \in 1..Len(netEvents')
          PROVE  /\ NetLeq(netEvents[1], netEvents'[i]) /\ NetLeq(netEvents'[i], net)
                 /\ \A j \in 1..Len(netEvents') : i < j => NetLeq(netEvents'[i], netEvents'[j])
      <3>1. i + 1 \in 1..Len(netEvents) /\ 1 < i + 1 /\ netEvents'[i] = netEvents[i + 1]
        BY <2>1, <2>2
      <3>2. ASSUME NEW j \in 1..Len(netEvents'), i < j PROVE NetLeq(netEvents'[i], netEvents'[j])
        <4>1. j + 1 \in 1..Len(netEvents) /\ i + 1 < j + 1 /\ netEvents'[j] = netEvents[j + 1]
          BY <2>1, <2>2, <3>2
        <4> QED
          BY <3>1, <4>1 DEF NetChain
      <3> QED
        BY <2>3, <3>1, <3>2 DEF NetChain
    <2> QED
      BY <2>1, <2>3, <2>4, <2>5, <2>6 DEF NetChain, NetLeq
  <1>4. CASE netSeen' = net /\ netEvents' = <<>>
    <2>1. NetVs' \subseteq NetVs
      BY <1>2, <1>4 DEF NetVs
    <2>2. NetLeq(net, net) /\ Len(netEvents') <= MaxLag
      BY <1>1, <1>4, NetID, Values, TreeBounds DEF NetLeq
    <2> QED
      BY <1>1, <1>4, <2>1, <2>2 DEF NetChain, NetLeq
  <1> QED
    BY <1>3, <1>4

-----------------------------------------------------------------------------
(* The events in flight have their type. *)
LEMMA EventType ==
    ASSUME ResKubeType
    PROVE  /\ Len(resEvents) \in Nat
           /\ \A i \in 1..Len(resEvents) :
                 resEvents[i] \in Event /\ resEvents[i].cr \in Res /\ resEvents[i].obj \in ResVersion
  <1>1. resEvents \in Seq(Event)
    BY DEF ResKubeType
  <1>2. Len(resEvents) \in Nat /\ \A i \in 1..Len(resEvents) : resEvents[i] \in Event
    <2> HIDE DEF Event
    <2> QED
      BY <1>1
  <1>3. \A e \in Event : e.cr \in Res /\ e.obj \in ResVersion
    BY DEF Event
  <1> QED
    BY <1>2, <1>3

(* The versions of NetworkResources have their type. *)
LEMMA ResVsType == ASSUME ResKubeType PROVE ResVs \subseteq ResVersion
  <1>1. \A c \in Res : res[c] \in ResVersion /\ resSeen[c] \in ResVersion
    BY DEF ResKubeType
  <1> QED
    BY <1>1, EventType DEF ResVs

(* Next-state forms of the order, so that it need not be expanded again. *)
LEMMA PrimedOrd ==
    \A m, c, i, j :
        /\ Ord(m, resSeen[c], res[c])' <=> Ord(m, resSeen'[c], res'[c])
        /\ Ord(m, resSeen[c], resEvents[i].obj)' <=> Ord(m, resSeen'[c], resEvents'[i].obj)
        /\ Ord(m, resEvents[i].obj, res[c])' <=> Ord(m, resEvents'[i].obj, res'[c])
        /\ Ord(m, resEvents[i].obj, resEvents[j].obj)' <=> Ord(m, resEvents'[i].obj, resEvents'[j].obj)
  BY DEF Ord, Mono, Up, Down, Blank, Dying

(* The order of all versions of an object, in the next state. *)
LEMMA PrimedChain ==
    \A m, c :
        Chain(m, c)' <=> /\ Ord(m, resSeen'[c], res'[c])
                         /\ \A i \in 1..Len(resEvents') : resEvents'[i].cr = c =>
                               /\ Ord(m, resSeen'[c], resEvents'[i].obj) /\ Ord(m, resEvents'[i].obj, res'[c])
                               /\ \A j \in 1..Len(resEvents') : i < j /\ resEvents'[j].cr = c =>
                                     Ord(m, resEvents'[i].obj, resEvents'[j].obj)
  BY PrimedOrd DEF Chain

(* The orders of versions depend on the versions only. *)
LEMMA ChainSame ==
    ASSUME UNCHANGED <<res, resSeen, resEvents>>
    PROVE  (\A d \in Res : Mode(d)' = Mode(d)) /\ \A m, d : Chain(m, d)' <=> Chain(m, d)
  <1>1. \A d \in Res : Mode(d)' = Mode(d)
    BY DEF Mode, Dying
  <1>2. \A m, d : Chain(m, d)' <=> Chain(m, d)
    BY PrimedChain DEF Chain
  <1> QED
    BY <1>1, <1>2

(* One more event. *)
LEMMA AppendEvent ==
    ASSUME ResKubeType, NEW e \in Event, resEvents' = Append(resEvents, e)
    PROVE  /\ resEvents' \in Seq(Event) /\ Len(resEvents') = Len(resEvents) + 1
           /\ resEvents'[Len(resEvents) + 1] = e
           /\ \A i \in 1..Len(resEvents) : resEvents'[i] = resEvents[i]
           /\ \A i \in 1..Len(resEvents') : i \in 1..Len(resEvents) \/ i = Len(resEvents) + 1
  <1>1. resEvents \in Seq(Event)
    BY DEF ResKubeType
  <1> HIDE DEF Event
  <1> QED
    BY <1>1

(* The oldest event is taken. *)
LEMMA TailEvent ==
    ASSUME ResKubeType, resEvents # <<>>, resEvents' = Tail(resEvents)
    PROVE  /\ resEvents' \in Seq(Event) /\ Len(resEvents') = Len(resEvents) - 1
           /\ Len(resEvents) > 0 /\ Head(resEvents) = resEvents[1] /\ 1 \in 1..Len(resEvents)
           /\ \A i \in 1..Len(resEvents') : /\ i + 1 \in 1..Len(resEvents) /\ 1 < i + 1
                                            /\ resEvents'[i] = resEvents[i + 1]
  <1>1. resEvents \in Seq(Event)
    BY DEF ResKubeType
  <1> HIDE DEF Event
  <1> QED
    BY <1>1

(* The three forms of a write of a NetworkResource. *)
LEMMA StoreForms ==
    ASSUME ResKubeType, Synced, NEW c \in Res, NEW o \in ResVersion, StoreRes(c, o)
    PROVE  /\ res' = [res EXCEPT ![c] = o] /\ res'[c] = o
           /\ \A d \in Res : d # c => res'[d] = res[d]
           /\ [cr |-> c, obj |-> o] \in Event
           /\ \/ o = res[c] /\ UNCHANGED <<res, resSeen, resEvents>>
              \/ /\ MaxLag = 0 /\ resEvents = <<>> /\ resEvents' = <<>> /\ Len(resEvents) = 0
                 /\ resSeen' = [resSeen EXCEPT ![c] = o]
              \/ /\ resEvents' = Append(resEvents, [cr |-> c, obj |-> o]) /\ resSeen' = resSeen
                 /\ Len(resEvents) < MaxLag
  <1>1. res \in [Res -> ResVersion] /\ resEvents \in Seq(Event)
    BY DEF ResKubeType
  <1>2. res' = [res EXCEPT ![c] = o]
    BY DEF StoreRes
  <1>3. res'[c] = o /\ \A d \in Res : d # c => res'[d] = res[d]
    BY <1>1, <1>2
  <1>4. [cr |-> c, obj |-> o] \in Event
    BY DEF Event
  <1>5. o = res[c] => res' = res
    BY <1>1, <1>2
  <1>6. MaxLag = 0 => resEvents = <<>> /\ Len(resEvents) = 0
    <2> HIDE DEF Event
    <2> QED
      BY <1>1 DEF Synced
  <1> QED
    BY <1>2, <1>3, <1>4, <1>5, <1>6 DEF StoreRes

(* A write keeps the types, adds one version, and keeps the informer exact *)
(* up to the events in flight.                                             *)
LEMMA StoreResOK ==
    ASSUME ResKubeType, Synced, NEW c \in Res, NEW o \in ResVersion, StoreRes(c, o)
    PROVE  /\ ResKubeType' /\ ResVs' \subseteq ResVs \cup {o} /\ Synced'
           /\ \A d \in Res : d # c => resSeen'[d] = resSeen[d]
           /\ resSeen'[c] = resSeen[c] \/ (resSeen'[c] = o /\ resEvents' = <<>>)
  <1>1. /\ res' = [res EXCEPT ![c] = o] /\ res'[c] = o
        /\ \A d \in Res : d # c => res'[d] = res[d]
        /\ [cr |-> c, obj |-> o] \in Event
    BY StoreForms
  <1>2. res \in [Res -> ResVersion] /\ resSeen \in [Res -> ResVersion]
    BY DEF ResKubeType
  <1>3. res' \in [Res -> ResVersion]
    BY <1>1, <1>2
  <1>4. {res'[d] : d \in Res} \subseteq {res[d] : d \in Res} \cup {o}
    BY <1>1
  <1>5. CASE o = res[c] /\ UNCHANGED <<res, resSeen, resEvents>>
    <2>1. ResKubeType' /\ Synced'
      BY <1>5 DEF ResKubeType, Synced
    <2>2. ResVs' = ResVs
      BY <1>5 DEF ResVs
    <2> QED
      BY <1>5, <2>1, <2>2
  <1>6. CASE /\ MaxLag = 0 /\ resEvents = <<>> /\ resEvents' = <<>> /\ Len(resEvents) = 0
             /\ resSeen' = [resSeen EXCEPT ![c] = o]
    <2>1. resSeen' \in [Res -> ResVersion] /\ resSeen'[c] = o /\ \A d \in Res : d # c => resSeen'[d] = resSeen[d]
      BY <1>2, <1>6
    <2>2. ResKubeType' /\ ResVs' \subseteq ResVs \cup {o}
      BY <1>3, <1>4, <1>6, <2>1 DEF ResKubeType, ResVs
    <2>3. Synced'
      BY <1>1, <1>6, <2>1 DEF Synced
    <2> QED
      BY <1>6, <2>1, <2>2, <2>3
  <1>7. CASE /\ resEvents' = Append(resEvents, [cr |-> c, obj |-> o]) /\ resSeen' = resSeen
             /\ Len(resEvents) < MaxLag
    <2>1. /\ resEvents' \in Seq(Event) /\ Len(resEvents') = Len(resEvents) + 1
          /\ resEvents'[Len(resEvents) + 1] = [cr |-> c, obj |-> o]
          /\ \A i \in 1..Len(resEvents) : resEvents'[i] = resEvents[i]
          /\ \A i \in 1..Len(resEvents') : i \in 1..Len(resEvents) \/ i = Len(resEvents) + 1
          /\ Len(resEvents) \in Nat
      BY <1>1, <1>7, AppendEvent, EventType
    <2>2. ResKubeType'
      BY <1>2, <1>3, <1>7, <2>1 DEF ResKubeType
    <2>3. ResVs' \subseteq ResVs \cup {o}
      <3>1. \A i \in 1..Len(resEvents') : resEvents'[i].obj \in {resEvents[k].obj : k \in 1..Len(resEvents)} \cup {o}
        BY <2>1
      <3> QED
        BY <1>4, <1>7, <3>1 DEF ResVs
    <2>4. Len(resEvents') <= MaxLag /\ Len(resEvents) + 1 \in 1..Len(resEvents')
      BY <1>7, <2>1, TreeBounds
    <2>5. ASSUME NEW d \in Res, \A i \in 1..Len(resEvents') : resEvents'[i].cr # d
          PROVE  resSeen'[d] = res'[d]
      <3>1. d # c
        BY <2>1, <2>4, <2>5
      <3>2. \A i \in 1..Len(resEvents) : resEvents[i].cr # d
        BY <2>1, <2>5
      <3> QED
        BY <1>1, <1>7, <3>1, <3>2 DEF Synced
    <2>6. ASSUME NEW i \in 1..Len(resEvents'),
                 \A j \in 1..Len(resEvents') : j > i => resEvents'[j].cr # resEvents'[i].cr
          PROVE  resEvents'[i].obj = res'[resEvents'[i].cr]
      <3>1. CASE i = Len(resEvents) + 1
        BY <1>1, <2>1, <3>1
      <3>2. CASE i \in 1..Len(resEvents)
        <4>1. resEvents'[i] = resEvents[i] /\ resEvents[i].cr \in Res /\ resEvents[i].cr # c
          BY <2>1, <2>4, <2>6, <3>2, EventType
        <4>2. \A j \in 1..Len(resEvents) : j > i => resEvents[j].cr # resEvents[i].cr
          BY <2>1, <2>6, <4>1
        <4> QED
          BY <1>1, <3>2, <4>1, <4>2 DEF Synced
      <3> QED
        BY <2>1, <3>1, <3>2
    <2>7. Synced'
      BY <2>4, <2>5, <2>6 DEF Synced
    <2> QED
      BY <1>7, <2>2, <2>3, <2>7
  <1> QED
    BY <1>5, <1>6, <1>7, StoreForms

(* A version that comes after all those after which the last one came. *)
LEMMA StoreChain ==
    ASSUME ResKubeType, Synced, NEW c \in Res, NEW o \in ResVersion, StoreRes(c, o),
           NEW m, Chain(m, c), Ord(m, o, o), \A a \in ResVs : Ord(m, a, res[c]) => Ord(m, a, o)
    PROVE  Chain(m, c)'
  <1>1. res'[c] = o /\ [cr |-> c, obj |-> o] \in Event
    BY StoreForms
  <1>2. resSeen[c] \in ResVs /\ Ord(m, resSeen[c], o)
    BY DEF ResVs, Chain
  <1>3. \A i \in 1..Len(resEvents) : resEvents[i].cr = c => Ord(m, resEvents[i].obj, o)
    BY DEF ResVs, Chain
  <1>4. Chain(m, c)' <=> /\ Ord(m, resSeen'[c], o)
                         /\ \A i \in 1..Len(resEvents') : resEvents'[i].cr = c =>
                               /\ Ord(m, resSeen'[c], resEvents'[i].obj) /\ Ord(m, resEvents'[i].obj, o)
                               /\ \A j \in 1..Len(resEvents') : i < j /\ resEvents'[j].cr = c =>
                                     Ord(m, resEvents'[i].obj, resEvents'[j].obj)
    BY <1>1, PrimedChain
  <1>5. CASE o = res[c] /\ UNCHANGED <<res, resSeen, resEvents>>
    BY <1>4, <1>5 DEF Chain
  <1>6. CASE /\ MaxLag = 0 /\ resEvents = <<>> /\ resEvents' = <<>> /\ Len(resEvents) = 0
             /\ resSeen' = [resSeen EXCEPT ![c] = o]
    <2>1. resSeen'[c] = o
      BY <1>6 DEF ResKubeType
    <2> QED
      BY <1>4, <1>6, <2>1
  <1>7. CASE /\ resEvents' = Append(resEvents, [cr |-> c, obj |-> o]) /\ resSeen' = resSeen
             /\ Len(resEvents) < MaxLag
    <2>1. /\ Len(resEvents') = Len(resEvents) + 1
          /\ resEvents'[Len(resEvents) + 1] = [cr |-> c, obj |-> o]
          /\ \A i \in 1..Len(resEvents) : resEvents'[i] = resEvents[i]
          /\ \A i \in 1..Len(resEvents') : i \in 1..Len(resEvents) \/ i = Len(resEvents) + 1
          /\ Len(resEvents) \in Nat
      BY <1>1, <1>7, AppendEvent, EventType
    <2>2. ASSUME NEW i \in 1..Len(resEvents'), resEvents'[i].cr = c
          PROVE  /\ Ord(m, resSeen[c], resEvents'[i].obj) /\ Ord(m, resEvents'[i].obj, o)
                 /\ \A j \in 1..Len(resEvents') : i < j /\ resEvents'[j].cr = c =>
                       Ord(m, resEvents'[i].obj, resEvents'[j].obj)
      <3>1. CASE i = Len(resEvents) + 1
        <4>1. resEvents'[i].obj = o
          BY <2>1, <3>1
        <4>2. ASSUME NEW j \in 1..Len(resEvents'), i < j PROVE FALSE
          BY <2>1, <3>1, <4>2
        <4> QED
          BY <1>2, <4>1, <4>2
      <3>2. CASE i \in 1..Len(resEvents)
        <4>1. resEvents'[i] = resEvents[i] /\ resEvents[i].cr = c
          BY <2>1, <2>2, <3>2
        <4>2. ASSUME NEW j \in 1..Len(resEvents'), i < j, resEvents'[j].cr = c
              PROVE  Ord(m, resEvents'[i].obj, resEvents'[j].obj)
          <5>1. CASE j = Len(resEvents) + 1
            BY <1>3, <2>1, <3>2, <4>1, <5>1
          <5>2. CASE j \in 1..Len(resEvents)
            BY <2>1, <3>2, <4>1, <4>2, <5>2 DEF Chain
          <5> QED
            BY <2>1, <5>1, <5>2
        <4> QED
          BY <1>3, <3>2, <4>1, <4>2 DEF Chain
      <3> QED
        BY <2>1, <3>1, <3>2
    <2> QED
      BY <1>2, <1>4, <1>7, <2>2
  <1> QED
    BY <1>5, <1>6, <1>7, StoreForms

(* The order of another object's versions. *)
LEMMA OtherChain ==
    ASSUME ResKubeType, Synced, NEW c \in Res, NEW o \in ResVersion, StoreRes(c, o),
           NEW d \in Res, d # c, NEW m, Chain(m, d)
    PROVE  Chain(m, d)'
  <1>1. res'[d] = res[d] /\ resSeen'[d] = resSeen[d] /\ [cr |-> c, obj |-> o] \in Event
    BY StoreForms, StoreResOK
  <1>2. Chain(m, d)' <=> /\ Ord(m, resSeen[d], res[d])
                         /\ \A i \in 1..Len(resEvents') : resEvents'[i].cr = d =>
                               /\ Ord(m, resSeen[d], resEvents'[i].obj) /\ Ord(m, resEvents'[i].obj, res[d])
                               /\ \A j \in 1..Len(resEvents') : i < j /\ resEvents'[j].cr = d =>
                                     Ord(m, resEvents'[i].obj, resEvents'[j].obj)
    BY <1>1, PrimedChain
  <1>3. CASE resEvents' = resEvents
    BY <1>2, <1>3 DEF Chain
  <1>4. CASE resEvents' = Append(resEvents, [cr |-> c, obj |-> o])
    <2>1. /\ resEvents'[Len(resEvents) + 1] = [cr |-> c, obj |-> o]
          /\ \A i \in 1..Len(resEvents) : resEvents'[i] = resEvents[i]
          /\ \A i \in 1..Len(resEvents') : i \in 1..Len(resEvents) \/ i = Len(resEvents) + 1
      BY <1>1, <1>4, AppendEvent
    <2>2. \A i \in 1..Len(resEvents') : resEvents'[i].cr = d =>
              i \in 1..Len(resEvents) /\ resEvents'[i] = resEvents[i]
      BY <2>1
    <2> QED
      BY <1>2, <2>2 DEF Chain
  <1> QED
    BY <1>3, <1>4, StoreForms

(* An object of which the informer shows that it is being deleted, with    *)
(* nothing but that ahead, and one that it shows as removed.               *)
LEMMA Switch ==
    ASSUME NEW c \in Res
    PROVE  /\ Chain("up", c)' /\ Dying(resSeen'[c]) => Chain("down", c)'
           /\ Chain("down", c)' /\ ~Dying(resSeen'[c]) => Chain("up", c)'
  <1>1. ASSUME NEW m PROVE
           Chain(m, c)' <=> /\ Ord(m, resSeen'[c], res'[c])
                            /\ \A i \in 1..Len(resEvents') : resEvents'[i].cr = c =>
                                  /\ Ord(m, resSeen'[c], resEvents'[i].obj) /\ Ord(m, resEvents'[i].obj, res'[c])
                                  /\ \A j \in 1..Len(resEvents') : i < j /\ resEvents'[j].cr = c =>
                                        Ord(m, resEvents'[i].obj, resEvents'[j].obj)
    BY PrimedChain
  <1>2. \A a, b : Ord("up", a, b) /\ Dying(a) => Dying(b) /\ Ord("down", a, b)
    BY DEF Ord, Up, Down
  <1>3. \A a, b : Ord("down", a, b) /\ ~Dying(a) => ~Dying(b) /\ Ord("up", a, b)
    BY DEF Ord, Up, Down, Blank, Dying
  <1> QED
    BY <1>1, <1>2, <1>3

(* The order after itself. *)
LEMMA OrdSame ==
    ASSUME NEW o \in ResVersion
    PROVE  /\ Ord("up", o, o) /\ (Blank(o) \/ Dying(o) => Ord("down", o, o))
           /\ Ord(IF Dying(o) THEN "down" ELSE "up", o, o)
  <1>1. Mono(o, o)
    BY ResID, Values DEF Mono
  <1> QED
    BY <1>1 DEF Ord, Up, Down

(* What a write has to show for the order of all versions to be kept. *)
LEMMA StoreModes ==
    ASSUME ResKubeType, Synced, \A d \in Res : Chain(Mode(d), d),
           NEW c \in Res, NEW o \in ResVersion, StoreRes(c, o),
           \A a \in ResVs : Ord(Mode(c), a, res[c]) => Ord(Mode(c), a, o)
    PROVE  \A d \in Res : Chain(Mode(d), d)'
  <1>1. ASSUME NEW d \in Res, d # c PROVE Chain(Mode(d), d)'
    <2>1. resSeen'[d] = resSeen[d]
      BY <1>1, StoreResOK
    <2>2. PICK m \in {"up", "down"} : m = Mode(d) /\ m = Mode(d)'
      BY <2>1 DEF Mode, Dying
    <2>3. Chain(m, d)'
      BY <1>1, <2>2, OtherChain, Zenon
    <2> QED
      BY <2>2, <2>3
  <1>2. Chain(Mode(c), c)'
    <2>1. PICK m \in {"up", "down"} : m = Mode(c)
      BY DEF Mode
    <2>2. resSeen[c] \in ResVs /\ Ord(m, resSeen[c], o)
      BY <2>1 DEF ResVs, Chain
    <2>3. Ord(m, o, o)
      BY <2>2, OrdSame DEF Ord, Down
    <2>4. Chain(m, c)'
      BY <2>1, <2>3, StoreChain
    <2>5. CASE resSeen'[c] = resSeen[c]
      <3>1. Mode(c)' = m
        BY <2>1, <2>5 DEF Mode, Dying
      <3> QED
        BY <2>4, <3>1
    <2>6. CASE resSeen'[c] = o /\ resEvents' = <<>>
      <3>1. res'[c] = o /\ Len(resEvents') = 0
        BY <2>6, StoreForms, Zenon
      <3>2. PICK k \in {"up", "down"} : k = (IF Dying(o) THEN "down" ELSE "up")
        OBVIOUS
      <3>3. Mode(c)' = k
        BY <2>6, <3>2 DEF Mode, Dying
      <3>4. Ord(k, o, o)
        BY <3>2, OrdSame
      <3>5. Chain(k, c)' <=> /\ Ord(k, o, o)
                             /\ \A i \in 1..Len(resEvents') : resEvents'[i].cr = c =>
                                   /\ Ord(k, o, resEvents'[i].obj) /\ Ord(k, resEvents'[i].obj, o)
                                   /\ \A j \in 1..Len(resEvents') : i < j /\ resEvents'[j].cr = c =>
                                         Ord(k, resEvents'[i].obj, resEvents'[j].obj)
        BY <2>6, <3>1, PrimedChain
      <3>6. Chain(k, c)'
        BY <3>1, <3>4, <3>5
      <3> QED
        BY <3>3, <3>6
    <2> QED
      BY <2>5, <2>6, StoreResOK
  <1> QED
    BY <1>1, <1>2

(* The oldest event reaches the informer. *)
LEMMA DeliverResOK ==
    ASSUME ResKubeType, Synced, Chains, resEvents # <<>>, res' = res,
           resSeen' = [resSeen EXCEPT ![Head(resEvents).cr] = Head(resEvents).obj],
           resEvents' = Tail(resEvents), resWorker' = resWorker,
           resWorker.step # "idle" => resWorker.cr \in Res
    PROVE  ResKubeType' /\ Synced' /\ ResVs' \subseteq ResVs /\ Chains'
  <1> DEFINE e == resEvents[1]
  <1>1. /\ resEvents' \in Seq(Event) /\ Len(resEvents') = Len(resEvents) - 1
        /\ Len(resEvents) > 0 /\ Head(resEvents) = e /\ 1 \in 1..Len(resEvents)
        /\ \A i \in 1..Len(resEvents') : /\ i + 1 \in 1..Len(resEvents) /\ 1 < i + 1
                                         /\ resEvents'[i] = resEvents[i + 1]
    BY TailEvent
  <1>2. e.cr \in Res /\ e.obj \in ResVersion /\ Len(resEvents) \in Nat
    BY <1>1, EventType
  <1>3. /\ resSeen' \in [Res -> ResVersion] /\ resSeen'[e.cr] = e.obj
        /\ \A d \in Res : d # e.cr => resSeen'[d] = resSeen[d]
    BY <1>1, <1>2 DEF ResKubeType
  <1>4. ResKubeType'
    BY <1>1, <1>3 DEF ResKubeType
  <1>5. ResVs' \subseteq ResVs
    BY <1>1, <1>2, <1>3 DEF ResVs
  <1>6. Synced'
    <2>1. Len(resEvents') <= MaxLag
      BY <1>1, <1>2, TreeBounds DEF Synced
    <2>2. ASSUME NEW i \in 1..Len(resEvents), i > 1 PROVE i - 1 \in 1..Len(resEvents') /\ (i - 1) + 1 = i
      BY <1>1, <1>2, <2>2
    <2>3. ASSUME NEW d \in Res, \A i \in 1..Len(resEvents') : resEvents'[i].cr # d
          PROVE  resSeen'[d] = res[d]
      <3>1. ASSUME NEW i \in 1..Len(resEvents), i > 1 PROVE resEvents[i].cr # d
        BY <1>1, <2>2, <2>3, <3>1
      <3>2. CASE e.cr = d
        BY <1>1, <1>3, <3>1, <3>2 DEF Synced
      <3>3. CASE e.cr # d
        <4>1. \A i \in 1..Len(resEvents) : resEvents[i].cr # d
          BY <1>2, <3>1, <3>3
        <4> QED
          BY <1>3, <3>3, <4>1 DEF Synced
      <3> QED
        BY <3>2, <3>3
    <2>4. ASSUME NEW i \in 1..Len(resEvents'),
                 \A j \in 1..Len(resEvents') : j > i => resEvents'[j].cr # resEvents'[i].cr
          PROVE  resEvents'[i].obj = res[resEvents'[i].cr]
      <3>1. i + 1 \in 1..Len(resEvents) /\ resEvents'[i] = resEvents[i + 1]
        BY <1>1
      <3>2. ASSUME NEW j \in 1..Len(resEvents), j > i + 1 PROVE resEvents[j].cr # resEvents[i + 1].cr
        <4>1. j > 1 /\ j - 1 > i
          BY <1>2, <3>2
        <4>2. j - 1 \in 1..Len(resEvents') /\ (j - 1) + 1 = j
          BY <2>2, <4>1
        <4>3. resEvents'[j - 1] = resEvents[j]
          BY <1>1, <4>2
        <4> QED
          BY <2>4, <3>1, <4>1, <4>2, <4>3, Zenon
      <3> QED
        BY <3>1, <3>2 DEF Synced
    <2> QED
      BY <2>1, <2>3, <2>4 DEF Synced
  <1>7. ASSUME NEW d \in Res, NEW m, Chain(m, d) PROVE Chain(m, d)'
    <2>1. Chain(m, d)' <=> /\ Ord(m, resSeen'[d], res[d])
                           /\ \A i \in 1..Len(resEvents') : resEvents'[i].cr = d =>
                                 /\ Ord(m, resSeen'[d], resEvents'[i].obj) /\ Ord(m, resEvents'[i].obj, res[d])
                                 /\ \A j \in 1..Len(resEvents') : i < j /\ resEvents'[j].cr = d =>
                                       Ord(m, resEvents'[i].obj, resEvents'[j].obj)
      BY PrimedChain
    <2>2. Ord(m, resSeen'[d], res[d])
      BY <1>1, <1>3, <1>7 DEF Chain
    <2>3. ASSUME NEW i \in 1..Len(resEvents'), resEvents'[i].cr = d
          PROVE  /\ Ord(m, resSeen'[d], resEvents'[i].obj) /\ Ord(m, resEvents'[i].obj, res[d])
                 /\ \A j \in 1..Len(resEvents') : i < j /\ resEvents'[j].cr = d =>
                       Ord(m, resEvents'[i].obj, resEvents'[j].obj)
      <3>1. i + 1 \in 1..Len(resEvents) /\ 1 < i + 1 /\ resEvents'[i] = resEvents[i + 1]
        BY <1>1
      <3>2. Ord(m, resSeen'[d], resEvents'[i].obj) /\ Ord(m, resEvents'[i].obj, res[d])
        BY <1>1, <1>3, <1>7, <2>3, <3>1 DEF Chain
      <3>3. ASSUME NEW j \in 1..Len(resEvents'), i < j, resEvents'[j].cr = d
            PROVE  Ord(m, resEvents'[i].obj, resEvents'[j].obj)
        <4>1. j + 1 \in 1..Len(resEvents) /\ i + 1 < j + 1 /\ resEvents'[j] = resEvents[j + 1]
          BY <1>1, <3>3
        <4> QED
          BY <1>7, <2>3, <3>1, <3>3, <4>1 DEF Chain
      <3> QED
        BY <3>2, <3>3
    <2> QED
      BY <2>1, <2>2, <2>3
  <1>8. ASSUME NEW d \in Res PROVE Chain(Mode(d), d)'
    <2>1. PICK m \in {"up", "down"} : m = Mode(d)
      BY DEF Mode
    <2>2. Chain(m, d)'
      BY <1>7, <2>1 DEF Chains
    <2>3. CASE Dying(resSeen'[d])
      <3>1. Mode(d)' = "down"
        BY <2>3 DEF Mode, Dying
      <3>2. Chain("down", d)'
        BY <2>2, <2>3, Switch
      <3> QED
        BY <3>1, <3>2
    <2>4. CASE ~Dying(resSeen'[d])
      <3>1. Mode(d)' = "up"
        BY <2>4 DEF Mode, Dying
      <3>2. Chain("up", d)'
        BY <2>2, <2>4, Switch
      <3> QED
        BY <3>1, <3>2
    <2> QED
      BY <2>3, <2>4
  <1>9. resWorker.step \in Applying \cup {"finalize"} => Chain("up", resWorker.cr)'
    <2> SUFFICES ASSUME resWorker.step \in Applying \cup {"finalize"} PROVE Chain("up", resWorker.cr)'
      OBVIOUS
    <2>1. PICK d \in Res : d = resWorker.cr
      BY DEF Applying
    <2>2. Chain("up", d)'
      BY <1>7, <2>1 DEF Chains
    <2> QED
      BY <2>1, <2>2
  <1>10. resWorker.step \in {"delRes", "unfinalize"} => Chain("down", resWorker.cr)'
    <2> SUFFICES ASSUME resWorker.step \in {"delRes", "unfinalize"} PROVE Chain("down", resWorker.cr)'
      OBVIOUS
    <2>1. PICK d \in Res : d = resWorker.cr
      OBVIOUS
    <2>2. Chain("down", d)'
      BY <1>7, <2>1 DEF Chains
    <2> QED
      BY <2>1, <2>2
  <1>11. Chains'
    BY <1>8, <1>9, <1>10 DEF Chains
  <1> QED
    BY <1>4, <1>5, <1>6, <1>11

-----------------------------------------------------------------------------
(* What a version is known to satisfy survives new ids. *)
LEMMA VersionKept ==
    ASSUME \A n \in NetIDs \cup {None} : Below(n) => Below(n)',
           nextRes \in Nat, nextRes' \in Nat, nextRes <= nextRes',
           \A r \in ResIDs : r < nextRes => home'[r] = home[r],
           NEW v \in ResVersion, VersionOK(v)
    PROVE  VersionOK(v)'
  <1>1. v # None => /\ v.id \in ResIDs \cup {None} /\ v.netID \in NetIDs \cup {None}
    BY ResID
  <1>2. v # None /\ v.id # None => v.id \in Nat
    BY <1>1, Values
  <1>3. v # None => Below(v.netID)'
    BY <1>1 DEF VersionOK
  <1>4. v # None /\ v.id # None => v.id < nextRes' /\ home'[v.id] = v.netID
    BY <1>1, <1>2 DEF VersionOK
  <1>5. VersionOK(v)' <=> (v # None =>
           /\ v.id # None => v.id < nextRes' /\ v.netID # None /\ home'[v.id] = v.netID
           /\ ~v.finalizer => v.id = None /\ v.netID = None /\ ~v.deleting
           /\ Below(v.netID)')
    BY DEF VersionOK
  <1> QED
    BY <1>3, <1>4, <1>5 DEF VersionOK

(* What the reconcile knows is kept while its object and the ids stay. *)
LEMMA WorkerSame ==
    ASSUME ResWorkerOK, UNCHANGED <<res, resWorker, home, nextRes>>, ress' \subseteq ress,
           resWorker.step # "idle" => VersionOK(resWorker.obj)', Below(resWorker.netID)'
    PROVE  ResWorkerOK'
  <1>1. /\ Blank(res[resWorker.cr])' <=> Blank(res[resWorker.cr])
        /\ Dying(resWorker.obj)' <=> Dying(resWorker.obj)
    BY DEF Blank, Dying
  <1>2. ResCopyOK'
    BY <1>1 DEF ResWorkerOK, ResCopyOK
  <1>3. ResTargetOK'
    BY DEF ResWorkerOK, ResTargetOK
  <1> QED
    BY <1>2, <1>3 DEF ResWorkerOK

(* A step that leaves the NetworkResources, their reconcile and the        *)
(* counter of their ids alone.                                             *)
LEMMA NetSide ==
    ASSUME IInv, UNCHANGED <<res, resSeen, resEvents, resWorker, home, nextRes>>, ress' \subseteq ress,
           \A n \in NetIDs \cup {None} : Below(n) => Below(n)',
           nextNet' \in Nat, nextNet <= nextNet'
    PROVE  /\ ResKubeType' /\ ResType' /\ HomeOK' /\ RessUsed' /\ Versions' /\ Chains' /\ Synced'
           /\ ResWorkerOK'
  <1>1. ResKubeType' /\ ResType'
    BY DEF IInv, ResKubeType, ResType
  <1>2. RessUsed'
    BY DEF IInv, RessUsed
  <1>3. HomeOK'
    <2>1. nextNet \in Nat /\ \A n \in NetIDs : n \in Nat
      BY NetVsType, Values DEF IInv
    <2> QED
      BY <2>1 DEF IInv, HomeOK
  <1>4. nextRes \in Nat /\ nextRes' \in Nat
    BY TreeBounds DEF IInv, ResType
  <1>5. ASSUME NEW v \in ResVersion, VersionOK(v) PROVE VersionOK(v)'
    BY <1>4, <1>5, VersionKept
  <1>6. ResVs' = ResVs /\ ResVs \subseteq ResVersion
    BY ResVsType DEF ResVs, IInv
  <1>7. Versions'
    BY <1>5, <1>6 DEF Versions, IInv
  <1>8. Synced'
    BY DEF IInv, Synced
  <1>9. Chains'
    BY ChainSame DEF Chains, IInv
  <1>10. ResWorkerOK'
    <2>1. resWorker \in ResWorkers /\ ResWorkerOK
      BY DEF IInv, ResType
    <2>2. Below(resWorker.netID)'
      BY <2>1, Zenon DEF ResWorkerOK, ResCopyOK, ResTargetOK, ResWorkers
    <2>3. resWorker.step # "idle" => VersionOK(resWorker.obj)'
      <3> SUFFICES ASSUME resWorker.step # "idle" PROVE VersionOK(resWorker.obj)'
        OBVIOUS
      <3>1. PICK v \in ResVersion : v = resWorker.obj /\ VersionOK(v)
        BY <2>1 DEF ResWorkerOK, ResCopyOK, ResTargetOK, ResWorkers
      <3>2. VersionOK(v)'
        BY <1>5, <3>1
      <3> QED
        BY <3>1, <3>2
    <2> QED
      BY <2>1, <2>2, <2>3, WorkerSame
  <1> QED
    BY <1>1, <1>2, <1>3, <1>7, <1>8, <1>9, <1>10

(* Such a step loses no resource unless etcd's Network gets the id of one. *)
LEMMA NetAccounted ==
    ASSUME IInv, UNCHANGED <<res, resWorker, home>>, ress' \subseteq ress, excused \subseteq excused',
           net' # None => \/ net # None /\ net'.id = net.id
                          \/ \A r \in ress : home[r] # net'.id
    PROVE  ResourcesAccounted'
  BY DEF IInv, ResourcesAccounted

(* Existing resources have a network. *)
LEMMA Homes == ASSUME IInv PROVE \A r \in ress : r \in ResIDs /\ home[r] \in NetIDs /\ home[r] # None
  BY Values DEF IInv, RessUsed, HomeOK, ResType

(* A write of the Network that records no new id. *)
LEMMA NetStoreInv ==
    ASSUME IInv, NEW o \in NetVersion, StoreNet(o),
           UNCHANGED <<res, resSeen, resEvents, nets, home, ress, nextNet, nextRes, resWorker, excused>>,
           o # None /\ o.id # None => net # None /\ o.id = net.id,
           netWorker' \in NetWorkers,
           \/ netWorker' = netWorker
           \/ netWorker'.step \in {"idle", "verify"} /\ (netWorker'.step = "verify" => netWorker'.obj \in Network)
    PROVE  IInv'
  <1>1. NetType /\ NetChain /\ nextNet \in Nat
    BY NetVsType DEF IInv
  <1>2. /\ net' = o /\ netSeen' \in NetVersion /\ netEvents' \in Seq(NetVersion) /\ NetChain'
        /\ NetVs' \subseteq NetVs \cup {o}
    BY <1>1, StoreNetOK
  <1>3. /\ \A n \in NetIDs \cup {None} : Below(n) => Below(n)'
        /\ \A t : Unrecorded(t) /\ (o # None => o.id # t) => Unrecorded(t)'
    BY <1>1, <1>2, NetVersions
  <1>4. NetType'
    BY <1>1, <1>2 DEF NetType
  <1>5. NetWorkerOK'
    BY DEF IInv, NetWorkerOK
  <1>6. NetFresh'
    <2>1. CASE netWorker' = netWorker
      <3> SUFFICES ASSUME netWorker.step = "patch", netWorker.target # netWorker.obj.id
                   PROVE  NetFresh'
        BY <2>1 DEF NetFresh
      <3>1. PICK t \in NetIDs : t = netWorker.target
        BY DEF IInv, NetWorkerOK
      <3>2. Unrecorded(t) /\ net \in NetVs /\ t # None
        BY <3>1, Values DEF IInv, NetFresh, NetVs
      <3>3. o # None => o.id # t
        BY <3>2 DEF Unrecorded
      <3>4. Unrecorded(t)'
        BY <1>3, <3>2, <3>3
      <3> QED
        BY <2>1, <3>1, <3>4 DEF IInv, NetFresh
    <2>2. CASE netWorker'.step \in {"idle", "verify"}
      BY <2>2 DEF NetFresh
    <2> QED
      BY <2>1, <2>2
  <1>7. ResourcesAccounted'
    <2>1. net' # None => \/ net # None /\ net'.id = net.id
                         \/ \A r \in ress : home[r] # net'.id
      BY <1>2, Homes
    <2> QED
      BY <2>1, NetAccounted
  <1> QED
    BY <1>1, <1>2, <1>3, <1>4, <1>5, <1>6, <1>7, NetSide DEF IInv

(* A step that writes to no object, and at most takes things from NetBird. *)
LEMMA NetQuietInv ==
    ASSUME IInv, UNCHANGED <<net, netSeen, netEvents, nextNet, res, resSeen, resEvents, resWorker,
                             home, nextRes>>,
           excused \subseteq excused', ress' \subseteq ress, nets' \subseteq nets,
           netWorker' \in NetWorkers, NetWorkerOK', NetFresh'
    PROVE  IInv'
  <1>1. NetType /\ NetChain /\ nextNet \in Nat
    BY NetVsType DEF IInv
  <1>2. NetVs' = NetVs
    BY DEF NetVs
  <1>3. \A n \in NetIDs \cup {None} : Below(n) => Below(n)'
    BY <1>2 DEF Below
  <1>4. NetType' /\ NetChain'
    BY <1>1, <1>2 DEF NetType, NetChain, NetLeq
  <1>5. ResourcesAccounted'
    BY NetAccounted
  <1> QED
    BY <1>1, <1>3, <1>4, <1>5, NetSide DEF IInv

(* The Network worker. *)
LEMMA NetReads == ASSUME IInv, NetStart \/ NetVerify \/ NetUpdate PROVE IInv'
  <1>1. /\ netWorker \in NetWorkers /\ netSeen \in NetVersion /\ nets \subseteq NetIDs
        /\ NetWorkerOK /\ NetFresh
    BY DEF IInv, NetType
  <1>2. CASE NetStart
    <2> DEFINE k == IF netSeen.deleting THEN IF netSeen.id = None THEN "unfinalize" ELSE "delNet"
                    ELSE IF netSeen.finalizer THEN "verify" ELSE "finalize"
               b == netEvents # <<>>
    <2>1. netWorker' = [step |-> k, obj |-> netSeen, target |-> None, lagged |-> b]
      BY <1>2, Zenon DEF NetStart
    <2>2. k \in {"unfinalize", "delNet", "verify", "finalize"} /\ b \in BOOLEAN
      OBVIOUS
    <2>3. netSeen \in Network
      BY <1>1, <1>2 DEF NetStart, NetVersion
    <2> HIDE DEF k, b
    <2>4. netWorker' \in NetWorkers /\ netWorker'.obj \in Network
          /\ netWorker'.step \in {"unfinalize", "delNet", "verify", "finalize"}
      BY <1>1, <2>1, <2>2, <2>3 DEF NetWorkers
    <2>5. NetWorkerOK' /\ NetFresh'
      BY <2>4 DEF NetWorkerOK, NetFresh
    <2>6. UNCHANGED <<net, netSeen, netEvents, nextNet, res, resSeen, resEvents, resWorker, home, nextRes,
                      excused, ress, nets>>
      BY <1>2 DEF NetStart, netKube, resKube, netbird
    <2> QED
      BY <2>4, <2>5, <2>6, NetQuietInv
  <1>3. CASE NetVerify
    <2>1. UNCHANGED <<net, netSeen, netEvents, nextNet, res, resSeen, resEvents, resWorker, home, nextRes,
                      excused, ress, nets>>
      BY <1>3 DEF NetVerify, netKube, resKube, netbird
    <2>2. CASE netWorker.obj.id \in nets
      <3>1. netWorker' = [netWorker EXCEPT !.step = "update", !.target = netWorker.obj.id]
        BY <1>3, <2>2 DEF NetVerify
      <3>2. netWorker.obj.id \in NetIDs
        BY <1>1, <2>2
      <3>3. /\ netWorker' \in NetWorkers /\ netWorker'.step = "update" /\ netWorker'.obj = netWorker.obj
            /\ netWorker'.target = netWorker.obj.id
        BY <1>1, <3>1, <3>2, Zenon DEF NetWorkers
      <3>4. NetWorkerOK' /\ NetFresh'
        BY <1>1, <1>3, <3>2, <3>3 DEF NetWorkerOK, NetFresh, NetVerify
      <3> QED
        BY <2>1, <3>3, <3>4, NetQuietInv
    <2>3. CASE netWorker.obj.id \notin nets
      <3>1. netWorker' = [netWorker EXCEPT !.step = "create"]
        BY <1>3, <2>3 DEF NetVerify
      <3>2. netWorker' \in NetWorkers /\ netWorker'.step = "create" /\ netWorker'.obj = netWorker.obj
        BY <1>1, <3>1 DEF NetWorkers
      <3>3. NetWorkerOK' /\ NetFresh'
        BY <1>1, <1>3, <3>2 DEF NetWorkerOK, NetFresh, NetVerify
      <3> QED
        BY <2>1, <3>2, <3>3, NetQuietInv
    <2> QED
      BY <2>2, <2>3
  <1>4. CASE NetUpdate
    <2>1. UNCHANGED <<net, netSeen, netEvents, nextNet, res, resSeen, resEvents, resWorker, home, nextRes,
                      excused, ress, nets>>
      BY <1>4 DEF NetUpdate, netKube, resKube, netbird
    <2>2. CASE netWorker.target \in nets
      <3>1. netWorker' = [netWorker EXCEPT !.step = "patch"]
        BY <1>4, <2>2 DEF NetUpdate
      <3>2. /\ netWorker' \in NetWorkers /\ netWorker'.step = "patch" /\ netWorker'.obj = netWorker.obj
            /\ netWorker'.target = netWorker.target
        BY <1>1, <3>1 DEF NetWorkers
      <3>3. NetWorkerOK' /\ NetFresh'
        BY <1>1, <1>4, <3>2 DEF NetWorkerOK, NetFresh, NetUpdate
      <3> QED
        BY <2>1, <3>2, <3>3, NetQuietInv
    <2>3. CASE netWorker.target \notin nets
      <3>1. netWorker' = IdleNet
        BY <1>4, <2>3 DEF NetUpdate
      <3>2. netWorker' \in NetWorkers /\ netWorker'.step = "idle"
        BY <3>1 DEF IdleNet, NetWorkers, NetVersion
      <3>3. NetWorkerOK' /\ NetFresh'
        BY <3>2 DEF NetWorkerOK, NetFresh
      <3> QED
        BY <2>1, <3>2, <3>3, NetQuietInv
    <2> QED
      BY <2>2, <2>3
  <1> QED
    BY <1>2, <1>3, <1>4

(* The idle worker of Networks. *)
LEMMA IdleNetOK ==
    /\ IdleNet \in NetWorkers /\ IdleNet.step = "idle"
    /\ netWorker' = IdleNet => NetWorkerOK' /\ NetFresh'
  <1>1. IdleNet \in NetWorkers /\ IdleNet.step = "idle"
    BY DEF IdleNet, NetWorkers, NetVersion
  <1> QED
    BY <1>1 DEF NetWorkerOK, NetFresh

(* The flags of the Network are written. *)
LEMMA NetFlags == ASSUME IInv, NetFinalize \/ NetUnfinalize PROVE IInv'
  <1>1. netWorker \in NetWorkers /\ net \in NetVersion /\ NetWorkerOK
    BY DEF IInv, NetType
  <1>2. UNCHANGED <<res, resSeen, resEvents, nets, home, ress, nextNet, nextRes, resWorker, excused>>
    BY DEF NetFinalize, NetUnfinalize, resKube, netbird
  <1>3. ASSUME NEW b \in BOOLEAN, net # None
        PROVE  [net EXCEPT !.finalizer = b] \in NetVersion /\ [net EXCEPT !.finalizer = b].id = net.id
    BY <1>1, <1>3 DEF NetVersion, Network
  <1>4. CASE NetFinalize /\ net = None
    <2>1. netWorker' = IdleNet /\ UNCHANGED <<net, netSeen, netEvents>>
      BY <1>4 DEF NetFinalize, netKube
    <2> QED
      BY <1>2, <2>1, IdleNetOK, NetQuietInv
  <1>5. CASE NetFinalize /\ net # None
    <2>1. StoreNet([net EXCEPT !.finalizer = TRUE]) /\ netWorker' = [netWorker EXCEPT !.step = "verify"]
      BY <1>5 DEF NetFinalize
    <2>2. netWorker' \in NetWorkers /\ netWorker'.step = "verify" /\ netWorker'.obj = netWorker.obj
      BY <1>1, <2>1 DEF NetWorkers
    <2>3. netWorker.obj \in Network
      BY <1>1, <1>5 DEF NetWorkerOK, NetFinalize
    <2> DEFINE o == [net EXCEPT !.finalizer = TRUE]
    <2>4. StoreNet(o) /\ o \in NetVersion /\ o.id = net.id
      BY <1>3, <1>5, <2>1, Zenon
    <2> HIDE DEF o
    <2> QED
      BY <1>2, <1>5, <2>2, <2>3, <2>4, NetStoreInv
  <1>6. CASE NetUnfinalize
    <2> DEFINE o == Unfinalized(net)
    <2>1. StoreNet(o) /\ netWorker' = IdleNet
      BY <1>6 DEF NetUnfinalize
    <2>2. o = None \/ (net # None /\ o \in NetVersion /\ o.id = net.id)
      BY <1>3, Zenon DEF Unfinalized
    <2>3. o \in NetVersion
      BY <2>2 DEF NetVersion
    <2> HIDE DEF o
    <2> QED
      BY <1>2, <2>1, <2>2, <2>3, IdleNetOK, NetStoreInv
  <1> QED
    BY <1>4, <1>5, <1>6

(* A network is created: newer than any, and in no status yet. *)
LEMMA NetCreateInv == ASSUME IInv, NetCreate PROVE IInv'
  <1>1. /\ netWorker \in NetWorkers /\ NetType /\ NetChain /\ nextNet \in Nat /\ NetVs \subseteq NetVersion
        /\ netWorker.obj \in Network /\ netWorker.obj # None
    BY NetVsType, Values DEF IInv, NetType, NetWorkerOK, NetCreate
  <1>2. /\ nextNet' = nextNet + 1 /\ nets' = nets \cup {nextNet}
        /\ netWorker' = [netWorker EXCEPT !.step = "patch", !.target = nextNet]
        /\ UNCHANGED <<net, netSeen, netEvents, res, resSeen, resEvents, resWorker, home, ress, nextRes, excused>>
    BY DEF NetCreate, netKube, resKube
  <1>3. nextNet \in NetIDs /\ nextNet' \in 1..(MaxNets + 1) /\ nextNet' \in Nat /\ nextNet <= nextNet'
    BY <1>2, TreeBounds DEF IInv, NetType, NetCreate, NetIDs
  <1>4. NetVs' = NetVs
    BY <1>2 DEF NetVs
  <1>5. /\ netWorker' \in NetWorkers /\ netWorker'.step = "patch" /\ netWorker'.target = nextNet
        /\ netWorker'.obj = netWorker.obj
    BY <1>1, <1>2, <1>3, Zenon DEF NetWorkers
  <1>6. NetType'
    BY <1>1, <1>2, <1>3, <1>5 DEF NetType
  <1>7. \A v \in NetVs : v # None /\ v.id # None => v.id \in Nat /\ v.id < nextNet
    BY <1>1, NetID, Values DEF NetChain
  <1>8. NetChain'
    <2>1. \A v \in NetVs' : v # None /\ v.id # None => v.id < nextNet'
      BY <1>1, <1>2, <1>4, <1>7
    <2> QED
      BY <1>1, <1>2, <2>1 DEF NetChain, NetLeq
  <1>9. ASSUME NEW n \in NetIDs \cup {None}, Below(n) PROVE Below(n)'
    <2>1. n # None => n \in Nat
      BY Values
    <2> QED
      BY <1>1, <1>2, <1>4, <1>9, <2>1 DEF Below
  <1>10. NetWorkerOK'
    BY <1>1, <1>3, <1>5 DEF NetWorkerOK
  <1>11. NetFresh'
    <2>1. Unrecorded(nextNet)
      BY <1>1, <1>3, <1>7, Values DEF Unrecorded
    <2>2. resWorker.netID # nextNet
      <3>1. resWorker.netID \in NetIDs \cup {None} /\ Below(resWorker.netID)
        BY DEF IInv, ResType, ResWorkers, ResWorkerOK, ResCopyOK, ResTargetOK
      <3> QED
        BY <1>1, <1>3, <3>1, Values DEF Below
    <2>3. \A r \in ResIDs : home[r] # nextNet
      BY <1>1, <1>3, Values DEF IInv, HomeOK
    <2>4. netWorker'.target + 1 = nextNet' /\ \A v \in NetVs' : v # None => v.id # netWorker'.target
      BY <1>2, <1>4, <1>5, <2>1 DEF Unrecorded
    <2>5. resWorker'.netID # netWorker'.target /\ \A r \in ResIDs : home'[r] # netWorker'.target
      BY <1>2, <1>5, <2>2, <2>3
    <2> QED
      BY <2>4, <2>5 DEF NetFresh, Unrecorded
  <1>12. ResourcesAccounted'
    BY <1>2, NetAccounted
  <1> QED
    BY <1>2, <1>3, <1>6, <1>8, <1>9, <1>10, <1>11, <1>12, NetSide DEF IInv

(* The id of a new network is recorded: no resource is in it yet. *)
LEMMA NetPatchInv == ASSUME IInv, NetPatch PROVE IInv'
  <1>1. netWorker \in NetWorkers /\ net \in NetVersion /\ NetWorkerOK /\ NetType /\ NetChain /\ nextNet \in Nat
    BY NetVsType DEF IInv, NetType
  <1>2. /\ UNCHANGED <<res, resSeen, resEvents, nets, home, ress, nextNet, nextRes, resWorker, excused>>
        /\ netWorker' = IdleNet
    BY DEF NetPatch, resKube, netbird
  <1>3. CASE net = None \/ netWorker.target = netWorker.obj.id
    <2>1. UNCHANGED <<net, netSeen, netEvents>>
      BY <1>3 DEF NetPatch, netKube
    <2> QED
      BY <1>2, <2>1, IdleNetOK, NetQuietInv
  <1>4. CASE net # None /\ netWorker.target # netWorker.obj.id
    <2> DEFINE t == netWorker.target
               o == [net EXCEPT !.id = t]
    <2>1. StoreNet(o) /\ t \in NetIDs
      BY <1>1, <1>4 DEF NetPatch, NetWorkerOK
    <2>2. t + 1 = nextNet /\ \A r \in ResIDs : home[r] # t
      BY <1>4 DEF IInv, NetFresh, NetPatch
    <2>3. o \in NetVersion /\ o.id = t
      BY <1>1, <1>4, <2>1 DEF NetVersion, Network
    <2> HIDE DEF o, t
    <2>4. /\ net' = o /\ netSeen' \in NetVersion /\ netEvents' \in Seq(NetVersion) /\ NetChain'
          /\ NetVs' \subseteq NetVs \cup {o}
      BY <1>1, <1>2, <2>1, <2>2, <2>3, StoreNetOK
    <2>5. \A n \in NetIDs \cup {None} : Below(n) => Below(n)'
      BY <1>1, <1>2, <2>2, <2>3, <2>4, NetVersions
    <2>6. NetType'
      BY <1>1, <1>2, <2>3, <2>4, IdleNetOK DEF NetType
    <2>7. ResourcesAccounted'
      BY <1>2, <2>2, <2>3, <2>4, Homes, NetAccounted
    <2> QED
      BY <1>1, <1>2, <2>4, <2>5, <2>6, <2>7, IdleNetOK, NetSide DEF IInv
  <1> QED
    BY <1>3, <1>4

(* Networks and resources are deleted in NetBird. *)
LEMMA NetBirdInv == ASSUME IInv, NetDelete \/ Admin PROVE IInv'
  <1>1. netWorker \in NetWorkers /\ NetWorkerOK /\ NetFresh
    BY DEF IInv, NetType
  <1>2. /\ UNCHANGED <<net, netSeen, netEvents, nextNet, res, resSeen, resEvents, resWorker, home, nextRes, excused>>
        /\ ress' \subseteq ress /\ nets' \subseteq nets
    BY DEF NetDelete, Admin, DropNetwork, netKube, resKube
  <1>3. CASE Admin
    <2>1. netWorker' = netWorker
      BY <1>3 DEF Admin
    <2>2. NetVs' = NetVs
      BY <1>2 DEF NetVs
    <2>3. NetWorkerOK' /\ NetFresh'
      BY <1>1, <1>2, <2>1, <2>2 DEF NetWorkerOK, NetFresh, Unrecorded
    <2> QED
      BY <1>1, <1>2, <2>1, <2>3, NetQuietInv
  <1>4. CASE NetDelete
    <2>1. netWorker' \in NetWorkers /\ netWorker'.step = "unfinalize" /\ netWorker'.obj = netWorker.obj
      BY <1>1, <1>4 DEF NetDelete, NetWorkers
    <2>2. NetWorkerOK' /\ NetFresh'
      BY <1>1, <1>4, <2>1 DEF NetWorkerOK, NetFresh, NetDelete
    <2> QED
      BY <1>2, <2>1, <2>2, NetQuietInv
  <1> QED
    BY <1>3, <1>4

(* A user's writes of the Network. *)
NetUser ==
    \/ net = None /\ StoreNet(NewNetwork)
    \/ net # None /\ ~net.deleting /\ StoreNet(Deleted(net))

(* A user creates or deletes the Network. *)
LEMMA NetUserInv ==
    ASSUME IInv, NetUser, UNCHANGED <<resKube, netbird, netWorker, resWorker, excused>>
    PROVE  IInv'
  <1>1. netWorker \in NetWorkers /\ net \in NetVersion
    BY DEF IInv, NetType
  <1>2. UNCHANGED <<res, resSeen, resEvents, nets, home, ress, nextNet, nextRes, resWorker, excused>>
    BY DEF resKube, netbird
  <1>3. CASE net = None /\ StoreNet(NewNetwork)
    <2>1. NewNetwork \in NetVersion /\ NewNetwork.id = None
      BY DEF NewNetwork, NetVersion, Network
    <2> QED
      BY <1>1, <1>2, <1>3, <2>1, NetStoreInv
  <1>4. CASE net # None /\ StoreNet(Deleted(net))
    <2>1. [net EXCEPT !.deleting = TRUE] \in NetVersion /\ [net EXCEPT !.deleting = TRUE].id = net.id
      BY <1>1, <1>4, Zenon DEF NetVersion, Network
    <2> DEFINE o == Deleted(net)
    <2>2. StoreNet(o) /\ (o = None \/ (o \in NetVersion /\ o.id = net.id))
      BY <1>4, <2>1 DEF Deleted
    <2>3. o \in NetVersion
      BY <2>2 DEF NetVersion
    <2> HIDE DEF o
    <2> QED
      BY <1>1, <1>2, <1>4, <2>2, <2>3, NetStoreInv
  <1> QED
    BY <1>3, <1>4 DEF NetUser

(* An event of the Network reaches the informer. *)
LEMMA NetDeliverInv ==
    ASSUME IInv, UNCHANGED <<net, resKube, netbird, netWorker, resWorker, excused>>,
           netEvents # <<>>, netSeen' = Head(netEvents), netEvents' = Tail(netEvents)
    PROVE  IInv'
  <1>1. NetType /\ NetChain /\ nextNet \in Nat
    BY NetVsType DEF IInv
  <1>2. UNCHANGED <<net, res, resSeen, resEvents, nets, home, ress, nextNet, nextRes, netWorker, resWorker, excused>>
    BY DEF resKube, netbird
  <1>3. /\ netSeen' \in NetVersion /\ netEvents' \in Seq(NetVersion) /\ NetChain' /\ NetVs' \subseteq NetVs
    BY <1>1, <1>2, DeliverNetOK
  <1>4. NetType'
    BY <1>1, <1>2, <1>3 DEF NetType
  <1>5. \A n \in NetIDs \cup {None} : Below(n) => Below(n)'
    BY <1>2, <1>3 DEF Below
  <1>6. NetFresh' /\ NetWorkerOK'
    BY <1>2, <1>3 DEF IInv, NetFresh, NetWorkerOK, Unrecorded
  <1>7. ResourcesAccounted'
    BY <1>2, NetAccounted
  <1> QED
    BY <1>1, <1>2, <1>3, <1>4, <1>5, <1>6, <1>7, NetSide DEF IInv

=============================================================================
