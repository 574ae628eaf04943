------------------------- MODULE NetworkTreeProofs -------------------------
(* The inductive invariant of NetworkTreeLemmas is kept by every step of   *)
(* the NetworkResource controller, and with it by every step.  So the ids  *)
(* in a status belong together, and no resource in NetBird is lost without *)
(* a named reason.                                                         *)
EXTENDS NetworkTreeLemmas

-----------------------------------------------------------------------------
(* What a step of the NetworkResources leaves alone: a reconcile of them   *)
(* knows no network that is not recorded yet.                              *)
LEMMA ResSide ==
    ASSUME IInv, UNCHANGED <<net, netSeen, netEvents, nets, nextNet, netWorker>>,
           \A r \in ResIDs : home'[r] \in {home[r], resWorker.netID},
           \/ resWorker'.netID \in {resWorker.netID, None}
           \/ netSeen # None /\ resWorker'.netID = netSeen.id
    PROVE  NetType' /\ NetChain' /\ NetFresh' /\ NetWorkerOK' /\ \A n : Below(n)' <=> Below(n)
  <1>1. NetVs' = NetVs /\ netSeen \in NetVs
    BY DEF NetVs
  <1>2. \A n : Below(n)' <=> Below(n)
    BY <1>1 DEF Below
  <1>3. NetType' /\ NetChain' /\ NetWorkerOK'
    BY <1>1 DEF IInv, NetType, NetChain, NetLeq, NetWorkerOK
  <1>4. NetFresh'
    <2> SUFFICES ASSUME netWorker.step = "patch", netWorker.target # netWorker.obj.id
                 PROVE  NetFresh'
      BY DEF NetFresh
    <2>1. /\ netWorker.target + 1 = nextNet /\ Unrecorded(netWorker.target)
          /\ resWorker.netID # netWorker.target /\ \A r \in ResIDs : home[r] # netWorker.target
      BY DEF IInv, NetFresh
    <2>2. netWorker.target # None
      BY Values DEF IInv, NetWorkerOK
    <2>3. resWorker'.netID # netWorker.target
      BY <1>1, <2>1, <2>2 DEF Unrecorded
    <2>4. Unrecorded(netWorker.target)'
      BY <1>1, <2>1 DEF Unrecorded
    <2> QED
      BY <2>1, <2>3, <2>4 DEF NetFresh
  <1> QED
    BY <1>2, <1>3, <1>4

(* What a version satisfies depends on the ids handed out only. *)
LEMMA VersionSame ==
    ASSUME \A n : Below(n)' <=> Below(n), UNCHANGED <<home, nextRes>>
    PROVE  \A v : VersionOK(v)' <=> VersionOK(v)
  BY DEF VersionOK

(* A write of a NetworkResource. *)
LEMMA ResStoreInv ==
    ASSUME IInv, NEW c \in Res, NEW o \in ResVersion, StoreRes(c, o), VersionOK(o),
           UNCHANGED <<net, netSeen, netEvents, nets, home, ress, nextNet, nextRes, netWorker>>,
           \A a \in ResVs : Ord(Mode(c), a, res[c]) => Ord(Mode(c), a, o),
           resWorker' \in ResWorkers, resWorker'.netID \in {resWorker.netID, None},
           (resWorker.step \in Applying \cup {"finalize"} => Chain("up", resWorker.cr))',
           (resWorker.step \in {"delRes", "unfinalize"} => Chain("down", resWorker.cr))',
           ResWorkerOK', ResourcesAccounted'
    PROVE  IInv'
  <1>1. NetType' /\ NetChain' /\ NetFresh' /\ NetWorkerOK' /\ \A n : Below(n)' <=> Below(n)
    BY ResSide
  <1>2. ResKubeType' /\ ResVs' \subseteq ResVs \cup {o} /\ Synced'
    BY StoreResOK DEF IInv
  <1>3. \A d \in Res : Chain(Mode(d), d)'
    BY StoreModes DEF IInv, Chains
  <1>4. Chains'
    BY <1>3 DEF Chains
  <1>5. Versions'
    BY <1>1, <1>2, VersionSame DEF IInv, Versions
  <1>6. ResType' /\ HomeOK' /\ RessUsed'
    BY DEF IInv, ResType, HomeOK, RessUsed
  <1> QED
    BY <1>1, <1>2, <1>4, <1>5, <1>6 DEF IInv

(* A step of a reconcile that writes no object. *)
LEMMA ResQuietInv ==
    ASSUME IInv, UNCHANGED <<net, netSeen, netEvents, res, resSeen, resEvents, nets, home, nextNet, nextRes,
                             netWorker>>,
           ress' \subseteq ress, resWorker' \in ResWorkers,
           \/ resWorker'.netID \in {resWorker.netID, None}
           \/ netSeen # None /\ resWorker'.netID = netSeen.id,
           resWorker'.step \in Applying \cup {"finalize"} => Chain("up", resWorker'.cr),
           resWorker'.step \in {"delRes", "unfinalize"} => Chain("down", resWorker'.cr),
           ResWorkerOK', ResourcesAccounted'
    PROVE  IInv'
  <1>1. NetType' /\ NetChain' /\ NetFresh' /\ NetWorkerOK' /\ \A n : Below(n)' <=> Below(n)
    BY ResSide
  <1>2. ResKubeType' /\ Synced' /\ ResVs' = ResVs
    BY DEF IInv, ResKubeType, Synced, ResVs
  <1>3. Chains'
    BY ChainSame DEF Chains, IInv
  <1>4. Versions'
    BY <1>1, <1>2, VersionSame DEF IInv, Versions
  <1>5. ResType' /\ HomeOK' /\ RessUsed'
    BY DEF IInv, ResType, HomeOK, RessUsed
  <1> QED
    BY <1>1, <1>2, <1>3, <1>4, <1>5 DEF IInv

(* A reconcile that has ended. *)
LEMMA IdleResOK ==
    ASSUME resWorker' = IdleRes
    PROVE  /\ resWorker' \in ResWorkers /\ resWorker'.netID = None /\ resWorker'.step = "idle"
           /\ resWorker'.step \notin Applying \cup {"finalize"}
           /\ resWorker'.step \notin {"delRes", "unfinalize"} /\ ResWorkerOK'
  <1>1. /\ resWorker' \in ResWorkers /\ resWorker'.netID = None /\ resWorker'.step = "idle"
        /\ resWorker'.step \notin Applying /\ resWorker'.step # "finalize"
    BY DEF IdleRes, ResWorkers, Applying, ResVersion
  <1>2. Below(resWorker.netID)'
    BY <1>1 DEF Below
  <1> QED
    BY <1>1, <1>2 DEF ResWorkerOK, ResCopyOK, ResTargetOK, Applying

(* What is known of the versions and of the reconcile. *)
LEMMA ResFacts ==
    ASSUME IInv
    PROVE  /\ resWorker \in ResWorkers /\ ResWorkerOK /\ nextRes \in Nat /\ nextNet \in Nat
           /\ \A c \in Res : /\ res[c] \in ResVersion /\ resSeen[c] \in ResVersion
                             /\ res[c] \in ResVs /\ resSeen[c] \in ResVs
                             /\ VersionOK(res[c]) /\ VersionOK(resSeen[c])
  <1>1. resWorker \in ResWorkers /\ ResWorkerOK /\ nextRes \in Nat /\ nextNet \in Nat
    BY NetVsType, TreeBounds DEF IInv, ResType
  <1>2. \A c \in Res : res[c] \in ResVs /\ resSeen[c] \in ResVs
    BY DEF ResVs
  <1>3. \A c \in Res : res[c] \in ResVersion /\ resSeen[c] \in ResVersion
    BY DEF IInv, ResKubeType
  <1> QED
    BY <1>1, <1>2, <1>3 DEF IInv, Versions

(* What the next reconcile step knows, while ids and versions stay. *)
LEMMA WorkerVersion ==
    ASSUME UNCHANGED <<net, netSeen, netEvents, nextNet, home, nextRes>>
    PROVE  /\ VersionOK(resWorker'.obj) => VersionOK(resWorker.obj)'
           /\ Below(resWorker'.netID) => Below(resWorker.netID)'
  <1>1. NetVs' = NetVs
    BY DEF NetVs
  <1>2. \A n : Below(n)' <=> Below(n)
    BY <1>1 DEF Below
  <1>3. Below(resWorker'.netID) => Below(resWorker.netID)'
    BY <1>1 DEF Below
  <1>4. ASSUME VersionOK(resWorker'.obj) PROVE VersionOK(resWorker.obj)'
    <2>1. PICK v : v = resWorker'.obj
      OBVIOUS
    <2>2. VersionOK(v)'
      BY <1>2, <1>4, <2>1, VersionSame
    <2> QED
      BY <2>1, <2>2
  <1> QED
    BY <1>3, <1>4

(* Get returns a copy. *)
LEMMA ResStartInv == ASSUME IInv, NEW c \in Res, ResStart(c) PROVE IInv'
  <1> DEFINE o   == resSeen[c]
             lag == \E i \in 1..Len(resEvents) : resEvents[i].cr = c
             st  == IF o.deleting
                    THEN IF o.id = None \/ o.netID = None THEN "unfinalize" ELSE "delRes"
                    ELSE IF o.finalizer THEN "resolve" ELSE "finalize"
  <1>1. /\ resWorker' = [IdleRes EXCEPT !.step = st, !.cr = c, !.obj = o, !.lagged = lag]
        /\ resWorker.step = "idle" /\ o # None
        /\ UNCHANGED <<net, netSeen, netEvents, res, resSeen, resEvents, nets, home, ress, nextNet, nextRes,
                       netWorker, excused>>
    BY DEF ResStart, netKube, resKube, netbird
  <1>2. o \in Resource /\ VersionOK(o) /\ o.id \in ResIDs \cup {None} /\ o.deleting \in BOOLEAN /\ o.finalizer \in BOOLEAN
    BY <1>1, ResFacts, ResID
  <1>3. st \in {"unfinalize", "delRes", "resolve", "finalize"} /\ lag \in BOOLEAN
    OBVIOUS
  <1>4. /\ st \in {"unfinalize", "delRes"} => Dying(o)
        /\ st = "unfinalize" => o.id = None
        /\ st = "resolve" => ~Dying(o) /\ ~Blank(o)
        /\ st = "finalize" => ~Dying(o) /\ ~o.finalizer
    BY <1>1, <1>2 DEF Dying, Blank, VersionOK
  <1>5. ~lag => o = res[c]
    BY DEF IInv, Synced
  <1> HIDE DEF st, lag
  <1>6. /\ resWorker' \in ResWorkers /\ resWorker'.step = st /\ resWorker'.cr = c /\ resWorker'.obj = o
        /\ resWorker'.netID = None /\ resWorker'.target = None /\ resWorker'.lagged = lag
    <2> HIDE DEF o
    <2> QED
      BY <1>1, <1>2, <1>3, Zenon DEF IdleRes, ResWorkers, ResVersion
  <1>7. /\ st \in {"unfinalize", "delRes"} => Chain("down", c)
        /\ st \in {"resolve", "finalize"} => Chain("up", c)
    <2>1. Chain(Mode(c), c)
      BY DEF IInv, Chains
    <2> QED
      BY <1>4, <2>1 DEF Mode
  <1>8. /\ resWorker'.step \in Applying \cup {"finalize"} => Chain("up", resWorker'.cr)
        /\ resWorker'.step \in {"delRes", "unfinalize"} => Chain("down", resWorker'.cr)
    BY <1>3, <1>6, <1>7 DEF Applying
  <1>9. st = "resolve" => /\ ~Blank(res[c])
                          /\ o.netID # None => res[c].netID # None /\ o.netID <= res[c].netID
    <2> SUFFICES ASSUME st = "resolve"
                 PROVE  /\ ~Blank(res[c])
                        /\ o.netID # None => res[c].netID # None /\ o.netID <= res[c].netID
      OBVIOUS
    <2>1. Ord("up", o, res[c])
      BY <1>7 DEF Chain
    <2> QED
      BY <1>1, <1>4, <2>1 DEF Ord, Up, Mono, Blank
  <1>10. VersionOK(resWorker.obj)' /\ Below(resWorker.netID)'
    BY <1>1, <1>2, <1>6, WorkerVersion DEF Below
  <1>11. ResWorkerOK'
    BY <1>1, <1>2, <1>3, <1>4, <1>5, <1>6, <1>9, <1>10 DEF ResWorkerOK, ResCopyOK, ResTargetOK, Applying, Blank, Dying
  <1>12. ResourcesAccounted'
    BY <1>1 DEF IInv, ResourcesAccounted
  <1> QED
    BY <1>1, <1>6, <1>8, <1>11, <1>12, ResQuietInv

(* resolveNetworkID shows an id that no recorded one is above. *)
LEMMA ResResolveInv == ASSUME IInv, ResResolve PROVE IInv'
  <1> DEFINE w == resWorker
             o == resWorker.obj
             n == resolveNetworkID
             t == IF o.netID \notin {None, n} THEN None ELSE o.id
  <1>1. /\ w.step = "resolve"
        /\ UNCHANGED <<net, netSeen, netEvents, res, resSeen, resEvents, nets, home, ress, nextNet, nextRes,
                       netWorker, excused>>
    BY DEF ResResolve, netKube, resKube, netbird
  <1>2. ResourcesAccounted'
    BY <1>1 DEF IInv, ResourcesAccounted
  <1>3. CASE n = None
    <2>1. resWorker' = IdleRes
      BY <1>3 DEF ResResolve
    <2> QED
      BY <1>1, <1>2, <2>1, IdleResOK, ResQuietInv
  <1>4. CASE n # None
    <2>1. netSeen # None /\ n = netSeen.id /\ netSeen \in NetVs
      BY <1>4 DEF resolveNetworkID, NetVs
    <2>2. n \in NetIDs /\ n \in Nat /\ NetVs \subseteq NetVersion
      BY <1>4, <2>1, NetVsType, NetID, Values DEF IInv
    <2>3. Below(n)
      <3>1. n < nextNet
        BY <1>4, <2>1 DEF IInv, NetChain
      <3>2. \A v \in NetVs : NetLeq(netSeen, v)
        BY <2>1, <2>2 DEF IInv, NetChain, NetVs, NetLeq
      <3> QED
        BY <1>4, <2>1, <3>1, <3>2 DEF Below, NetLeq
    <2>4. /\ w \in ResWorkers /\ ResWorkerOK /\ w.cr \in Res /\ o \in Resource /\ VersionOK(o)
          /\ VersionOK(res[w.cr]) /\ ~Blank(res[w.cr])
      BY <1>1, ResFacts DEF ResWorkerOK, ResCopyOK, ResTargetOK, Applying
    <2>5. res[w.cr].netID # None => res[w.cr].netID <= n
      BY <1>4, <2>1, <2>4 DEF VersionOK, Blank, Below
    <2>6. /\ o.id \in ResIDs \cup {None} /\ t \in {o.id, None}
          /\ t # None => o.netID = n
          /\ o.id # None /\ t # o.id => o.netID # n
      <3>1. o # None /\ o.id \in ResIDs \cup {None}
        BY <2>4, Values DEF Resource
      <3>2. o.id # None => o.netID # None
        BY <2>4, <3>1 DEF VersionOK
      <3> QED
        BY <3>1, <3>2
    <2>7. resWorker' = [resWorker EXCEPT !.step = "verify", !.netID = n, !.target = t]
      BY <1>4 DEF ResResolve
    <2> HIDE DEF n, t
    <2>8. /\ resWorker' \in ResWorkers /\ resWorker'.step = "verify" /\ resWorker'.cr = w.cr
          /\ resWorker'.obj = o /\ resWorker'.netID = n /\ resWorker'.target = t /\ resWorker'.lagged = w.lagged
      BY <2>2, <2>4, <2>6, <2>7, Zenon DEF ResWorkers
    <2>9. VersionOK(resWorker.obj)' /\ Below(resWorker.netID)'
      BY <1>1, <2>3, <2>4, <2>8, WorkerVersion
    <2>10. ResWorkerOK'
      BY <1>1, <2>2, <2>4, <2>5, <2>6, <2>8, <2>9 DEF ResWorkerOK, ResCopyOK, ResTargetOK, Applying, Blank
    <2>11. /\ resWorker'.step \in Applying \cup {"finalize"} => Chain("up", resWorker'.cr)
           /\ resWorker'.step \notin {"delRes", "unfinalize"}
      BY <1>1, <2>8 DEF IInv, Chains, Applying
    <2> QED
      BY <1>1, <1>2, <2>1, <2>8, <2>10, <2>11, ResQuietInv
  <1> QED
    BY <1>3, <1>4

(* The GET decides whether the recorded resource is kept. *)
LEMMA ResVerifyInv == ASSUME IInv, ResVerify PROVE IInv'
  <1> DEFINE w == resWorker
             o == resWorker.obj
  <1>1. /\ w.step = "verify"
        /\ UNCHANGED <<net, netSeen, netEvents, res, resSeen, resEvents, nets, home, ress, nextNet, nextRes,
                       netWorker, excused>>
    BY DEF ResVerify, netKube, resKube, netbird
  <1>2. ResourcesAccounted'
    BY <1>1 DEF IInv, ResourcesAccounted
  <1>3. /\ w \in ResWorkers /\ ResWorkerOK /\ w.cr \in Res /\ o \in Resource /\ VersionOK(o) /\ Below(w.netID)
        /\ o # None
    BY <1>1, ResFacts, Values DEF ResWorkerOK, ResCopyOK, ResTargetOK
  <1>4. \/ Found(w) /\ resWorker' = [w EXCEPT !.step = "update"]
        \/ ~Found(w) /\ resWorker' = [w EXCEPT !.step = "create", !.target = None]
    BY DEF ResVerify
  <1>5. /\ resWorker' \in ResWorkers /\ resWorker'.cr = w.cr /\ resWorker'.obj = o
        /\ resWorker'.netID = w.netID /\ resWorker'.lagged = w.lagged
        /\ \/ Found(w) /\ resWorker'.step = "update" /\ resWorker'.target = w.target
           \/ ~Found(w) /\ resWorker'.step = "create" /\ resWorker'.target = None
    BY <1>3, <1>4, Zenon DEF ResWorkers
  <1>6. VersionOK(resWorker.obj)' /\ Below(resWorker.netID)'
    BY <1>1, <1>3, <1>5, WorkerVersion
  <1>7. /\ w.netID \in NetIDs /\ (res[w.cr].netID # None => res[w.cr].netID <= w.netID)
        /\ w.target \in {o.id, None} /\ (w.target # None => o.netID = w.netID)
        /\ o.id # None /\ w.target # o.id => o.id \notin ress \/ o.netID # w.netID
    BY <1>1, <1>3 DEF ResWorkerOK, ResCopyOK, ResTargetOK
  <1>8. /\ ~Blank(res[w.cr]) /\ (o.netID # None => res[w.cr].netID # None /\ o.netID <= res[w.cr].netID)
        /\ ~w.lagged => res[w.cr].id = o.id
    BY <1>1, <1>3 DEF ResWorkerOK, ResCopyOK, ResTargetOK, Applying
  <1>9. /\ resWorker'.step \in Applying \cup {"finalize"} => Chain("up", resWorker'.cr)
        /\ resWorker'.step \notin {"delRes", "unfinalize"}
    BY <1>1, <1>5 DEF IInv, Chains, Applying
  <1>10. CASE Found(w) /\ resWorker'.step = "update" /\ resWorker'.target = w.target
    <2>1. w.target \in ResIDs /\ w.target < nextRes /\ home[w.target] = w.netID
      BY <1>10 DEF Found, IInv, ResType, RessUsed
    <2>2. ResWorkerOK'
      BY <1>1, <1>3, <1>5, <1>6, <1>7, <1>8, <1>10, <2>1, Zenon DEF ResWorkerOK, ResCopyOK, ResTargetOK, Applying, Blank
    <2> QED
      BY <1>1, <1>2, <1>5, <1>9, <2>2, ResQuietInv
  <1>11. CASE ~Found(w) /\ resWorker'.step = "create" /\ resWorker'.target = None
    <2>1. o.id # None => o.id \notin ress \/ o.netID # w.netID
      BY <1>3, <1>7, <1>11 DEF Found, VersionOK
    <2>2. ResWorkerOK'
      BY <1>1, <1>3, <1>5, <1>6, <1>7, <1>8, <1>11, <2>1, Zenon DEF ResWorkerOK, ResCopyOK, ResTargetOK, Applying, Blank
    <2> QED
      BY <1>1, <1>2, <1>5, <1>9, <2>2, ResQuietInv
  <1> QED
    BY <1>5, <1>10, <1>11

(* The resource that is kept has the recorded pair of ids. *)
LEMMA ResUpdateInv == ASSUME IInv, ResUpdate PROVE IInv'
  <1> DEFINE w == resWorker
             o == resWorker.obj
  <1>1. /\ w.step = "update"
        /\ UNCHANGED <<net, netSeen, netEvents, res, resSeen, resEvents, nets, home, ress, nextNet, nextRes,
                       netWorker, excused>>
    BY DEF ResUpdate, netKube, resKube, netbird
  <1>2. ResourcesAccounted'
    BY <1>1 DEF IInv, ResourcesAccounted
  <1>3. CASE resWorker' = IdleRes
    BY <1>1, <1>2, <1>3, IdleResOK, ResQuietInv
  <1>4. CASE resWorker' = [w EXCEPT !.step = "patch"]
    <2>1. /\ w \in ResWorkers /\ ResWorkerOK /\ w.cr \in Res /\ o \in Resource /\ VersionOK(o) /\ Below(w.netID)
          /\ o # None
      BY <1>1, ResFacts, Values DEF ResWorkerOK, ResCopyOK, ResTargetOK
    <2>2. /\ resWorker' \in ResWorkers /\ resWorker'.cr = w.cr /\ resWorker'.obj = o
          /\ resWorker'.netID = w.netID /\ resWorker'.lagged = w.lagged
          /\ resWorker'.step = "patch" /\ resWorker'.target = w.target
      BY <1>4, <2>1 DEF ResWorkers
    <2>3. VersionOK(resWorker.obj)' /\ Below(resWorker.netID)'
      BY <1>1, <2>1, <2>2, WorkerVersion
    <2>4. /\ w.netID \in NetIDs /\ (res[w.cr].netID # None => res[w.cr].netID <= w.netID)
          /\ w.target \in {o.id, None} /\ w.target \in ResIDs /\ w.target < nextRes /\ home[w.target] = w.netID
      BY <1>1, <2>1 DEF ResWorkerOK, ResCopyOK, ResTargetOK
    <2>5. w.target = o.id /\ w.netID = o.netID
      BY <2>1, <2>4, Values DEF VersionOK
    <2>6. /\ ~Blank(res[w.cr]) /\ (o.netID # None => res[w.cr].netID # None /\ o.netID <= res[w.cr].netID)
          /\ ~w.lagged => res[w.cr].id = o.id
      BY <1>1, <2>1 DEF ResWorkerOK, ResCopyOK, ResTargetOK, Applying
    <2>7. /\ resWorker'.step \in Applying \cup {"finalize"} => Chain("up", resWorker'.cr)
          /\ resWorker'.step \notin {"delRes", "unfinalize"}
      BY <1>1, <2>2 DEF IInv, Chains, Applying
    <2>8. ResWorkerOK'
      BY <1>1, <2>1, <2>2, <2>3, <2>4, <2>5, <2>6, Zenon DEF ResWorkerOK, ResCopyOK, ResTargetOK, Applying, Blank
    <2> QED
      BY <1>1, <1>2, <2>2, <2>7, <2>8, ResQuietInv
  <1> QED
    BY <1>3, <1>4 DEF ResUpdate

(* The recorded resource is deleted. *)
LEMMA ResDeleteInv == ASSUME IInv, ResDelete PROVE IInv'
  <1> DEFINE w == resWorker
             o == resWorker.obj
  <1>1. /\ w.step = "delRes" /\ resWorker' = [w EXCEPT !.step = "unfinalize"]
        /\ ress' = {r \in ress : r # o.id \/ home[r] # o.netID}
        /\ UNCHANGED <<net, netSeen, netEvents, res, resSeen, resEvents, nets, home, nextNet, nextRes,
                       netWorker, excused>>
    BY DEF ResDelete, netKube, resKube
  <1>2. ress' \subseteq ress
    BY <1>1
  <1>3. ResourcesAccounted'
    BY <1>1, <1>2 DEF IInv, ResourcesAccounted
  <1>4. /\ w \in ResWorkers /\ ResWorkerOK /\ w.cr \in Res /\ o \in Resource /\ VersionOK(o) /\ Below(w.netID)
        /\ o # None
    BY <1>1, ResFacts, Values DEF ResWorkerOK, ResCopyOK, ResTargetOK
  <1>5. /\ resWorker' \in ResWorkers /\ resWorker'.cr = w.cr /\ resWorker'.obj = o
        /\ resWorker'.netID = w.netID /\ resWorker'.lagged = w.lagged
        /\ resWorker'.step = "unfinalize" /\ resWorker'.target = w.target
    BY <1>1, <1>4 DEF ResWorkers
  <1>6. VersionOK(resWorker.obj)' /\ Below(resWorker.netID)'
    BY <1>1, <1>4, <1>5, WorkerVersion
  <1>7. o.id # None => o.id \notin ress'
    BY <1>1, <1>4 DEF VersionOK
  <1>8. Dying(o) /\ (~w.lagged /\ res[w.cr] # None => res[w.cr].id \in {o.id, None})
    BY <1>1, <1>4 DEF ResWorkerOK, ResCopyOK, ResTargetOK
  <1>9. ResWorkerOK'
    BY <1>1, <1>4, <1>5, <1>6, <1>7, <1>8 DEF ResWorkerOK, ResCopyOK, ResTargetOK, Applying, Dying
  <1>10. /\ resWorker'.step \notin Applying \cup {"finalize"}
         /\ resWorker'.step \in {"delRes", "unfinalize"} => Chain("down", resWorker'.cr)
    BY <1>1, <1>5 DEF IInv, Chains, Applying
  <1> QED
    BY <1>1, <1>2, <1>3, <1>5, <1>9, <1>10, ResQuietInv

(* A new resource: its id is in no status and in no other hands. *)
LEMMA ResCreateInv == ASSUME IInv, ResCreate PROVE IInv'
  <1> DEFINE w == resWorker
             o == resWorker.obj
  <1>1. w.step = "create" /\ UNCHANGED <<net, netSeen, netEvents, res, resSeen, resEvents, netWorker, excused>>
    BY DEF ResCreate, netKube, resKube
  <1>2. CASE resWorker' = IdleRes /\ UNCHANGED netbird
    <2>1. UNCHANGED <<nets, home, ress, nextNet, nextRes>>
      BY <1>2 DEF netbird
    <2>2. ResourcesAccounted'
      BY <1>1, <2>1 DEF IInv, ResourcesAccounted
    <2> QED
      BY <1>1, <1>2, <2>1, <2>2, IdleResOK, ResQuietInv, Zenon
  <1>3. CASE /\ w.netID \in nets /\ nextRes <= MaxResIDs
             /\ ress' = ress \cup {nextRes}
             /\ home' = [home EXCEPT ![nextRes] = w.netID]
             /\ nextRes' = nextRes + 1
             /\ resWorker' = [w EXCEPT !.step = "patch", !.target = nextRes]
             /\ UNCHANGED <<nets, nextNet>>
    <2>1. /\ w \in ResWorkers /\ ResWorkerOK /\ w.cr \in Res /\ o \in Resource /\ VersionOK(o) /\ Below(w.netID)
          /\ o # None /\ nextRes \in Nat /\ nextNet \in Nat /\ o \in ResVersion /\ o.id \in ResIDs \cup {None}
      BY <1>1, ResFacts, Values DEF ResWorkerOK, ResCopyOK, ResTargetOK, ResVersion, Resource
    <2>2. nextRes \in ResIDs /\ nextRes # None /\ nextRes' \in Nat /\ nextRes < nextRes'
      BY <1>3, <2>1, Values DEF IInv, ResType, ResIDs
    <2>3. /\ home' \in [ResIDs -> NetIDs \cup {None}] /\ home'[nextRes] = w.netID
          /\ \A r \in ResIDs : r # nextRes => home'[r] = home[r]
      BY <1>3, <2>1, <2>2 DEF IInv, ResType, ResWorkers
    <2>4. /\ resWorker' \in ResWorkers /\ resWorker'.cr = w.cr /\ resWorker'.obj = o
          /\ resWorker'.netID = w.netID /\ resWorker'.lagged = w.lagged
          /\ resWorker'.step = "patch" /\ resWorker'.target = nextRes
      BY <1>3, <2>1, <2>2, Zenon DEF ResWorkers
    <2>5. NetType' /\ NetChain' /\ NetFresh' /\ NetWorkerOK' /\ \A n : Below(n)' <=> Below(n)
      <3>1. \A r \in ResIDs : home'[r] \in {home[r], w.netID}
        BY <2>3
      <3> QED
        BY <1>1, <1>3, <2>4, <3>1, ResSide
    <2>6. ASSUME NEW v \in ResVersion, VersionOK(v) PROVE VersionOK(v)'
      <3>1. \A r \in ResIDs : r < nextRes => home'[r] = home[r]
        BY <2>1, <2>3
      <3>2. nextRes <= nextRes'
        BY <2>1, <2>2
      <3> QED
        BY <2>1, <2>2, <2>5, <2>6, <3>1, <3>2, VersionKept
    <2>7. w.netID \in NetIDs /\ (res[w.cr].netID # None => res[w.cr].netID <= w.netID)
      BY <1>1, <2>1 DEF ResWorkerOK, ResCopyOK, ResTargetOK
    <2>8. ResKubeType' /\ Synced' /\ ResVs' = ResVs /\ ResVs \subseteq ResVersion
      BY <1>1, ResVsType DEF IInv, ResKubeType, Synced, ResVs
    <2>9. Versions'
      BY <2>6, <2>8 DEF IInv, Versions
    <2>10. Chains'
      BY <1>1, <2>4, ChainSame DEF Chains, IInv, Applying
    <2>11. ResType'
      <3>1. nextRes' \in 1..(MaxResIDs + 1)
        BY <1>3, <2>1, TreeBounds
      <3>2. ress' \subseteq ResIDs
        BY <1>3, <2>2 DEF IInv, ResType
      <3> QED
        BY <2>3, <2>4, <3>1, <3>2 DEF ResType
    <2>12. \A r \in ResIDs : r \in Nat
      BY Values
    <2>13. HomeOK'
      <3>1. w.netID < nextNet
        BY <2>1, <2>7, Values DEF Below
      <3> SUFFICES ASSUME NEW r \in ResIDs
                   PROVE  IF r < nextRes' THEN home'[r] \in NetIDs /\ home'[r] < nextNet ELSE home'[r] = None
        BY <1>3 DEF HomeOK
      <3>2. CASE r = nextRes
        BY <1>3, <2>1, <2>2, <2>3, <2>7, <3>1, <3>2
      <3>3. CASE r # nextRes
        <4>1. (r < nextRes' <=> r < nextRes) /\ home'[r] = home[r]
          BY <1>3, <2>1, <2>3, <2>12, <3>3
        <4> QED
          BY <4>1 DEF IInv, HomeOK
      <3> QED
        BY <3>2, <3>3
    <2>14. RessUsed'
      BY <1>3, <2>1, <2>2, <2>12 DEF IInv, RessUsed, ResType
    <2>15. ResWorkerOK'
      <3>1. VersionOK(resWorker.obj)' /\ Below(resWorker.netID)'
        <4>1. PICK v \in ResVersion : v = o /\ VersionOK(v)
          BY <2>1
        <4>2. VersionOK(v)'
          BY <2>6, <4>1
        <4>3. PICK n : n = w.netID
          OBVIOUS
        <4>4. Below(n)'
          BY <2>1, <2>5, <4>3
        <4> QED
          BY <2>4, <4>1, <4>2, <4>3, <4>4
      <3>2. /\ ~Blank(res[w.cr]) /\ (o.netID # None => res[w.cr].netID # None /\ o.netID <= res[w.cr].netID)
            /\ ~w.lagged => res[w.cr].id = o.id
        BY <1>1, <2>1, Zenon DEF ResWorkerOK, ResCopyOK, ResTargetOK, Applying
      <3>3. o.id # None => o.id < nextRes /\ o.id # nextRes
        BY <2>1, <2>12 DEF VersionOK
      <3>4. o.id # None => o.id \notin ress' \/ o.netID # w.netID
        BY <1>1, <1>3, <2>1, <2>2, <3>3 DEF ResWorkerOK, ResCopyOK, ResTargetOK
      <3>5. nextRes # o.id /\ nextRes < nextRes'
        BY <2>2, <3>3
      <3> QED
        BY <1>1, <2>1, <2>2, <2>3, <2>4, <2>7, <3>1, <3>2, <3>4, <3>5
           DEF ResWorkerOK, ResCopyOK, ResTargetOK, Applying, Blank
    <2>16. ResourcesAccounted'
      <3> SUFFICES ASSUME NEW r \in ress'
                   PROVE  \/ r \in excused' \/ \E c \in Res : res'[c] # None /\ res'[c].id = r
                          \/ resWorker'.step = "patch" /\ resWorker'.target = r
                          \/ net' = None \/ home'[r] # net'.id
        BY DEF ResourcesAccounted
      <3>1. CASE r = nextRes
        BY <2>4, <3>1
      <3>2. CASE r \in ress /\ r # nextRes
        <4>1. home'[r] = home[r]
          BY <2>3, <3>2 DEF IInv, ResType
        <4> QED
          BY <1>1, <3>2, <4>1 DEF IInv, ResourcesAccounted
      <3> QED
        BY <1>3, <3>1, <3>2
    <2> QED
      BY <2>5, <2>8, <2>9, <2>10, <2>11, <2>13, <2>14, <2>15, <2>16 DEF IInv
  <1> QED
    BY <1>2, <1>3 DEF ResCreate

(* The merge patch completes the pair: the network id in etcd is neither   *)
(* below the copy's nor above the one the reconcile resolved.              *)
LEMMA MergedOK ==
    ASSUME IInv, resWorker.step = "patch", NEW o \in ResVersion, o = res[resWorker.cr]
    PROVE  /\ o \in Resource /\ ~Blank(o) /\ VersionOK(o) /\ resWorker.netID \in NetIDs
           /\ o.netID # None => o.netID <= resWorker.netID
           /\ Merged(o, resWorker) \in Resource
           /\ Merged(o, resWorker).netID = resWorker.netID
           /\ Merged(o, resWorker).finalizer = o.finalizer
           /\ Merged(o, resWorker).deleting = o.deleting
           /\ Merged(o, resWorker).id = (IF resWorker.target = resWorker.obj.id THEN o.id ELSE resWorker.target)
           /\ VersionOK(Merged(o, resWorker))
  <1> DEFINE w  == resWorker
             n2 == IF w.netID = w.obj.netID THEN o.netID ELSE w.netID
             i2 == IF w.target = w.obj.id THEN o.id ELSE w.target
             m  == [o EXCEPT !.netID = n2, !.id = i2]
  <1>1. /\ w \in ResWorkers /\ ResWorkerOK /\ w.cr \in Res /\ w.obj \in Resource /\ VersionOK(w.obj)
        /\ Below(w.netID) /\ w.obj # None /\ VersionOK(o)
    BY ResFacts, Values, Zenon DEF ResWorkerOK, ResCopyOK, ResTargetOK
  <1>2. /\ ~Blank(o) /\ (w.obj.netID # None => o.netID # None /\ w.obj.netID <= o.netID)
        /\ w.netID \in NetIDs /\ (o.netID # None => o.netID <= w.netID)
    BY <1>1 DEF ResWorkerOK, ResCopyOK, ResTargetOK, Applying
  <1>3. /\ w.target \in ResIDs /\ w.target < nextRes /\ home[w.target] = w.netID
        /\ w.netID = w.obj.netID \/ w.target # w.obj.id
    BY <1>1 DEF ResWorkerOK, ResCopyOK, ResTargetOK
  <1>4. /\ o # None /\ o.finalizer /\ o \in Resource
        /\ o.netID \in NetIDs \cup {None} /\ o.id \in ResIDs \cup {None}
    BY <1>2, ResID DEF Blank
  <1>5. w.netID = w.obj.netID => o.netID = w.netID
    <2> SUFFICES ASSUME w.netID = w.obj.netID PROVE o.netID = w.netID
      OBVIOUS
    <2>1. w.netID # None /\ w.netID \in Nat
      BY <1>2, Values
    <2>2. o.netID # None /\ w.netID <= o.netID /\ o.netID <= w.netID
      BY <1>2, <2>1
    <2>3. o.netID \in Nat
      BY <1>4, <2>2, Values
    <2> QED
      BY <2>1, <2>2, <2>3
  <1>6. n2 = w.netID /\ i2 \in ResIDs \cup {None}
    BY <1>3, <1>4, <1>5
  <1>7. i2 # None => i2 < nextRes /\ home[i2] = w.netID
    <2>1. CASE w.target = w.obj.id
      BY <1>1, <1>3, <1>4, <1>5, <2>1 DEF VersionOK
    <2>2. CASE w.target # w.obj.id
      BY <1>3, <2>2
    <2> QED
      BY <2>1, <2>2
  <1>8. Merged(o, w) = m
    BY <1>4 DEF Merged, Resource
  <1> HIDE DEF n2, i2
  <1>9. /\ m \in Resource /\ m.netID = n2 /\ m.id = i2 /\ m.finalizer = o.finalizer /\ m.deleting = o.deleting
    BY <1>2, <1>4, <1>6, Zenon DEF Resource
  <1>10. m # None /\ w.netID # None
    BY <1>2, <1>9, Values
  <1>11. VersionOK(m)
    <2> HIDE DEF m
    <2> QED
      BY <1>1, <1>4, <1>6, <1>7, <1>9, <1>10 DEF VersionOK
  <1>12. i2 = (IF w.target = w.obj.id THEN o.id ELSE w.target)
    BY DEF i2
  <1> QED
    BY <1>1, <1>2, <1>4, <1>6, <1>8, <1>9, <1>11, <1>12, Zenon

(* The status patch: the resource that is replaced is gone or in a network *)
(* that is not the parent's any more, unless the copy lagged.              *)
LEMMA ResPatchInv == ASSUME IInv, ResPatch PROVE IInv'
  <1> DEFINE w == resWorker
  <1>1. /\ w.step = "patch" /\ resWorker' = IdleRes
        /\ UNCHANGED <<net, netSeen, netEvents, nets, home, ress, nextNet, nextRes, netWorker>>
    BY Zenon DEF ResPatch, netKube, netbird
  <1>2. /\ w \in ResWorkers /\ ResWorkerOK /\ w.cr \in Res /\ w.obj \in Resource /\ VersionOK(w.obj)
        /\ Below(w.netID) /\ w.obj # None
    BY <1>1, ResFacts, Values, Zenon DEF ResWorkerOK, ResCopyOK, ResTargetOK
  <1>3. PICK c \in Res : c = w.cr
    BY <1>2
  <1>4. PICK o \in ResVersion : o = res[c]
    BY ResFacts
  <1> DEFINE m == Merged(o, w)
  <1>5. /\ o \in Resource /\ ~Blank(o) /\ VersionOK(o) /\ w.netID \in NetIDs
        /\ o.netID # None => o.netID <= w.netID
        /\ m \in Resource /\ m.netID = w.netID /\ m.finalizer = o.finalizer /\ m.deleting = o.deleting
        /\ m.id = (IF w.target = w.obj.id THEN o.id ELSE w.target) /\ VersionOK(m)
    BY <1>1, <1>3, <1>4, MergedOK
  <1> HIDE DEF m
  <1>6. o # None /\ m # None /\ m \in ResVersion /\ o.netID \in NetIDs \cup {None} /\ o.id \in ResIDs \cup {None}
    BY <1>5, Values DEF ResVersion, Resource
  <1>7. StoreRes(c, m) /\ excused' = IF w.lagged THEN excused \cup {o.id, w.target} ELSE excused
    BY <1>3, <1>4, <1>6 DEF ResPatch, m
  <1>8. ASSUME NEW a \in ResVs, NEW k, Ord(k, a, o) PROVE Ord(k, a, m)
    <2>1. Mono(a, m)
      <3> SUFFICES ASSUME a # None, a.netID # None PROVE w.netID # None /\ a.netID <= w.netID
        BY <1>5 DEF Mono
      <3>1. o.netID # None /\ a.netID <= o.netID /\ o.netID <= w.netID
        BY <1>5, <1>6, <1>8 DEF Ord, Mono, Blank
      <3>2. a \in ResVersion
        BY ResVsType DEF IInv
      <3>3. a.netID \in Nat /\ o.netID \in Nat /\ w.netID \in Nat /\ w.netID # None
        BY <1>5, <1>6, <3>1, <3>2, ResID, Values
      <3> QED
        BY <3>1, <3>3
    <2>2. (Blank(m) <=> Blank(o)) /\ (Dying(m) <=> Dying(o))
      BY <1>5, <1>6 DEF Blank, Dying
    <2> QED
      BY <1>8, <2>1, <2>2 DEF Ord, Up, Down
  <1>9. res'[c] = m /\ \A d \in Res : d # c => res'[d] = res[d]
    BY <1>6, <1>7, StoreForms, Zenon DEF IInv
  <1>10. excused \subseteq excused' /\ (w.lagged => o.id \in excused' /\ w.target \in excused')
    BY <1>7
  <1>11. ~w.lagged => o.id = w.obj.id
    BY <1>1, <1>2, <1>3, <1>4 DEF ResWorkerOK, ResCopyOK, ResTargetOK, Applying
  <1>12. ResourcesAccounted'
    <2> SUFFICES ASSUME NEW r \in ress, r \notin excused',
                        \A d \in Res : ~(res'[d] # None /\ res'[d].id = r), net # None, home[r] = net.id
                 PROVE  FALSE
      BY <1>1 DEF ResourcesAccounted
    <2>1. r \in ResIDs /\ home[r] \in NetIDs /\ home[r] # None /\ r # None
      BY Homes, Values
    <2>2. CASE r = o.id
      <3>1. ~w.lagged /\ o.id = w.obj.id
        BY <1>10, <1>11, <2>2
      <3>2. m.id # r /\ w.target # w.obj.id
        BY <1>5, <1>6, <1>9, <2>2, <3>1
      <3>3. w.obj.netID # w.netID
        BY <1>1, <1>2, <2>1, <2>2, <3>1, <3>2, Zenon DEF ResWorkerOK, ResCopyOK, ResTargetOK
      <3>4. home[r] = w.obj.netID
        BY <1>2, <2>1, <2>2, <3>1 DEF VersionOK
      <3>5. o.netID # None /\ w.obj.netID <= o.netID
        BY <1>1, <1>2, <1>3, <1>4, <2>1, <3>4, Zenon DEF ResWorkerOK, ResCopyOK, ResTargetOK, Applying
      <3>6. w.netID <= net.id
        <4>1. net \in NetVs /\ w.netID # None
          BY <1>5, Values DEF NetVs
        <4> QED
          BY <1>2, <2>1, <4>1 DEF Below
      <3>7. home[r] \in Nat /\ o.netID \in Nat /\ w.netID \in Nat
        BY <1>5, <1>6, <2>1, <3>5, Values
      <3> QED
        BY <1>5, <3>3, <3>4, <3>5, <3>6, <3>7
    <2>3. CASE r = w.target
      BY <1>5, <1>6, <1>9, <1>10, <1>11, <2>3
    <2>4. CASE r # o.id /\ r # w.target
      <3>1. PICK d \in Res : res[d] # None /\ res[d].id = r
        BY <1>10, <2>4 DEF IInv, ResourcesAccounted
      <3>2. d # c
        BY <1>4, <2>4, <3>1
      <3> QED
        BY <1>9, <3>1, <3>2
    <2> QED
      BY <2>2, <2>3, <2>4
  <1>13. \A a \in ResVs : Ord(Mode(c), a, res[c]) => Ord(Mode(c), a, m)
    BY <1>4, <1>8
  <1>14. /\ (resWorker.step \in Applying \cup {"finalize"} => Chain("up", resWorker.cr))'
         /\ (resWorker.step \in {"delRes", "unfinalize"} => Chain("down", resWorker.cr))'
    BY <1>1, IdleResOK
  <1> QED
    BY <1>1, <1>5, <1>6, <1>7, <1>12, <1>13, <1>14, IdleResOK, ResStoreInv

(* The finalizer is set on what was blank, or is there already. *)
LEMMA ResFinalizeInv == ASSUME IInv, ResFinalize PROVE IInv'
  <1> DEFINE w == resWorker
  <1>1. /\ w.step = "finalize"
        /\ UNCHANGED <<net, netSeen, netEvents, nets, home, ress, nextNet, nextRes, netWorker, excused>>
    BY DEF ResFinalize, netKube, netbird
  <1>2. /\ w \in ResWorkers /\ ResWorkerOK /\ w.cr \in Res /\ w.obj \in Resource /\ VersionOK(w.obj)
        /\ Below(w.netID) /\ w.obj # None
    BY <1>1, ResFacts, Values, Zenon DEF ResWorkerOK, ResCopyOK, ResTargetOK
  <1>3. PICK c \in Res : c = w.cr
    BY <1>2
  <1>4. CASE res[c] = None
    <2>1. resWorker' = IdleRes /\ UNCHANGED <<res, resSeen, resEvents>>
      BY <1>3, <1>4 DEF ResFinalize, resKube
    <2>2. ResourcesAccounted'
      BY <1>1, <2>1 DEF IInv, ResourcesAccounted
    <2> QED
      BY <1>1, <2>1, <2>2, IdleResOK, ResQuietInv
  <1>5. CASE res[c] # None
    <2>1. PICK o \in Resource : o = res[c] /\ VersionOK(o)
      BY <1>5, ResFacts, ResID
    <2> DEFINE m == [o EXCEPT !.finalizer = TRUE]
    <2>2. /\ m \in Resource /\ m.id = o.id /\ m.netID = o.netID /\ m.deleting = o.deleting /\ m.finalizer
          /\ (o.finalizer => m = o) /\ o # None
      BY <2>1, Values, Zenon DEF Resource
    <2>3. StoreRes(c, m) /\ resWorker' = [w EXCEPT !.step = "resolve"]
      BY <1>3, <1>5, <2>1 DEF ResFinalize
    <2> HIDE DEF m
    <2>4. m # None /\ m \in ResVersion
      BY <2>2, Values DEF ResVersion
    <2>5. VersionOK(m)
      BY <2>1, <2>2, <2>4 DEF VersionOK
    <2>6. ASSUME NEW a \in ResVs, Ord("up", a, o) PROVE Ord("up", a, m)
      <3>1. CASE o.finalizer
        BY <2>2, <2>6, <3>1
      <3>2. CASE ~o.finalizer
        <4>1. Blank(a)
          BY <2>6, <3>2 DEF Ord, Up, Blank
        <4>2. a # None => a.netID = None
          BY <4>1 DEF IInv, Versions, VersionOK, Blank
        <4> QED
          BY <4>1, <4>2 DEF Ord, Up, Mono, Blank, Dying
      <3> QED
        BY <3>1, <3>2
    <2>7. Chain("up", c)
      BY <1>1, <1>3 DEF IInv, Chains
    <2>8. \A a \in ResVs : Ord(Mode(c), a, res[c]) => Ord(Mode(c), a, m)
      <3>1. CASE Mode(c) = "up"
        BY <2>1, <2>6, <3>1
      <3>2. CASE Dying(resSeen[c])
        <4>1. Dying(o)
          BY <2>1, <2>7, <3>2 DEF Chain, Ord, Up
        <4> QED
          BY <2>1, <2>2, <4>1 DEF Dying
      <3> QED
        BY <3>1, <3>2 DEF Mode
    <2>9. Chain("up", c)'
      <3>1. Ord("up", m, m)
        BY <2>4, OrdSame
      <3> QED
        BY <2>1, <2>3, <2>4, <2>6, <2>7, <3>1, StoreChain DEF IInv
    <2>10. /\ resWorker' \in ResWorkers /\ resWorker'.cr = c /\ resWorker'.obj = w.obj
           /\ resWorker'.netID = w.netID /\ resWorker'.lagged = w.lagged
           /\ resWorker'.step = "resolve" /\ resWorker'.target = w.target
      BY <1>2, <1>3, <2>3 DEF ResWorkers
    <2>11. /\ (resWorker.step \in Applying \cup {"finalize"} => Chain("up", resWorker.cr))'
           /\ (resWorker.step \in {"delRes", "unfinalize"} => Chain("down", resWorker.cr))'
      BY <2>9, <2>10
    <2>12. res'[c] = m /\ \A d \in Res : d # c => res'[d] = res[d]
      BY <2>3, <2>4, StoreForms, Zenon DEF IInv
    <2>13. ResourcesAccounted'
      <3>1. \A d \in Res : res[d] # None => res'[d] # None /\ res'[d].id = res[d].id
        BY <2>1, <2>2, <2>4, <2>12
      <3> QED
        BY <1>1, <3>1 DEF IInv, ResourcesAccounted
    <2>14. ResWorkerOK'
      <3>1. VersionOK(resWorker.obj)' /\ Below(resWorker.netID)'
        BY <1>1, <1>2, <2>10, WorkerVersion
      <3>2. w.obj.id = None /\ w.obj.netID = None
        BY <1>1, <1>2 DEF ResWorkerOK, ResCopyOK, ResTargetOK, VersionOK
      <3>3. ~w.lagged => m.id = None
        BY <1>1, <1>2, <1>3, <2>1, <2>2 DEF ResWorkerOK, ResCopyOK, ResTargetOK, Blank, VersionOK
      <3> QED
        BY <1>2, <2>2, <2>4, <2>10, <2>12, <3>1, <3>2, <3>3, Zenon DEF ResWorkerOK, ResCopyOK, ResTargetOK, Applying, Blank
    <2> QED
      BY <1>1, <2>3, <2>4, <2>5, <2>8, <2>10, <2>11, <2>13, <2>14, ResStoreInv
  <1> QED
    BY <1>4, <1>5

(* The finalizer is taken from an object whose resource is gone; a         *)
(* successor that was created meanwhile is blank and stays as it is.       *)
LEMMA ResUnfinalizeInv == ASSUME IInv, ResUnfinalize PROVE IInv'
  <1> DEFINE w == resWorker
  <1>1. /\ w.step = "unfinalize" /\ resWorker' = IdleRes
        /\ UNCHANGED <<net, netSeen, netEvents, nets, home, ress, nextNet, nextRes, netWorker>>
    BY Zenon DEF ResUnfinalize, netKube, netbird
  <1>2. /\ ResWorkerOK /\ w.cr \in Res
    BY <1>1, ResFacts, Zenon DEF ResWorkerOK, ResCopyOK, ResTargetOK
  <1>3. PICK c \in Res : c = w.cr
    BY <1>2
  <1>4. PICK o \in ResVersion : o = res[c] /\ VersionOK(o)
    BY ResFacts
  <1>5. Chain("down", c)
    BY <1>1, <1>3 DEF IInv, Chains
  <1>6. (Blank(o) \/ Dying(o)) /\ (Dying(o) => Dying(resSeen[c]))
    BY <1>4, <1>5 DEF Chain, Ord, Down
  <1> DEFINE m == Unfinalized(o)
  <1>7. m = IF Dying(o) THEN None ELSE o
    <2>1. CASE Dying(o)
      BY <2>1 DEF Unfinalized, Dying
    <2>2. CASE o = None
      BY <2>2 DEF Unfinalized, Dying
    <2>3. CASE o # None /\ ~o.finalizer
      <3>1. o \in Resource /\ o.finalizer = FALSE /\ ~o.deleting
        BY <1>4, <2>3, ResID DEF VersionOK
      <3>2. [o EXCEPT !.finalizer = FALSE] = o
        BY <3>1 DEF Resource
      <3> QED
        BY <2>3, <3>1, <3>2 DEF Unfinalized, Dying
    <2> QED
      BY <1>6, <2>1, <2>2, <2>3 DEF Blank
  <1>8. /\ StoreRes(c, m)
        /\ excused' = IF w.lagged /\ o # None THEN excused \cup {o.id} ELSE excused
    BY <1>3, <1>4 DEF ResUnfinalize
  <1> HIDE DEF m
  <1>9. m \in ResVersion /\ VersionOK(m)
    BY <1>4, <1>7 DEF ResVersion, VersionOK
  <1>10. \A a \in ResVs : Ord(Mode(c), a, res[c]) => Ord(Mode(c), a, m)
    <2>1. CASE Dying(o)
      BY <1>4, <1>6, <1>7, <2>1 DEF Mode, Ord, Mono, Down, Blank, Dying
    <2>2. CASE ~Dying(o)
      BY <1>4, <1>7, <2>2
    <2> QED
      BY <2>1, <2>2
  <1>11. res'[c] = m /\ \A d \in Res : d # c => res'[d] = res[d]
    BY <1>8, <1>9, StoreForms, Zenon DEF IInv
  <1>12. ResourcesAccounted'
    <2> SUFFICES ASSUME NEW r \in ress, r \notin excused',
                        \A d \in Res : ~(res'[d] # None /\ res'[d].id = r), net # None, home[r] = net.id
                 PROVE  FALSE
      BY <1>1 DEF ResourcesAccounted
    <2>1. PICK d \in Res : res[d] # None /\ res[d].id = r
      BY <1>1, <1>8, Zenon DEF IInv, ResourcesAccounted
    <2>2. d = c /\ Dying(o) /\ o.id = r
      BY <1>4, <1>7, <1>11, <2>1, Zenon
    <2>3. ~w.lagged /\ o # None
      BY <1>8, <2>2 DEF Dying
    <2>4. r # None
      BY Homes, Values
    <2> QED
      BY <1>1, <1>2, <1>3, <1>4, <2>2, <2>3, <2>4, Zenon DEF ResWorkerOK, ResCopyOK, ResTargetOK
  <1>13. /\ (resWorker.step \in Applying \cup {"finalize"} => Chain("up", resWorker.cr))'
         /\ (resWorker.step \in {"delRes", "unfinalize"} => Chain("down", resWorker.cr))'
    BY <1>1, IdleResOK
  <1> QED
    BY <1>1, <1>8, <1>9, <1>10, <1>12, <1>13, IdleResOK, ResStoreInv, Zenon

-----------------------------------------------------------------------------
(* What a user writes, by what was there. *)
UserWrite(old, o) ==
    \/ old = None /\ o = NewResource
    \/ old # None /\ ~old.deleting /\ o = Deleted(old)

(* A new object is blank; an object that is deleted keeps its ids while it *)
(* has its finalizer.                                                      *)
LEMMA UserWriteOK ==
    ASSUME NEW old \in ResVersion, VersionOK(old), NEW o, UserWrite(old, o)
    PROVE  /\ o \in ResVersion /\ VersionOK(o) /\ (Blank(old) => Blank(o))
           /\ ~Blank(old) => ~Blank(o) /\ o.netID = old.netID /\ o.id = old.id
           /\ o # None => o.id = None \/ (old # None /\ o.id = old.id)
           /\ old # None /\ old.id # None => o # None /\ o.id = old.id
           /\ \A k \in {"up", "down"} : \A a : Ord(k, a, old) => Ord(k, a, o)
  <1>1. CASE old = None /\ o = NewResource
    <2>1. /\ o \in Resource /\ o # None /\ o.id = None /\ o.netID = None /\ ~o.finalizer /\ ~o.deleting
      <3>1. NewResource \in Resource
        BY DEF NewResource, Resource
      <3>2. /\ NewResource.id = None /\ NewResource.netID = None
            /\ NewResource.finalizer = FALSE /\ NewResource.deleting = FALSE
        BY DEF NewResource
      <3> HIDE DEF NewResource
      <3> QED
        BY <1>1, <3>1, <3>2, Values
    <2>2. VersionOK(o)
      BY <2>1 DEF VersionOK, Below
    <2>3. Blank(o) /\ ~Dying(o) /\ Blank(old)
      BY <1>1, <2>1 DEF Blank, Dying
    <2>4. \A k \in {"up", "down"} : \A a : Ord(k, a, old) => Ord(k, a, o)
      BY <2>1, <2>3 DEF Ord, Mono, Up, Down, Blank, Dying
    <2> QED
      BY <1>1, <2>1, <2>2, <2>3, <2>4 DEF ResVersion
  <1>2. CASE old # None /\ ~old.deleting /\ ~old.finalizer
    <2>1. o = None /\ Blank(old) /\ old.id = None
      BY <1>2 DEF UserWrite, Deleted, Blank, VersionOK
    <2>2. \A k \in {"up", "down"} : \A a : Ord(k, a, old) => Ord(k, a, o)
      BY <2>1 DEF Ord, Mono, Up, Down, Blank, Dying
    <2> QED
      BY <2>1, <2>2 DEF ResVersion, VersionOK, Blank
  <1>3. CASE old # None /\ ~old.deleting /\ old.finalizer
    <2>1. old \in Resource /\ o = [old EXCEPT !.deleting = TRUE]
      BY <1>3, ResID DEF UserWrite, Deleted
    <2>2. /\ o \in Resource /\ o # None /\ o.id = old.id /\ o.netID = old.netID /\ o.deleting /\ o.finalizer
      BY <1>3, <2>1, Values, Zenon DEF Resource
    <2>3. VersionOK(o) /\ ~Blank(o) /\ Dying(o) /\ ~Blank(old) /\ ~Dying(old)
      BY <1>3, <2>2 DEF VersionOK, Blank, Dying
    <2>4. \A k \in {"up", "down"} : \A a : Ord(k, a, old) => Ord(k, a, o)
      <3>1. \A a : Mono(a, old) => Mono(a, o)
        BY <1>3, <2>2 DEF Mono
      <3> QED
        BY <2>3, <3>1 DEF Ord, Up, Down
    <2> QED
      BY <1>3, <2>2, <2>3, <2>4 DEF ResVersion
  <1> QED
    BY <1>1, <1>2, <1>3 DEF UserWrite

(* A user creates or deletes a NetworkResource. *)
LEMMA ResUserInv ==
    ASSUME IInv, NEW c \in Res, NEW o, UserWrite(res[c], o), StoreRes(c, o),
           UNCHANGED <<netKube, netbird, netWorker, resWorker, excused>>
    PROVE  IInv'
  <1> DEFINE w == resWorker
  <1>1. UNCHANGED <<net, netSeen, netEvents, nets, home, ress, nextNet, nextRes, netWorker, resWorker, excused>>
    BY DEF netKube, netbird
  <1>2. PICK old \in ResVersion : old = res[c] /\ VersionOK(old)
    BY ResFacts
  <1>3. /\ o \in ResVersion /\ VersionOK(o) /\ (Blank(old) => Blank(o))
        /\ ~Blank(old) => ~Blank(o) /\ o.netID = old.netID /\ o.id = old.id
        /\ o # None => o.id = None \/ (old # None /\ o.id = old.id)
        /\ old # None /\ old.id # None => o # None /\ o.id = old.id
        /\ \A k \in {"up", "down"} : \A a : Ord(k, a, old) => Ord(k, a, o)
    BY <1>2, UserWriteOK
  <1>4. res'[c] = o /\ \A d \in Res : d # c => res'[d] = res[d]
    BY <1>3, StoreForms, Zenon DEF IInv
  <1>5. \A a \in ResVs : Ord(Mode(c), a, res[c]) => Ord(Mode(c), a, o)
    BY <1>2, <1>3 DEF Mode
  <1>6. ASSUME NEW d \in Res, NEW k \in {"up", "down"}, Chain(k, d) PROVE Chain(k, d)'
    <2>1. CASE d # c
      BY <1>3, <1>6, <2>1, OtherChain DEF IInv
    <2>2. CASE d = c
      <3>1. Ord(k, resSeen[c], o)
        BY <1>2, <1>3, <1>6, <2>2 DEF Chain
      <3>2. Ord(k, o, o)
        BY <1>3, <3>1, OrdSame DEF Ord, Down
      <3> QED
        BY <1>2, <1>3, <1>6, <2>2, <3>2, StoreChain DEF IInv
    <2> QED
      BY <2>1, <2>2
  <1>7. w \in ResWorkers /\ ResWorkerOK /\ (w.step # "idle" => w.cr \in Res)
    BY ResFacts, Zenon DEF ResWorkerOK, ResCopyOK, ResTargetOK
  <1>8. (resWorker.step \in Applying \cup {"finalize"} => Chain("up", resWorker.cr))'
    <2> SUFFICES ASSUME w.step \in Applying \cup {"finalize"} PROVE Chain("up", resWorker.cr)'
      BY <1>1
    <2>1. PICK d \in Res : d = w.cr
      BY <1>7 DEF Applying
    <2>2. Chain("up", d)'
      BY <1>6, <2>1 DEF IInv, Chains
    <2> QED
      BY <1>1, <2>1, <2>2
  <1>9. (resWorker.step \in {"delRes", "unfinalize"} => Chain("down", resWorker.cr))'
    <2> SUFFICES ASSUME w.step \in {"delRes", "unfinalize"} PROVE Chain("down", resWorker.cr)'
      BY <1>1
    <2>1. PICK d \in Res : d = w.cr
      BY <1>7
    <2>2. Chain("down", d)'
      BY <1>6, <2>1 DEF IInv, Chains
    <2> QED
      BY <1>1, <2>1, <2>2
  <1>10. ResourcesAccounted'
    <2>1. \A d \in Res : res[d] # None /\ res[d].id # None => res'[d] # None /\ res'[d].id = res[d].id
      BY <1>2, <1>3, <1>4
    <2>2. \A r \in ress : r # None
      BY Homes, Values
    <2> QED
      BY <1>1, <2>1, <2>2 DEF IInv, ResourcesAccounted
  <1>11. ResWorkerOK'
    <2>1. (w.step # "idle" => VersionOK(resWorker.obj)') /\ Below(resWorker.netID)'
      BY <1>1, <1>7, WorkerVersion, Zenon DEF ResWorkerOK, ResCopyOK, ResTargetOK
    <2>2. CASE w.step = "idle"
      BY <1>1, <2>1, <2>2, Zenon DEF ResWorkerOK, ResCopyOK, ResTargetOK, Applying
    <2>3. CASE w.step # "idle" /\ w.cr # c
      <3>1. res'[w.cr] = res[w.cr]
        BY <1>4, <1>7, <2>3
      <3>2. /\ Blank(res[resWorker.cr])' <=> Blank(res[resWorker.cr])
            /\ Dying(resWorker.obj)' <=> Dying(resWorker.obj)
        BY <1>1, <3>1 DEF Blank, Dying
      <3>3. ResCopyOK'
        BY <1>1, <1>7, <2>1, <2>3, <3>1, <3>2, Zenon DEF ResWorkerOK, ResCopyOK
      <3>4. ResTargetOK'
        BY <1>1, <1>7, <2>3, <3>1, Zenon DEF ResWorkerOK, ResTargetOK
      <3> QED
        BY <3>3, <3>4 DEF ResWorkerOK
    <2>4. CASE w.step = "finalize" /\ w.cr = c
      <3>1. ~w.lagged => Blank(o)
        BY <1>2, <1>3, <1>7, <2>4, Zenon DEF ResWorkerOK, ResCopyOK, ResTargetOK
      <3> QED
        BY <1>1, <1>4, <1>7, <2>1, <2>4, <3>1, Zenon DEF ResWorkerOK, ResCopyOK, ResTargetOK, Blank, Applying
    <2>5. CASE w.step \in Applying /\ w.cr = c
      <3>1. ~Blank(o) /\ o.netID = old.netID /\ o.id = old.id
        BY <1>2, <1>3, <1>7, <2>5, Zenon DEF ResWorkerOK, ResCopyOK, ResTargetOK
      <3>2. res'[w.cr] = o /\ res[w.cr] = old
        BY <1>2, <1>4, <2>5
      <3> QED
        BY <1>1, <1>7, <2>1, <2>5, <3>1, <3>2, Zenon DEF ResWorkerOK, ResCopyOK, ResTargetOK, Blank, Applying
    <2>6. CASE w.step \in {"delRes", "unfinalize"} /\ w.cr = c
      <3>1. ~w.lagged /\ o # None => o.id \in {w.obj.id, None}
        BY <1>2, <1>3, <1>7, <2>6, Zenon DEF ResWorkerOK, ResCopyOK, ResTargetOK
      <3> QED
        BY <1>1, <1>4, <1>7, <2>1, <2>6, <3>1, Zenon DEF ResWorkerOK, ResCopyOK, ResTargetOK, Dying, Applying
    <2> QED
      BY <1>7, <2>2, <2>3, <2>4, <2>5, <2>6 DEF ResWorkers, Applying
  <1> QED
    BY <1>1, <1>3, <1>5, <1>7, <1>8, <1>9, <1>10, <1>11, ResStoreInv

(* An event of a NetworkResource reaches the informer. *)
LEMMA ResDeliverInv ==
    ASSUME IInv, UNCHANGED <<res, netKube, netbird, netWorker, resWorker, excused>>, resEvents # <<>>,
           resSeen' = [resSeen EXCEPT ![Head(resEvents).cr] = Head(resEvents).obj],
           resEvents' = Tail(resEvents)
    PROVE  IInv'
  <1>1. UNCHANGED <<net, netSeen, netEvents, nets, home, ress, nextNet, nextRes, res, netWorker, resWorker, excused>>
    BY DEF netKube, netbird
  <1>2. resWorker \in ResWorkers /\ ResWorkerOK /\ (resWorker.step # "idle" => resWorker.cr \in Res)
    BY ResFacts, Zenon DEF ResWorkerOK, ResCopyOK, ResTargetOK
  <1>3. ResKubeType' /\ Synced' /\ ResVs' \subseteq ResVs /\ Chains'
    BY <1>1, <1>2, DeliverResOK, Zenon DEF IInv
  <1>4. NetType' /\ NetChain' /\ NetFresh' /\ NetWorkerOK' /\ \A n : Below(n)' <=> Below(n)
    BY <1>1, ResSide
  <1>5. Versions'
    BY <1>1, <1>3, <1>4, VersionSame DEF IInv, Versions
  <1>6. ResType' /\ HomeOK' /\ RessUsed' /\ ResourcesAccounted'
    BY <1>1 DEF IInv, ResType, HomeOK, RessUsed, ResourcesAccounted
  <1>7. ResWorkerOK'
    <2>1. (resWorker.step # "idle" => VersionOK(resWorker.obj)') /\ Below(resWorker.netID)'
      BY <1>1, <1>2, WorkerVersion, Zenon DEF ResWorkerOK, ResCopyOK, ResTargetOK
    <2> QED
      BY <1>1, <1>2, <2>1, WorkerSame
  <1> QED
    BY <1>3, <1>4, <1>5, <1>6, <1>7 DEF IInv

(* A call fails: what the reconcile had in hand is excused. *)
LEMMA CallFailsInv == ASSUME IInv, CallFails PROVE IInv'
  <1>1. UNCHANGED <<net, netSeen, netEvents, res, resSeen, resEvents, nets, home, ress, nextNet, nextRes>>
    BY DEF CallFails, netKube, resKube, netbird
  <1>2. CASE netWorker' = IdleNet /\ UNCHANGED <<resWorker, excused>>
    BY <1>1, <1>2, IdleNetOK, NetQuietInv
  <1>3. CASE resWorker' = IdleRes /\ excused' = excused \cup {resWorker.target} /\ UNCHANGED netWorker
    <2>1. ResourcesAccounted'
      BY <1>1, <1>3 DEF IInv, ResourcesAccounted
    <2> QED
      BY <1>1, <1>3, <2>1, IdleResOK, ResQuietInv
  <1> QED
    BY <1>2, <1>3 DEF CallFails

(* After a restart the informers show what is in etcd. *)
LEMMA CrashInv == ASSUME IInv, Crash PROVE IInv'
  <1>1. /\ netWorker' = IdleNet /\ resWorker' = IdleRes /\ netSeen' = net /\ netEvents' = <<>>
        /\ resSeen' = res /\ resEvents' = <<>> /\ excused' = excused \cup {resWorker.target}
        /\ UNCHANGED <<net, res, nets, home, ress, nextNet, nextRes>>
    BY DEF Crash, netbird
  <1>2. Len(netEvents') = 0 /\ Len(resEvents') = 0
    BY <1>1
  <1>3. NetVs' = {net} /\ net \in NetVs /\ net \in NetVersion
    BY <1>1, <1>2 DEF IInv, NetType, NetVs
  <1>4. \A n : Below(n) => Below(n)'
    BY <1>1, <1>3 DEF Below
  <1>5. NetType' /\ NetFresh' /\ NetWorkerOK'
    BY <1>1, <1>3, IdleNetOK DEF IInv, NetType
  <1>6. NetChain'
    <2>1. NetLeq(net, net)
      BY <1>3, NetID, Values DEF NetLeq
    <2>2. NetLeq(netSeen, net)'
      BY <1>1, <2>1 DEF NetLeq
    <2> QED
      BY <1>1, <1>2, <1>3, <2>2, TreeBounds DEF IInv, NetChain
  <1>7. ResKubeType' /\ ResType' /\ HomeOK' /\ RessUsed' /\ ResWorkerOK' /\ resWorker'.step = "idle"
    BY <1>1, IdleResOK DEF IInv, ResKubeType, ResType, HomeOK, RessUsed
  <1>8. ResVs' \subseteq ResVs /\ ResVs \subseteq ResVersion
    <2>1. \A v \in ResVs' : \E c \in Res : v = res[c]
      BY <1>1, <1>2 DEF ResVs
    <2>2. ResVs \subseteq ResVersion
      BY ResVsType DEF IInv
    <2> QED
      BY <2>1, <2>2, Zenon DEF ResVs
  <1>9. Synced'
    BY <1>1, <1>2, TreeBounds DEF Synced
  <1>10. Versions'
    <2>1. nextRes \in Nat /\ nextRes' \in Nat /\ nextRes <= nextRes'
      BY <1>1, ResFacts
    <2>2. ASSUME NEW v \in ResVersion, VersionOK(v) PROVE VersionOK(v)'
      BY <1>1, <1>4, <2>1, <2>2, VersionKept
    <2> QED
      BY <1>8, <2>2 DEF IInv, Versions
  <1>11. Chains'
    <2>1. ASSUME NEW c \in Res PROVE Chain(Mode(c), c)'
      <3>1. PICK o \in ResVersion : o = res[c]
        BY ResFacts
      <3>2. PICK k \in {"up", "down"} : k = (IF Dying(o) THEN "down" ELSE "up")
        OBVIOUS
      <3>3. Mode(c)' = k
        BY <1>1, <3>1, <3>2 DEF Mode, Dying
      <3>4. Ord(k, o, o)
        BY <3>2, OrdSame
      <3>5. Chain(k, c)'
        BY <1>1, <1>2, <3>1, <3>4, PrimedChain
      <3> QED
        BY <3>3, <3>5
    <2> QED
      BY <1>7, <2>1 DEF Chains, Applying
  <1>12. ResourcesAccounted'
    BY <1>1 DEF IInv, ResourcesAccounted
  <1> QED
    BY <1>5, <1>6, <1>7, <1>9, <1>10, <1>11, <1>12 DEF IInv

-----------------------------------------------------------------------------
(* At first nothing is recorded, seen or created. *)
LEMMA InitInv == ASSUME Init PROVE IInv
  <1>1. /\ NewNetwork \in NetVersion /\ NewNetwork.id = None
    BY DEF NewNetwork, NetVersion, Network
  <1>2. /\ NewResource \in ResVersion /\ NewResource \in Resource
        /\ NewResource.id = None /\ NewResource.netID = None
        /\ NewResource.finalizer = FALSE /\ NewResource.deleting = FALSE
    BY DEF NewResource, ResVersion, Resource
  <1>3. Len(netEvents) = 0 /\ Len(resEvents) = 0 /\ netEvents = <<>> /\ resEvents = <<>>
    BY DEF Init
  <1>4. net = NewNetwork /\ netSeen = NewNetwork /\ nextNet = 1 /\ nextRes = 1 /\ ress = {} /\ nets = {}
    BY DEF Init
  <1>5. res = [c \in Res |-> NewResource] /\ resSeen = [c \in Res |-> NewResource]
    BY DEF Init
  <1>6. home = [r \in ResIDs |-> None] /\ netWorker = IdleNet /\ resWorker = IdleRes
    BY DEF Init
  <1> HIDE DEF NewNetwork, NewResource
  <1>7. NetType
    <2>1. IdleNet \in NetWorkers /\ 1 \in 1..(MaxNets + 1)
      BY TreeBounds DEF IdleNet, NetWorkers, NetVersion
    <2> QED
      BY <1>1, <1>3, <1>4, <1>6, <2>1 DEF NetType
  <1>8. ResKubeType
    BY <1>2, <1>3, <1>5 DEF ResKubeType
  <1>9. ResType /\ resWorker.step = "idle" /\ resWorker.netID = None
    <2>1. IdleRes \in ResWorkers /\ 1 \in 1..(MaxResIDs + 1) /\ IdleRes.step = "idle" /\ IdleRes.netID = None
      BY TreeBounds DEF IdleRes, ResWorkers, ResVersion
    <2> QED
      BY <1>4, <1>6, <2>1 DEF ResType
  <1>10. NetVs = {NewNetwork}
    BY <1>3, <1>4 DEF NetVs
  <1>11. NetChain
    BY <1>1, <1>3, <1>4, <1>10, TreeBounds DEF NetChain, NetLeq
  <1>12. netWorker.step = "idle"
    BY <1>6 DEF IdleNet
  <1>13. NetFresh /\ NetWorkerOK
    BY <1>12 DEF NetFresh, NetWorkerOK
  <1>14. HomeOK /\ RessUsed
    BY <1>4, <1>6 DEF HomeOK, RessUsed, ResIDs
  <1>15. \A c \in Res : res[c] = NewResource /\ resSeen[c] = NewResource
    BY <1>5, Zenon
  <1>16. Versions
    <2>1. \A v \in ResVs : v = NewResource
      BY <1>3, <1>15 DEF ResVs
    <2>2. VersionOK(NewResource)
      BY <1>2 DEF VersionOK, Below
    <2> QED
      BY <2>1, <2>2 DEF Versions
  <1>17. Chains
    <2>1. ~Dying(NewResource) /\ Ord("up", NewResource, NewResource)
      BY <1>2, OrdSame DEF Dying
    <2>2. ASSUME NEW c \in Res PROVE Chain(Mode(c), c)
      <3>1. Mode(c) = "up"
        BY <1>15, <2>1 DEF Mode
      <3>2. Chain("up", c)
        BY <1>3, <1>15, <2>1 DEF Chain
      <3> QED
        BY <3>1, <3>2
    <2> QED
      BY <1>9, <2>2 DEF Chains, Applying
  <1>18. Synced
    BY <1>3, <1>15, TreeBounds DEF Synced
  <1>19. ResWorkerOK
    BY <1>9 DEF ResWorkerOK, ResCopyOK, ResTargetOK, Applying, Below
  <1>20. ResourcesAccounted
    BY <1>4 DEF ResourcesAccounted
  <1> QED
    BY <1>7, <1>8, <1>9, <1>11, <1>13, <1>14, <1>16, <1>17, <1>18, <1>19, <1>20 DEF IInv

(* Steps of a user and of the watches, by the kind they concern. *)
LEMMA KubeInv == ASSUME IInv, User \/ Deliver PROVE IInv'
  <1>1. CASE User
    <2>1. UNCHANGED <<netbird, netWorker, resWorker, excused>>
      BY <1>1 DEF User
    <2>2. CASE NetUser /\ UNCHANGED resKube
      BY <2>1, <2>2, NetUserInv
    <2>3. CASE \E c \in Res : res[c] = None /\ StoreRes(c, NewResource) /\ UNCHANGED netKube
      <3>1. PICK c \in Res : res[c] = None /\ StoreRes(c, NewResource) /\ UNCHANGED netKube
        BY <2>3
      <3>2. UserWrite(res[c], NewResource)
        BY <3>1 DEF UserWrite
      <3> HIDE DEF NewResource
      <3> QED
        BY <2>1, <3>1, <3>2, ResUserInv
    <2>4. CASE \E c \in Res : /\ res[c] # None /\ ~res[c].deleting
                              /\ StoreRes(c, Deleted(res[c])) /\ UNCHANGED netKube
      <3>1. PICK c \in Res : /\ res[c] # None /\ ~res[c].deleting
                             /\ StoreRes(c, Deleted(res[c])) /\ UNCHANGED netKube
        BY <2>4
      <3>2. PICK o : o = Deleted(res[c])
        OBVIOUS
      <3>3. UserWrite(res[c], o) /\ StoreRes(c, o)
        BY <3>1, <3>2 DEF UserWrite
      <3> QED
        BY <2>1, <3>1, <3>3, ResUserInv
    <2> QED
      BY <1>1, <2>2, <2>3, <2>4 DEF User, NetUser
  <1>2. CASE Deliver
    BY <1>2, NetDeliverInv, ResDeliverInv DEF Deliver
  <1> QED
    BY <1>1, <1>2

(* A step that changes nothing. *)
LEMMA StutterInv == ASSUME IInv, UNCHANGED vars PROVE IInv'
  <1>1. UNCHANGED <<net, netSeen, netEvents, res, resSeen, resEvents, nets, home, ress, nextNet, nextRes,
                    netWorker, resWorker, excused>>
    BY DEF vars, netKube, resKube, netbird
  <1>2. netWorker \in NetWorkers /\ NetWorkerOK /\ NetFresh
    BY DEF IInv, NetType
  <1>3. NetVs' = NetVs
    BY <1>1 DEF NetVs
  <1>4. NetWorkerOK' /\ NetFresh'
    BY <1>1, <1>2, <1>3 DEF NetWorkerOK, NetFresh, Unrecorded
  <1> QED
    BY <1>1, <1>2, <1>4, NetQuietInv

(* Every step keeps the invariant. *)
LEMMA NextInv == ASSUME IInv, [Next]_vars PROVE IInv'
  <1>1. CASE User \/ Deliver
    BY <1>1, KubeInv
  <1>2. CASE Admin \/ NetDelete
    BY <1>2, NetBirdInv
  <1>3. CASE NetStart \/ NetVerify \/ NetUpdate
    BY <1>3, NetReads
  <1>4. CASE NetFinalize \/ NetUnfinalize
    BY <1>4, NetFlags
  <1>5. CASE NetCreate
    BY <1>5, NetCreateInv
  <1>6. CASE NetPatch
    BY <1>6, NetPatchInv
  <1>7. CASE \E c \in Res : ResStart(c)
    BY <1>7, ResStartInv
  <1>8. CASE ResFinalize \/ ResResolve \/ ResVerify \/ ResUpdate
    BY <1>8, ResFinalizeInv, ResResolveInv, ResVerifyInv, ResUpdateInv
  <1>9. CASE ResCreate \/ ResPatch \/ ResDelete \/ ResUnfinalize
    BY <1>9, ResCreateInv, ResPatchInv, ResDeleteInv, ResUnfinalizeInv
  <1>10. CASE CallFails \/ Crash
    BY <1>10, CallFailsInv, CrashInv
  <1>11. CASE UNCHANGED vars
    BY <1>11, StutterInv
  <1> QED
    BY <1>1, <1>2, <1>3, <1>4, <1>5, <1>6, <1>7, <1>8, <1>9, <1>10, <1>11 DEF Next, NetStep, ResStep

(* The invariant holds of every behaviour, with any number of objects and  *)
(* ids, any lag of the two watches, and faults at any step.                *)
THEOREM Invariance == Spec => []IInv
  <1>1. Init => IInv
    BY InitInv
  <1>2. IInv /\ [Next]_vars => IInv'
    BY NextInv
  <1> QED
    BY <1>1, <1>2, PTL DEF Spec

(* The two ids in a status always belong together, although the merge      *)
(* patch of applyNetworkResource sends each only if it differs from the    *)
(* copy's, into an object that may have moved on.                          *)
THEOREM PairsBelongTogether == Spec => []PairConsistent
  <1>1. IInv => PairConsistent
    BY ResFacts DEF PairConsistent, VersionOK
  <1> QED
    BY <1>1, Invariance, PTL

(* applyNetworkResource and deleteNetworkResource lose no NetBird resource *)
(* that is in the parent's network, except to a lagging copy or a fault.   *)
THEOREM ResourcesNotLost == Spec => []ResourcesAccounted
  <1>1. IInv => ResourcesAccounted
    BY DEF IInv
  <1> QED
    BY <1>1, Invariance, PTL

=============================================================================
