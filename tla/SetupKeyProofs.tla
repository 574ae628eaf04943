--------------------------- MODULE SetupKeyProofs ---------------------------
(* Proofs of the safety properties of SetupKey, for any number of keys,    *)
(* events in flight and faults, and whatever prefixes the keys have, and   *)
(* that SetupKey implements KeyHandover.  The last part (Op) is about the  *)
(* Pod webhook, which hands the keys to Pods, the GatewayClass, and the    *)
(* ClusterProxy, whose proxy enrolls with such a key.                      *)
EXTENDS SetupKey, WellFoundedInduction, TLAPS

Versions == Object \cup {None}

(* What every version of the object satisfies: its id has been handed out, *)
(* no id is recorded before the finalizer is set, and a finalizer once set *)
(* stays until the object is gone.                                         *)
VersionOK(o) ==
    o # None => /\ o.id # None => o.id < nextKey
                /\ ~o.finalizer => o.id = None
                /\ o.finalizer /\ api # None => api.finalizer

VersionsOK ==
    /\ VersionOK(api) /\ VersionOK(seen)
    /\ \A i \in 1..Len(objEvents) : VersionOK(objEvents[i])

(* The informer is exact up to the events in flight, the newest of which   *)
(* carries what etcd holds.                                                *)
Synced ==
    /\ Len(objEvents) <= MaxLag
    /\ objEvents = <<>> => seen = api
    /\ objEvents # <<>> => objEvents[Len(objEvents)] = api

Finalized == {"checkKey", "checkSecret", "create", "record", "applySecret", "delOld", "ready"}

(* What the reconcile in progress knows at each of its steps. *)
WorkerOK ==
    /\ worker.step # "idle" =>
          worker.obj \in Object /\ (worker.obj.id # None => worker.obj.id < nextKey)
    /\ worker.step \in {"checkSecret", "delOld", "delKey"} => worker.obj.id \in Keys
    /\ worker.step \in {"record", "applySecret", "delOld", "ready"} =>
          worker.new \in Keys /\ worker.new < nextKey /\ worker.new # worker.obj.id
    /\ worker.step \in Finalized /\ api # None => api.finalizer
    /\ worker.step \in {"applySecret", "delOld", "ready"} /\ api # None =>
          api.id = worker.new
    /\ worker.step = "delOld" => secret \in {worker.new, None, Garbled}

(* What a delete knows: unless its copy lagged, the object is still that   *)
(* copy, and the recorded key is gone before the finalizer is.             *)
DeleteOK ==
    /\ worker.step \in {"delKey", "unfinalize"} =>
          /\ worker.obj.deleting
          /\ ~worker.lagged /\ api # None => api = worker.obj
    /\ worker.step = "unfinalize" /\ worker.obj.id # None => keys[worker.obj.id] = "none"

IInv == TypeOK /\ VersionsOK /\ Synced /\ WorkerOK /\ DeleteOK

-----------------------------------------------------------------------------
(* Every write of the object keeps its versions well typed and in step,    *)
(* provided it keeps the finalizer and records no unused id.               *)
LEMMA StoreVersions ==
    ASSUME TypeOK, Synced, VersionsOK, NEW o \in Versions, StoreObject(o),
           nextKey' = nextKey,
           o # None => /\ api # None
                       /\ o.id # None => o.id < nextKey
                       /\ ~o.finalizer => o.id = None /\ ~api.finalizer
    PROVE  /\ api' = o /\ seen' \in Versions /\ objEvents' \in Seq(Versions)
           /\ Synced' /\ VersionsOK'
  <1>1. /\ api' = o /\ api \in Versions /\ seen \in Versions
        /\ objEvents \in Seq(Versions)
    BY DEF StoreObject, TypeOK, Versions
  <1>2. ASSUME NEW v \in Versions, VersionOK(v)
        PROVE  VersionOK(v)'
    BY <1>1, <1>2 DEF VersionOK
  <1>3. VersionOK(o)'
    BY <1>1 DEF VersionOK, Versions, Object
  <1> HIDE DEF Versions
  <1>4. \A i \in 1..Len(objEvents) : objEvents[i] \in Versions /\ VersionOK(objEvents[i])
    BY <1>1 DEF VersionsOK
  <1>5. VersionOK(seen)'
    <2>1. seen' = seen \/ seen' = o
      BY DEF StoreObject
    <2> QED
      BY <1>1, <1>2, <1>3, <2>1 DEF VersionsOK, VersionOK
  <1>6. VersionOK(api)'
    BY <1>1, <1>3 DEF VersionOK
  <1>7. CASE o = api
    <2>1. UNCHANGED <<api, seen, objEvents>>
      BY <1>7 DEF StoreObject
    <2> QED
      BY <1>1, <1>2, <1>4, <1>5, <1>6, <2>1 DEF Synced, VersionsOK, VersionOK
  <1>8. CASE o # api /\ MaxLag = 0
    <2>1. Len(objEvents) \in Nat /\ Len(objEvents) = 0 /\ objEvents = <<>>
      BY <1>1, <1>8 DEF Synced
    <2>2. seen' = o /\ objEvents' = objEvents
      BY <1>8, <2>1 DEF StoreObject
    <2> QED
      BY <1>1, <1>5, <1>6, <2>1, <2>2, <1>8 DEF Synced, VersionsOK
  <1>9. CASE o # api /\ MaxLag # 0
    <2>1. /\ Len(objEvents) < MaxLag /\ seen' = seen
          /\ objEvents' = Append(objEvents, o)
      BY <1>9 DEF StoreObject
    <2>2. /\ Len(objEvents) \in Nat /\ objEvents' \in Seq(Versions)
          /\ Len(objEvents') = Len(objEvents) + 1
          /\ objEvents'[Len(objEvents) + 1] = o
          /\ \A i \in 1..Len(objEvents) : objEvents'[i] = objEvents[i]
      BY <1>1, <2>1
    <2>3. Synced'
      <3>1. objEvents' # <<>> /\ Len(objEvents') <= MaxLag
        BY <2>1, <2>2, SetupKeyBounds
      <3> QED
        BY <1>1, <2>2, <3>1 DEF Synced
    <2>4. ASSUME NEW i \in 1..Len(objEvents')
          PROVE  VersionOK(objEvents[i])'
      <3>1. i = Len(objEvents) + 1 \/ i \in 1..Len(objEvents)
        BY <2>2
      <3> QED
        BY <1>2, <1>3, <1>4, <2>2, <3>1 DEF VersionOK
    <2> QED
      BY <1>1, <1>5, <1>6, <2>1, <2>2, <2>3, <2>4 DEF VersionsOK
  <1> QED
    BY <1>7, <1>8, <1>9

(* Every write of the Secret keeps its two views well typed. *)
LEMMA StoreSecretTypes ==
    ASSUME TypeOK, NEW v \in Secrets, StoreSecret(v)
    PROVE  secret' = v /\ held' \in Secrets /\ secretEvents' \in Seq(Secrets)
  <1>1. secretEvents \in Seq(Secrets) /\ held \in Secrets
    BY DEF TypeOK
  <1>2. secretEvents' = secretEvents \/ secretEvents' = Append(secretEvents, v)
    BY DEF StoreSecret
  <1> HIDE DEF Secrets
  <1>3. secretEvents' \in Seq(Secrets)
    BY <1>1, <1>2
  <1> QED
    BY <1>1, <1>3 DEF StoreSecret

(* Steps that leave the object's versions alone and hand out no key, or    *)
(* one, keep the facts about the versions.                                 *)
LEMMA ObjectUnchanged ==
    ASSUME TypeOK, VersionsOK, Synced, UNCHANGED <<api, seen, objEvents>>,
           nextKey' = nextKey \/ nextKey' = nextKey + 1
    PROVE  VersionsOK' /\ Synced'
  <1>1. nextKey \in Nat /\ nextKey <= nextKey'
    BY SetupKeyBounds DEF TypeOK
  <1>2. ASSUME NEW v \in Versions, VersionOK(v)
        PROVE  VersionOK(v)'
    <2>1. v # None => v.id \in Keys \cup {None}
      BY DEF Versions, Object
    <2> QED
      BY <1>1, <1>2, <2>1 DEF VersionOK, Keys
  <1>3. \A i \in 1..Len(objEvents) : objEvents[i] \in Versions
    <2>1. objEvents \in Seq(Versions)
      BY DEF TypeOK, Versions
    <2> HIDE DEF Versions
    <2> QED
      BY <2>1
  <1>4. api \in Versions /\ seen \in Versions
    BY DEF TypeOK, Versions
  <1> QED
    BY <1>2, <1>3, <1>4 DEF VersionsOK, Synced, VersionOK

-----------------------------------------------------------------------------
Workers == [step: Steps, obj: Object \cup {None}, new: Keys \cup {None}, lagged: BOOLEAN]

(* The idle worker satisfies everything said about the worker. *)
LEMMA IdleOK ==
    ASSUME worker' = IdleWorker
    PROVE  worker' \in Workers /\ WorkerOK' /\ DeleteOK'
  BY DEF IdleWorker, Workers, Steps, WorkerOK, DeleteOK, Finalized

(* The initial state satisfies the inductive invariant. *)
LEMMA InitIInv == Init => IInv
  <1> SUFFICES ASSUME Init PROVE IInv
    OBVIOUS
  <1>1. IdleWorker \in [step: Steps, obj: Object \cup {None}, new: Keys \cup {None},
                       lagged: BOOLEAN]
    BY DEF IdleWorker, Steps
  <1>2. api \in Object
    BY DEF Init, Object
  <1>3. TypeOK
    BY <1>1, <1>2, SetupKeyBounds DEF Init, TypeOK, Secrets
  <1>4. VersionsOK /\ Synced
    BY SetupKeyBounds DEF Init, VersionsOK, VersionOK, Synced
  <1>5. WorkerOK /\ DeleteOK
    BY DEF Init, IdleWorker, WorkerOK, DeleteOK, Finalized
  <1> QED
    BY <1>3, <1>4, <1>5 DEF IInv

(* Watch delivery keeps the invariant. *)
LEMMA DeliverSteps == IInv /\ (DeliverObject \/ DeliverSecret) => IInv'
  <1> SUFFICES ASSUME IInv, DeliverObject \/ DeliverSecret PROVE IInv'
    OBVIOUS
  <1> USE DEF IInv
  <1>1. UNCHANGED <<api, secret, keys, worker, nextKey, faults>>
    BY DEF DeliverObject, DeliverSecret
  <1>2. WorkerOK' /\ DeleteOK'
    BY <1>1 DEF WorkerOK, DeleteOK
  <1>3. CASE DeliverObject
    <2>1. objEvents \in Seq(Versions) /\ objEvents # <<>>
      BY <1>3 DEF DeliverObject, TypeOK, Versions
    <2>2. seen' = Head(objEvents) /\ objEvents' = Tail(objEvents)
      BY <1>3 DEF DeliverObject
    <2> DEFINE n == Len(objEvents)
    <2>3. /\ n \in Nat /\ n > 0
          /\ seen' = objEvents[1] /\ seen' \in Versions
          /\ objEvents' \in Seq(Versions) /\ Len(objEvents') = n - 1
          /\ \A i \in 1..(n - 1) : objEvents'[i] = objEvents[i + 1]
      <3> HIDE DEF Versions
      <3> QED BY <2>1, <2>2
    <2>4. TypeOK'
      BY <1>1, <1>3, <2>3 DEF DeliverObject, TypeOK, Versions
    <2>5. Synced'
      <3>1. objEvents' = <<>> => n = 1
        BY <2>3
      <3>2. objEvents' # <<>> => n - 1 \in 1..(n - 1)
        BY <2>3
      <3>3. Len(objEvents') <= MaxLag
        BY <2>3, SetupKeyBounds DEF Synced
      <3> QED
        BY <1>1, <2>1, <2>3, <3>1, <3>2, <3>3 DEF Synced
    <2>6. VersionsOK'
      <3>1. ASSUME NEW i \in 1..Len(objEvents')
            PROVE  VersionOK(objEvents[i])'
        <4>1. i + 1 \in 1..n /\ objEvents'[i] = objEvents[i + 1]
          BY <2>3
        <4> QED
          BY <1>1, <4>1 DEF VersionsOK, VersionOK
      <3>2. VersionOK(seen)' /\ VersionOK(api)'
        BY <1>1, <2>3 DEF VersionsOK, VersionOK
      <3> QED
        BY <3>1, <3>2 DEF VersionsOK
    <2> QED
      BY <1>2, <2>4, <2>5, <2>6
  <1>4. CASE DeliverSecret
    <2>1. secretEvents \in Seq(Secrets) /\ secretEvents # <<>>
      BY <1>4 DEF DeliverSecret, TypeOK
    <2>2. held' \in Secrets /\ secretEvents' \in Seq(Secrets)
      <3> HIDE DEF Secrets
      <3> QED BY <1>4, <2>1 DEF DeliverSecret
    <2>3. UNCHANGED <<api, seen, objEvents, nextKey>>
      BY <1>4 DEF DeliverSecret
    <2>4. TypeOK'
      BY <1>4, <2>2 DEF DeliverSecret, TypeOK
    <2> QED
      BY <1>2, <2>3, <2>4, ObjectUnchanged
  <1> QED
    BY <1>3, <1>4

(* Users, the garbage collector and NetBird keep the invariant. *)
LEMMA OutsideSteps ==
    ASSUME IInv,
           \/ CollectSecret \/ UserDelete
           \/ \E v \in {None, Garbled} : UserSpoilsSecret(v)
           \/ \E k \in Keys, s \in KeyStates \cup {"none"} : KeyFalls(k, s)
    PROVE  IInv'
  <1> USE DEF IInv
  <1>1. ASSUME NEW v \in {None, Garbled}, (CollectSecret /\ v = None) \/ UserSpoilsSecret(v)
        PROVE  IInv'
    <2>1. /\ StoreSecret(v) /\ UNCHANGED <<api, seen, objEvents, keys, worker, nextKey>>
          /\ faults' \in 0..MaxFaults /\ v \in Secrets
      BY <1>1, SetupKeyBounds DEF CollectSecret, UserSpoilsSecret, TypeOK, Secrets
    <2>2. secret' = v /\ held' \in Secrets /\ secretEvents' \in Seq(Secrets)
      BY <2>1, StoreSecretTypes
    <2>3. TypeOK'
      BY <2>1, <2>2 DEF TypeOK
    <2>4. WorkerOK' /\ DeleteOK'
      BY <2>1, <2>2 DEF WorkerOK, DeleteOK
    <2> QED
      BY <2>1, <2>3, <2>4, ObjectUnchanged
  <1>2. CASE UserDelete
    <2> DEFINE o == IF api.finalizer THEN [api EXCEPT !.deleting = TRUE] ELSE None
    <2>1. /\ api \in Object /\ api # None /\ ~api.deleting
          /\ \/ o = None /\ ~api.finalizer
             \/ /\ o \in Object /\ o # None /\ o.id = api.id
                /\ api.finalizer /\ o.finalizer
      <3>1. api \in Object /\ api # None /\ ~api.deleting
        BY <1>2 DEF UserDelete, Live, TypeOK
      <3>2. None \notin Object
        BY SetupKeyValues DEF Object
      <3>3. CASE api.finalizer
        <4>1. o = [api EXCEPT !.deleting = TRUE]
          BY <3>3
        <4>2. o \in Object /\ o.id = api.id /\ o.finalizer
          BY <3>1, <3>3, <4>1, Zenon DEF Object
        <4> QED
          BY <3>1, <3>2, <3>3, <4>2, Zenon
      <3> QED
        BY <3>1, <3>3
    <2>2. /\ StoreObject(o)
          /\ UNCHANGED <<secret, held, secretEvents, keys, worker, nextKey, faults>>
      BY <1>2 DEF UserDelete
    <2>3. o \in Versions
      BY <2>1 DEF Versions
    <2>4. o # None => /\ api # None
                      /\ o.id # None => o.id < nextKey
                      /\ ~o.finalizer => o.id = None /\ ~api.finalizer
      BY <2>1 DEF VersionsOK, VersionOK
    <2>5. /\ api' = o /\ seen' \in Versions /\ objEvents' \in Seq(Versions)
          /\ Synced' /\ VersionsOK'
      <3> HIDE DEF o
      <3> QED BY <2>2, <2>3, <2>4, StoreVersions
    <2>6. TypeOK'
      BY <2>2, <2>3, <2>5 DEF TypeOK, Versions
    <2>7. WorkerOK'
      <3> HIDE DEF o
      <3> QED BY <2>1, <2>2, <2>5 DEF WorkerOK
    <2>8. DeleteOK'
      <3> HIDE DEF o
      <3> QED BY <2>1, <2>2, <2>5 DEF DeleteOK
    <2> QED
      BY <2>5, <2>6, <2>7, <2>8
  <1>3. ASSUME NEW k \in Keys, NEW s \in KeyStates \cup {"none"}, KeyFalls(k, s)
        PROVE  IInv'
    <2>1. /\ keys' = [keys EXCEPT ![k] = s] /\ keys[k] = "valid"
          /\ UNCHANGED <<api, seen, secret, held, objEvents, secretEvents, worker, nextKey>>
          /\ faults' \in 0..MaxFaults
      BY <1>3, SetupKeyBounds DEF KeyFalls, TypeOK, kube
    <2>2. TypeOK'
      BY <2>1, SetupKeyStates DEF TypeOK
    <2>3. WorkerOK'
      BY <2>1 DEF WorkerOK
    <2>4. DeleteOK'
      BY <2>1 DEF DeleteOK, TypeOK
    <2> QED
      BY <2>1, <2>2, <2>3, <2>4, ObjectUnchanged
  <1> QED
    BY <1>1, <1>2, <1>3

(* A failed call and a restart keep the invariant. *)
LEMMA FaultSteps == IInv /\ (CallFails \/ Crash) => IInv'
  <1> SUFFICES ASSUME IInv, CallFails \/ Crash PROVE IInv'
    OBVIOUS
  <1> USE DEF IInv
  <1>1. worker' = IdleWorker /\ faults' \in 0..MaxFaults /\ UNCHANGED <<api, secret, keys, nextKey>>
    BY SetupKeyBounds DEF CallFails, Crash, TypeOK, kube
  <1>2. worker' \in Workers /\ WorkerOK' /\ DeleteOK'
    BY <1>1, IdleOK
  <1>3. CASE CallFails
    <2>1. UNCHANGED kube
      BY <1>3 DEF CallFails
    <2>2. TypeOK'
      BY <1>1, <1>2, <2>1 DEF TypeOK, Workers, kube
    <2> QED
      BY <1>1, <1>2, <2>1, <2>2, ObjectUnchanged DEF kube
  <1>4. CASE Crash
    <2>1. /\ seen' = api /\ held' = secret
          /\ objEvents' = <<>> /\ secretEvents' = <<>>
      BY <1>4 DEF Crash
    <2>2. TypeOK'
      BY <1>1, <1>2, <2>1 DEF TypeOK, Workers
    <2>3. Synced' /\ VersionsOK'
      BY <1>1, <2>1, SetupKeyBounds DEF Synced, VersionsOK, VersionOK
    <2> QED
      BY <1>2, <2>2, <2>3
  <1> QED
    BY <1>3, <1>4

-----------------------------------------------------------------------------
(* Get: a copy read with no event in flight is the object itself. *)
LEMMA StartStep == ASSUME IInv, Start PROVE IInv'
  <1> USE DEF IInv
  <1>1. seen \in Object /\ seen # None
    BY DEF Start, TypeOK
  <1>2. PICK st \in {"unfinalize", "delKey", "checkKey", "finalize"} :
          /\ worker' = [step |-> st, obj |-> seen, new |-> None, lagged |-> objEvents # <<>>]
          /\ st \in {"unfinalize", "delKey"} => seen.deleting
          /\ st = "unfinalize" => seen.id = None
          /\ st = "delKey" => seen.id # None
          /\ st = "checkKey" => seen.finalizer
    BY DEF Start
  <1>3. UNCHANGED <<api, seen, secret, held, objEvents, secretEvents, keys, nextKey, faults>>
    BY DEF Start, kube
  <1>4. TypeOK'
    <2>1. worker' \in Workers
      BY <1>1, <1>2 DEF Workers, Steps
    <2> QED
      BY <1>3, <2>1 DEF TypeOK, Workers
  <1>5. /\ worker'.step = st /\ worker'.obj = seen
        /\ worker'.lagged = (objEvents # <<>>)
    BY <1>2
  <1>6. /\ seen.id # None => seen.id \in Keys /\ seen.id < nextKey
        /\ seen.finalizer /\ api # None => api.finalizer
    BY <1>1 DEF VersionsOK, VersionOK, Object
  <1>7. WorkerOK'
    BY <1>1, <1>2, <1>3, <1>5, <1>6 DEF WorkerOK, Finalized
  <1>8. DeleteOK'
    BY <1>2, <1>3, <1>5, Zenon DEF DeleteOK, Synced
  <1> QED
    BY <1>3, <1>4, <1>7, <1>8, ObjectUnchanged

(* The two halves of the up-to-date check only move the reconcile on. *)
LEMMA CheckSteps == ASSUME IInv, CheckKey \/ CheckSecret PROVE IInv'
  <1> USE DEF IInv
  <1>1. UNCHANGED <<api, seen, secret, held, objEvents, secretEvents, keys, nextKey, faults>>
    BY DEF CheckKey, CheckSecret, kube
  <1>2. worker.step \in {"checkKey", "checkSecret"} /\ worker.obj \in Object
    BY DEF CheckKey, CheckSecret, WorkerOK
  <1>3. \/ worker' = IdleWorker
        \/ worker' = [worker EXCEPT !.step = "create"]
        \/ worker' = [worker EXCEPT !.step = "checkSecret"] /\ worker.obj.id # None
    BY DEF CheckKey, CheckSecret
  <1>4. CASE worker' = IdleWorker
    <2>1. TypeOK'
      BY <1>1, <1>4, IdleOK DEF TypeOK, Workers
    <2> QED
      BY <1>1, <1>4, <2>1, IdleOK, ObjectUnchanged
  <1>5. ASSUME NEW st \in {"create", "checkSecret"}, worker' = [worker EXCEPT !.step = st],
               st = "checkSecret" => worker.obj.id # None
        PROVE  IInv'
    <2>1. worker' \in Workers /\ worker'.step = st /\ worker'.obj = worker.obj
      BY <1>5 DEF TypeOK, Workers, Steps
    <2>2. TypeOK'
      BY <1>1, <2>1 DEF TypeOK, Workers
    <2>3. worker.obj.id # None => worker.obj.id \in Keys
      BY <1>2 DEF Object
    <2>4. WorkerOK' /\ DeleteOK'
      BY <1>1, <1>2, <1>5, <2>1, <2>3 DEF WorkerOK, DeleteOK, Finalized
    <2> QED
      BY <1>1, <2>2, <2>4, ObjectUnchanged
  <1> QED
    BY <1>3, <1>4, <1>5

(* Create hands out a key that no version of the object records. *)
LEMMA CreateStep == ASSUME IInv, Create PROVE IInv'
  <1> USE DEF IInv
  <1>1. /\ UNCHANGED <<api, seen, secret, held, objEvents, secretEvents, faults>>
        /\ nextKey' = nextKey + 1 /\ keys' = [keys EXCEPT ![nextKey] = "valid"]
        /\ worker' = [worker EXCEPT !.step = "record", !.new = nextKey]
        /\ worker.step = "create" /\ worker.obj \in Object
    BY DEF Create, kube, WorkerOK
  <1>2. nextKey \in Keys /\ nextKey' \in 1..(MaxKeys + 1) /\ nextKey < nextKey'
    BY <1>1, SetupKeyBounds DEF Create, TypeOK, Keys
  <1>3. /\ worker' \in Workers /\ worker'.step = "record"
        /\ worker'.obj = worker.obj /\ worker'.new = nextKey
    BY <1>1, <1>2, Zenon DEF TypeOK, Workers, Steps
  <1>4. TypeOK'
    BY <1>1, <1>2, <1>3 DEF TypeOK, Workers
  <1>5. worker.obj.id # None =>
          worker.obj.id # nextKey /\ worker.obj.id < nextKey'
    <2>1. worker.obj.id # None => worker.obj.id \in Keys /\ worker.obj.id < nextKey
      BY <1>1 DEF WorkerOK, Object
    <2> QED
      BY <1>1, <1>2, <2>1 DEF Keys
  <1>6. None # nextKey
    BY <1>2, SetupKeyValues
  <1>7. WorkerOK' /\ DeleteOK'
    BY <1>1, <1>2, <1>3, <1>5, <1>6 DEF WorkerOK, DeleteOK, Finalized
  <1> QED
    BY <1>1, <1>4, <1>7, ObjectUnchanged

(* The three patches of an apply: each keeps the finalizer, and the id     *)
(* that is recorded is the one just created.                               *)
LEMMA PatchSteps == ASSUME IInv, Finalize \/ Record \/ MarkReady PROVE IInv'
  <1> USE DEF IInv
  <1>1. /\ UNCHANGED <<secret, held, secretEvents, keys, nextKey, faults>>
        /\ worker.step \in {"finalize", "record", "ready"} /\ worker.obj \in Object
    BY DEF Finalize, Record, MarkReady, WorkerOK
  <1>2. CASE worker' = IdleWorker /\ UNCHANGED <<api, seen, objEvents>>
    <2>1. TypeOK'
      BY <1>1, <1>2, IdleOK DEF TypeOK, Workers
    <2> QED
      BY <1>1, <1>2, <2>1, IdleOK, ObjectUnchanged
  <1>3. ASSUME NEW o \in Object, StoreObject(o), api # None,
               o.id # None => o.id < nextKey,
               ~o.finalizer => o.id = None /\ ~api.finalizer,
               worker' \in Workers, WorkerOK', DeleteOK'
        PROVE  IInv'
    <2>1. o \in Versions
      BY DEF Versions
    <2>2. /\ api' = o /\ seen' \in Versions /\ objEvents' \in Seq(Versions)
          /\ Synced' /\ VersionsOK'
      BY <1>1, <1>3, <2>1, StoreVersions
    <2>3. TypeOK'
      BY <1>1, <1>3, <2>2 DEF TypeOK, Versions, Workers
    <2> QED
      BY <1>3, <2>2, <2>3
  <1>4. api # None => api \in Object /\ (api.id # None => api.id < nextKey)
    BY DEF TypeOK, VersionsOK, VersionOK
  <1>5. CASE Finalize /\ api # None
    <2> DEFINE o == [api EXCEPT !.finalizer = TRUE]
    <2>1. o \in Object /\ o.id = api.id /\ o.finalizer
      BY <1>4, <1>5, Zenon DEF Object
    <2>2. StoreObject(o) /\ api' = o /\ worker' = [worker EXCEPT !.step = "checkKey"]
      BY <1>5 DEF Finalize, StoreObject
    <2>3. worker' \in Workers /\ worker'.step = "checkKey" /\ worker'.obj = worker.obj
      BY <2>2, Zenon DEF TypeOK, Workers, Steps
    <2> HIDE DEF o
    <2>4. WorkerOK' /\ DeleteOK'
      BY <1>1, <2>1, <2>2, <2>3 DEF WorkerOK, DeleteOK, Finalized
    <2> QED
      BY <1>3, <1>4, <1>5, <2>1, <2>2, <2>3, <2>4
  <1>6. CASE Record /\ api # None
    <2> DEFINE o == [api EXCEPT !.id = worker.new]
    <2>1. /\ worker.step = "record" /\ api.finalizer
          /\ worker.new \in Keys /\ worker.new < nextKey /\ worker.new # worker.obj.id
      BY <1>6 DEF Record, WorkerOK, Finalized
    <2>2. o \in Object /\ o.id = worker.new /\ o.finalizer
      BY <1>4, <1>6, <2>1 DEF Object
    <2>3. StoreObject(o) /\ api' = o /\ worker' = [worker EXCEPT !.step = "applySecret"]
      BY <1>6 DEF Record, StoreObject
    <2>4. /\ worker' \in Workers /\ worker'.step = "applySecret"
          /\ worker'.obj = worker.obj /\ worker'.new = worker.new
      BY <2>3, Zenon DEF TypeOK, Workers, Steps
    <2> HIDE DEF o
    <2>5. WorkerOK' /\ DeleteOK'
      BY <1>1, <2>1, <2>2, <2>3, <2>4 DEF WorkerOK, DeleteOK, Finalized
    <2> QED
      BY <1>3, <1>6, <2>1, <2>2, <2>3, <2>4, <2>5
  <1>7. CASE MarkReady /\ api # None /\ StoreObject([api EXCEPT !.ready = TRUE])
    <2> DEFINE o == [api EXCEPT !.ready = TRUE]
    <2>1. /\ o \in Object /\ o.id = api.id /\ o.finalizer = api.finalizer
          /\ ~api.finalizer => api.id = None
      BY <1>4, <1>7, Zenon DEF Object, VersionsOK, VersionOK
    <2>2. worker' = IdleWorker /\ StoreObject(o)
      BY <1>7 DEF MarkReady
    <2> HIDE DEF o
    <2> QED
      BY <1>3, <1>4, <1>7, <2>1, <2>2, IdleOK
  <1> QED
    BY <1>2, <1>5, <1>6, <1>7 DEF Finalize, Record, MarkReady

(* The Secret is replaced before the old key may be deleted. *)
LEMMA ApplySecretStep == ASSUME IInv, ApplySecret PROVE IInv'
  <1> USE DEF IInv
  <1>1. /\ worker.step = "applySecret" /\ worker.obj \in Object
        /\ StoreSecret(worker.new) /\ worker.new \in Secrets
        /\ UNCHANGED <<api, seen, objEvents, keys, nextKey, faults>>
    BY DEF ApplySecret, WorkerOK, Secrets
  <1>2. secret' = worker.new /\ held' \in Secrets /\ secretEvents' \in Seq(Secrets)
    BY <1>1, StoreSecretTypes
  <1>3. PICK st \in {"ready", "delOld"} :
          /\ worker' = [worker EXCEPT !.step = st]
          /\ st = "delOld" => worker.obj.id \in Keys
    BY <1>1 DEF ApplySecret, Object
  <1>4. /\ worker' \in Workers /\ worker'.step = st
        /\ worker'.obj = worker.obj /\ worker'.new = worker.new
    BY <1>3 DEF TypeOK, Workers, Steps
  <1>5. TypeOK'
    BY <1>1, <1>2, <1>4 DEF TypeOK, Workers
  <1>6. WorkerOK' /\ DeleteOK'
    BY <1>1, <1>2, <1>3, <1>4 DEF WorkerOK, DeleteOK, Finalized
  <1> QED
    BY <1>1, <1>5, <1>6, ObjectUnchanged

(* The two deletes of a key. *)
LEMMA DelSteps == ASSUME IInv, DelOld \/ DelKey PROVE IInv'
  <1> USE DEF IInv
  <1>1. /\ worker.step \in {"delOld", "delKey"}
        /\ worker.obj \in Object /\ worker.obj.id \in Keys
        /\ keys' = [keys EXCEPT ![worker.obj.id] = "none"]
        /\ UNCHANGED <<api, seen, secret, held, objEvents, secretEvents, nextKey, faults>>
    BY DEF DelOld, DelKey, WorkerOK, kube
  <1>2. PICK st \in {"ready", "unfinalize"} :
          /\ worker' = [worker EXCEPT !.step = st]
          /\ st = "ready" => worker.step = "delOld"
          /\ st = "unfinalize" => worker.step = "delKey"
    BY DEF DelOld, DelKey
  <1>3. /\ worker' \in Workers /\ worker'.step = st /\ worker'.obj = worker.obj
        /\ worker'.new = worker.new /\ worker'.lagged = worker.lagged
    BY <1>2 DEF TypeOK, Workers, Steps
  <1>4. TypeOK'
    BY <1>1, <1>3 DEF TypeOK, Workers
  <1>5. WorkerOK'
    BY <1>1, <1>2, <1>3 DEF WorkerOK, Finalized
  <1>6. keys'[worker.obj.id] = "none"
    BY <1>1 DEF TypeOK
  <1>7. DeleteOK'
    BY <1>1, <1>2, <1>3, <1>6 DEF DeleteOK
  <1> QED
    BY <1>1, <1>4, <1>5, <1>7, ObjectUnchanged

(* Removing the finalizer removes the object. *)
LEMMA UnfinalizeStep == ASSUME IInv, Unfinalize PROVE IInv'
  <1> USE DEF IInv
  <1>1. /\ StoreObject(None) /\ worker' = IdleWorker /\ None \in Versions
        /\ UNCHANGED <<secret, held, secretEvents, keys, nextKey, faults>>
    BY DEF Unfinalize, Versions
  <1>2. /\ api' = None /\ seen' \in Versions /\ objEvents' \in Seq(Versions)
        /\ Synced' /\ VersionsOK'
    BY <1>1, StoreVersions
  <1>3. TypeOK'
    BY <1>1, <1>2, IdleOK DEF TypeOK, Versions, Workers
  <1> QED
    BY <1>1, <1>2, <1>3, IdleOK

(* Every step keeps the invariant. *)
LEMMA NextIInv == IInv /\ [Next]_vars => IInv'
  <1> SUFFICES ASSUME IInv, [Next]_vars PROVE IInv'
    OBVIOUS
  <1>1. CASE Start
    BY <1>1, StartStep
  <1>2. CASE Step
    BY <1>2, CheckSteps, CreateStep, PatchSteps, ApplySecretStep, DelSteps, UnfinalizeStep
       DEF Step
  <1>3. CASE Environment
    BY <1>3, DeliverSteps, OutsideSteps, FaultSteps DEF Environment
  <1>4. CASE UNCHANGED vars
    <2>1. TypeOK' /\ WorkerOK' /\ DeleteOK'
      BY <1>4 DEF IInv, TypeOK, WorkerOK, DeleteOK, vars, kube
    <2> QED
      BY <1>4, <2>1, ObjectUnchanged DEF IInv, vars, kube
  <1> QED
    BY <1>1, <1>2, <1>3, <1>4 DEF Next

-----------------------------------------------------------------------------
(* The inductive invariant of the SetupKey reconciler. *)
THEOREM Invariance == Spec => []IInv
  BY InitIInv, NextIInv, PTL DEF Spec

(* Rotation never deletes the key that the status records or the key that  *)
(* the Secret hands out.                                                   *)
THEOREM RotationSafeHolds == Spec => []RotationSafe
  <1>1. IInv => RotationSafe
    <2> SUFFICES ASSUME IInv, worker.step = "delOld" PROVE
          /\ worker.obj.id # secret
          /\ api # None => worker.obj.id # api.id
      BY DEF RotationSafe
    <2>1. /\ worker.obj.id \in Keys /\ worker.new # worker.obj.id
          /\ secret \in {worker.new, None, Garbled}
          /\ api # None => api.id = worker.new
      BY DEF IInv, WorkerOK
    <2> QED
      BY <2>1, SetupKeyValues
  <1> QED
    BY <1>1, Invariance, PTL

(* A SetupKey disappears only after its recorded key, unless the delete    *)
(* started from a lagging copy.                                            *)
THEOREM DeletionRevokesHolds == Spec => DeletionRevokes
  <1> DEFINE A == (api # None /\ api' = None /\ ~worker.lagged /\ api.id # None)
                    => keys[api.id] = "none"
  <1>1. IInv /\ [Next]_vars => [A]_vars
    <2> SUFFICES ASSUME IInv, Next, api # None, api' = None, ~worker.lagged, api.id # None
                 PROVE  keys[api.id] = "none"
      OBVIOUS
    <2>1. CASE UserDelete
      <3>1. api.finalizer
        BY DEF IInv, VersionsOK, VersionOK
      <3>2. api \in Object /\ None \notin Object
        BY SetupKeyValues DEF IInv, TypeOK, Object
      <3>3. [api EXCEPT !.deleting = TRUE] \in Object
        BY <3>2, Zenon DEF Object
      <3> QED
        BY <2>1, <3>1, <3>2, <3>3 DEF UserDelete, StoreObject
    <2>2. CASE Unfinalize
      <3>1. api = worker.obj
        BY <2>2 DEF Unfinalize, IInv, DeleteOK
      <3> QED
        BY <2>2, <3>1 DEF Unfinalize, IInv, DeleteOK
    <2>3. CASE Finalize \/ Record \/ MarkReady
      <3>1. api \in Object /\ None \notin Object
        BY SetupKeyValues DEF IInv, TypeOK, Object
      <3>2. worker.step = "record" => worker.new \in Keys
        BY DEF IInv, WorkerOK
      <3>3. /\ [api EXCEPT !.finalizer = TRUE] \in Object
            /\ [api EXCEPT !.ready = TRUE] \in Object
            /\ worker.step = "record" => [api EXCEPT !.id = worker.new] \in Object
        BY <3>1, <3>2, Zenon DEF Object
      <3>4. api' = api \/ api' \in Object
        BY <2>3, <3>3, Zenon DEF Finalize, Record, MarkReady, StoreObject
      <3> QED
        BY <3>1, <3>4
    <2>4. CASE ~(UserDelete \/ Unfinalize \/ Finalize \/ Record \/ MarkReady)
      <3>1. api' = api
        BY <2>4 DEF Next, Start, Step, Environment, CheckKey, CheckSecret, Create,
             ApplySecret, DelOld, DelKey, DeliverObject, DeliverSecret, CollectSecret,
             UserSpoilsSecret, KeyFalls, CallFails, Crash, kube
      <3> QED
        BY <3>1
    <2> QED
      BY <2>1, <2>2, <2>3, <2>4
  <1>2. Spec => [][A]_vars
    BY <1>1, Invariance, PTL DEF Spec
  <1> QED
    BY <1>2 DEF DeletionRevokes

-----------------------------------------------------------------------------
(* The SetupKey reconciler implements KeyHandover, for any number of keys, *)
(* events in flight and faults.                                            *)

(* Deletion is for good: a copy that is being deleted is a copy of an      *)
(* object that still is, or that is gone.                                  *)
DelOK(o) == o # None /\ o.deleting /\ api # None => api.deleting

Final ==
    /\ DelOK(seen) /\ \A i \in 1..Len(objEvents) : DelOK(objEvents[i])
    /\ worker.step # "idle" => DelOK(worker.obj)

RInv == IInv /\ Final

(* What a step may do to the object. *)
Kept == api' # None => api # None /\ (api.deleting => api'.deleting)

-----------------------------------------------------------------------------
(* No step brings the object back or takes back its deletion. *)
LEMMA ObjectKept == ASSUME IInv, [Next]_vars PROVE Kept
  <1>1. api \in Object \cup {None} /\ None \notin Object
    BY SetupKeyValues DEF IInv, TypeOK, Object
  <1>2. worker.step = "record" => worker.new \in Keys
    BY DEF IInv, WorkerOK
  <1>3. CASE UserDelete
    <2>1. api # None /\ api' \in {[api EXCEPT !.deleting = TRUE], None}
      BY <1>3 DEF UserDelete, StoreObject, Live
    <2> QED
      BY <1>1, <2>1 DEF Kept, Object
  <1>4. CASE Finalize
    <2>1. api' = api \/ (api # None /\ api' = [api EXCEPT !.finalizer = TRUE])
      BY <1>4 DEF Finalize, StoreObject
    <2> QED
      BY <1>1, <2>1 DEF Kept, Object
  <1>5. CASE Record
    <2>1. api' = api \/ (api # None /\ api' = [api EXCEPT !.id = worker.new])
      BY <1>5 DEF Record, StoreObject
    <2> QED
      BY <1>1, <2>1 DEF Kept, Object
  <1>6. CASE MarkReady
    <2>1. api' = api \/ (api # None /\ api' = [api EXCEPT !.ready = TRUE])
      BY <1>6 DEF MarkReady, StoreObject
    <2> QED
      BY <1>1, <2>1 DEF Kept, Object
  <1>7. CASE Unfinalize
    BY <1>7 DEF Unfinalize, StoreObject, Kept
  <1>8. CASE ~(UserDelete \/ Finalize \/ Record \/ MarkReady \/ Unfinalize)
    <2>1. api' = api
      BY <1>8 DEF Next, Start, Step, Environment, CheckKey, CheckSecret, Create,
           ApplySecret, DelOld, DelKey, DeliverObject, DeliverSecret, CollectSecret,
           UserSpoilsSecret, KeyFalls, CallFails, Crash, kube, vars
    <2> QED
      BY <2>1 DEF Kept
  <1> QED
    BY <1>3, <1>4, <1>5, <1>6, <1>7, <1>8

(* So what is true of a copy stays true of it. *)
LEMMA CopyKept ==
    ASSUME Kept, NEW o, DelOK(o)
    PROVE  o # None /\ o.deleting /\ api' # None => api'.deleting
  BY DEF Kept, DelOK

(* At the start the informer's copy is etcd's. *)
LEMMA InitFinal == Init => Final
  <1> SUFFICES ASSUME Init PROVE Final
    OBVIOUS
  <1>1. seen = api /\ objEvents = <<>> /\ worker.step = "idle"
    BY DEF Init, IdleWorker
  <1> QED
    BY <1>1 DEF Final, DelOK

(* The informer and the events in flight hold only what was stored, before *)
(* or by the step.                                                         *)
LEMMA VersionsFinal ==
    ASSUME RInv, [Next]_vars
    PROVE  DelOK(seen)' /\ \A i \in 1..Len(objEvents') : DelOK(objEvents[i])'
  <1>1. Kept
    BY ObjectKept DEF RInv
  <1>2. ASSUME NEW o, DelOK(o) PROVE o # None /\ o.deleting /\ api' # None => api'.deleting
    BY <1>1, <1>2, CopyKept
  <1>3. /\ objEvents \in Seq(Versions) /\ Len(objEvents) \in Nat
        /\ DelOK(seen) /\ \A i \in 1..Len(objEvents) : DelOK(objEvents[i])
    BY DEF RInv, IInv, TypeOK, Final, Versions
  <1>4. CASE UNCHANGED <<seen, objEvents>>
    BY <1>2, <1>3, <1>4 DEF DelOK
  <1>5. CASE UNCHANGED objEvents /\ seen' = api'
    BY <1>2, <1>3, <1>5 DEF DelOK
  <1>6. CASE UNCHANGED seen /\ objEvents' = Append(objEvents, api')
    <2>1. ASSUME NEW i \in 1..Len(objEvents')
          PROVE  DelOK(objEvents[i])'
      <3>1. objEvents'[i] = api' \/ (i \in 1..Len(objEvents) /\ objEvents'[i] = objEvents[i])
        BY <1>3, <1>6
      <3> QED
        BY <1>2, <1>3, <3>1 DEF DelOK
    <2> QED
      BY <1>2, <1>3, <1>6, <2>1 DEF DelOK
  <1>7. CASE objEvents # <<>> /\ seen' = Head(objEvents) /\ objEvents' = Tail(objEvents)
    <2>1. /\ 1 \in 1..Len(objEvents) /\ seen' = objEvents[1]
          /\ \A i \in 1..Len(objEvents') :
                i + 1 \in 1..Len(objEvents) /\ objEvents'[i] = objEvents[i + 1]
      BY <1>3, <1>7
    <2> QED
      BY <1>2, <1>3, <2>1 DEF DelOK
  <1>8. CASE seen' = api' /\ objEvents' = <<>>
    BY <1>8 DEF DelOK
  <1>9. \/ UNCHANGED <<seen, objEvents>>
        \/ UNCHANGED objEvents /\ seen' = api'
        \/ UNCHANGED seen /\ objEvents' = Append(objEvents, api')
        \/ objEvents # <<>> /\ seen' = Head(objEvents) /\ objEvents' = Tail(objEvents)
        \/ seen' = api' /\ objEvents' = <<>>
    <2>1. CASE UserDelete \/ Finalize \/ Record \/ MarkReady \/ Unfinalize
      BY <2>1, Zenon DEF UserDelete, Finalize, Record, MarkReady, Unfinalize, StoreObject
    <2>2. CASE DeliverObject
      BY <2>2 DEF DeliverObject
    <2>3. CASE Crash
      BY <2>3 DEF Crash
    <2>4. CASE ~(UserDelete \/ Finalize \/ Record \/ MarkReady \/ Unfinalize
                   \/ DeliverObject \/ Crash)
      BY <2>4 DEF Next, Start, Step, Environment, CheckKey, CheckSecret, Create,
           ApplySecret, DelOld, DelKey, DeliverSecret, CollectSecret,
           UserSpoilsSecret, KeyFalls, CallFails, kube, vars
    <2> QED
      BY <2>1, <2>2, <2>3, <2>4
  <1> QED
    BY <1>4, <1>5, <1>6, <1>7, <1>8, <1>9

(* The copy in the worker comes from the informer. *)
LEMMA WorkerFinal ==
    ASSUME RInv, [Next]_vars
    PROVE  (worker.step # "idle" => DelOK(worker.obj))'
  <1>1. Kept
    BY ObjectKept DEF RInv
  <1>2. \/ worker'.step = "idle"
        \/ worker'.obj = worker.obj /\ worker.step # "idle"
        \/ worker'.obj = seen /\ api' = api
        \/ worker' = worker
    <2>0. worker \in [step: Steps, obj: Object \cup {None}, new: Keys \cup {None},
                      lagged: BOOLEAN]
      BY DEF RInv, IInv, TypeOK
    <2>1. CASE Start
      BY <2>1 DEF Start, kube
    <2>2. CASE Step
      <3>1. CASE Finalize \/ Record \/ ApplySecret \/ MarkReady \/ Unfinalize
        BY <2>0, <3>1 DEF Finalize, Record, ApplySecret, MarkReady, Unfinalize, IdleWorker
      <3>2. CASE CheckKey
        <4>1. \/ worker' = [worker EXCEPT !.step = "checkSecret"]
              \/ worker' = [worker EXCEPT !.step = "create"]
              \/ worker' = IdleWorker
          BY <3>2, Zenon DEF CheckKey
        <4> QED
          BY <2>0, <3>2, <4>1 DEF CheckKey, IdleWorker
      <3>3. CASE CheckSecret
        <4>1. worker' = [worker EXCEPT !.step = "create"] \/ worker' = IdleWorker
          BY <3>3, Zenon DEF CheckSecret
        <4> QED
          BY <2>0, <3>3, <4>1 DEF CheckSecret, IdleWorker
      <3>4. CASE Create \/ DelOld \/ DelKey
        BY <2>0, <3>4, Zenon DEF Create, DelOld, DelKey
      <3> QED
        BY <2>2, <3>1, <3>2, <3>3, <3>4 DEF Step
    <2>3. CASE CallFails \/ Crash
      BY <2>3 DEF CallFails, Crash, IdleWorker
    <2>4. CASE ~(Start \/ Step \/ CallFails \/ Crash)
      BY <2>4 DEF Next, Environment, DeliverObject, DeliverSecret, CollectSecret, UserDelete,
           UserSpoilsSecret, KeyFalls, vars
    <2> QED
      BY <2>1, <2>2, <2>3, <2>4
  <1>3. DelOK(seen) /\ (worker.step # "idle" => DelOK(worker.obj))
    BY DEF RInv, Final
  <1> QED
    BY <1>1, <1>2, <1>3, CopyKept DEF DelOK

(* The invariant of the refinement. *)
LEMMA RInvariance == Spec => []RInv
  <1>1. Init => RInv
    BY InitIInv, InitFinal DEF RInv
  <1>2. RInv /\ [Next]_vars => RInv'
    BY NextIInv, VersionsFinal, WorkerFinal DEF RInv, Final
  <1> QED
    BY <1>1, <1>2, PTL DEF Spec

-----------------------------------------------------------------------------
(* The reconciler starts where the hand-over starts. *)
LEMMA InitRefines == Init => Handover!Init
  <1> SUFFICES ASSUME Init PROVE Handover!Init
    OBVIOUS
  <1>1. api # None /\ api.id = None /\ ~api.deleting
    <2>1. api \in Object
      BY InitIInv, SetupKeyValues DEF Init, Object
    <2> QED
      BY <2>1, SetupKeyValues, Zenon DEF Init, Object
  <1>2. Issued = {} /\ Alive = {}
    BY DEF Init, Issued, Alive
  <1> QED
    BY <1>1, <1>2 DEF Init, Handover!Init, Recorded, Ending

(* Steps on informers and in the worker's memory are not seen outside. *)
LEMMA InnerSteps ==
    ASSUME RInv, \/ Start \/ CheckKey \/ CheckSecret \/ DeliverObject \/ DeliverSecret
                 \/ UNCHANGED vars
    PROVE  UNCHANGED Handover!vars
  <1>1. UNCHANGED <<api, secret, keys, nextKey, faults>>
    BY DEF Start, CheckKey, CheckSecret, DeliverObject, DeliverSecret, kube, vars
  <1> QED
    BY <1>1 DEF Handover!vars, Recorded, Ending, Issued, Alive

(* Neither are the finalizer and the Ready condition. *)
LEMMA MarkSteps == ASSUME RInv, Finalize \/ MarkReady PROVE UNCHANGED Handover!vars
  <1>1. api \in Object \cup {None} /\ None \notin Object
    BY SetupKeyValues DEF RInv, IInv, TypeOK, Object
  <1>2. /\ \/ api' = api
           \/ api # None /\ api' = [api EXCEPT !.finalizer = TRUE]
           \/ api # None /\ api' = [api EXCEPT !.ready = TRUE]
        /\ UNCHANGED <<secret, keys, nextKey, faults>>
    BY DEF Finalize, MarkReady, StoreObject
  <1>3. /\ [api EXCEPT !.finalizer = TRUE] # None \/ api = None
        /\ [api EXCEPT !.ready = TRUE] # None \/ api = None
    BY <1>1, Zenon DEF Object
  <1>4. Recorded' = Recorded /\ Ending' = Ending
    BY <1>1, <1>2, <1>3 DEF Recorded, Ending, Object
  <1> QED
    BY <1>2, <1>4 DEF Handover!vars, Issued, Alive

(* Create issues a key, and records it nowhere yet. *)
LEMMA CreateRefines == ASSUME RInv, Create PROVE Handover!Issue(nextKey) /\ nextKey \in Keys
  <1>1. /\ nextKey \in Nat /\ nextKey >= 1 /\ nextKey <= MaxKeys /\ MaxKeys \in Nat
        /\ keys \in [Keys -> {"none", "valid", "revoked", "expired", "overused"}]
    BY SetupKeyBounds DEF RInv, IInv, TypeOK, Create
  <1>2. /\ UNCHANGED <<api, secret, faults>> /\ nextKey' = nextKey + 1
        /\ keys' = [keys EXCEPT ![nextKey] = "valid"]
    BY DEF Create, kube
  <1>3. nextKey \in Keys /\ nextKey \notin Issued /\ Issued' = Issued \cup {nextKey}
    BY <1>1, <1>2 DEF Keys, Issued
  <1>4. Alive' = Alive \cup {nextKey}
    BY <1>1, <1>2, <1>3 DEF Alive
  <1> QED
    BY <1>2, <1>3, <1>4 DEF Handover!Issue, Recorded, Ending

(* Record writes an issued key into the status, or the object is gone. *)
LEMMA RecordRefines ==
    ASSUME RInv, Record
    PROVE  UNCHANGED Handover!vars \/ \E k \in Keys : Handover!Record(k)
  <1>1. /\ api \in Object \cup {None} /\ None \notin Object /\ nextKey \in Nat
        /\ worker.new \in Keys /\ worker.new < nextKey
    BY SetupKeyValues, SetupKeyBounds DEF RInv, IInv, TypeOK, WorkerOK, Record, Object
  <1>2. UNCHANGED <<secret, keys, nextKey, faults>>
    BY DEF Record
  <1>3. CASE api' = api
    BY <1>2, <1>3 DEF Handover!vars, Recorded, Ending, Issued, Alive
  <1>4. CASE api # None /\ api' = [api EXCEPT !.id = worker.new]
    <2>1. api' \in Object /\ api'.id = worker.new /\ api'.deleting = api.deleting
      BY <1>1, <1>4 DEF Object
    <2>2. Recorded' = worker.new /\ Ending' = Ending
      BY <1>1, <1>4, <2>1 DEF Recorded, Ending
    <2>3. worker.new \in Issued
      BY <1>1, SetupKeyBounds DEF Issued, Keys
    <2> QED
      BY <1>1, <1>2, <2>2, <2>3 DEF Handover!Record, Issued, Alive
  <1> QED
    BY <1>3, <1>4 DEF Record, StoreObject

(* ApplySecret publishes the recorded key. *)
LEMMA PublishRefines ==
    ASSUME RInv, ApplySecret
    PROVE  \E k \in Keys : Handover!Publish(k)
  <1>1. /\ worker.new \in Keys /\ worker.new < nextKey /\ nextKey \in Nat
        /\ api # None => api.id = worker.new
    BY SetupKeyBounds DEF RInv, IInv, TypeOK, WorkerOK, ApplySecret
  <1>2. secret' = worker.new /\ UNCHANGED <<api, keys, nextKey, faults>>
    BY DEF ApplySecret, StoreSecret
  <1>3. worker.new \in Issued /\ (Ending \/ worker.new = Recorded)
    BY <1>1, SetupKeyBounds DEF Issued, Keys, Ending, Recorded
  <1> QED
    BY <1>1, <1>2, <1>3 DEF Handover!Publish, Recorded, Ending, Issued, Alive

(* The two deletes of keys: of the old one, and of the recorded one. *)
LEMMA RetireRefines ==
    ASSUME RInv, DelOld \/ DelKey
    PROVE  \E k \in Keys : Handover!Retire(k)
  <1>1. /\ worker.obj.id \in Keys /\ UNCHANGED <<api, secret, nextKey, faults>>
        /\ keys' = [keys EXCEPT ![worker.obj.id] = "none"]
        /\ keys \in [Keys -> {"none", "valid", "revoked", "expired", "overused"}]
    BY DEF RInv, IInv, TypeOK, WorkerOK, DelOld, DelKey, kube
  <1>2. Alive' = Alive \ {worker.obj.id}
    BY <1>1 DEF Alive
  <1>3. Ending \/ worker.obj.id \notin {Recorded, secret}
    <2>1. CASE DelOld
      <3>1. /\ worker.new # worker.obj.id /\ secret \in {worker.new, None, Garbled}
            /\ api # None => api.id = worker.new
        BY <2>1 DEF RInv, IInv, WorkerOK, DelOld
      <3> QED
        BY <1>1, <3>1, SetupKeyValues DEF Ending, Recorded
    <2>2. CASE DelKey
      <3>1. worker.obj \in Object /\ worker.obj.deleting /\ DelOK(worker.obj)
        BY <2>2 DEF RInv, IInv, WorkerOK, DeleteOK, DelKey, Final
      <3> QED
        BY <3>1, SetupKeyValues DEF DelOK, Ending, Object
    <2> QED
      BY <2>1, <2>2
  <1> QED
    BY <1>1, <1>2, <1>3 DEF Handover!Retire, Recorded, Ending, Issued

(* The object is deleted by the user, and goes with its finalizer. *)
LEMMA EndRefines ==
    ASSUME RInv, UserDelete \/ Unfinalize
    PROVE  Handover!End \/ Handover!Vanish \/ UNCHANGED Handover!vars
  <1>1. api \in Object \cup {None} /\ None \notin Object
    BY SetupKeyValues DEF RInv, IInv, TypeOK, Object
  <1>2. UNCHANGED <<secret, keys, nextKey, faults>>
    BY DEF UserDelete, Unfinalize
  <1>3. CASE UserDelete
    <2>1. /\ api # None
          /\ api' = IF api.finalizer THEN [api EXCEPT !.deleting = TRUE] ELSE None
      BY <1>3 DEF UserDelete, StoreObject, Live
    <2>2. ~api.finalizer => api.id = None
      BY <2>1 DEF RInv, IInv, VersionsOK, VersionOK
    <2>3. api.finalizer => api' \in Object /\ api'.id = api.id /\ api'.deleting
      BY <1>1, <2>1, Zenon DEF Object
    <2>4. Ending' = TRUE /\ Recorded' = Recorded
      BY <1>1, <2>1, <2>2, <2>3, Zenon DEF Ending, Recorded
    <2> QED
      BY <1>2, <2>4 DEF Handover!End, Issued, Alive
  <1>4. CASE Unfinalize
    <2>1. worker.obj \in Object /\ worker.obj.deleting /\ DelOK(worker.obj) /\ api' = None
      BY <1>4 DEF RInv, IInv, WorkerOK, DeleteOK, Unfinalize, Final, StoreObject
    <2>2. Ending
      BY <1>1, <2>1 DEF DelOK, Ending
    <2>3. Ending' = TRUE /\ Recorded' = None
      BY <2>1 DEF Ending, Recorded
    <2>4. Ending \in BOOLEAN
      BY <1>1 DEF Ending, Object
    <2> QED
      BY <1>2, <2>2, <2>3, <2>4 DEF Handover!Vanish, Issued, Alive
  <1> QED
    BY <1>3, <1>4

(* What others do, and failures, count as interference. *)
LEMMA OthersRefine ==
    ASSUME RInv,
           \/ CollectSecret \/ CallFails \/ Crash
           \/ \E v \in {None, Garbled} : UserSpoilsSecret(v)
           \/ \E k \in Keys, s \in KeyStates \cup {"none"} : KeyFalls(k, s)
    PROVE  Handover!Collect \/ Handover!Interfere
  <1>1. CASE CollectSecret
    <2>1. api = None /\ secret' = None /\ UNCHANGED <<api, keys, nextKey, faults>>
      BY <1>1 DEF CollectSecret, StoreSecret
    <2> QED
      BY <2>1 DEF Handover!Collect, Recorded, Ending, Issued, Alive
  <1>2. CASE CallFails \/ Crash
    <2>1. faults' = faults + 1 /\ UNCHANGED <<api, secret, keys, nextKey>>
      BY <1>2 DEF CallFails, Crash, kube
    <2> QED
      BY <2>1 DEF Handover!Interfere, Recorded, Ending, Issued, Alive
  <1>3. CASE \E v \in {None, Garbled} : UserSpoilsSecret(v)
    <2>1. /\ faults' = faults + 1 /\ secret' \in {None, Garbled}
          /\ UNCHANGED <<api, keys, nextKey>>
      BY <1>3 DEF UserSpoilsSecret, StoreSecret
    <2> QED
      BY <2>1 DEF Handover!Interfere, Recorded, Ending, Issued, Alive
  <1>4. CASE \E k \in Keys, s \in KeyStates \cup {"none"} : KeyFalls(k, s)
    <2>1. PICK k \in Keys, s \in KeyStates \cup {"none"} : KeyFalls(k, s)
      BY <1>4
    <2>2. /\ faults' = faults + 1 /\ UNCHANGED <<api, secret, nextKey>>
          /\ keys[k] = "valid" /\ keys' = [keys EXCEPT ![k] = s]
          /\ keys \in [Keys -> {"none", "valid", "revoked", "expired", "overused"}]
      BY <2>1 DEF KeyFalls, kube, RInv, IInv, TypeOK
    <2>3. Alive' = IF s = "none" THEN Alive \ {k} ELSE Alive
      BY <2>2 DEF Alive
    <2> QED
      BY <2>2, <2>3 DEF Handover!Interfere, Recorded, Ending, Issued
  <1> QED
    BY <1>1, <1>2, <1>3, <1>4

(* Every step of the reconciler and of its surroundings is a step of the   *)
(* hand-over, or not seen.                                                 *)
LEMMA StepRefines == RInv /\ [Next]_vars => [Handover!Next]_(Handover!vars)
  <1> SUFFICES ASSUME RInv, [Next]_vars PROVE Handover!Next \/ UNCHANGED Handover!vars
    OBVIOUS
  <1>1. CASE Start \/ CheckKey \/ CheckSecret \/ DeliverObject \/ DeliverSecret
             \/ UNCHANGED vars
    BY <1>1, InnerSteps
  <1>2. CASE Finalize \/ MarkReady
    BY <1>2, MarkSteps
  <1>3. CASE Create \/ Record \/ ApplySecret \/ DelOld \/ DelKey
    BY <1>3, CreateRefines, RecordRefines, PublishRefines, RetireRefines DEF Handover!Next
  <1>4. CASE UserDelete \/ Unfinalize
    BY <1>4, EndRefines DEF Handover!Next
  <1>5. CASE \/ CollectSecret \/ CallFails \/ Crash
             \/ \E v \in {None, Garbled} : UserSpoilsSecret(v)
             \/ \E k \in Keys, s \in KeyStates \cup {"none"} : KeyFalls(k, s)
    BY <1>5, OthersRefine DEF Handover!Next
  <1> QED
    BY <1>1, <1>2, <1>3, <1>4, <1>5 DEF Next, Step, Environment

(* SetupKeyReconciler implements KeyHandover, for every number of keys,    *)
(* lag and number of faults: no informer that lags, no failed call and no  *)
(* crash makes Reconcile delete a key in use or publish one not recorded.  *)
THEOREM Refinement == Spec => ImplementsHandover
  <1>1. Spec => []RInv
    BY RInvariance
  <1>2. Init => Handover!Init
    BY InitRefines
  <1>3. RInv /\ [Next]_vars => [Handover!Next]_(Handover!vars)
    BY StepRefines
  <1> QED
    BY <1>1, <1>2, <1>3, PTL DEF Spec, ImplementsHandover, Handover!Spec

-----------------------------------------------------------------------------
(* The sidecars of the Pods whose profiles name a SetupKey (Operator, as   *)
(* composed in ClusterProxy).                                              *)
CONSTANTS Profiles, Labels, Selector, Malformed, ApiKeys, Certs, Specs
VARIABLES phase, apiKey, profiles, opSeen, key, keySeen, class, classWork, seeded, missed, known, opFaults,
          proxy, proxySeen, opSecret, deployment, work, opWorker, lost

Op == INSTANCE ClusterProxy
          WITH seen <- opSeen, secret <- opSecret, worker <- opWorker, faults <- opFaults

(* Once the caches have synced, every profile that some informer has shown *)
(* and that still exists is in the present one, restarts included.         *)
SidecarInv ==
    /\ phase \in {"down", "probes", "webhook", "caches", "leading"}
    /\ profiles \subseteq Profiles /\ opSeen \subseteq Profiles /\ known \subseteq Profiles
    /\ Op!Up("caches") => known \subseteq opSeen

(* A set of naturals that is not empty has a least element, which is the   *)
(* one that Min chooses.                                                   *)
LEMMA MinOfNats ==
    ASSUME NEW S, S \subseteq Nat, S # {}
    PROVE  Op!Min(S) \in S /\ \A y \in S : Op!Min(S) <= y
  <1>1. PICK x \in S : \A y \in S : ~(<<y, x>> \in OpToRel(<, Nat))
    BY NatLessThanWellFounded, WFMin, Zenon
  <1>2. \A y \in S : x <= y
    <2> SUFFICES ASSUME NEW y \in S PROVE x <= y
      OBVIOUS
    <2>1. <<y, x>> \in Nat \X Nat /\ <<y, x>>[1] = y /\ <<y, x>>[2] = x
      OBVIOUS
    <2>2. ~(y < x)
      BY <1>1, <2>1 DEF OpToRel
    <2> QED
      BY <2>2
  <1> QED
    BY <1>2, Zenon DEF Op!Min

(* The order in which mgr.Start brings the parts up. *)
LEMMA Order ==
    /\ Op!At("down") = 1 /\ Op!At("probes") = 2 /\ Op!At("webhook") = 3 /\ Op!At("caches") = 4 /\ Op!At("leading") = 5
  BY DEF Op!At, Op!Phases

(* The informers answer in the last two phases. *)
LEMMA CachesUp ==
    ASSUME phase \in {"down", "probes", "webhook", "caches", "leading"}
    PROVE  Op!Up("caches") <=> phase \in {"caches", "leading"}
  BY Order DEF Op!Up

(* The process comes up: a cache that has synced shows what there is. *)
LEMMA AdvanceInv == ASSUME SidecarInv, Op!Advance PROVE SidecarInv'
  <1>1. /\ phase = "down" => phase' = "probes"
        /\ phase = "probes" => phase' = "webhook"
        /\ phase = "webhook" => phase' = "caches"
        /\ phase = "caches" => phase' = "leading"
    BY Order DEF Op!Advance, Op!Phases
  <1>2. phase' \in {"probes", "webhook", "caches", "leading"} /\ phase # "leading"
    BY <1>1 DEF SidecarInv, Op!Advance
  <1>3. phase' = "leading" => phase = "caches"
    BY <1>1, <1>2 DEF SidecarInv
  <1>4. Op!Up("caches")' <=> phase' \in {"caches", "leading"}
    BY <1>2, Order DEF Op!Up
  <1>5. CASE phase' = "caches"
    BY <1>2, <1>4, <1>5 DEF SidecarInv, Op!Advance
  <1>6. CASE phase' # "caches"
    <2>1. UNCHANGED <<opSeen, known, profiles>>
      BY <1>6 DEF Op!Advance
    <2>2. phase' = "leading" => known \subseteq opSeen
      BY <1>3, CachesUp DEF SidecarInv
    <2> QED
      BY <1>2, <1>4, <1>6, <2>1, <2>2 DEF SidecarInv
  <1> QED
    BY <1>5, <1>6

(* A restart: nothing is answered before the caches have synced again. *)
LEMMA RestartedInv == ASSUME SidecarInv, Op!Restarted PROVE SidecarInv'
  <1>1. phase' = "down" /\ opSeen' = {} /\ UNCHANGED <<profiles, known>>
    BY DEF Op!Restarted
  <1>2. ~Op!Up("caches")'
    BY <1>1, Order DEF Op!Up
  <1> QED
    BY <1>1, <1>2 DEF SidecarInv

(* A profile that is deleted counts no more. *)
LEMMA WriteInv == ASSUME SidecarInv, Op!Write PROVE SidecarInv'
  <1>1. UNCHANGED <<phase, opSeen>>
    BY DEF Op!Write, Op!processVars
  <1>2. Op!Up("caches")' <=> Op!Up("caches")
    BY <1>1 DEF Op!Up
  <1>3. profiles' \subseteq Profiles /\ known' \subseteq known
    BY DEF Op!Write, SidecarInv
  <1> QED
    BY <1>1, <1>2, <1>3 DEF SidecarInv

(* The informer catches up. *)
LEMMA DeliverInv == ASSUME SidecarInv, Op!DeliverProfiles PROVE SidecarInv'
  BY DEF SidecarInv, Op!DeliverProfiles, Op!processVars, Op!Up

(* All other steps leave the profiles and the phase alone. *)
LEMMA SameInv == ASSUME SidecarInv, UNCHANGED <<phase, profiles, opSeen, known>> PROVE SidecarInv'
  BY DEF SidecarInv, Op!Up

(* Every step keeps the invariant. *)
LEMMA NextInv == ASSUME SidecarInv, [Op!Next]_(Op!vars) PROVE SidecarInv'
  <1>1. CASE Op!Start
    BY <1>1, AdvanceInv DEF Op!Start
  <1>2. CASE Op!Restart
    BY <1>2, RestartedInv DEF Op!Restart
  <1>3. CASE Op!Write
    BY <1>3, WriteInv
  <1>4. CASE Op!DeliverProfiles
    BY <1>4, DeliverInv
  <1>5. CASE Op!KeyReady \/ Op!Seed \/ Op!Meddle \/ Op!ReconcileClass
    BY <1>5, SameInv DEF Op!KeyReady, Op!Seed, Op!Meddle, Op!ReconcileClass, Op!processVars,
       Op!webhookVars
  <1>6. CASE Op!Deliver \/ Op!User \/ Op!Outside \/ Op!Collect \/ Op!CallFails \/ Op!DeliverKey
    BY <1>6, SameInv
       DEF Op!Deliver, Op!User, Op!Outside, Op!Collect, Op!CallFails, Op!DeliverKey, Op!processVars, Op!webhookVars
  <1>7. CASE Op!Step
    BY <1>7, SameInv DEF Op!Step, Op!ApplyKey, Op!ApplySecret, Op!ApplyDeployment, Op!Patch,
       Op!processVars, Op!webhookVars
  <1>8. CASE UNCHANGED Op!vars
    BY <1>8, SameInv DEF Op!vars, Op!processVars, Op!webhookVars
  <1> QED
    BY <1>1, <1>2, <1>3, <1>4, <1>5, <1>6, <1>7, <1>8 DEF Op!Next, Op!OperatorNext

(* Default answers from all the profiles that count. *)
LEMMA DefaultFirst == ASSUME Op!OperatorAssumption, SidecarInv PROVE Op!SidecarsNotSkipped
  <1> SUFFICES ASSUME NEW l \in Labels, NEW d \in Op!Default(l), NEW p \in known, l \in Selector[p]
               PROVE  d # None /\ d <= p
    BY DEF Op!SidecarsNotSkipped
  <1>1. Op!Answers
    BY DEF Op!Default
  <1>2. p \in Op!Matching(l)
    BY <1>1 DEF SidecarInv, Op!Answers, Op!Matching
  <1>3. d = Op!Min(Op!Matching(l))
    BY <1>1, <1>2 DEF Op!Default
  <1>4. Op!Matching(l) \subseteq Profiles /\ Op!Matching(l) \subseteq Nat
    BY Zenon DEF Op!Matching, SidecarInv, Op!OperatorAssumption
  <1>5. Op!Min(Op!Matching(l)) \in Op!Matching(l) /\ Op!Min(Op!Matching(l)) <= p
    BY <1>2, <1>4, MinOfNats
  <1> QED
    BY <1>3, <1>4, <1>5 DEF Op!OperatorAssumption

(* Default of the Pod webhook: once an informer has shown a profile that   *)
(* selects a Pod, and while the profile exists, the Pod is admitted with   *)
(* its sidecar or that of an earlier profile, however the process restarts *)
(* and the informers lag.                                                  *)
THEOREM WebhookSkipsNone ==
    ASSUME Op!OperatorAssumption
    PROVE  Op!Spec => []Op!SidecarsNotSkipped
  <1>1. Op!Init => SidecarInv
    BY Order DEF Op!Init, Op!OperatorInit, SidecarInv, Op!Up
  <1>2. SidecarInv /\ [Op!Next]_(Op!vars) => SidecarInv'
    BY NextInv
  <1>3. SidecarInv => Op!SidecarsNotSkipped
    BY DefaultFirst
  <1> QED
    BY <1>1, <1>2, <1>3, PTL DEF Op!Spec

-----------------------------------------------------------------------------
(* The types, with those of the queues. *)
OpTypes ==
    /\ Op!TypeOK /\ classWork \in BOOLEAN /\ work \in BOOLEAN
    /\ seeded \in BOOLEAN /\ missed \in BOOLEAN

(* Controllers run only in a process that leads. *)
OpRunning == (seeded \/ opWorker # Op!Idle) => Op!Controllers

(* A class that is not settled is queued, or Start has still to seed it;   *)
(* nothing is excused when there is a class, or its name is queued.        *)
ClassWatched ==
    Op!Controllers =>
        \/ classWork \/ class \in {"accepted", "foreign"}
        \/ class = None /\ (~seeded \/ missed)

SecretOK == opSecret = apiKey \/ (lost /\ opSecret = None)

(* A ClusterProxy that is not queued has been worked off for the spec the  *)
(* informer shows, up to where the reconcile in progress is; it has a key, *)
(* for whose id the reconcile before may have to wait.                     *)
OpWatched ==
    Op!Controllers /\ proxySeen # None /\ ~work =>
        /\ key # None
        /\ opWorker # Op!Idle => opWorker.spec = proxySeen.spec
        /\ opWorker.at \in {"deployment", "patch"} => SecretOK
        /\ opWorker.at = "patch" => deployment = opWorker.spec
        /\ opWorker = Op!Idle /\ keySeen = "ready" =>
              /\ deployment = proxySeen.spec /\ SecretOK
              /\ proxy # None => proxy.ready = proxySeen.spec

OpInv == OpTypes /\ OpRunning /\ ClassWatched /\ OpWatched

(* The process leads in its last phase. *)
LEMMA Leading ==
    ASSUME OpTypes
    PROVE  /\ phase \in {"down", "probes", "webhook", "caches", "leading"}
           /\ Op!Controllers <=> phase = "leading" /\ apiKey # None
  <1>1. phase \in {"down", "probes", "webhook", "caches", "leading"}
    <2>1. PICK i \in 1..5 : phase = Op!Phases[i]
      BY DEF OpTypes, Op!TypeOK, Op!OperatorTypeOK
    <2>2. i = 1 \/ i = 2 \/ i = 3 \/ i = 4 \/ i = 5
      OBVIOUS
    <2> QED
      BY <2>1, <2>2 DEF Op!Phases
  <1> QED
    BY <1>1, Order DEF Op!Controllers, Op!Up

(* Advance goes on to the next phase. *)
LEMMA Advances ==
    ASSUME OpTypes, Op!Advance
    PROVE  /\ phase' \in {Op!Phases[i] : i \in 1..5} /\ phase # "leading"
           /\ phase' \in {"probes", "webhook", "caches", "leading"}
           /\ Op!Controllers' <=> phase' = "leading" /\ apiKey' # None
  <1>1. /\ phase = "down" => phase' = Op!Phases[2]
        /\ phase = "probes" => phase' = Op!Phases[3]
        /\ phase = "webhook" => phase' = Op!Phases[4]
        /\ phase = "caches" => phase' = Op!Phases[5]
        /\ phase # "leading"
    BY Order DEF Op!Advance
  <1>2. phase' \in {"probes", "webhook", "caches", "leading"} /\ phase' \in {Op!Phases[i] : i \in 1..5}
    BY <1>1, Leading DEF Op!Phases
  <1>3. Op!Controllers' <=> phase' = "leading" /\ apiKey' # None
    BY <1>2, Order DEF Op!Controllers, Op!Up
  <1> QED
    BY <1>1, <1>2, <1>3

(* What the steps of the process do. *)
LEMMA OpStartInv == ASSUME OpInv, Op!Start PROVE OpInv'
  <1>1. OpTypes /\ Op!Advance
    BY DEF OpInv, Op!Start
  <1>2. ~Op!Controllers /\ opWorker = Op!Idle /\ ~seeded /\ phase' \in {Op!Phases[i] : i \in 1..5}
    BY <1>1, Advances, Leading DEF OpInv, OpRunning
  <1>3. Op!Controllers' <=> phase' = "leading" /\ apiKey # None
    BY <1>1, Advances DEF Op!Advance
  <1>4. OpTypes'
    <2>1. opSeen' \subseteq Profiles /\ keySeen' \in {None, "new", "ready"} /\ proxySeen' \in Op!Object \cup {None}
      BY <1>1 DEF OpTypes, Op!TypeOK, Op!OperatorTypeOK, Op!Advance, Op!Start
    <2>2. classWork' \in BOOLEAN /\ work' \in BOOLEAN
      BY <1>1 DEF Op!Advance, Op!Start
    <2> QED
      BY <1>1, <1>2, <2>1, <2>2, SMTT(20) DEF OpTypes, Op!TypeOK, Op!OperatorTypeOK, Op!Advance, Op!Start,
         Op!Object
  <1>5. OpRunning' /\ ClassWatched'
    <2>1. ~seeded' /\ opWorker' = Op!Idle
      BY <1>1, <1>2 DEF Op!Advance, Op!Start
    <2>2. Op!Controllers' /\ class' # None => classWork'
      BY <1>1, <1>3, Zenon DEF Op!Advance
    <2> QED
      BY <2>1, <2>2, Zenon DEF OpRunning, ClassWatched
  <1>6. OpWatched'
    BY <1>1, <1>2, <1>3, Zenon DEF OpWatched, Op!Advance, Op!Start
  <1> QED
    BY <1>4, <1>5, <1>6 DEF OpInv

(* A process that goes down takes its queues and its reconcile with it. *)
LEMMA OpRestartInv ==
    ASSUME Op!OperatorAssumption, OpInv, Op!Restart
    PROVE  OpInv'
  <1>1. phase' = "down" /\ ~Op!Controllers'
    BY Order DEF Op!Restart, Op!Restarted, Op!Controllers, Op!Up
  <1>2. OpTypes'
    <2>1. phase' \in {Op!Phases[i] : i \in 1..5} /\ opFaults' \in 0..MaxFaults
      BY <1>1 DEF Op!OperatorAssumption, OpInv, OpTypes, Op!TypeOK, Op!OperatorTypeOK, Op!Restart,
         Op!Restarted, Op!Spend, Op!Phases
    <2> QED
      BY <2>1, Zenon DEF OpInv, OpTypes, Op!TypeOK, Op!OperatorTypeOK, Op!Restart, Op!Restarted, Op!Object
  <1>3. OpRunning'
    BY Zenon DEF OpRunning, Op!Restart, Op!Restarted
  <1> QED
    BY <1>1, <1>2, <1>3 DEF OpInv, ClassWatched, OpWatched

(* Most steps leave the process alone, and what it keeps. *)
LEMMA SameProcess ==
    ASSUME UNCHANGED Op!processVars
    PROVE  Op!Controllers' <=> Op!Controllers
  BY DEF Op!processVars, Op!Controllers, Op!Up

(* The steps of the GatewayClass and of the profiles. *)
LEMMA OperatorInv ==
    ASSUME Op!OperatorAssumption, OpInv, Op!OperatorNext, UNCHANGED Op!proxyVars
    PROVE  OpInv'
  <1>1. UNCHANGED Op!processVars /\ (Op!Controllers' <=> Op!Controllers) /\ opWorker' = opWorker
    BY SameProcess DEF Op!OperatorNext, Op!Write, Op!DeliverProfiles, Op!KeyReady, Op!Seed, Op!Meddle,
       Op!ReconcileClass, Op!proxyVars
  <1>2. /\ keySeen' = keySeen /\ (key # None => key' # None)
    BY DEF Op!OperatorAssumption, Op!OperatorNext, Op!Write, Op!DeliverProfiles, Op!KeyReady, Op!Seed,
       Op!Meddle, Op!ReconcileClass, Op!webhookVars
  <1>3. /\ profiles' \subseteq Profiles /\ opSeen' \subseteq Profiles /\ key' \in {None, "new", "ready"}
    BY Zenon DEF Op!OperatorNext, Op!Write, Op!DeliverProfiles, Op!KeyReady, Op!Seed, Op!Meddle,
       Op!ReconcileClass, Op!webhookVars,
           OpInv, OpTypes, Op!TypeOK, Op!OperatorTypeOK
  <1>4. opFaults' \in 0..MaxFaults
    BY DEF Op!OperatorAssumption, Op!OperatorNext, Op!Write, Op!DeliverProfiles, Op!KeyReady, Op!Seed,
       Op!Meddle, Op!ReconcileClass, Op!Spend,
           OpInv, OpTypes, Op!TypeOK, Op!OperatorTypeOK
  <1>5. /\ class' \in {None, "foreign", "ours", "accepted"} /\ classWork' \in BOOLEAN
        /\ seeded' \in BOOLEAN /\ missed' \in BOOLEAN /\ (seeded' => Op!Controllers)
        /\ ClassWatched'
    <2>1. CASE UNCHANGED Op!classVars
      BY <1>1, <2>1 DEF Op!classVars, OpInv, OpTypes, Op!TypeOK, Op!OperatorTypeOK, OpRunning,
         ClassWatched
    <2>2. CASE Op!Seed
      <3>1. /\ class' = class \/ (class = None /\ class' = "ours")
            /\ class' # class => classWork'
            /\ class' = class => classWork' = classWork
            /\ classWork' \in BOOLEAN
        BY <2>2, Zenon DEF Op!Seed, Op!Ensured, OpInv, OpTypes
      <3>2. /\ Op!Controllers /\ ~seeded /\ seeded' = TRUE /\ missed' \in BOOLEAN
            /\ class' = None => missed' \/ classWork'
        <4>1. CASE class' = Op!Ensured /\ UNCHANGED missed
          BY <2>2, <4>1, Zenon DEF Op!Seed, Op!Ensured, Op!OperatorAssumption, OpInv, OpTypes
        <4>2. CASE missed' = (class = None /\ ~classWork) /\ UNCHANGED <<class, classWork>>
          BY <2>2, <4>2, Zenon DEF Op!Seed
        <4> QED
          BY <2>2, <4>1, <4>2, Zenon DEF Op!Seed
      <3>4. ClassWatched'
        BY <1>1, <3>1, <3>2 DEF OpInv, ClassWatched
      <3> QED
        BY <3>1, <3>2, <3>4 DEF OpInv, OpTypes, Op!TypeOK, Op!OperatorTypeOK
    <2>3. CASE Op!Meddle
      BY <1>1, <2>3, Zenon DEF Op!Meddle, OpInv, OpTypes, Op!TypeOK, Op!OperatorTypeOK, OpRunning,
         ClassWatched, Op!Controllers, Op!Up
    <2>4. CASE Op!ReconcileClass
      <3>1. Op!Controllers /\ classWork /\ seeded' = seeded /\ missed' = missed
        BY <2>4 DEF Op!ReconcileClass
      <3>2. CASE class' = Op!Healed /\ classWork' = (class' # class)
        <4>1. /\ class = None => class' = "ours" /\ class' # class
              /\ class = "ours" => class' = "accepted" /\ class' # class
              /\ class \in {"accepted", "foreign"} => class' = class
          BY <3>2 DEF Op!OperatorAssumption, Op!Healed, Op!Ensured
        <4>2. class' # class => classWork'
          BY <3>2, Zenon
        <4>3. classWork' \in BOOLEAN
          BY <3>2
        <4> QED
          BY <1>1, <3>1, <4>1, <4>2, <4>3 DEF OpInv, OpTypes, Op!TypeOK, Op!OperatorTypeOK, OpRunning,
             ClassWatched
      <3>3. CASE UNCHANGED <<class, classWork>>
        BY <1>1, <3>1, <3>3 DEF OpInv, OpTypes, Op!TypeOK, Op!OperatorTypeOK, OpRunning, ClassWatched
      <3> QED
        BY <2>4, <3>2, <3>3, Zenon DEF Op!ReconcileClass
    <2> QED
      BY <2>1, <2>2, <2>3, <2>4 DEF Op!OperatorNext, Op!Write, Op!DeliverProfiles, Op!KeyReady
  <1>6. OpTypes'
    BY <1>1, <1>2, <1>3, <1>4, <1>5 DEF OpInv, OpTypes, Op!TypeOK, Op!OperatorTypeOK, Op!processVars,
       Op!proxyVars, Op!Object
  <1>7. OpRunning'
    BY <1>1, <1>5, SMTT(20) DEF OpInv, OpRunning
  <1>8. OpWatched'
    BY <1>1, <1>2 DEF OpInv, OpWatched, SecretOK, Op!processVars, Op!proxyVars
  <1> QED
    BY <1>5, <1>6, <1>7, <1>8 DEF OpInv

(* What a step that leaves the process and the class alone has to show. *)
LEMMA ProxyStep ==
    ASSUME OpInv, UNCHANGED <<profiles, opSeen, Op!processVars, Op!classVars>>,
           key' \in {None, "new", "ready"}, keySeen' \in {None, "new", "ready"}, opFaults' \in 0..MaxFaults,
           proxy' \in Op!Object \cup {None}, proxySeen' \in Op!Object \cup {None},
           opSecret' \in ApiKeys \cup {None}, deployment' \in Specs \cup {None}, work' \in BOOLEAN,
           opWorker' \in {Op!Idle} \cup [at : {"secret", "deployment", "patch"}, spec : Specs],
           opWorker' # Op!Idle => opWorker # Op!Idle \/ Op!Controllers,
           Op!Controllers /\ proxySeen' # None /\ ~work' => OpWatched'
    PROVE  OpInv'
  <1>1. Op!Controllers' <=> Op!Controllers
    BY SameProcess
  <1>2. OpTypes'
    BY DEF OpInv, OpTypes, Op!TypeOK, Op!OperatorTypeOK, Op!processVars, Op!classVars, Op!Object
  <1>3. OpRunning'
    BY <1>1 DEF OpInv, OpRunning, Op!classVars
  <1>4. ClassWatched'
    BY <1>1 DEF OpInv, ClassWatched, Op!classVars
  <1>5. OpWatched'
    BY <1>1 DEF OpWatched
  <1> QED
    BY <1>2, <1>3, <1>4, <1>5 DEF OpInv

(* What Types says of the variables the ClusterProxy's steps change. *)
LEMMA ProxyTypes ==
    ASSUME OpInv
    PROVE  /\ key \in {None, "new", "ready"} /\ keySeen \in {None, "new", "ready"} /\ opFaults \in 0..MaxFaults
           /\ proxy \in Op!Object \cup {None} /\ proxySeen \in Op!Object \cup {None}
           /\ opSecret \in ApiKeys \cup {None} /\ deployment \in Specs \cup {None} /\ work \in BOOLEAN
           /\ opWorker \in {Op!Idle} \cup [at : {"secret", "deployment", "patch"}, spec : Specs]
           /\ apiKey \in ApiKeys \cup {None}
  BY DEF OpInv, OpTypes, Op!TypeOK, Op!OperatorTypeOK, Op!Object

(* A fault that is spent. *)
LEMMA FaultSpent ==
    ASSUME Op!OperatorAssumption, OpInv, Op!Spend
    PROVE  opFaults' \in 0..MaxFaults
  BY ProxyTypes DEF Op!OperatorAssumption, Op!Spend

(* The informers deliver: each event queues the ClusterProxy. *)
LEMMA DeliverProxyInv == ASSUME OpInv, Op!Deliver \/ Op!DeliverKey PROVE OpInv'
  <1>1. Op!Controllers \in BOOLEAN
    BY DEF Op!Controllers, Op!Up
  <1>2. CASE Op!Deliver
    <2>1. work' = Op!Controllers /\ UNCHANGED <<profiles, opSeen, Op!processVars, Op!classVars>>
      BY <1>2 DEF Op!Deliver, Op!webhookVars
    <2> QED
      BY <1>1, <1>2, <2>1, ProxyTypes, ProxyStep DEF Op!Deliver, Op!webhookVars
  <1>3. CASE Op!DeliverKey
    <2>1. work' = (work \/ Op!Controllers) /\ UNCHANGED <<profiles, opSeen, Op!processVars, Op!classVars>>
      BY <1>3, SMTT(20) DEF Op!DeliverKey, Op!Owned
    <2> QED
      BY <1>1, <1>3, <2>1, ProxyTypes, ProxyStep DEF Op!DeliverKey
  <1> QED
    BY <1>2, <1>3

(* The user; a new ClusterProxy has yet to be delivered. *)
LEMMA UserInv ==
    ASSUME Op!OperatorAssumption, OpInv, Op!User
    PROVE  OpInv'
  <1>1. /\ UNCHANGED <<profiles, opSeen, Op!processVars, Op!classVars>>
        /\ UNCHANGED <<key, keySeen, proxySeen, opSecret, deployment, work, opWorker, lost, apiKey>>
    BY DEF Op!User, Op!webhookVars, Op!processVars
  <1>2. opFaults' \in 0..MaxFaults
    BY ProxyTypes, FaultSpent DEF Op!User
  <1>3. proxy' \in Op!Object \cup {None}
    BY ProxyTypes DEF Op!User, Op!Object
  <1>4. proxySeen # None /\ proxy' # None => proxy # None /\ proxy'.ready = proxy.ready
    <2>1. CASE <<proxy, proxySeen, opSecret, deployment, key>> = [i \in 1..5 |-> None]
      <3>1. <<proxy, proxySeen, opSecret, deployment, key>>[2] = None
        BY <2>1
      <3> QED
        BY <3>1
    <2>2. CASE proxy # None /\ \/ proxy' = None
                               \/ \E s \in Specs \ {proxy.spec} : proxy' = [proxy EXCEPT !.spec = s]
      BY <2>2, ProxyTypes, SMTT(20) DEF Op!Object
    <2> QED
      BY <2>1, <2>2 DEF Op!User
  <1>5. Op!Controllers' <=> Op!Controllers
    BY <1>1, SameProcess, Zenon
  <1>6. OpWatched'
    BY <1>1, <1>4, <1>5, Zenon DEF OpInv, OpWatched, SecretOK
  <1> QED
    BY <1>1, <1>2, <1>3, <1>6, ProxyTypes, ProxyStep

(* Whoever deletes what the controller applied.  Only the Secret has no    *)
(* watch.                                                                  *)
LEMMA OutsideInv ==
    ASSUME Op!OperatorAssumption, OpInv, Op!Outside
    PROVE  OpInv'
  <1>1. /\ UNCHANGED <<profiles, opSeen, Op!processVars, Op!classVars>>
        /\ UNCHANGED <<keySeen, proxy, proxySeen, opWorker, apiKey>>
    BY ZenonT(30) DEF Op!Outside, Op!processVars
  <1>2. opFaults' \in 0..MaxFaults
    BY FaultSpent DEF Op!Outside
  <1>3. (Op!Controllers' <=> Op!Controllers) /\ Op!Controllers \in BOOLEAN
    BY <1>1, SameProcess, SMTT(20) DEF Op!Controllers, Op!Up
  <1>4. CASE opSecret' = None /\ lost' = TRUE /\ UNCHANGED <<deployment, work, key>>
    <2>1. OpWatched'
      BY <1>1, <1>3, <1>4, Zenon DEF OpInv, OpWatched, SecretOK
    <2> QED
      BY <1>1, <1>2, <1>4, <2>1, ProxyTypes, ProxyStep, ZenonT(30)
  <1>5. CASE /\ work' = Op!Controllers /\ key' \in {key, None}
             /\ deployment' \in {deployment, None} /\ opSecret' = opSecret
    <2>1. OpWatched'
      BY <1>3, <1>5, Zenon DEF OpWatched
    <2> QED
      BY <1>1, <1>2, <1>3, <1>5, <2>1, ProxyTypes, ProxyStep, ZenonT(30)
  <1> QED
    BY <1>4, <1>5, Zenon DEF Op!Outside

(* Garbage collection is an event of what is collected. *)
LEMMA CollectInv == ASSUME OpInv, Op!Collect PROVE OpInv'
  <1>1. Op!Controllers \in BOOLEAN
    BY DEF Op!Controllers, Op!Up
  <1> QED
    BY <1>1, ProxyTypes, ProxyStep DEF Op!Collect

(* A reconcile. *)
LEMMA OpStepInv ==
    ASSUME Op!OperatorAssumption, OpInv, Op!Step
    PROVE  OpInv'
  <1>1. Op!Idle.at = "idle" /\ (opWorker.at # "idle" => opWorker # Op!Idle)
    BY DEF Op!Idle
  <1>2. CASE Op!ApplyKey
    <2>1. /\ UNCHANGED <<profiles, opSeen, Op!processVars, Op!classVars, apiKey>> /\ Op!Controllers /\ work' = FALSE
          /\ UNCHANGED <<keySeen, proxy, proxySeen, opSecret, deployment, lost, opFaults>>
      BY <1>2 DEF Op!ApplyKey, Op!processVars
    <2>2. key' \in {None, "new", "ready"} /\ (proxySeen # None => key' # None)
      BY <1>2, ProxyTypes DEF Op!OperatorAssumption, Op!ApplyKey
    <2>3. \/ opWorker' = Op!Idle /\ (proxySeen # None => keySeen # "ready")
          \/ proxySeen # None /\ opWorker' = [at |-> "secret", spec |-> proxySeen.spec]
      BY <1>2 DEF Op!ApplyKey
    <2>4. /\ opWorker' \in {Op!Idle} \cup [at : {"secret", "deployment", "patch"}, spec : Specs]
          /\ opWorker'.at \in {"idle", "secret"}
          /\ proxySeen # None /\ opWorker' # Op!Idle => opWorker'.spec = proxySeen.spec
      BY <2>3, ProxyTypes DEF Op!Object, Op!Idle
    <2>5. proxySeen # None /\ opWorker' = Op!Idle => keySeen # "ready"
      BY <2>3 DEF Op!Idle
    <2>6. OpWatched'
      BY <2>1, <2>2, <2>4, <2>5 DEF OpWatched
    <2> QED
      BY <2>1, <2>2, <2>4, <2>6, ProxyTypes, ProxyStep, Zenon
  <1>3. CASE Op!ApplySecret
    <2>1. /\ UNCHANGED <<profiles, opSeen, Op!processVars, Op!classVars, apiKey>>
          /\ UNCHANGED <<key, keySeen, proxy, proxySeen, deployment, work, opFaults>>
          /\ opSecret' = apiKey
      BY <1>3 DEF Op!ApplySecret, Op!webhookVars, Op!processVars
    <2>2. /\ opWorker # Op!Idle /\ opWorker' # Op!Idle /\ opWorker'.at = "deployment" /\ opWorker'.spec = opWorker.spec
          /\ opWorker' \in {Op!Idle} \cup [at : {"secret", "deployment", "patch"}, spec : Specs]
      BY <1>1, <1>3, ProxyTypes DEF Op!ApplySecret, Op!Idle
    <2>3. Op!Controllers' <=> Op!Controllers
      BY <2>1, SameProcess
    <2>4. OpWatched'
      BY <2>1, <2>2, <2>3 DEF OpInv, OpWatched, SecretOK
    <2> QED
      BY <2>1, <2>2, <2>4, ProxyTypes, ProxyStep
  <1>4. CASE Op!ApplyDeployment
    <2>1. /\ UNCHANGED <<profiles, opSeen, Op!processVars, Op!classVars, apiKey>>
          /\ UNCHANGED <<key, keySeen, proxy, proxySeen, opSecret, lost, opFaults>>
          /\ deployment' = opWorker.spec
      BY <1>4 DEF Op!ApplyDeployment, Op!webhookVars, Op!processVars
    <2>2. work' \in BOOLEAN /\ (~work' => ~work)
      BY <1>4, ProxyTypes DEF Op!ApplyDeployment
    <2>3. /\ opWorker # Op!Idle /\ opWorker' # Op!Idle /\ opWorker'.at = "patch" /\ opWorker'.spec = opWorker.spec
          /\ opWorker.spec \in Specs /\ opWorker.at = "deployment"
          /\ opWorker' \in {Op!Idle} \cup [at : {"secret", "deployment", "patch"}, spec : Specs]
      BY <1>1, <1>4, ProxyTypes DEF Op!ApplyDeployment, Op!Idle
    <2>4. Op!Controllers' <=> Op!Controllers
      BY <2>1, SameProcess
    <2>5. OpWatched'
      BY <2>1, <2>2, <2>3, <2>4 DEF OpInv, OpWatched, SecretOK
    <2> QED
      BY <2>1, <2>2, <2>3, <2>5, ProxyTypes, ProxyStep
  <1>5. CASE Op!Patch
    <2>1. /\ UNCHANGED <<profiles, opSeen, Op!processVars, Op!classVars, apiKey>>
          /\ UNCHANGED <<key, keySeen, proxySeen, opSecret, deployment, lost, opFaults>>
          /\ opWorker' = Op!Idle /\ opWorker.at = "patch"
      BY <1>5 DEF Op!Patch, Op!webhookVars, Op!processVars
    <2>2. opWorker # Op!Idle /\ opWorker.spec \in Specs
      BY <1>1, <2>1, ProxyTypes DEF Op!Idle
    <2>3. CASE proxy = None
      <3>1. work' = TRUE /\ proxy' = proxy
        BY <1>5, <2>3 DEF Op!Patch
      <3> QED
        BY <2>1, <3>1, ProxyTypes, ProxyStep
    <2>4. CASE proxy # None
      <3>1. work' = work /\ proxy' \in Op!Object /\ proxy'.ready = opWorker.spec
        BY <1>5, <2>2, <2>4, ProxyTypes DEF Op!Patch, Op!Object
      <3>2. (Op!Controllers' <=> Op!Controllers) /\ opWorker'.at = "idle"
        BY <1>1, <2>1, SameProcess
      <3>3. OpWatched'
        BY <2>1, <2>2, <3>1, <3>2 DEF OpInv, OpWatched, SecretOK
      <3> QED
        BY <2>1, <3>1, <3>3, ProxyTypes, ProxyStep
    <2> QED
      BY <2>3, <2>4
  <1> QED
    BY <1>2, <1>3, <1>4, <1>5 DEF Op!Step

(* A failed call is retried. *)
LEMMA OpCallFailsInv ==
    ASSUME Op!OperatorAssumption, OpInv, Op!CallFails
    PROVE  OpInv'
  <1>1. opFaults' \in 0..MaxFaults
    BY FaultSpent DEF Op!CallFails
  <1> QED
    BY <1>1, ProxyTypes, ProxyStep DEF Op!CallFails, Op!webhookVars

(* Every step keeps the invariant. *)
LEMMA OpInvNext ==
    ASSUME Op!OperatorAssumption, OpInv, [Op!Next]_(Op!vars)
    PROVE  OpInv'
  <1>1. CASE UNCHANGED Op!vars
    <2>1. /\ UNCHANGED <<profiles, opSeen, Op!processVars, Op!classVars, apiKey, key, keySeen, opFaults>>
          /\ UNCHANGED <<proxy, proxySeen, opSecret, deployment, work, opWorker, lost>>
      BY <1>1, Zenon DEF Op!vars, Op!webhookVars, Op!processVars, Op!proxyVars
    <2>2. Op!Controllers' <=> Op!Controllers
      BY <2>1, SameProcess, Zenon
    <2>3. OpWatched'
      BY <2>1, <2>2 DEF OpInv, OpWatched, SecretOK
    <2> QED
      BY <2>1, <2>3, ProxyTypes, ProxyStep, SMTT(20)
  <1> QED
    BY <1>1, OpStartInv, OpRestartInv, OperatorInv, DeliverProxyInv, UserInv, OutsideInv, CollectInv,
       OpStepInv,
       OpCallFailsInv DEF Op!Next

(* The operator starts with nothing queued. *)
LEMMA OpInvInit ==
    ASSUME Op!OperatorAssumption, Op!Init
    PROVE  OpInv
  <1>1. phase = "down" /\ ~Op!Controllers /\ phase \in {Op!Phases[i] : i \in 1..5}
    BY Order DEF Op!Init, Op!OperatorInit, Op!Controllers, Op!Up, Op!Phases
  <1>2. OpTypes
    <2>1. Op!OperatorTypeOK
      BY <1>1 DEF Op!OperatorAssumption, Op!Init, Op!OperatorInit, Op!OperatorTypeOK
    <2> QED
      BY <2>1, Zenon DEF Op!Init, Op!OperatorInit, OpTypes, Op!TypeOK
  <1> QED
    BY <1>1, <1>2 DEF OpInv, OpRunning, ClassWatched, OpWatched, Op!Init, Op!OperatorInit

(* The invariant holds throughout, and with it the types. *)
THEOREM OpInvariance ==
    ASSUME Op!OperatorAssumption
    PROVE  Op!Spec => []OpInv
  BY OpInvInit, OpInvNext, PTL DEF Op!Spec

(* The Go types of what the process and the ClusterProxy controller keep   *)
(* are respected, over restarts and every other step.                      *)
THEOREM ProxyTypeCorrect ==
    ASSUME Op!OperatorAssumption
    PROVE  Op!Spec => []Op!TypeOK
  <1>1. OpInv => Op!TypeOK
    BY DEF OpInv, OpTypes
  <1> QED
    BY <1>1, OpInvariance, PTL

(* GatewayClassReconciler: its watch, the seed and its own retries lose    *)
(* nothing, over any number of restarts, and whatever made the seed fail:  *)
(* only the name of a class that was not there is never queued.            *)
THEOREM ClassNotForgotten ==
    ASSUME Op!OperatorAssumption
    PROVE  Op!Spec => []Op!ClassRestsSettled
  <1>1. OpInv => Op!ClassRestsSettled
    BY DEF OpInv, ClassWatched, Op!ClassRestsSettled, Op!ClassSettled, OpTypes
  <1> QED
    BY <1>1, OpInvariance, PTL

(* ClusterProxyReconciler returns without a requeue on every path, so that *)
(* only events bring it back: those it has suffice.                        *)
THEOREM ProxyNotForgotten ==
    ASSUME Op!OperatorAssumption
    PROVE  Op!Spec => []Op!RestsSettled
  <1>1. ASSUME OpInv, Op!AtRest, proxy # None PROVE Op!Settled
    <2>1. Op!Controllers /\ proxySeen # None /\ ~work /\ opWorker = Op!Idle
      BY <1>1 DEF Op!AtRest
    <2>2. key # None
      BY <1>1, <2>1 DEF OpInv, OpWatched
    <2>3. keySeen = "ready"
      BY <1>1, <2>2, ProxyTypes DEF Op!AtRest
    <2> QED
      BY <1>1, <2>1, <2>3 DEF OpInv, OpWatched, SecretOK, Op!Settled, Op!AtRest
  <1>2. OpInv => Op!RestsSettled
    BY <1>1 DEF Op!RestsSettled
  <1> QED
    BY <1>2, OpInvariance, PTL
=============================================================================
