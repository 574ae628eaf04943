------------------------------ MODULE SetupKey ------------------------------
(***************************************************************************)
(* SetupKeyReconciler (setupkey_controller.go): one SetupKey object, the   *)
(* NetBird setup keys created for it, and the owned Secret that hands the  *)
(* current key to pods.  A key whose id, state or Secret does not check    *)
(* out is rotated: create, record, publish, delete the old one.  The       *)
(* reconciler reads the object and the Secret through two watches, each    *)
(* with its own lag.                                                       *)
(***************************************************************************)
EXTENDS Naturals, Sequences

CONSTANTS MaxKeys,     \* bound: setup keys NetBird hands out
          MaxLag,      \* bound: events in flight per watch (0: exact caches)
          MaxFaults,   \* bound: failures, crashes and outside interference
          KeyStates,   \* states a key may fall into outside the operator
          Prefix,      \* key -> the first keyPrefixLen characters of it
          None, Garbled

Keys == 1..MaxKeys

ASSUME SetupKeyBounds == MaxKeys \in Nat /\ MaxLag \in Nat /\ MaxFaults \in Nat
ASSUME SetupKeyStates == KeyStates \subseteq {"revoked", "expired", "overused"}
ASSUME SetupKeyValues ==
    /\ None \notin Keys /\ Garbled \notin Keys /\ None # Garbled
    /\ None \notin [id: Keys \cup {None}, deleting: BOOLEAN,
                    finalizer: BOOLEAN, ready: BOOLEAN]

VARIABLES
    api, seen,        \* the SetupKey in etcd and in the informer, or None
    secret, held,     \* the Secret's key in etcd and in the informer: a key,
                      \* Garbled (shorter than the prefix), None (no Secret)
    objEvents, secretEvents,   \* watch events in flight, oldest first
    keys,             \* NetBird: key -> its state, "none" if it does not exist
    worker,           \* the reconcile in progress
    nextKey, faults   \* counters behind the bounds

kube == <<api, seen, secret, held, objEvents, secretEvents>>
vars == <<kube, keys, worker, nextKey, faults>>

Object == [id: Keys \cup {None}, deleting: BOOLEAN, finalizer: BOOLEAN, ready: BOOLEAN]
Secrets == Keys \cup {Garbled, None}

Steps == {"idle", "finalize", "checkKey", "checkSecret", "create", "record",
          "applySecret", "delOld", "ready", "delKey", "unfinalize"}

(* obj is the copy Get returned, new the key created in this reconcile and *)
(* lagged (a history field) whether the copy was behind when it was read.  *)
IdleWorker == [step |-> "idle", obj |-> None, new |-> None, lagged |-> FALSE]

Live == api # None /\ ~api.deleting

Init ==
    /\ api = [id |-> None, deleting |-> FALSE, finalizer |-> FALSE, ready |-> FALSE]
    /\ seen = api
    /\ secret = None /\ held = None
    /\ objEvents = <<>> /\ secretEvents = <<>>
    /\ keys = [k \in Keys |-> "none"]
    /\ worker = IdleWorker
    /\ nextKey = 1 /\ faults = 0

-----------------------------------------------------------------------------
(* Kubernetes.  A write that changes nothing sends no event. *)
StoreObject(o) ==
    /\ api' = o
    /\ \/ o = api /\ UNCHANGED <<seen, objEvents>>
       \/ o # api /\ MaxLag = 0 /\ seen' = o /\ UNCHANGED objEvents
       \/ /\ o # api /\ Len(objEvents) < MaxLag
          /\ objEvents' = Append(objEvents, o) /\ UNCHANGED seen

StoreSecret(v) ==
    /\ secret' = v
    /\ \/ v = secret /\ UNCHANGED <<held, secretEvents>>
       \/ v # secret /\ MaxLag = 0 /\ held' = v /\ UNCHANGED secretEvents
       \/ /\ v # secret /\ Len(secretEvents) < MaxLag
          /\ secretEvents' = Append(secretEvents, v) /\ UNCHANGED held

DeliverObject ==
    /\ objEvents # <<>>
    /\ seen' = Head(objEvents)
    /\ objEvents' = Tail(objEvents)
    /\ UNCHANGED <<api, secret, held, secretEvents, keys, worker, nextKey, faults>>

DeliverSecret ==
    /\ secretEvents # <<>>
    /\ held' = Head(secretEvents)
    /\ secretEvents' = Tail(secretEvents)
    /\ UNCHANGED <<api, seen, secret, objEvents, keys, worker, nextKey, faults>>

(* The Secret is owned by the SetupKey: it is collected once that is gone. *)
CollectSecret ==
    /\ api = None /\ secret # None
    /\ StoreSecret(None)
    /\ UNCHANGED <<api, seen, objEvents, keys, worker, nextKey, faults>>

UserDelete ==
    /\ Live
    /\ StoreObject(IF api.finalizer THEN [api EXCEPT !.deleting = TRUE] ELSE None)
    /\ UNCHANGED <<secret, held, secretEvents, keys, worker, nextKey, faults>>

(* The Secret is deleted, or emptied, out of band. *)
UserSpoilsSecret(v) ==
    /\ faults < MaxFaults
    /\ secret \notin {None, v}
    /\ StoreSecret(v)
    /\ faults' = faults + 1
    /\ UNCHANGED <<api, seen, objEvents, keys, worker, nextKey>>

(* NetBird: a key is deleted by an administrator, expires, is used up. *)
KeyFalls(k, s) ==
    /\ faults < MaxFaults
    /\ keys[k] = "valid"
    /\ keys' = [keys EXCEPT ![k] = s]
    /\ faults' = faults + 1
    /\ UNCHANGED <<kube, worker, nextKey>>

-----------------------------------------------------------------------------
(* Reconcile.  Get reads the informer; a deleting object goes to           *)
(* reconcileDelete, which skips NetBird when no id is recorded.            *)
Start ==
    /\ worker.step = "idle"
    /\ seen # None
    /\ worker' = [step |-> IF seen.deleting
                           THEN IF seen.id = None THEN "unfinalize" ELSE "delKey"
                           ELSE IF seen.finalizer THEN "checkKey" ELSE "finalize",
                  obj |-> seen, new |-> None, lagged |-> objEvents # <<>>]
    /\ UNCHANGED <<kube, keys, nextKey, faults>>

(* The patch is addressed by name; it fails when the object is gone. *)
Finalize ==
    /\ worker.step = "finalize"
    /\ \/ /\ api = None
          /\ worker' = IdleWorker
          /\ UNCHANGED <<api, seen, objEvents>>
       \/ /\ api # None
          /\ StoreObject([api EXCEPT !.finalizer = TRUE])
          /\ worker' = [worker EXCEPT !.step = "checkKey"]
    /\ UNCHANGED <<secret, held, secretEvents, keys, nextKey, faults>>

(* The first half of the up-to-date check: the recorded key in NetBird.    *)
(* "overused" is returned as an error and the reconcile ends.              *)
CheckKey ==
    /\ worker.step = "checkKey"
    /\ LET state == IF worker.obj.id = None THEN "none" ELSE keys[worker.obj.id] IN
       worker' = CASE state = "valid"    -> [worker EXCEPT !.step = "checkSecret"]
                   [] state = "overused" -> IdleWorker
                   [] OTHER              -> [worker EXCEPT !.step = "create"]
    /\ UNCHANGED <<kube, keys, nextKey, faults>>

(* The second half: the Secret, read through the informer, begins like the *)
(* key.  The auto-group update that follows changes nothing modelled.      *)
SecretMatches(v, k) == v \in Keys /\ Prefix[v] = Prefix[k]

(* Mutant: a missing Secret taken for an unmodified one. *)
CheckSecret_missingIsFine ==
    /\ worker.step = "checkSecret"
    /\ worker' = IF held = None \/ SecretMatches(held, worker.obj.id) THEN IdleWorker
                 ELSE [worker EXCEPT !.step = "create"]
    /\ UNCHANGED <<kube, keys, nextKey, faults>>

CheckSecret ==
    /\ worker.step = "checkSecret"
    /\ worker' = IF SecretMatches(held, worker.obj.id) THEN IdleWorker
                 ELSE [worker EXCEPT !.step = "create"]
    /\ UNCHANGED <<kube, keys, nextKey, faults>>

Create ==
    /\ worker.step = "create"
    /\ nextKey <= MaxKeys
    /\ keys' = [keys EXCEPT ![nextKey] = "valid"]
    /\ nextKey' = nextKey + 1
    /\ worker' = [worker EXCEPT !.step = "record", !.new = nextKey]
    /\ UNCHANGED <<kube, faults>>

(* Mutant: the old key deleted before the Secret is replaced. *)
Record_deletesFirst ==
    /\ worker.step = "record"
    /\ api # None
    /\ StoreObject([api EXCEPT !.id = worker.new])
    /\ worker' = [worker EXCEPT !.step = IF worker.obj.id = None THEN "applySecret"
                                         ELSE "delOld"]
    /\ UNCHANGED <<secret, held, secretEvents, keys, nextKey, faults>>

(* The status patch with the new id; it fails when the object is gone. *)
Record ==
    /\ worker.step = "record"
    /\ \/ /\ api = None
          /\ worker' = IdleWorker
          /\ UNCHANGED <<api, seen, objEvents>>
       \/ /\ api # None
          /\ StoreObject([api EXCEPT !.id = worker.new])
          /\ worker' = [worker EXCEPT !.step = "applySecret"]
    /\ UNCHANGED <<secret, held, secretEvents, keys, nextKey, faults>>

ApplySecret ==
    /\ worker.step = "applySecret"
    /\ StoreSecret(worker.new)
    /\ worker' = [worker EXCEPT !.step = IF worker.obj.id = None THEN "ready" ELSE "delOld"]
    /\ UNCHANGED <<api, seen, objEvents, keys, nextKey, faults>>

(* SetupKeys.Delete of the id the copy carried; a 404 counts as deleted. *)
DelOld ==
    /\ worker.step = "delOld"
    /\ keys' = [keys EXCEPT ![worker.obj.id] = "none"]
    /\ worker' = [worker EXCEPT !.step = "ready"]
    /\ UNCHANGED <<kube, nextKey, faults>>

MarkReady ==
    /\ worker.step = "ready"
    /\ IF api = None \/ worker.obj.ready
       THEN UNCHANGED <<api, seen, objEvents>>
       ELSE StoreObject([api EXCEPT !.ready = TRUE])
    /\ worker' = IdleWorker
    /\ UNCHANGED <<secret, held, secretEvents, keys, nextKey, faults>>

-----------------------------------------------------------------------------
(* Mutant: every Delete error ignored. *)
DelKey_errorIgnored ==
    /\ worker.step = "delKey"
    /\ keys' \in {keys, [keys EXCEPT ![worker.obj.id] = "none"]}
    /\ worker' = [worker EXCEPT !.step = "unfinalize"]
    /\ UNCHANGED <<kube, nextKey, faults>>

(* reconcileDelete. *)
DelKey ==
    /\ worker.step = "delKey"
    /\ keys' = [keys EXCEPT ![worker.obj.id] = "none"]
    /\ worker' = [worker EXCEPT !.step = "unfinalize"]
    /\ UNCHANGED <<kube, nextKey, faults>>

Unfinalize ==
    /\ worker.step = "unfinalize"
    /\ StoreObject(None)
    /\ worker' = IdleWorker
    /\ UNCHANGED <<secret, held, secretEvents, keys, nextKey, faults>>

(* Any call may fail: the error is returned and the object queued again. *)
CallFails ==
    /\ worker.step # "idle"
    /\ faults < MaxFaults
    /\ worker' = IdleWorker
    /\ faults' = faults + 1
    /\ UNCHANGED <<kube, keys, nextKey>>

(* The operator restarts and its informers list afresh. *)
Crash ==
    /\ faults < MaxFaults
    /\ worker' = IdleWorker
    /\ seen' = api /\ held' = secret
    /\ objEvents' = <<>> /\ secretEvents' = <<>>
    /\ faults' = faults + 1
    /\ UNCHANGED <<api, secret, keys, nextKey>>

-----------------------------------------------------------------------------
Step ==
    \/ Finalize \/ CheckKey \/ CheckSecret \/ Create \/ Record \/ ApplySecret
    \/ DelOld \/ MarkReady \/ DelKey \/ Unfinalize

Environment ==
    \/ DeliverObject \/ DeliverSecret \/ CollectSecret \/ UserDelete
    \/ \E v \in {None, Garbled} : UserSpoilsSecret(v)
    \/ \E k \in Keys, s \in KeyStates \cup {"none"} : KeyFalls(k, s)
    \/ CallFails \/ Crash

Next == Start \/ Step \/ Environment

Spec == Init /\ [][Next]_vars

(* The worker works, the watches deliver, the garbage collector runs, and  *)
(* the object is queued again: by resyncInterval, back-off or an event.    *)
Fairness ==
    /\ WF_vars(Step) /\ WF_vars(Start)
    /\ WF_vars(DeliverObject) /\ WF_vars(DeliverSecret) /\ WF_vars(CollectSecret)

FairSpec == Spec /\ Fairness

-----------------------------------------------------------------------------
TypeOK ==
    /\ api \in Object \cup {None} /\ seen \in Object \cup {None}
    /\ secret \in Secrets /\ held \in Secrets
    /\ objEvents \in Seq(Object \cup {None}) /\ secretEvents \in Seq(Secrets)
    /\ keys \in [Keys -> {"none", "valid", "revoked", "expired", "overused"}]
    /\ worker \in [step: Steps, obj: Object \cup {None}, new: Keys \cup {None},
                   lagged: BOOLEAN]
    /\ nextKey \in 1..(MaxKeys + 1) /\ faults \in 0..MaxFaults

(* The rotation order of Reconcile: when it is about to delete the old     *)
(* key, that key is neither the one recorded in the status nor the one the *)
(* Secret hands to pods, whatever the copy it started from had missed.     *)
RotationSafe ==
    worker.step = "delOld" =>
        /\ worker.obj.id # secret
        /\ api # None => worker.obj.id # api.id

(* reconcileDelete: the SetupKey disappears only when the key recorded in  *)
(* its status no longer exists, except when a status patch made after the  *)
(* deletion was still on its way to the informer.                          *)
DeletionRevokes ==
    [][(api # None /\ api' = None /\ ~worker.lagged /\ api.id # None)
         => keys[api.id] = "none"]_vars

(* What the outside sees of the state. *)
Recorded == IF api = None THEN None ELSE api.id
Ending   == api = None \/ api.deleting
Issued   == 1..(nextKey - 1)
Alive    == {k \in Keys : keys[k] # "none"}

Handover == INSTANCE KeyHandover WITH recorded <- Recorded, ending <- Ending,
    published <- secret, issued <- Issued, alive <- Alive, interference <- faults

(* The reconciler implements KeyHandover: whatever its informers miss and  *)
(* wherever it fails, no step of Reconcile or reconcileDelete shows the    *)
(* outside more than one step of the hand-over of keys.                    *)
ImplementsHandover == Handover!Spec

(* The bound on ids stops a create, after rotations stale copies provoked. *)
Spent == worker.step = "create" /\ nextKey > MaxKeys

(* The up-to-date check and the rotation together: once interference stops *)
(* a live SetupKey records a valid key and the Secret holds that key, or   *)
(* the key was overused, which Reconcile answers with an error for ever; a *)
(* deleted SetupKey is gone, and so is its Secret.                         *)
KeyConverges ==
    <>[](\/ Spent
         \/ api = None /\ secret = None
         \/ /\ Live /\ api.id # None
            /\ \/ keys[api.id] = "valid" /\ SecretMatches(secret, api.id)
               \/ keys[api.id] = "overused")

(* setupkey_controller.go: "Delete the old status key if we are            *)
(* recreating": a key that stops being the recorded one is deleted.        *)
OldKeysDeleted ==
    \A k \in Keys : [](api # None /\ api.id = k =>
                         \/ []<>(api # None /\ api.id = k)
                         \/ <>(keys[k] = "none"))
=============================================================================
