---------------------------- MODULE ClusterProxy ----------------------------
(***************************************************************************)
(* The ClusterProxy controller (clusterproxy_controller.go) in the process *)
(* of module Operator.  It applies a SetupKey, a Secret with the API key   *)
(* of the process and a Deployment, and is driven by events only: of the   *)
(* ClusterProxy, its SetupKey and its Deployment, not of its Secret.       *)
(***************************************************************************)
EXTENDS Operator

CONSTANT Specs        \* specs of a ClusterProxy

VARIABLES
    proxy, proxySeen,   \* the ClusterProxy: etcd, informer
    secret, deployment, \* what they were applied with
    work, worker,       \* its name is queued; the reconcile in progress
    lost                \* history: the Secret was deleted by someone else

proxyVars == <<proxy, proxySeen, secret, deployment, work, worker, lost>>
vars == <<webhookVars, classVars, processVars, proxyVars, faults>>

(* The spec, and the one ReadyCondition and observedGeneration are about. *)
Object == [spec : Specs, ready : Specs \cup {None}]
Idle   == [at |-> "idle", spec |-> None]

Init ==
    /\ OperatorInit /\ proxy = None /\ proxySeen = None /\ secret = None /\ deployment = None
    /\ work = FALSE /\ worker = Idle /\ lost = FALSE

-----------------------------------------------------------------------------
(* At the start of a controller the informer lists what there is. *)
Start ==
    /\ Advance
    /\ proxySeen' = IF phase' = "caches" THEN proxy ELSE proxySeen
    /\ work' = (phase' = "leading" /\ apiKey # None /\ proxySeen # None)
    /\ UNCHANGED <<proxy, secret, deployment, worker, lost>>

Restart ==
    /\ Restarted /\ proxySeen' = None /\ work' = FALSE /\ worker' = Idle
    /\ UNCHANGED <<proxy, secret, deployment, lost>>

Deliver ==
    /\ Up("caches") /\ proxySeen # proxy /\ proxySeen' = proxy /\ work' = Controllers
    /\ UNCHANGED <<webhookVars, classVars, processVars, faults, proxy, secret, deployment, worker, lost>>

(* Mutant: SetupWithManager does not own the SetupKey. *)
Owned_deployment == FALSE

(* SetupWithManager: an event of the SetupKey queues the ClusterProxy. *)
Owned == Controllers

DeliverKey ==
    /\ Up("caches") /\ keySeen # key /\ keySeen' = key /\ work' = (work \/ Owned)
    /\ UNCHANGED <<profiles, seen, key, known, classVars, processVars, faults>>
    /\ UNCHANGED <<proxy, proxySeen, secret, deployment, worker, lost>>

(* The user, who creates a ClusterProxy anew only when the one before left *)
(* nothing; and whoever deletes what the controller applied.               *)
User ==
    /\ \/ /\ <<proxy, proxySeen, secret, deployment, key>> = [i \in 1..5 |-> None]
          /\ worker = Idle /\ UNCHANGED faults
          /\ \E s \in Specs : proxy' = [spec |-> s, ready |-> None]
       \/ proxy # None /\ Spend /\ \/ proxy' = None
                                   \/ \E s \in Specs \ {proxy.spec} : proxy' = [proxy EXCEPT !.spec = s]
    /\ UNCHANGED <<proxySeen, secret, deployment, work, worker, lost, webhookVars, classVars, processVars>>

Outside ==
    /\ Spend
    /\ \/ secret # None /\ secret' = None /\ lost' = TRUE /\ UNCHANGED <<deployment, work>>
          /\ UNCHANGED key
       \/ deployment # None /\ deployment' = None /\ work' = Controllers /\ UNCHANGED <<secret, lost, key>>
       \/ key # None /\ key' = None /\ work' = Controllers
          /\ UNCHANGED <<deployment, secret, lost>>
    /\ UNCHANGED <<profiles, seen, keySeen, known>>
    /\ UNCHANGED <<proxy, proxySeen, worker, classVars, processVars>>

(* The garbage collector removes what a deleted ClusterProxy owned. *)
Collect ==
    /\ proxy = None /\ <<secret, deployment, key>> # <<None, None, None>>
    /\ secret' = None /\ deployment' = None /\ key' = None
    /\ work' = Controllers
    /\ UNCHANGED <<proxy, proxySeen, worker, lost, classVars, processVars, faults>>
    /\ UNCHANGED <<profiles, seen, keySeen, known>>

-----------------------------------------------------------------------------
(* Reconcile up to the SetupKey: without its id the event is awaited. *)
ApplyKey ==
    /\ Controllers /\ work /\ worker = Idle /\ work' = FALSE
    /\ IF proxySeen = None THEN UNCHANGED <<key, worker>>
       ELSE /\ key' = IF key = None THEN "new" ELSE key
            /\ worker' = IF keySeen # "ready" THEN Idle
                         ELSE [at |-> "secret", spec |-> proxySeen.spec]
    /\ UNCHANGED <<proxy, proxySeen, secret, deployment, lost, classVars, processVars, faults>>
    /\ UNCHANGED <<profiles, seen, keySeen, known>>

ApplySecret ==
    /\ worker.at = "secret" /\ secret' = apiKey /\ lost' = FALSE
    /\ worker' = [worker EXCEPT !.at = "deployment"]
    /\ UNCHANGED <<proxy, proxySeen, deployment, work, webhookVars, classVars, processVars, faults>>

ApplyDeployment ==
    /\ worker.at = "deployment" /\ deployment' = worker.spec /\ work' = (work \/ deployment' # deployment)
    /\ worker' = [worker EXCEPT !.at = "patch"]
    /\ UNCHANGED <<proxy, proxySeen, secret, lost, webhookVars, classVars, processVars, faults>>

(* The patch of the status; a ClusterProxy that is gone fails it. *)
Patch ==
    /\ worker.at = "patch" /\ worker' = Idle
    /\ IF proxy = None THEN work' = TRUE /\ UNCHANGED proxy
       ELSE proxy' = [proxy EXCEPT !.ready = worker.spec] /\ UNCHANGED work
    /\ UNCHANGED <<proxySeen, secret, deployment, lost, webhookVars, classVars, processVars, faults>>

(* Any call may fail; the error queues the name again. *)
CallFails ==
    /\ worker # Idle /\ Spend /\ worker' = Idle /\ work' = TRUE
    /\ UNCHANGED <<proxy, proxySeen, secret, deployment, lost, webhookVars, classVars, processVars>>

Step == ApplyKey \/ ApplySecret \/ ApplyDeployment \/ Patch

Next ==
    \/ Start \/ Restart \/ Deliver \/ User \/ Outside \/ Collect \/ Step \/ CallFails
    \/ DeliverKey
    \/ OperatorNext /\ UNCHANGED proxyVars

Spec == Init /\ [][Next]_vars

(* The process comes up, informers deliver, and each queue is worked off. *)
Fairness ==
    /\ WF_vars(Start \/ Step) /\ WF_vars(Deliver) /\ WF_vars(DeliverKey) /\ WF_vars(Collect)
    /\ WF_vars((KeyReady \/ Seed \/ ReconcileClass) /\ UNCHANGED proxyVars)

FairSpec == Spec /\ Fairness

-----------------------------------------------------------------------------
TypeOK ==
    /\ OperatorTypeOK /\ proxy \in Object \cup {None} /\ proxySeen \in Object \cup {None}
    /\ secret \in ApiKeys \cup {None} /\ deployment \in Specs \cup {None}
    /\ worker \in {Idle} \cup [at : {"secret", "deployment", "patch"}, spec : Specs]

(* A ClusterProxy has a Deployment of its present spec, a Secret with the  *)
(* present API key and a Ready condition about that spec; a deleted one    *)
(* has nothing left.  Only a Secret that someone else deleted stays away,  *)
(* for its events are not watched.                                         *)
Settled ==
    IF proxy = None THEN <<secret, deployment, key>> = <<None, None, None>>
    ELSE /\ deployment = proxy.spec /\ proxy.ready = proxy.spec
         /\ secret = apiKey \/ (lost /\ secret = None)

(* However restarts, edits, deletions and late events interleave, once the *)
(* operator leads with an API key, the ClusterProxy is settled in the end. *)
ClusterProxyConverges == <>[](Controllers => Settled)

(* Nothing is queued, in progress or on its way: only a user, a restart or *)
(* someone else could cause the next reconcile.                            *)
AtRest ==
    /\ Controllers /\ ~work /\ worker = Idle
    /\ proxySeen = proxy /\ keySeen = key /\ key # "new"

(* No wake-up is lost: a ClusterProxy that nothing will reconcile again is *)
(* settled.                                                                *)
RestsSettled == AtRest /\ proxy # None => Settled
=============================================================================
