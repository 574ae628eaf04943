------------------------------ MODULE Operator ------------------------------
(***************************************************************************)
(* The operator process (cmd/main.go) with two parts that depend on how it *)
(* starts: the Pod webhook (pod_webhook.go), which injects a sidecar, and  *)
(* the managed GatewayClass (gateway_controller.go), which is seeded when  *)
(* the manager leads and healed by its watch.                              *)
(***************************************************************************)
EXTENDS Naturals, FiniteSetsExt

CONSTANTS Profiles,   \* names of SidecarProfiles, in alphabetical order
          Labels,     \* labels of Pods
          Selector,   \* the labels a profile selects
          Malformed,  \* the profiles with an override or a mode that cannot be used
          ApiKeys,    \* values of --netbird-api-key
          Certs,      \* --webhook-cert-path is set
          None,
          MaxFaults   \* bound: restarts, failed calls, edits and deletions

ASSUME OperatorAssumption ==
    /\ Profiles \subseteq Nat /\ Selector \in [Profiles -> SUBSET Labels]
    /\ Malformed \subseteq Profiles /\ Certs \in BOOLEAN /\ MaxFaults \in Nat
    /\ None \notin Profiles /\ None \notin ApiKeys
    /\ None \notin {"new", "ready", "foreign", "ours", "accepted"}

VARIABLES
    phase, apiKey,    \* the process
    profiles, seen,   \* SidecarProfiles: etcd, informer
    key, keySeen,     \* the SetupKey of the profiles and the ClusterProxy: None,
                      \* "new" or "ready" (the id is in the status)
    class, classWork, \* the GatewayClass; its name is queued
    seeded,           \* GatewayClassReconciler.Start has run
    missed,           \* history: it failed where there is no class, and there is none yet
    known,            \* history: the profiles some informer has shown since they exist
    faults

webhookVars == <<profiles, seen, key, keySeen, known>>
classVars   == <<class, classWork, seeded, missed>>
processVars == <<phase, apiKey>>

(* What mgr.Start brings up, in this order. *)
Phases == <<"down", "probes", "webhook", "caches", "leading">>
At(p)  == CHOOSE i \in 1..5 : Phases[i] = p
Up(p)  == At(phase) >= At(p)

OperatorInit ==
    /\ phase = "down" /\ apiKey \in ApiKeys \cup {None}
    /\ profiles = {} /\ seen = {} /\ known = {}
    /\ key = None /\ keySeen = key
    /\ class \in {None, "foreign"} /\ classWork = FALSE
    /\ seeded = FALSE /\ missed = FALSE /\ faults = 0

Spend == faults < MaxFaults /\ faults' = faults + 1

(* setupControllers: without an API key nothing is registered. *)
Controllers == Up("leading") /\ apiKey # None

-----------------------------------------------------------------------------
(* The next part of the process is up; a cache is up when it has synced. *)
Advance ==
    /\ phase # "leading" /\ phase' = Phases[At(phase) + 1]
    /\ IF phase' = "caches" THEN seen' = profiles /\ keySeen' = key /\ known' = profiles
       ELSE UNCHANGED <<seen, keySeen, known>>
    /\ classWork' = (phase' = "leading" /\ apiKey # None /\ class # None)
    /\ UNCHANGED <<apiKey, profiles, key, class, seeded, missed, faults>>

(* The process ends and starts anew, perhaps with another API key. *)
Restarted ==
    /\ phase # "down" /\ Spend /\ phase' = "down" /\ apiKey' \in ApiKeys \cup {None}
    /\ seen' = {} /\ keySeen' = None
    /\ classWork' = FALSE /\ seeded' = FALSE /\ missed' = FALSE
    /\ UNCHANGED <<profiles, key, known, class>>

-----------------------------------------------------------------------------
(* The user creates and deletes SidecarProfiles. *)
Write ==
    /\ \/ \E p \in Profiles \ profiles : profiles' = profiles \cup {p} /\ UNCHANGED <<known, faults>>
       \/ Spend /\ \E p \in profiles : profiles' = profiles \ {p} /\ known' = known \ {p}
    /\ UNCHANGED <<seen, key, keySeen, processVars, classVars>>

DeliverProfiles ==
    /\ Up("caches") /\ seen # profiles /\ seen' = profiles /\ known' = profiles
    /\ UNCHANGED <<profiles, key, keySeen, processVars, classVars, faults>>

(* The SetupKey controller (module SetupKey). *)
KeyReady ==
    /\ Controllers /\ key = "new" /\ key' = "ready"
    /\ UNCHANGED <<profiles, seen, keySeen, known, processVars, classVars, faults>>

(* readyz: with certificates, once the webhook server has started. *)
Ready == IF Certs THEN Up("webhook") ELSE Up("probes")

(* Mutant: the webhook answers from an informer that has not synced. *)
Answers_early == Up("webhook")

(* A list before the caches have started is an error, and the policy of    *)
(* the webhook is Fail.                                                    *)
Answers == Up("caches")

Matching(l) == {p \in seen : l \in Selector[p]}

(* Default: the first profile by name that selects the Pod.  Without its   *)
(* SetupKey, with an override that does not merge or with an unknown mode  *)
(* the Pod is refused, and no later profile is tried.                      *)
Default(l) ==
    IF ~Ready \/ ~Answers THEN {}
    ELSE IF Matching(l) = {} THEN {None}
    ELSE {p \in {Min(Matching(l))} : keySeen # None /\ p \notin Malformed}

-----------------------------------------------------------------------------
(* ensure: a class of another controller makes the apply fail. *)
Ensured == IF class = None THEN "ours" ELSE class

(* Start, once the manager leads; a failure is only logged. *)
Seed ==
    /\ Controllers /\ ~seeded /\ seeded' = TRUE
    /\ \/ /\ class' = Ensured /\ classWork' = (classWork \/ class' # class)
          /\ UNCHANGED <<missed, faults>>
       \/ Spend /\ missed' = (class = None /\ ~classWork) /\ UNCHANGED <<class, classWork>>
    /\ UNCHANGED <<webhookVars, processVars>>

(* Someone creates or deletes the class; the watch reports it. *)
Meddle ==
    /\ Spend /\ \/ class # None /\ class' = None
                \/ class = None /\ class' = "foreign"
    /\ classWork' = Controllers /\ missed' = FALSE
    /\ UNCHANGED <<seeded, webhookVars, processVars>>

(* Mutant: a class that is gone is left alone. *)
Healed_ignored == IF class = "ours" THEN "accepted" ELSE class

Healed == IF class = None THEN Ensured ELSE IF class = "ours" THEN "accepted" ELSE class

(* GatewayClassReconciler.Reconcile; an error is retried. *)
ReconcileClass ==
    /\ Controllers /\ classWork
    /\ \/ class' = Healed /\ classWork' = (class' # class) /\ UNCHANGED faults
       \/ Spend /\ UNCHANGED <<class, classWork>>
    /\ UNCHANGED <<seeded, missed, webhookVars, processVars>>

OperatorNext ==
    \/ Write \/ DeliverProfiles \/ KeyReady \/ Seed \/ Meddle \/ ReconcileClass

-----------------------------------------------------------------------------
OperatorTypeOK ==
    /\ phase \in {Phases[i] : i \in 1..5} /\ apiKey \in ApiKeys \cup {None}
    /\ profiles \subseteq Profiles /\ seen \subseteq Profiles
    /\ key \in {None, "new", "ready"} /\ keySeen \in {None, "new", "ready"}
    /\ class \in {None, "foreign", "ours", "accepted"} /\ faults \in 0..MaxFaults

(* Restarts included, no Pod is admitted without its sidecar, or with a    *)
(* later one, when a profile that selects it was ever in the informer and  *)
(* still exists: the webhook is up before the caches are, and must not     *)
(* answer then.                                                            *)
SidecarsNotSkipped ==
    \A l \in Labels : \A d \in Default(l), p \in known : l \in Selector[p] => d # None /\ d <= p

(* The class is accepted, or another controller's; or the one attempt of   *)
(* Start failed where there is no class and nobody made one since, for no  *)
(* event queues the name of a class that was never there.                  *)
ClassSettled == class \in {"accepted", "foreign"} \/ missed

(* When the operator leads, its GatewayClass is settled in the end,        *)
(* whatever was deleted meanwhile; the class of another controller that    *)
(* made Start fail included ("the user deletes the stale class and the     *)
(* For-watch recreate path takes over").                                   *)
ClassConverges == <>[](Controllers => ClassSettled)

(* No event of the class is lost: once Start has run and no reconcile is   *)
(* queued, the class is settled.                                           *)
ClassRestsSettled == Controllers /\ seeded /\ ~classWork => ClassSettled
=============================================================================
