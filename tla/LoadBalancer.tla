---------------------------- MODULE LoadBalancer ----------------------------
(***************************************************************************)
(* The LoadBalancer controller (loadbalancer_controller.go) for one        *)
(* Service: which Services are advertised, the NetworkResource and the     *)
(* DNSRecord per address family, their pruning, and what queues the next   *)
(* reconcile.                                                              *)
(***************************************************************************)
EXTENDS Naturals, Sequences, SequencesExt

CONSTANTS Addresses,
          FamilyOf,          \* family of an address; None: not an IP
          Ingresses,         \* status.loadBalancer.ingress, as sequences of addresses
          Annotations,       \* netbird.io/advertise and netbird.io/groups, or None
          AtStart,           \* the Service, its namespace and the Network at the start
          DefaultAdvertise, DefaultGroups,
          None,
          MaxFaults          \* bound: edits, failed calls, out-of-band changes

Families == {"ipv4", "ipv6"}
Kinds    == {"resource", "record"}
Slots    == Kinds \X Families

ASSUME LoadBalancerAssumption ==
    /\ FamilyOf \in [Addresses -> Families \cup {None}] /\ DefaultAdvertise \in BOOLEAN
    /\ \A i \in Ingresses : i \in Seq(Addresses)
    /\ AtStart \subseteq [annotations: Annotations, ingress: Ingresses, ns: Annotations \cup {None},
                   network: BOOLEAN]
    /\ \A a \in Annotations : a.advertise \in {"true", "false", None}
    /\ None \notin Addresses /\ MaxFaults \in Nat

VARIABLES
    svc, svcSeen,            \* the Service: etcd, informer
    ns,                      \* the annotations of its namespace; None: the informer lacks it
    network, zone,           \* the configured Network exists; the operator's DNSZone does
    children, childrenSeen,  \* the owned objects by kind and family: etcd, informer;
                             \* Dying: deleted, but held by a finalizer
    queued, timer,           \* the work queue has the Service; a RequeueAfter is pending
    worker, nsUsed,          \* nsUsed (history): the annotations the last reconcile read
    faults

vars == <<svc, svcSeen, ns, network, zone, children, childrenSeen, queued, timer, worker, nsUsed, faults>>

(* The addresses still to apply, the groups of their resources, and the    *)
(* families whose objects are desired.                                     *)
Idle == [step |-> "idle", todo |-> <<>>, groups |-> None, desired |-> {}]
Bare == [s \in Slots |-> None]

(* What an object that is being deleted says matters to nobody. *)
Dying == [address |-> None, groups |-> None]

Init ==
    /\ \E x \in AtStart :
         /\ svc = [lb |-> TRUE, annotations |-> x.annotations, ingress |-> x.ingress, deleting |-> FALSE]
         /\ ns = x.ns /\ network = x.network
    /\ svcSeen = None /\ zone = FALSE
    /\ children = Bare /\ childrenSeen = Bare
    /\ queued = FALSE /\ timer = FALSE /\ worker = Idle /\ nsUsed = ns /\ faults = 0

-----------------------------------------------------------------------------
(* The annotation of the Service, else of the namespace. *)
annotation(s, n, key) == IF s.annotations[key] # None THEN s.annotations[key] ELSE n[key]

shouldAdvertise(s, n) ==
    LET v == annotation(s, n, "advertise") IN IF v = None THEN DefaultAdvertise ELSE v = "true"

Advertise(s, n) == s.lb /\ ~s.deleting /\ shouldAdvertise(s, n)

resourceGroups(s, n) ==
    LET v == annotation(s, n, "groups") IN IF v = None THEN DefaultGroups ELSE v

lbIngressAddresses(s) == SelectSeq(s.ingress, LAMBDA a : FamilyOf[a] # None)

-----------------------------------------------------------------------------
(* Around the worker.  An event of the Service or of an owned object       *)
(* queues a reconcile; the namespace and the Network are not watched.      *)
DeliverService ==
    /\ svcSeen # svc /\ svcSeen' = svc /\ queued' = TRUE
    /\ UNCHANGED <<svc, ns, network, zone, children, childrenSeen, timer, worker, nsUsed, faults>>

(* Mutant: the owned objects are not watched. *)
DeliverChildren_notOwned ==
    /\ childrenSeen # children /\ childrenSeen' = children
    /\ UNCHANGED <<svc, svcSeen, ns, network, zone, children, queued, timer, worker, nsUsed, faults>>

DeliverChildren ==
    /\ childrenSeen # children /\ childrenSeen' = children /\ queued' = TRUE
    /\ UNCHANGED <<svc, svcSeen, ns, network, zone, children, timer, worker, nsUsed, faults>>

Fire ==
    /\ timer /\ timer' = FALSE /\ queued' = TRUE
    /\ UNCHANGED <<svc, svcSeen, ns, network, zone, children, childrenSeen, worker, nsUsed, faults>>

(* The informer of the namespaces catches up, which queues nothing. *)
DeliverNamespace ==
    /\ ns = None /\ ns' \in Annotations
    /\ UNCHANGED <<svc, svcSeen, network, zone, children, childrenSeen, queued, timer, worker, nsUsed, faults>>

(* The objects of ks are deleted: they go once their controllers have      *)
(* taken the finalizers off (at once, when there is none yet).             *)
Deleted(ks) ==
    [k \in Slots |-> IF k \in ks /\ children[k] # None THEN Dying ELSE children[k]]

Finalized ==
    /\ \E k \in Slots : children[k] = Dying /\ children' = [children EXCEPT ![k] = None]
    /\ UNCHANGED <<svc, svcSeen, ns, network, zone, childrenSeen, queued, timer, worker, nsUsed, faults>>

(* A user edits or deletes the Service, the LoadBalancer implementation    *)
(* changes its addresses, someone deletes an owned object, the namespace   *)
(* or the Network changes.                                                 *)
Change ==
    /\ faults < MaxFaults /\ faults' = faults + 1
    /\ \/ /\ svc # None
          /\ \/ svc' = [svc EXCEPT !.lb = ~@]
             \/ \E a \in Annotations \ {svc.annotations} : svc' = [svc EXCEPT !.annotations = a]
             \/ \E i \in Ingresses \ {svc.ingress} : svc' = [svc EXCEPT !.ingress = i]
             \/ ~svc.deleting /\ svc' = [svc EXCEPT !.deleting = TRUE]
          /\ UNCHANGED <<ns, network, zone, children>>
       \/ ns # None /\ ns' \in Annotations \ {ns} /\ UNCHANGED <<svc, network, zone, children>>
       \/ network' = ~network /\ UNCHANGED <<svc, ns, zone, children>>
       \/ zone /\ zone' = FALSE /\ UNCHANGED <<svc, ns, network, children>>
       \/ \E k \in Slots : children[k] \notin {None, Dying} /\ children' = Deleted({k})
                           /\ UNCHANGED <<svc, ns, network, zone>>
    /\ UNCHANGED <<svcSeen, childrenSeen, queued, timer, worker, nsUsed>>

(* The Service goes, and then what it owns. *)
Collect ==
    /\ \/ svc # None /\ svc.deleting /\ svc' = None /\ UNCHANGED children
       \/ svc = None /\ children # Deleted(Slots) /\ children' = Deleted(Slots) /\ UNCHANGED svc
    /\ UNCHANGED <<svcSeen, ns, network, zone, childrenSeen, queued, timer, worker, nsUsed, faults>>

-----------------------------------------------------------------------------
(* Reconcile up to the first write.  The Namespace that is not found, the  *)
(* address wait and the missing Network return before anything is pruned.  *)
Start ==
    /\ worker.step = "idle" /\ queued /\ queued' = FALSE
    /\ nsUsed' = IF svcSeen = None THEN nsUsed ELSE ns
    /\ LET s    == svcSeen
           pass == s # None /\ ns # None
           adv  == pass /\ Advertise(s, ns)
           lb   == adv /\ lbIngressAddresses(s) # <<>> IN
       \/ (~pass \/ (adv /\ ~lb)) /\ UNCHANGED <<worker, timer>>
       \/ pass /\ ~adv /\ worker' = [Idle EXCEPT !.step = "prune"] /\ UNCHANGED timer
       \/ lb /\ ~network /\ timer' = TRUE /\ UNCHANGED worker
       \/ /\ lb /\ network /\ UNCHANGED timer
          /\ worker' = [step |-> "zone", todo |-> lbIngressAddresses(s),
                        groups |-> resourceGroups(s, ns), desired |-> {}]
    /\ UNCHANGED <<svc, svcSeen, ns, network, zone, children, childrenSeen, faults>>

(* ensureZone applies the DNSZone, which no Service owns. *)
EnsureZone ==
    /\ worker.step = "zone" /\ zone' = TRUE /\ worker' = [worker EXCEPT !.step = "resource"]
    /\ UNCHANGED <<svc, svcSeen, ns, network, children, childrenSeen, queued, timer, nsUsed, faults>>

(* Server-side applies of the resource and of the record of an address,    *)
(* under the name of its family, which is desired from then on; their      *)
(* owner may be gone by now, and an object that is dying stays so.         *)
Applied(k, a, g) ==
    [children EXCEPT ![k] = IF @ = Dying THEN Dying ELSE [address |-> a, groups |-> g]]

ApplyResource ==
    /\ worker.step = "resource"
    /\ LET a == Head(worker.todo) IN
       /\ children' = Applied(<<"resource", FamilyOf[a]>>, a, worker.groups)
       /\ worker' = [worker EXCEPT !.step = "record", !.desired = @ \cup {FamilyOf[a]}]
    /\ UNCHANGED <<svc, svcSeen, ns, network, zone, childrenSeen, queued, timer, nsUsed, faults>>

ApplyRecord ==
    /\ worker.step = "record"
    /\ LET a == Head(worker.todo) IN
       /\ children' = Applied(<<"record", FamilyOf[a]>>, a, None)
       /\ worker' = [worker EXCEPT !.todo = Tail(@),
                                   !.step = IF Tail(worker.todo) = <<>> THEN "prune" ELSE "resource"]
    /\ UNCHANGED <<svc, svcSeen, ns, network, zone, childrenSeen, queued, timer, nsUsed, faults>>

(* Mutant: prune deletes only when nothing is advertised any more. *)
Pruned_onlyAll == {k \in Slots : childrenSeen[k] # None /\ worker.desired = {}}

(* prune deletes what the informer lists and the reconcile does not want. *)
Pruned == {k \in Slots : childrenSeen[k] # None /\ k[2] \notin worker.desired}

(* A reconcile that advertises comes back after the resync interval. *)
Prune ==
    /\ worker.step = "prune" /\ worker' = Idle
    /\ children' = Deleted(Pruned)
    /\ timer' = (timer \/ worker.desired # {})
    /\ UNCHANGED <<svc, svcSeen, ns, network, zone, childrenSeen, queued, nsUsed, faults>>

(* A call fails: the error queues the Service again; that of the DNSZone   *)
(* counts as a missing dependency and is retried after a while.            *)
CallFails ==
    /\ worker.step # "idle" /\ faults < MaxFaults /\ faults' = faults + 1
    /\ worker' = Idle
    /\ queued' = (queued \/ worker.step # "zone") /\ timer' = (timer \/ worker.step = "zone")
    /\ \E done \in SUBSET (IF worker.step = "prune" THEN Pruned ELSE {}) :
         children' = Deleted(done)
    /\ UNCHANGED <<svc, svcSeen, ns, network, zone, childrenSeen, nsUsed>>

Step == Start \/ EnsureZone \/ ApplyResource \/ ApplyRecord \/ Prune

Next ==
    \/ DeliverService \/ DeliverChildren \/ DeliverNamespace \/ Fire
    \/ Change \/ Collect \/ Finalized \/ Step \/ CallFails

Spec == Init /\ [][Next]_vars

(* The informers catch up, timers fire, the queue is served, the garbage   *)
(* collector runs, and finalizers are taken off.                           *)
Fairness ==
    /\ WF_vars(DeliverService) /\ WF_vars(DeliverChildren) /\ WF_vars(DeliverNamespace)
    /\ WF_vars(Fire) /\ WF_vars(Collect) /\ WF_vars(Finalized) /\ WF_vars(Step)

FairSpec == Spec /\ Fairness

-----------------------------------------------------------------------------
TypeOK ==
    /\ \A s \in {svc, svcSeen} : s # None => s.annotations \in Annotations /\ s.ingress \in Ingresses
    /\ \A k \in Slots : \A c \in {children[k], childrenSeen[k]} : c \in {None, Dying} \/ FamilyOf[c.address] = k[2]
    /\ {ns, nsUsed} \subseteq Annotations \cup {None} /\ {network, zone, queued, timer} \subseteq BOOLEAN
    /\ worker.desired \subseteq Families /\ faults \in 0..MaxFaults

Desired(k) ==
    LET as == {a \in Range(lbIngressAddresses(svc)) : FamilyOf[a] = k[2]} IN
    IF Advertise(svc, ns) /\ as # {}
    THEN [address |-> CHOOSE a \in as : TRUE,
          groups  |-> IF k[1] = "resource" THEN resourceGroups(svc, ns) ELSE None]
    ELSE None

(* The last reconcile did not find the namespace, decided against          *)
(* advertising, or still waited for an address, and the namespace, which   *)
(* nothing watches, has changed since.                                     *)
Unnoticed ==
    nsUsed # ns /\ (nsUsed = None \/ ~Advertise(svc, nsUsed) \/ lbIngressAddresses(svc) = <<>>)

(* Two addresses of one family are rendered into the same two objects.     *)
Clash ==
    LET i == lbIngressAddresses(svc) IN
    \E m, n \in DOMAIN i : i[m] # i[n] /\ FamilyOf[i[m]] = FamilyOf[i[n]]

(* Once interference stops, the owned objects are those of the addresses   *)
(* the Service has, in the operator's zone, or none when it is not         *)
(* advertised any more, and none is left of a Service that is gone.  Not   *)
(* covered: an advertised Service without an address (its objects stay), a *)
(* missing Network, a change of the namespace that nothing reports, and    *)
(* two addresses of one family.                                            *)
LoadBalancerConverges ==
    <>[](IF svc = None THEN children = Bare
         ELSE \/ svc.deleting \/ ns = None \/ Unnoticed \/ Clash
              \/ Advertise(svc, ns) /\ (~network \/ lbIngressAddresses(svc) = <<>>)
              \/ /\ Advertise(svc, ns) => zone
                 /\ \A k \in Slots : children[k] = Desired(k))

(* Nothing is queued, in progress or on its way, and no timer runs. *)
AtRest == ~queued /\ ~timer /\ worker = Idle /\ svcSeen = svc /\ childrenSeen = children

(* No wake-up is lost: a Service that nothing will reconcile again waits   *)
(* for an address, or it is not advertised and every object left of it is  *)
(* being deleted; unless its namespace, which nothing watches, has changed *)
(* since or is not known yet.                                              *)
RestsSettled ==
    AtRest /\ svc # None /\ nsUsed = ns /\ ns # None =>
        IF Advertise(svc, ns) THEN lbIngressAddresses(svc) = <<>>
        ELSE \A k \in Slots : children[k] \in {None, Dying}
=============================================================================
