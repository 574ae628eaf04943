---------------------------- MODULE ProxyRollout ----------------------------
(***************************************************************************)
(* One ReverseProxyCluster in the Kubernetes API                           *)
(* (reverseproxycluster_controller.go): the enrollment token and its       *)
(* Secret, the owned DNSZone, Deployment and Service, the DNSRecords that  *)
(* follow the addresses of the LoadBalancer, and the status.  The domain   *)
(* and cluster registrations are in ProxyRegistration.                     *)
(***************************************************************************)
EXTENDS Naturals, Sequences, FiniteSets, Functions

CONSTANTS Specs,      \* contents of a ReverseProxyCluster spec
          OwnZone,    \* the specs without a zoneRef
          Stacks,     \* the sets of families a LoadBalancer may serve
          None,
          MaxTokens,  \* bound: tokens NetBird mints
          MaxObjects, \* bound: ReverseProxyClusters ever created under the name
          MaxFaults   \* bound: failed calls, restarts, lost addresses, edits

Tokens   == 1..MaxTokens
Families == {"A", "AAAA"}
Children == Families \cup {"zone", "deployment", "service", "catchall"}
Owned    == Children \cup {"secret"}
UIDs     == 1..MaxObjects

Status   == [token: Tokens \cup {None}, ip: Families \cup {None}, ready: BOOLEAN]
NoStatus == [token |-> None, ip |-> None, ready |-> FALSE]
Object   == [uid: UIDs, spec: Specs, status: Status, deleting: BOOLEAN, finalizer: BOOLEAN]

ASSUME RolloutBounds ==
    /\ OwnZone \subseteq Specs /\ Stacks \subseteq SUBSET Families /\ MaxTokens \in Nat /\ MaxObjects \in Nat /\ MaxFaults \in Nat
    /\ None \notin Specs /\ None \notin Tokens /\ None \notin Families /\ None \notin Object
    /\ None \notin UIDs

VARIABLES
    rpc, rpcSeen,       \* the ReverseProxyCluster: etcd, informer
    secret,             \* the token in the Secret
    children,           \* the spec each owned object was rendered from
    owner,              \* the uid in the owner reference of each owned object
    lb,                 \* families of the Service's ingress
    tokens, nextToken,  \* NetBird: tokens that are valid
    enrolled,           \* NetBird lists the proxy's cluster
    worker,
    lost,               \* history: tokens no status names any more
    objects, faults

proxyVars == <<rpc, rpcSeen, secret, children, owner, lb, tokens, nextToken, enrolled,
               worker, lost, objects>>

(* obj is the copy as the patcher last sent it, status what the reconcile  *)
(* has in memory, todo the applies and deletes still to make.              *)
Idle == [step |-> "idle", obj |-> None, status |-> NoStatus, token |-> None,
         todo |-> <<>>]

Exists == rpc # None
Live   == rpc # None /\ ~rpc.deleting
Gone   == [k \in Children |-> None]

ProxyInit ==
    /\ rpc = None /\ rpcSeen = None /\ secret = None /\ children = Gone
    /\ owner = [k \in Owned |-> None] /\ lb = {} /\ tokens = {} /\ nextToken = 1 /\ enrolled = FALSE
    /\ worker = Idle /\ lost = {} /\ objects = 0

-----------------------------------------------------------------------------
(* Around the worker. *)
DeliverProxy ==
    /\ rpcSeen # rpc /\ rpcSeen' = rpc
    /\ UNCHANGED <<rpc, secret, children, owner, lb, tokens, nextToken, enrolled, worker, lost,
                   objects, faults>>

(* The deletion of the object; without a finalizer it is gone at once. *)
Deleted ==
    IF rpc.finalizer THEN rpc' = [rpc EXCEPT !.deleting = TRUE] /\ UNCHANGED lost
    ELSE rpc' = None /\ lost' = lost \cup ({rpc.status.token} \ {None})

(* The LoadBalancer assigns addresses to the Service, once for free. *)
Assign ==
    /\ children["service"] # None
    /\ \E s \in Stacks \ {lb} :
         /\ lb' = s
         /\ \/ lb = {} /\ faults' = faults
            \/ lb # {} /\ faults < MaxFaults /\ faults' = faults + 1
    /\ UNCHANGED <<rpc, rpcSeen, secret, children, owner, tokens, nextToken, enrolled, worker, lost,
                   objects>>

(* A proxy that holds a valid token enrolls. *)
Enroll ==
    /\ ~enrolled /\ children["deployment"] # None /\ secret \in tokens /\ enrolled' = TRUE
    /\ UNCHANGED <<rpc, rpcSeen, secret, children, owner, lb, tokens, nextToken, worker, lost,
                   objects, faults>>

(* The owner reference of k names an object that is gone. *)
Orphaned(k) == owner[k] # None /\ (Exists => rpc.uid # owner[k])

(* Some owned objects are deleted. *)
Drop(ks) ==
    /\ children' = [k \in Children |-> IF k \in ks THEN None ELSE children[k]]
    /\ owner' = [k \in Owned |-> IF k \in ks THEN None ELSE owner[k]]
    /\ secret' = IF "secret" \in ks THEN None ELSE secret
    /\ lb' = IF "service" \in ks THEN {} ELSE lb

(* Garbage collection of what the objects that are gone still own; what    *)
(* was applied since then belongs to the successor and stays.              *)
Collect ==
    /\ LET old == {k \in Owned : Orphaned(k)} IN
       /\ old # {} /\ Drop(old) /\ enrolled' = (enrolled /\ "deployment" \notin old)
    /\ UNCHANGED <<rpc, rpcSeen, tokens, nextToken, worker, lost, objects, faults>>

(* Someone deletes the Secret or an owned object. *)
Meddle ==
    /\ faults < MaxFaults /\ faults' = faults + 1
    /\ \E k \in Owned : owner[k] # None /\ Drop({k})
    /\ UNCHANGED <<rpc, rpcSeen, tokens, nextToken, enrolled, worker, lost, objects>>

-----------------------------------------------------------------------------
(* Reconcile. *)
(* The fields of the status that differ from the copy are sent. *)
Merged(o, w) ==
    LET old == w.obj.status
        sent(new, was, v) == IF new = was THEN v ELSE new
    IN  [o EXCEPT !.status = [token |-> sent(w.status.token, old.token, @.token),
                              ip    |-> sent(w.status.ip, old.ip, @.ip),
                              ready |-> sent(w.status.ready, old.ready, @.ready)]]

(* A patch, and the step after it; of an object that is gone, an error. *)
Patch(w, after) ==
    IF Exists
    THEN /\ rpc' = Merged(rpc, w)
         /\ worker' = IF after = "idle" THEN Idle ELSE [w EXCEPT !.step = after, !.obj = [@ EXCEPT !.status = w.status]]
    ELSE worker' = Idle /\ UNCHANGED rpc

Apply(k)  == <<"apply", k>>
Delete(k) == <<"delete", k>>

(* ensureZone, applyDeployment, applyService. *)
Workload(spec) ==
    (IF spec \in OwnZone THEN <<Apply("zone")>> ELSE <<>>) \o <<Apply("deployment"), Apply("service")>>

(* Mutant: the record of a family that is no longer served is kept. *)
applyRecords_keeps(addrs) ==
    (IF "A" \in addrs THEN <<Apply("A")>> ELSE <<>>)
    \o (IF "AAAA" \in addrs THEN <<Apply("AAAA")>> ELSE <<>>) \o <<Apply("catchall")>>

(* applyRecords: a record for each family that is served, no record for    *)
(* one that is not, and the catch-all.                                     *)
applyRecords(addrs) ==
    LET per(f) == IF f \in addrs THEN <<Apply(f)>> ELSE <<>>
        not(f) == IF f \in addrs THEN <<>> ELSE <<Delete(f)>>
    IN  per("A") \o per("AAAA") \o not("A") \o not("AAAA") \o <<Apply("catchall")>>

AfterFinalize(w) ==
    IF w.status.token = None THEN [w EXCEPT !.step = "mint"]
    ELSE [w EXCEPT !.step = "workload", !.todo = Workload(w.obj.spec)]

Start ==
    /\ worker.step = "idle" /\ rpcSeen # None
    /\ LET w == [Idle EXCEPT !.obj = rpcSeen, !.status = rpcSeen.status] IN
       worker' = IF rpcSeen.deleting THEN [w EXCEPT !.step = "revoke"]
                 ELSE IF rpcSeen.finalizer THEN AfterFinalize(w)
                 ELSE [w EXCEPT !.step = "finalize"]
    /\ UNCHANGED <<rpc, rpcSeen, secret, children, owner, lb, tokens, nextToken, enrolled, lost,
                   objects, faults>>

Finalize ==
    /\ worker.step = "finalize"
    /\ IF Exists THEN rpc' = [rpc EXCEPT !.finalizer = TRUE] /\ worker' = AfterFinalize(worker)
       ELSE worker' = Idle /\ UNCHANGED rpc
    /\ UNCHANGED <<rpcSeen, secret, children, owner, lb, tokens, nextToken, enrolled, lost,
                   objects, faults>>

(* Mutant: the token in the Secret is revoked before the new one is there. *)
Mint_revokesFirst ==
    /\ worker.step = "mint" /\ nextToken <= MaxTokens
    /\ tokens' = (tokens \ {secret}) \cup {nextToken} /\ nextToken' = nextToken + 1
    /\ worker' = [worker EXCEPT !.step = "secret", !.token = nextToken]
    /\ UNCHANGED <<rpc, rpcSeen, secret, children, owner, lb, enrolled, lost, objects, faults>>

Mint ==
    /\ worker.step = "mint" /\ nextToken <= MaxTokens
    /\ tokens' = tokens \cup {nextToken} /\ nextToken' = nextToken + 1
    /\ worker' = [worker EXCEPT !.step = "secret", !.token = nextToken]
    /\ UNCHANGED <<rpc, rpcSeen, secret, children, owner, lb, enrolled, lost, objects, faults>>

ApplySecret ==
    /\ worker.step = "secret" /\ secret' = worker.token
    /\ owner' = [owner EXCEPT !["secret"] = worker.obj.uid]
    /\ worker' = [worker EXCEPT !.step = "token", !.status.token = worker.token]
    /\ UNCHANGED <<rpc, rpcSeen, children, lb, tokens, nextToken, enrolled, lost, objects, faults>>

(* A token is lost when the object is gone, or when the copy did not show  *)
(* the token that this patch overwrites.                                   *)
RecordToken ==
    /\ worker.step = "token"
    /\ Patch([worker EXCEPT !.token = None, !.todo = Workload(worker.obj.spec)], "workload")
    /\ lost' = lost \cup (IF ~Exists THEN {worker.token}
                          ELSE {rpc.status.token} \ {None, worker.obj.status.token})
    /\ UNCHANGED <<rpcSeen, secret, children, owner, lb, tokens, nextToken, enrolled, objects, faults>>

(* Some of these writes are made; an apply takes the object over. *)
Write(ops) ==
    LET written(k, new, old) == IF Apply(k) \in Range(ops) THEN new
                                ELSE IF Delete(k) \in Range(ops) THEN None ELSE old
    IN  /\ children' = [k \in Children |-> written(k, worker.obj.spec, children[k])]
        /\ owner' = [k \in Owned |-> written(k, worker.obj.uid, owner[k])]

(* The applies and deletes of the list; CallFails stops among them. *)
ApplyAll ==
    /\ worker.step \in {"workload", "records"} /\ worker.todo # <<>>
    /\ Write(worker.todo) /\ worker' = [worker EXCEPT !.todo = <<>>]
    /\ UNCHANGED <<rpc, rpcSeen, secret, lb, tokens, nextToken, enrolled, lost, objects, faults>>

FirstOf(addrs) == IF "A" \in addrs THEN "A" ELSE "AAAA"

NotReady(w) == Patch([w EXCEPT !.status.ready = FALSE], "idle")

(* serviceAddresses (a lagging copy of the Service is a later assignment): *)
(* without an address the reconcile stops here, and the address in the     *)
(* status and the records stay as they are.                                *)
Addresses ==
    /\ worker.step = "workload" /\ worker.todo = <<>>
    /\ IF lb = {} THEN NotReady(worker)
       ELSE /\ worker' = [worker EXCEPT !.step = "records",
                            !.todo = applyRecords(lb), !.status.ip = FirstOf(lb)]
            /\ UNCHANGED rpc
    /\ UNCHANGED <<rpcSeen, secret, children, owner, lb, tokens, nextToken, enrolled, lost,
                   objects, faults>>

(* The proxy has enrolled: Ready (the domain is ProxyRegistration's). *)
Finish ==
    /\ worker.step = "records" /\ worker.todo = <<>>
    /\ IF enrolled THEN Patch([worker EXCEPT !.status.ready = TRUE], "idle") ELSE NotReady(worker)
    /\ UNCHANGED <<rpcSeen, secret, children, owner, lb, tokens, nextToken, enrolled, lost,
                   objects, faults>>

(* Mutant: a deletion without a token is given up. *)
Revoke_needsToken ==
    /\ worker.step = "revoke"
    /\ worker' = IF worker.status.token = None THEN Idle ELSE [worker EXCEPT !.step = "unfinalize"]
    /\ tokens' = tokens \ {worker.status.token}
    /\ UNCHANGED <<rpc, rpcSeen, secret, children, owner, lb, nextToken, enrolled, lost, objects, faults>>

(* Mutant: the token is not revoked. *)
Revoke_not ==
    /\ worker.step = "revoke" /\ worker' = [worker EXCEPT !.step = "unfinalize"]
    /\ UNCHANGED <<rpc, rpcSeen, secret, children, owner, lb, tokens, nextToken, enrolled, lost,
                   objects, faults>>

(* reconcileDelete. *)
Revoke ==
    /\ worker.step = "revoke" /\ worker' = [worker EXCEPT !.step = "unfinalize"]
    /\ tokens' = tokens \ {worker.status.token}
    /\ UNCHANGED <<rpc, rpcSeen, secret, children, owner, lb, nextToken, enrolled, lost,
                   objects, faults>>

(* The copy may have missed a token that was recorded after the deletion;  *)
(* an object made since then loses its finalizer.                          *)
Unfinalize ==
    /\ worker.step = "unfinalize" /\ worker' = Idle
    /\ IF Live THEN rpc' = [rpc EXCEPT !.finalizer = FALSE] /\ UNCHANGED lost
       ELSE /\ rpc' = None
            /\ lost' = lost \cup (IF Exists THEN {rpc.status.token} \ {None, worker.status.token} ELSE {})
    /\ UNCHANGED <<rpcSeen, secret, children, owner, lb, tokens, nextToken, enrolled, objects, faults>>

(* A call fails, its answer is lost, or the operator restarts (the relist  *)
(* after a restart is a Deliver); part of a list of writes is done.        *)
CallFails ==
    /\ worker.step # "idle" /\ faults < MaxFaults /\ faults' = faults + 1 /\ worker' = Idle
    /\ lost' = lost \cup (IF worker.step \in {"secret", "token"} THEN {worker.token} ELSE {})
    /\ \E n \in 0..Len(worker.todo) : Write(SubSeq(worker.todo, 1, n))
    /\ UNCHANGED <<rpc, rpcSeen, secret, lb, tokens, nextToken, enrolled, objects>>

ProxyStep ==
    \/ Finalize \/ Mint \/ ApplySecret \/ RecordToken \/ ApplyAll \/ Addresses \/ Finish
    \/ Revoke \/ Unfinalize

ProxyNext ==
    \/ Start \/ ProxyStep \/ CallFails
    \/ DeliverProxy \/ Assign \/ Enroll \/ Collect \/ Meddle

(* The worker, which is idle or not, goes on; so does what is around it.   *)
ProxyFairness ==
    /\ WF_proxyVars(Start \/ ProxyStep)
    /\ WF_proxyVars(DeliverProxy \/ Enroll \/ Collect)

-----------------------------------------------------------------------------
Worker ==
    [step: {"idle", "finalize", "mint", "secret", "token", "workload", "records", "revoke", "unfinalize"},
     obj: Object \cup {None}, status: Status, token: Tokens \cup {None},
     todo: Seq({"apply", "delete"} \X Children)]

ProxyTypeOK ==
    /\ rpc \in Object \cup {None} /\ rpcSeen \in Object \cup {None}
    /\ secret \in Tokens \cup {None} /\ children \in [Children -> Specs \cup {None}]
    /\ owner \in [Owned -> UIDs \cup {None}] /\ lb \subseteq Families
    /\ tokens \subseteq Tokens /\ lost \subseteq Tokens /\ nextToken \in 1..(MaxTokens + 1)
    /\ enrolled \in BOOLEAN /\ worker \in Worker
    /\ objects \in 0..MaxObjects /\ faults \in 0..MaxFaults

(* "Proxy enrollment tokens are one-shot and revoked": a valid token is    *)
(* recorded by the ReverseProxyCluster, which revokes it, or in the hands  *)
(* of the reconcile that minted it; it is lost only to a failure between   *)
(* mint and patch, or to a reconcile whose copy missed the first token.    *)
TokensAccounted ==
    \A t \in tokens :
        \/ t \in lost
        \/ Exists /\ rpc.status.token = t
        \/ worker.step \in {"secret", "token"} /\ worker.token = t

(* The Secret of a live ReverseProxyCluster that records a token never     *)
(* holds a revoked one, however mints, lost patches, deletions and the     *)
(* Secret a predecessor left behind interleave: the mint is gated on       *)
(* status.tokenID, so nothing would ever replace it.                       *)
LiveSecretValid ==
    (Live /\ rpc.status.token # None /\ secret # None) => secret \in tokens

Rendered(k) == children[k] = rpc.spec
Spent == worker.step = "mint" /\ nextToken > MaxTokens

(* Once interference stops, every owned object is rendered from the spec,  *)
(* the address records are those of the families the LoadBalancer serves,  *)
(* the address in the status is one of them, and Ready says whether the    *)
(* proxy serves.  Not covered: the records and the address while no        *)
(* address is left, and a deleted Secret, which is not restored.           *)
RolloutConverges ==
    <>[](Live => \/ Spent
                 \/ /\ Rendered("deployment") /\ Rendered("service")
                    /\ rpc.spec \in OwnZone => Rendered("zone")
                    /\ lb # {} => /\ \A f \in Families : children[f] = IF f \in lb THEN rpc.spec ELSE None
                                  /\ Rendered("catchall") /\ rpc.status.ip = FirstOf(lb)
                    /\ rpc.status.ready = (lb # {} /\ enrolled)
                    /\ secret # None => enrolled)
=============================================================================
