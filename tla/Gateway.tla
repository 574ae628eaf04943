------------------------------ MODULE Gateway ------------------------------
(***************************************************************************)
(* A Gateway and the ReverseProxyCluster it owns (GatewayReconciler of     *)
(* gateway_controller.go), composed with the rollout of that object: the   *)
(* Gateway renders its spec downwards and copies its status upwards, each  *)
(* side through an informer that lags.                                     *)
(***************************************************************************)
EXTENDS ProxyRollout

CONSTANT Drafts       \* the specs a Gateway may be created with

(* The listeners give a spec, or none that can be used; the class and the  *)
(* parameters are there or not.                                            *)
Inputs == {"ok", "noClass", "noParams"}

GwStatus == [accepted: BOOLEAN, programmed: BOOLEAN, address: Families \cup {None},
             listener: BOOLEAN]
NewStatus == [accepted |-> FALSE, programmed |-> FALSE, address |-> None, listener |-> FALSE]
GwObject == [spec: Specs \cup {None}, status: GwStatus]

ASSUME GatewayValues == None \notin GwObject /\ Drafts \subseteq Specs \cup {None}

VARIABLES gw,          \* the Gateway (an old copy is an edit that comes later)
          inputs,      \* its class and its parameters
          cert,        \* the Secret its listener names exists
          gwWorker     \* its reconcile; fresh: its copy is still the latest

gwVars == <<gw, inputs, cert, gwWorker>>
vars   == <<proxyVars, faults, gwVars>>

GwIdle == [step |-> "idle", spec |-> None, fresh |-> FALSE]

Init ==
    /\ ProxyInit /\ faults = 0 /\ inputs = "ok" /\ cert = TRUE /\ gwWorker = GwIdle
    /\ \E s \in Drafts : gw = [spec |-> s, status |-> NewStatus]

-----------------------------------------------------------------------------
Spend == faults < MaxFaults /\ faults' = faults + 1

(* A user edits or deletes the Gateway, or deletes its proxy. *)
User ==
    /\ \/ /\ gw # None /\ gwWorker' = [gwWorker EXCEPT !.fresh = FALSE] /\ UNCHANGED <<rpc, lost>>
          /\ \/ Spend /\ \E s \in (Specs \cup {None}) \ {gw.spec} : gw' = [gw EXCEPT !.spec = s]
             \/ gw' = None /\ UNCHANGED faults
       \/ Live /\ Spend /\ Deleted /\ UNCHANGED <<gw, gwWorker>>
    /\ UNCHANGED <<rpcSeen, secret, children, owner, lb, tokens, nextToken, enrolled, worker,
                   objects, inputs, cert>>

(* The class or the parameters go, or come back; the certificate too. *)
Change ==
    /\ Spend
    /\ \/ inputs' \in Inputs \ {inputs} /\ UNCHANGED cert
       \/ cert' = ~cert /\ UNCHANGED inputs
    /\ UNCHANGED <<proxyVars, gw, gwWorker>>

(* The garbage collector deletes the proxy of a Gateway that is gone. *)
Orphan ==
    /\ gw = None /\ Live /\ Deleted
    /\ UNCHANGED <<rpcSeen, secret, children, owner, lb, tokens, nextToken, enrolled, worker,
                   objects, faults, gwVars>>

-----------------------------------------------------------------------------
(* Reconcile up to its first write. *)
GwStart ==
    /\ gwWorker = GwIdle /\ gw # None /\ inputs # "noClass"
    /\ gwWorker' = [step |-> IF inputs = "noParams" \/ gw.spec = None THEN "fail" ELSE "apply",
                    spec |-> gw.spec, fresh |-> TRUE]
    /\ UNCHANGED <<proxyVars, faults, gw, inputs, cert>>

(* Status().Update; of a copy that is not the latest, a conflict. *)
UpdateStatus(status) ==
    /\ gwWorker' = GwIdle
    /\ gw' = IF gwWorker.fresh THEN [gw EXCEPT !.status = status] ELSE gw

(* fail: only the Accepted condition changes. *)
Fail ==
    /\ gwWorker.step = "fail"
    /\ UpdateStatus([gw.status EXCEPT !.accepted = FALSE])
    /\ UNCHANGED <<proxyVars, faults, inputs, cert>>

(* The owned object is applied; after a deletion a new one, beside what is *)
(* left of the children and the Secret of its predecessor.                 *)
ApplyProxy ==
    /\ gwWorker.step = "apply"
    /\ \/ Exists /\ rpc' = [rpc EXCEPT !.spec = gwWorker.spec] /\ UNCHANGED objects
       \/ /\ ~Exists /\ objects < MaxObjects /\ objects' = objects + 1
          /\ rpc' = [uid |-> objects', spec |-> gwWorker.spec, status |-> NoStatus,
                     deleting |-> FALSE, finalizer |-> FALSE]
    /\ gwWorker' = [gwWorker EXCEPT !.step = "sync"]
    /\ UNCHANGED <<rpcSeen, secret, children, owner, lb, tokens, nextToken, enrolled, worker, lost,
                   faults, gw, inputs, cert>>

(* Mutant: the listeners look at their certificate alone. *)
syncStatus_certOnly(s, o) ==
    [accepted |-> TRUE, programmed |-> o.ready,
     address |-> IF o.ip = None THEN s.address ELSE o.ip, listener |-> cert]

(* syncStatus: Programmed follows Ready; an empty address is not copied. *)
syncStatus(s, o) ==
    [accepted |-> TRUE, programmed |-> o.ready,
     address |-> IF o.ip = None THEN s.address ELSE o.ip, listener |-> o.ready /\ cert]

(* The owned object is read from the informer; not there yet is an error. *)
Sync ==
    /\ gwWorker.step = "sync"
    /\ IF rpcSeen = None THEN gwWorker' = GwIdle /\ UNCHANGED gw
       ELSE UpdateStatus(syncStatus(gw.status, rpcSeen.status))
    /\ UNCHANGED <<proxyVars, faults, inputs, cert>>

GwFails ==
    /\ gwWorker # GwIdle /\ Spend /\ gwWorker' = GwIdle
    /\ UNCHANGED <<proxyVars, gw, inputs, cert>>

GwStep == Fail \/ ApplyProxy \/ Sync

GwNext == User \/ Change \/ Orphan \/ GwStart \/ GwStep \/ GwFails

Next == (ProxyNext /\ UNCHANGED gwVars) \/ GwNext

Spec == Init /\ [][Next]_vars

Fairness ==
    /\ ProxyFairness
    /\ WF_vars(GwStart \/ GwStep) /\ WF_vars(Orphan)

FairSpec == Spec /\ Fairness

-----------------------------------------------------------------------------
TypeOK ==
    /\ ProxyTypeOK
    /\ gw \in GwObject \cup {None}
    /\ inputs \in Inputs /\ cert \in BOOLEAN
    /\ gwWorker \in [step: {"idle", "fail", "apply", "sync"}, spec: Specs \cup {None}, fresh: BOOLEAN]

(* Once interference stops, a Gateway with a usable listener, a class and  *)
(* parameters has a ReverseProxyCluster of its spec and tells the truth    *)
(* about it: Programmed is its Ready condition, the address its address,   *)
(* and the listener is programmed when the certificate is there as well.   *)
GatewayTellsTruth ==
    <>[]((gw # None /\ gw.spec # None /\ inputs = "ok") =>
           \/ Spent \/ (objects = MaxObjects /\ ~Live)
           \/ /\ Live /\ rpc.spec = gw.spec /\ gw.status.accepted
              /\ gw.status.programmed = rpc.status.ready
              /\ gw.status.listener = (rpc.status.ready /\ cert)
              /\ rpc.status.ip # None => gw.status.address = rpc.status.ip)

(* A deleted Gateway takes its proxy and everything that proxy owns along. *)
TeardownFinishes == <>[](gw = None => Spent \/ (~Exists /\ children = Gone /\ secret = None))
=============================================================================
