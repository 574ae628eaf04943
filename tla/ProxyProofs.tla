---------------------------- MODULE ProxyProofs ----------------------------
(* Proofs about the enrollment tokens of a proxy, for any specs, objects,  *)
(* tokens and faults: none is left valid without a named reason, and the   *)
(* Secret of a live proxy never holds a revoked one.  The services of the  *)
(* ReverseProxyServices follow in the second part (Svc).                   *)
EXTENDS Gateway, TLAPS

(* The types the argument needs. *)
CoreTypeOK ==
    /\ rpc \in Object \cup {None} /\ rpcSeen \in Object \cup {None} /\ secret \in Tokens \cup {None}
    /\ tokens \subseteq Tokens /\ lost \subseteq Tokens /\ nextToken \in 1..(MaxTokens + 1)
    /\ worker \in Worker

GwTypeOK ==
    /\ gw \in GwObject \cup {None} /\ cert \in BOOLEAN /\ objects \in 0..MaxObjects
    /\ gwWorker \in [step: {"idle", "fail", "apply", "sync"}, spec: Specs \cup {None}, fresh: BOOLEAN]
    /\ gwWorker.fresh => gw # None
    /\ gwWorker.step \in {"apply", "sync"} => gwWorker.spec \in Specs

(* A token that anyone holds was minted. *)
TokensUsed ==
    /\ rpc # None /\ rpc.status.token # None => rpc.status.token < nextToken
    /\ rpcSeen # None /\ rpcSeen.status.token # None => rpcSeen.status.token < nextToken
    /\ worker.status.token # None => worker.status.token < nextToken
    /\ \A t \in tokens : t < nextToken

Minting == worker.step \in {"secret", "token"}

(* The reconcile that mints works on a copy without a token; its token is  *)
(* valid and in no status, and it is the one in the Secret when the patch  *)
(* is due.  Any other one holds the token of its copy, and removes the     *)
(* finalizer after that token was revoked.                                 *)
WorkerOK ==
    /\ worker.step # "idle" => worker.obj \in Object
    /\ worker.step \in {"mint", "secret", "token"} => worker.obj.status.token = None
    /\ Minting => /\ worker.token \in tokens
                  /\ rpc # None => rpc.status.token # worker.token
                  /\ rpcSeen # None => rpcSeen.status.token # worker.token
    /\ worker.step = "token" => worker.status.token = worker.token /\ secret \in {worker.token, None}
    /\ worker.step \notin {"idle", "token"} => worker.status.token = worker.obj.status.token
    /\ worker.step = "unfinalize" => worker.status.token \notin tokens

(* The object is live and its status names a token. *)
Recorded == Live /\ rpc.status.token # None

(* What is about to be revoked is not in the Secret of such an object. *)
DeletedApart ==
    Recorded =>
            /\ rpcSeen # None /\ rpcSeen.deleting /\ rpcSeen.status.token # None =>
                 secret # rpcSeen.status.token
            /\ worker.step = "revoke" /\ worker.status.token # None => secret # worker.status.token

TInv == CoreTypeOK /\ TokensUsed /\ WorkerOK /\ DeletedApart /\ TokensAccounted /\ LiveSecretValid

IInv == TInv /\ GwTypeOK

-----------------------------------------------------------------------------
(* Tokens are naturals, and None is none of the values beside it. *)
LEMMA Values ==
    /\ \A t \in Tokens : t \in Nat /\ t # None
    /\ None \notin Object /\ None \notin Specs /\ None \notin GwObject
    /\ NoStatus \in Status /\ NoStatus.token = None
  BY RolloutBounds, GatewayValues DEF Tokens, NoStatus, Status

Ops == {"apply", "delete"} \X Children

(* The lists of writes are lists of writes. *)
LEMMA Lists ==
    /\ <<>> \in Seq(Ops)
    /\ \A s \in Specs : Workload(s) \in Seq(Ops)
    /\ \A a : applyRecords(a) \in Seq(Ops)
  <1>1. \A k \in Children : Apply(k) \in Ops /\ Delete(k) \in Ops
    BY DEF Ops, Apply, Delete
  <1> HIDE DEF Ops
  <1>2. \A k \in Children : <<Apply(k)>> \in Seq(Ops) /\ <<Delete(k)>> \in Seq(Ops)
    BY <1>1
  <1>3. <<>> \in Seq(Ops)
    OBVIOUS
  <1>4. \A p \in Seq(Ops), q \in Seq(Ops) : p \o q \in Seq(Ops)
    OBVIOUS
  <1>5. {"A", "AAAA", "zone", "deployment", "service", "catchall"} \subseteq Children
    BY DEF Children, Families
  <1>6. ASSUME NEW s \in Specs PROVE Workload(s) \in Seq(Ops)
    <2>1. <<Apply("deployment"), Apply("service")>> \in Seq(Ops)
      BY <1>1, <1>5
    <2>2. (IF s \in OwnZone THEN <<Apply("zone")>> ELSE <<>>) \in Seq(Ops)
      BY <1>2, <1>3, <1>5
    <2> QED
      BY <1>4, <2>1, <2>2 DEF Workload
  <1>7. ASSUME NEW a PROVE applyRecords(a) \in Seq(Ops)
    <2> DEFINE per(f) == IF f \in a THEN <<Apply(f)>> ELSE <<>>
               not(f) == IF f \in a THEN <<>> ELSE <<Delete(f)>>
    <2>1. per("A") \in Seq(Ops) /\ per("AAAA") \in Seq(Ops) /\ not("A") \in Seq(Ops) /\ not("AAAA") \in Seq(Ops)
      BY <1>2, <1>3, <1>5
    <2>2. <<Apply("catchall")>> \in Seq(Ops)
      BY <1>2, <1>5
    <2>3. applyRecords(a) = per("A") \o per("AAAA") \o not("A") \o not("AAAA") \o <<Apply("catchall")>>
      BY DEF applyRecords
    <2> HIDE DEF per, not
    <2> QED
      BY <1>4, <2>1, <2>2, <2>3
  <1> QED
    BY <1>3, <1>6, <1>7

(* The idle worker. *)
LEMMA IdleOK == Idle \in Worker /\ Idle.step = "idle" /\ Idle.status.token = None
  BY Values, Lists DEF Idle, Worker, Ops

-----------------------------------------------------------------------------
(* Steps that leave the proxy's object, its reconcile and its tokens alone *)
(* and at most take the Secret away.                                       *)
LEMMA Frame ==
    ASSUME TInv, UNCHANGED <<rpc, rpcSeen, tokens, nextToken, worker, lost>>, secret' \in {secret, None}
    PROVE  TInv'
  <1>1. CoreTypeOK' /\ TokensUsed' /\ WorkerOK' /\ TokensAccounted'
    BY DEF TInv, CoreTypeOK, TokensUsed, WorkerOK, Minting, TokensAccounted, Exists
  <1>2. LiveSecretValid'
    BY DEF TInv, LiveSecretValid, Recorded, Live
  <1>3. DeletedApart'
    BY DEF TInv, DeletedApart, Recorded, Live
  <1> QED
    BY <1>1, <1>2, <1>3 DEF TInv

(* Steps of the reconcile between the mint and the deletion: they write no *)
(* token, neither to the object nor to the Secret.                         *)
LEMMA Quiet ==
    ASSUME TInv, UNCHANGED <<rpcSeen, secret, tokens, nextToken, lost>>, ~Minting,
           rpc' \in Object \cup {None}, rpc' = None <=> rpc = None,
           rpc # None => rpc'.status.token = rpc.status.token /\ (rpc'.deleting <=> rpc.deleting),
           worker' \in Worker, worker'.step \notin {"secret", "token", "unfinalize"},
           worker'.step # "idle" => /\ worker'.obj \in Object
                                    /\ worker'.status.token = worker'.obj.status.token,
           worker'.step = "mint" => worker'.status.token = None,
           worker'.status.token # None => worker'.status.token < nextToken,
           worker'.step = "revoke" => /\ rpcSeen # None /\ rpcSeen.deleting
                                      /\ worker'.status.token = rpcSeen.status.token
    PROVE  TInv'
  <1>1. CoreTypeOK'
    BY DEF TInv, CoreTypeOK
  <1>2. TokensUsed'
    BY DEF TInv, TokensUsed
  <1>3. WorkerOK'
    BY DEF WorkerOK, Minting
  <1>4. Recorded' <=> Recorded
    BY DEF Recorded, Live
  <1>5. DeletedApart'
    BY <1>4 DEF TInv, DeletedApart
  <1>6. TokensAccounted'
    BY Values DEF TInv, CoreTypeOK, TokensAccounted, Minting, Exists
  <1>7. LiveSecretValid'
    BY <1>4 DEF TInv, LiveSecretValid, Recorded
  <1> QED
    BY <1>1, <1>2, <1>3, <1>5, <1>6, <1>7 DEF TInv

(* The informer event: a copy that is being deleted is one of an object    *)
(* that is not live.                                                       *)
LEMMA DeliverInv == ASSUME TInv, DeliverProxy PROVE TInv'
  <1>1. CoreTypeOK' /\ TokensUsed' /\ WorkerOK' /\ TokensAccounted'
    BY DEF TInv, DeliverProxy, CoreTypeOK, TokensUsed, WorkerOK, Minting, TokensAccounted, Exists
  <1>2. LiveSecretValid' /\ DeletedApart'
    BY DEF TInv, DeliverProxy, LiveSecretValid, DeletedApart, Recorded, Live
  <1> QED
    BY <1>1, <1>2 DEF TInv

(* Writing a flag or the spec keeps the type and the token. *)
LEMMA Flags ==
    ASSUME NEW o \in Object, NEW b \in BOOLEAN, NEW s \in Specs
    PROVE  /\ [o EXCEPT !.deleting = b] \in Object /\ [o EXCEPT !.deleting = b].status = o.status
           /\ [o EXCEPT !.deleting = b].deleting = b
           /\ [o EXCEPT !.finalizer = b] \in Object /\ [o EXCEPT !.finalizer = b].status = o.status
           /\ [o EXCEPT !.finalizer = b].deleting = o.deleting
           /\ [o EXCEPT !.spec = s] \in Object /\ [o EXCEPT !.spec = s].status = o.status
           /\ [o EXCEPT !.spec = s].deleting = o.deleting
  BY DEF Object

(* A deletion: the object is no longer live, and takes its token to the    *)
(* lost ones when it is gone at once.                                      *)
LEMMA DeletedInv ==
    ASSUME TInv, Live, Deleted, UNCHANGED <<rpcSeen, secret, tokens, nextToken, worker>>
    PROVE  TInv'
  <1>1. rpc \in Object /\ rpc # None /\ rpc.status.token \in Tokens \cup {None}
    BY DEF TInv, CoreTypeOK, Live, Object, Status
  <1>2. \/ rpc' = None /\ lost' = lost \cup ({rpc.status.token} \ {None})
        \/ rpc' \in Object /\ rpc'.status = rpc.status /\ rpc'.deleting /\ lost' = lost
    <2>1. CASE rpc.finalizer
      <3>1. rpc' = [rpc EXCEPT !.deleting = TRUE] /\ lost' = lost
        BY <2>1 DEF Deleted
      <3>2. rpc' \in Object /\ rpc'.status = rpc.status /\ rpc'.deleting
        BY <1>1, <3>1, Zenon DEF Object
      <3> QED
        BY <3>1, <3>2
    <2>2. CASE ~rpc.finalizer
      BY <2>2 DEF Deleted
    <2> QED
      BY <2>1, <2>2
  <1>3. ~Live'
    BY <1>2 DEF Live
  <1>4. CoreTypeOK'
    BY <1>1, <1>2 DEF TInv, CoreTypeOK
  <1>5. TokensUsed'
    BY <1>1, <1>2 DEF TInv, TokensUsed
  <1>6. WorkerOK'
    BY <1>1, <1>2 DEF TInv, WorkerOK, Minting
  <1>7. TokensAccounted'
    BY <1>1, <1>2, Values DEF TInv, CoreTypeOK, TokensAccounted, Exists
  <1> QED
    BY <1>3, <1>4, <1>5, <1>6, <1>7 DEF TInv, DeletedApart, LiveSecretValid, Recorded

(* What a patch leaves in the object. *)
LEMMA MergedOK ==
    ASSUME NEW o \in Object, NEW w, w.obj \in Object, w.status \in Status
    PROVE  /\ Merged(o, w) \in Object /\ (Merged(o, w).deleting <=> o.deleting)
           /\ w.status.token = w.obj.status.token => Merged(o, w).status.token = o.status.token
           /\ w.status.token # w.obj.status.token => Merged(o, w).status.token = w.status.token
  <1> DEFINE k == IF w.status.token = w.obj.status.token THEN o.status.token ELSE w.status.token
             i == IF w.status.ip = w.obj.status.ip THEN o.status.ip ELSE w.status.ip
             r == IF w.status.ready = w.obj.status.ready THEN o.status.ready ELSE w.status.ready
             s == [token |-> k, ip |-> i, ready |-> r]
  <1>1. Merged(o, w) = [o EXCEPT !.status = s]
    BY DEF Merged
  <1>2. s \in Status
    BY DEF Object, Status
  <1>3. s.token = k
    OBVIOUS
  <1>4. /\ w.status.token = w.obj.status.token => k = o.status.token
        /\ w.status.token # w.obj.status.token => k = w.status.token
    OBVIOUS
  <1> HIDE DEF k, i, r, s
  <1>5. /\ [o EXCEPT !.status = s] \in Object /\ [o EXCEPT !.status = s].status = s
        /\ [o EXCEPT !.status = s].deleting = o.deleting
    BY <1>2 DEF Object
  <1> QED
    BY <1>1, <1>3, <1>4, <1>5

(* Past the finalizer a token is minted, or the status has one. *)
LEMMA AfterFinalizeOK ==
    ASSUME NEW w \in Worker, w.obj \in Object
    PROVE  LET v == AfterFinalize(w) IN
           /\ v \in Worker /\ v.obj = w.obj /\ v.status = w.status
           /\ v.step = "workload" \/ (v.step = "mint" /\ w.status.token = None)
  <1>1. Workload(w.obj.spec) \in Seq({"apply", "delete"} \X Children)
    BY Lists DEF Object, Ops
  <1> DEFINE l == Workload(w.obj.spec)
  <1> HIDE DEF l
  <1>2. /\ [w EXCEPT !.step = "workload", !.todo = l] \in Worker
        /\ [w EXCEPT !.step = "workload", !.todo = l].obj = w.obj
        /\ [w EXCEPT !.step = "workload", !.todo = l].status = w.status
        /\ [w EXCEPT !.step = "workload", !.todo = l].step = "workload"
    BY <1>1, Zenon DEF Worker, l
  <1>3. /\ [w EXCEPT !.step = "mint"] \in Worker /\ [w EXCEPT !.step = "mint"].obj = w.obj
        /\ [w EXCEPT !.step = "mint"].status = w.status /\ [w EXCEPT !.step = "mint"].step = "mint"
    BY DEF Worker
  <1>4. CASE w.status.token = None
    BY <1>3, <1>4 DEF AfterFinalize
  <1>5. CASE w.status.token # None
    BY <1>2, <1>5 DEF AfterFinalize, l
  <1> QED
    BY <1>4, <1>5

(* The reconcile takes its copy from the informer. *)
LEMMA StartInv == ASSUME TInv, Start PROVE TInv'
  <1> DEFINE w == [Idle EXCEPT !.obj = rpcSeen, !.status = rpcSeen.status]
  <1>1. rpcSeen \in Object /\ rpcSeen # None /\ rpcSeen.status \in Status
    BY DEF TInv, CoreTypeOK, Start, Object
  <1>2. worker' = IF rpcSeen.deleting THEN [w EXCEPT !.step = "revoke"]
                  ELSE IF rpcSeen.finalizer THEN AfterFinalize(w)
                  ELSE [w EXCEPT !.step = "finalize"]
    BY DEF Start
  <1>3. w \in Worker /\ w.obj = rpcSeen /\ w.status = rpcSeen.status
    BY <1>1, Lists, Zenon DEF Idle, Worker, Ops
  <1> HIDE DEF w
  <1>4. /\ worker' \in Worker /\ worker'.obj = rpcSeen /\ worker'.status = rpcSeen.status
        /\ \/ worker'.step = "revoke" /\ rpcSeen.deleting
           \/ worker'.step \in {"workload", "finalize"}
           \/ worker'.step = "mint" /\ rpcSeen.status.token = None
    <2>1. CASE rpcSeen.deleting
      BY <1>2, <1>3, <2>1, Zenon DEF Worker
    <2>2. CASE ~rpcSeen.deleting /\ rpcSeen.finalizer
      BY <1>1, <1>2, <1>3, <2>2, AfterFinalizeOK
    <2>3. CASE ~rpcSeen.deleting /\ ~rpcSeen.finalizer
      BY <1>2, <1>3, <2>3 DEF Worker
    <2> QED
      BY <2>1, <2>2, <2>3
  <1>5. rpcSeen.status.token # None => rpcSeen.status.token < nextToken
    BY <1>1 DEF TInv, TokensUsed
  <1>6. ~Minting /\ UNCHANGED <<rpc, rpcSeen, secret, tokens, nextToken, lost>>
    BY DEF Start, Minting
  <1>7. rpc \in Object \cup {None}
    BY DEF TInv, CoreTypeOK
  <1> QED
    BY <1>1, <1>4, <1>5, <1>6, <1>7, Quiet

(* The finalizer comes before the mint. *)
LEMMA FinalizeInv == ASSUME TInv, Finalize PROVE TInv'
  <1>1. /\ worker \in Worker /\ worker.obj \in Object /\ worker.status.token = worker.obj.status.token
        /\ worker.status.token # None => worker.status.token < nextToken
    BY DEF TInv, CoreTypeOK, WorkerOK, TokensUsed, Finalize
  <1>2. ~Minting /\ UNCHANGED <<rpcSeen, secret, tokens, nextToken, lost>>
    BY DEF Finalize, Minting
  <1>3. CASE rpc = None
    <2>1. worker' = Idle /\ rpc' = rpc
      BY <1>3 DEF Finalize, Exists
    <2> QED
      BY <1>2, <1>3, <2>1, IdleOK, Quiet
  <1>4. CASE rpc # None
    <2>1. rpc \in Object
      BY <1>4 DEF TInv, CoreTypeOK
    <2>2. rpc' = [rpc EXCEPT !.finalizer = TRUE] /\ worker' = AfterFinalize(worker)
      BY <1>4 DEF Finalize, Exists
    <2>3. rpc' \in Object /\ rpc'.status = rpc.status /\ (rpc'.deleting <=> rpc.deleting) /\ rpc' # None
      BY <2>1, <2>2, Values, Zenon DEF Object
    <2>4. /\ worker' \in Worker /\ worker'.obj = worker.obj /\ worker'.status = worker.status
          /\ worker'.step = "workload" \/ (worker'.step = "mint" /\ worker.status.token = None)
      BY <1>1, <2>2, AfterFinalizeOK
    <2> QED
      BY <1>1, <1>2, <1>4, <2>3, <2>4, Quiet
  <1> QED
    BY <1>3, <1>4

(* The owned objects are written: only the list of writes changes. *)
LEMMA ApplyAllInv == ASSUME TInv, ApplyAll PROVE TInv'
  <1>1. /\ worker \in Worker /\ worker.obj \in Object /\ worker.status.token = worker.obj.status.token
        /\ worker.status.token # None => worker.status.token < nextToken
    BY DEF TInv, CoreTypeOK, WorkerOK, TokensUsed, ApplyAll
  <1>2. ~Minting /\ UNCHANGED <<rpc, rpcSeen, secret, tokens, nextToken, lost>>
    BY DEF ApplyAll, Minting
  <1>3. /\ worker' \in Worker /\ worker'.obj = worker.obj /\ worker'.status = worker.status
        /\ worker'.step \in {"workload", "records"}
    BY <1>1, Lists, Zenon DEF ApplyAll, Worker, Ops
  <1>4. rpc \in Object \cup {None}
    BY DEF TInv, CoreTypeOK
  <1> QED
    BY <1>1, <1>2, <1>3, <1>4, Quiet

(* A patch of the status that ends the reconcile and writes no token. *)
LEMMA LastPatch ==
    ASSUME TInv, NEW w, w.obj \in Object, w.status \in Status, w.status.token = w.obj.status.token,
           Patch(w, "idle"), ~Minting, UNCHANGED <<rpcSeen, secret, tokens, nextToken, lost>>
    PROVE  TInv'
  <1>1. worker' = Idle
    BY DEF Patch
  <1>2. /\ rpc' \in Object \cup {None} /\ (rpc' = None <=> rpc = None)
        /\ rpc # None => rpc'.status.token = rpc.status.token /\ (rpc'.deleting <=> rpc.deleting)
    <2>1. CASE rpc = None
      BY <2>1 DEF Patch, Exists
    <2>2. CASE rpc # None
      <3>1. rpc \in Object /\ rpc' = Merged(rpc, w)
        BY <2>2 DEF TInv, CoreTypeOK, Patch, Exists
      <3> QED
        BY <2>2, <3>1, MergedOK, Values
    <2> QED
      BY <2>1, <2>2
  <1> QED
    BY <1>1, <1>2, IdleOK, Quiet

(* The addresses of the Service: no address ends the reconcile. *)
LEMMA AddressesInv == ASSUME TInv, Addresses PROVE TInv'
  <1>1. /\ worker \in Worker /\ worker.obj \in Object /\ worker.status.token = worker.obj.status.token
        /\ worker.status.token # None => worker.status.token < nextToken
    BY DEF TInv, CoreTypeOK, WorkerOK, TokensUsed, Addresses
  <1>2. ~Minting /\ UNCHANGED <<rpcSeen, secret, tokens, nextToken, lost>>
    BY DEF Addresses, Minting
  <1>3. CASE lb = {}
    <2> DEFINE w == [worker EXCEPT !.status.ready = FALSE]
    <2>1. Patch(w, "idle")
      BY <1>3 DEF Addresses, NotReady
    <2>2. w.obj = worker.obj /\ w.status \in Status /\ w.status.token = worker.status.token
      BY <1>1, Zenon DEF Worker, Status
    <2> HIDE DEF w
    <2> QED
      BY <1>1, <1>2, <2>1, <2>2, LastPatch
  <1>4. CASE lb # {}
    <2> DEFINE l == applyRecords(lb)
               f == FirstOf(lb)
    <2>1. worker' = [worker EXCEPT !.step = "records", !.todo = l, !.status.ip = f] /\ rpc' = rpc
      BY <1>4 DEF Addresses
    <2>2. l \in Seq({"apply", "delete"} \X Children) /\ f \in Families
      BY Lists DEF FirstOf, Families, Ops
    <2> HIDE DEF l, f
    <2>3. /\ worker' \in Worker /\ worker'.obj = worker.obj /\ worker'.step = "records"
          /\ worker'.status.token = worker.status.token
      BY <1>1, <2>1, <2>2, Zenon DEF Worker, Status
    <2>4. rpc \in Object \cup {None}
      BY DEF TInv, CoreTypeOK
    <2> QED
      BY <1>1, <1>2, <2>1, <2>3, <2>4, Quiet
  <1> QED
    BY <1>3, <1>4

(* The last patch of the reconcile. *)
LEMMA FinishInv == ASSUME TInv, Finish PROVE TInv'
  <1>1. /\ worker \in Worker /\ worker.obj \in Object /\ worker.status.token = worker.obj.status.token
    BY DEF TInv, CoreTypeOK, WorkerOK, Finish
  <1>2. ~Minting /\ UNCHANGED <<rpcSeen, secret, tokens, nextToken, lost>>
    BY DEF Finish, Minting
  <1>3. PICK b \in BOOLEAN : Patch([worker EXCEPT !.status.ready = b], "idle")
    BY Zenon DEF Finish, NotReady
  <1> DEFINE w == [worker EXCEPT !.status.ready = b]
  <1>4. w.obj = worker.obj /\ w.status \in Status /\ w.status.token = worker.status.token
    BY <1>1 DEF Worker, Status
  <1>5. Patch(w, "idle")
    BY <1>3
  <1> HIDE DEF w
  <1> QED
    BY <1>1, <1>2, <1>4, <1>5, LastPatch

-----------------------------------------------------------------------------
(* The mint: the new token is nobody's yet but the reconcile's. *)
LEMMA MintInv == ASSUME TInv, Mint PROVE TInv'
  <1>1. /\ worker \in Worker /\ worker.obj \in Object /\ worker.status.token = worker.obj.status.token
        /\ worker.obj.status.token = None
    BY DEF TInv, CoreTypeOK, WorkerOK, Mint
  <1>2. nextToken \in Tokens /\ nextToken' = nextToken + 1 /\ nextToken' \in 1..(MaxTokens + 1)
    BY RolloutBounds DEF TInv, CoreTypeOK, Mint, Tokens
  <1>3. /\ worker' \in Worker /\ worker'.step = "secret" /\ worker'.token = nextToken
        /\ worker'.obj = worker.obj /\ worker'.status = worker.status
    BY <1>1, <1>2, Zenon DEF Mint, Worker
  <1>4. tokens' = tokens \cup {nextToken} /\ UNCHANGED <<rpc, rpcSeen, secret, lost>>
    BY DEF Mint
  <1>5. CoreTypeOK'
    BY <1>2, <1>3, <1>4 DEF TInv, CoreTypeOK
  <1>6. \A t \in Tokens : t < nextToken => t < nextToken' /\ t # nextToken
    BY <1>2 DEF Tokens
  <1>7. /\ rpc # None => rpc.status.token \in Tokens \cup {None}
        /\ rpcSeen # None => rpcSeen.status.token \in Tokens \cup {None}
    BY DEF TInv, CoreTypeOK, Object, Status
  <1>8. nextToken < nextToken'
    BY <1>2 DEF Tokens
  <1>9. TokensUsed'
    BY <1>1, <1>3, <1>4, <1>6, <1>7, <1>8 DEF TInv, CoreTypeOK, TokensUsed
  <1>10. WorkerOK'
    BY <1>1, <1>2, <1>3, <1>4, <1>6, <1>7, Values DEF TInv, TokensUsed, WorkerOK, Minting
  <1>11. DeletedApart' /\ LiveSecretValid'
    BY <1>3, <1>4 DEF TInv, DeletedApart, LiveSecretValid, Recorded, Live
  <1>12. worker.step = "mint"
    BY DEF Mint
  <1>13. TokensAccounted'
    BY <1>3, <1>4, <1>12 DEF TInv, TokensAccounted, Exists
  <1> QED
    BY <1>5, <1>9, <1>10, <1>11, <1>13 DEF TInv

(* The Secret gets the new token, which is valid and not about to be       *)
(* revoked.                                                                *)
LEMMA ApplySecretInv == ASSUME TInv, ApplySecret PROVE TInv'
  <1>1. /\ worker \in Worker /\ worker.step = "secret" /\ worker.obj \in Object
        /\ worker.obj.status.token = None /\ worker.token \in tokens /\ worker.token \in Tokens
        /\ worker.token < nextToken
        /\ rpc # None => rpc.status.token # worker.token
        /\ rpcSeen # None => rpcSeen.status.token # worker.token
    BY DEF TInv, CoreTypeOK, TokensUsed, WorkerOK, Minting, ApplySecret
  <1>2. worker' = [worker EXCEPT !.step = "token", !.status.token = worker.token]
    BY DEF ApplySecret
  <1>3. /\ worker' \in Worker /\ worker'.step = "token" /\ worker'.token = worker.token
        /\ worker'.obj = worker.obj /\ worker'.status.token = worker.token
    BY <1>1, <1>2, Zenon DEF Worker, Status
  <1>4. secret' = worker.token /\ UNCHANGED <<rpc, rpcSeen, tokens, nextToken, lost>>
    BY DEF ApplySecret
  <1>5. CoreTypeOK' /\ TokensUsed'
    BY <1>1, <1>3, <1>4 DEF TInv, CoreTypeOK, TokensUsed
  <1>6. WorkerOK'
    BY <1>1, <1>3, <1>4 DEF WorkerOK, Minting
  <1>7. DeletedApart' /\ LiveSecretValid'
    BY <1>1, <1>3, <1>4 DEF DeletedApart, LiveSecretValid
  <1>8. TokensAccounted'
    BY <1>1, <1>3, <1>4 DEF TInv, TokensAccounted, Exists
  <1> QED
    BY <1>5, <1>6, <1>7, <1>8 DEF TInv

(* The patch that records the token; one it overwrites is lost. *)
LEMMA RecordTokenInv == ASSUME TInv, RecordToken PROVE TInv'
  <1> DEFINE l == Workload(worker.obj.spec)
             w == [worker EXCEPT !.token = None, !.todo = l]
  <1>1. /\ worker \in Worker /\ worker.step = "token" /\ worker.obj \in Object
        /\ worker.obj.status.token = None /\ worker.token \in tokens /\ worker.token \in Tokens
        /\ worker.token < nextToken /\ worker.status.token = worker.token
        /\ worker.status \in Status /\ secret \in {worker.token, None}
        /\ rpcSeen # None => rpcSeen.status.token # worker.token
    BY DEF TInv, CoreTypeOK, TokensUsed, WorkerOK, Minting, RecordToken, Worker
  <1>2. Patch(w, "workload") /\ UNCHANGED <<rpcSeen, secret, tokens, nextToken>>
    BY DEF RecordToken
  <1>3. l \in Seq({"apply", "delete"} \X Children)
    BY <1>1, Lists DEF Object, Ops
  <1> HIDE DEF l
  <1>4. w \in Worker /\ w.obj = worker.obj /\ w.status = worker.status
    BY <1>1, <1>3, Zenon DEF Worker
  <1> HIDE DEF w
  <1>5. CASE rpc = None
    <2>1. worker' = Idle /\ rpc' = rpc /\ lost' = lost \cup {worker.token}
      BY <1>2, <1>5 DEF Patch, Exists, RecordToken
    <2>2. CoreTypeOK' /\ TokensUsed' /\ WorkerOK'
      BY <1>1, <1>2, <1>5, <2>1, IdleOK DEF TInv, CoreTypeOK, TokensUsed, WorkerOK, Minting
    <2>3. DeletedApart' /\ LiveSecretValid'
      BY <1>5, <2>1 DEF DeletedApart, LiveSecretValid, Recorded, Live
    <2>4. TokensAccounted'
      BY <1>1, <1>2, <1>5, <2>1 DEF TInv, TokensAccounted, Exists
    <2> QED
      BY <2>2, <2>3, <2>4 DEF TInv
  <1>6. CASE rpc # None
    <2> DEFINE o == [w.obj EXCEPT !.status = w.status]
    <2>1. /\ rpc' = Merged(rpc, w) /\ worker' = [w EXCEPT !.step = "workload", !.obj = o]
          /\ lost' = lost \cup ({rpc.status.token} \ {None, worker.obj.status.token})
      BY <1>2, <1>6 DEF Patch, Exists, RecordToken
    <2>2. o \in Object /\ o.status = worker.status
      BY <1>1, <1>4 DEF Object
    <2> HIDE DEF o
    <2>3. /\ worker' \in Worker /\ worker'.step = "workload" /\ worker'.obj \in Object
          /\ worker'.status.token = worker.token /\ worker'.obj.status.token = worker.token
      BY <1>1, <1>4, <2>1, <2>2, Zenon DEF Worker
    <2>4. rpc \in Object /\ rpc.status.token \in Tokens \cup {None}
      BY <1>6 DEF TInv, CoreTypeOK, Object, Status
    <2>5. /\ rpc' \in Object /\ (rpc'.deleting <=> rpc.deleting)
          /\ rpc'.status.token = worker.token /\ rpc' # None
      <3>1. w.obj \in Object /\ w.status \in Status /\ w.status.token # w.obj.status.token
        BY <1>1, <1>4, Values
      <3>2. /\ Merged(rpc, w) \in Object /\ (Merged(rpc, w).deleting <=> rpc.deleting)
            /\ Merged(rpc, w).status.token = w.status.token
        BY <2>4, <3>1, MergedOK
      <3> QED
        BY <1>1, <1>4, <2>1, <3>2, Values
    <2>6. CoreTypeOK' /\ TokensUsed'
      BY <1>1, <1>2, <2>1, <2>3, <2>4, <2>5 DEF TInv, CoreTypeOK, TokensUsed
    <2>7. WorkerOK'
      BY <2>3 DEF WorkerOK, Minting
    <2>8. DeletedApart' /\ LiveSecretValid'
      BY <1>1, <1>2, <2>3 DEF DeletedApart, LiveSecretValid
    <2>9. TokensAccounted'
      BY <1>1, <1>2, <2>1, <2>4, <2>5, Values DEF TInv, CoreTypeOK, TokensAccounted, Exists
    <2> QED
      BY <2>6, <2>7, <2>8, <2>9 DEF TInv
  <1> QED
    BY <1>5, <1>6

(* The revocation: the token is not in the Secret of a live object. *)
LEMMA RevokeInv == ASSUME TInv, Revoke PROVE TInv'
  <1>1. /\ worker \in Worker /\ worker.step = "revoke" /\ worker.obj \in Object
        /\ worker.status.token = worker.obj.status.token
    BY DEF TInv, CoreTypeOK, WorkerOK, Revoke
  <1>2. /\ worker' \in Worker /\ worker'.step = "unfinalize" /\ worker'.obj = worker.obj
        /\ worker'.status = worker.status
    BY <1>1 DEF Revoke, Worker
  <1>3. tokens' = tokens \ {worker.status.token} /\ UNCHANGED <<rpc, rpcSeen, secret, nextToken, lost>>
    BY DEF Revoke
  <1>4. CoreTypeOK' /\ TokensUsed'
    BY <1>2, <1>3 DEF TInv, CoreTypeOK, TokensUsed
  <1>5. WorkerOK'
    BY <1>1, <1>2, <1>3 DEF WorkerOK, Minting
  <1>6. DeletedApart'
    BY <1>2, <1>3 DEF TInv, DeletedApart, Recorded, Live
  <1>7. TokensAccounted'
    BY <1>1, <1>3 DEF TInv, TokensAccounted, Exists
  <1>8. LiveSecretValid'
    BY <1>1, <1>3 DEF TInv, DeletedApart, LiveSecretValid, Recorded, Live
  <1> QED
    BY <1>4, <1>5, <1>6, <1>7, <1>8 DEF TInv

(* The object goes: the token it names was revoked or is lost. *)
LEMMA UnfinalizeInv == ASSUME TInv, Unfinalize PROVE TInv'
  <1>1. ~Minting /\ worker' = Idle /\ UNCHANGED <<rpcSeen, secret, tokens, nextToken>>
    BY DEF Unfinalize, Minting
  <1>2. CASE Live
    <2>1. rpc' = [rpc EXCEPT !.finalizer = FALSE] /\ lost' = lost /\ rpc \in Object /\ rpc # None
      BY <1>2 DEF Unfinalize, Live, TInv, CoreTypeOK
    <2>2. rpc' \in Object /\ rpc'.status = rpc.status /\ (rpc'.deleting <=> rpc.deleting) /\ rpc' # None
      BY <2>1, Values, Zenon DEF Object
    <2> QED
      BY <1>1, <2>1, <2>2, IdleOK, Quiet
  <1>3. CASE ~Live
    <2>1. /\ rpc' = None /\ worker.status.token \notin tokens
          /\ lost' = lost \cup (IF Exists THEN {rpc.status.token} \ {None, worker.status.token} ELSE {})
      BY <1>3 DEF Unfinalize, TInv, WorkerOK
    <2>2. rpc # None => rpc.status.token \in Tokens \cup {None}
      BY DEF TInv, CoreTypeOK, Object, Status
    <2>3. CoreTypeOK' /\ TokensUsed' /\ WorkerOK'
      BY <1>1, <2>1, <2>2, IdleOK DEF TInv, CoreTypeOK, TokensUsed, WorkerOK, Minting, Exists
    <2>4. DeletedApart' /\ LiveSecretValid'
      BY <2>1 DEF DeletedApart, LiveSecretValid, Recorded, Live
    <2>5. TokensAccounted'
      BY <1>1, <2>1, <2>2, Values DEF TInv, CoreTypeOK, TokensAccounted, Exists, Minting
    <2> QED
      BY <2>3, <2>4, <2>5 DEF TInv
  <1> QED
    BY <1>2, <1>3

(* A failed call ends the reconcile; the token it minted is lost. *)
LEMMA CallFailsInv == ASSUME TInv, CallFails PROVE TInv'
  <1>1. worker' = Idle /\ UNCHANGED <<rpc, rpcSeen, secret, tokens, nextToken>>
    BY DEF CallFails
  <1>2. lost' = lost \cup (IF Minting THEN {worker.token} ELSE {})
    BY DEF CallFails, Minting
  <1>3. CoreTypeOK' /\ TokensUsed' /\ WorkerOK'
    BY <1>1, <1>2, IdleOK DEF TInv, CoreTypeOK, TokensUsed, WorkerOK, Minting
  <1>4. DeletedApart' /\ LiveSecretValid'
    BY <1>1, IdleOK DEF TInv, DeletedApart, LiveSecretValid, Recorded, Live
  <1>5. TokensAccounted'
    BY <1>1, <1>2 DEF TInv, TokensAccounted, Exists, Minting
  <1> QED
    BY <1>3, <1>4, <1>5 DEF TInv

(* A new object. *)
LEMMA Fresh ==
    ASSUME NEW u \in UIDs, NEW s \in Specs
    PROVE  LET o == [uid |-> u, spec |-> s, status |-> NoStatus, deleting |-> FALSE, finalizer |-> FALSE]
           IN  o \in Object /\ o.status = NoStatus /\ o # None
  <1>1. ASSUME NEW n \in Status
        PROVE  [uid |-> u, spec |-> s, status |-> n, deleting |-> FALSE, finalizer |-> FALSE] \in Object
    BY DEF Object
  <1> QED
    BY <1>1, Values

(* The Gateway applies its proxy: a new one records no token, whatever the *)
(* Secret of its predecessor holds.                                        *)
LEMMA ApplyProxyInv == ASSUME IInv, ApplyProxy PROVE TInv'
  <1>1. gwWorker.spec \in Specs /\ UNCHANGED <<rpcSeen, secret, tokens, nextToken, worker, lost>>
    BY DEF IInv, GwTypeOK, ApplyProxy
  <1>2. TInv
    BY DEF IInv
  <1> DEFINE s == gwWorker.spec
             u == objects + 1
  <1>3. \/ rpc # None /\ rpc' = [rpc EXCEPT !.spec = s]
        \/ /\ rpc = None /\ u \in UIDs
           /\ rpc' = [uid |-> u, spec |-> s, status |-> NoStatus, deleting |-> FALSE, finalizer |-> FALSE]
    BY RolloutBounds DEF ApplyProxy, Exists, IInv, GwTypeOK, UIDs
  <1> HIDE DEF s, u
  <1>4. s \in Specs
    BY <1>1 DEF s
  <1>5. CASE rpc # None /\ rpc' = [rpc EXCEPT !.spec = s]
    <2>1. rpc \in Object
      BY <1>2, <1>5 DEF TInv, CoreTypeOK
    <2>2. rpc' \in Object /\ rpc'.status = rpc.status /\ (rpc'.deleting <=> rpc.deleting) /\ rpc' # None
      BY <1>4, <1>5, <2>1, Values DEF Object
    <2>3. CoreTypeOK' /\ TokensUsed' /\ WorkerOK'
      BY <1>1, <1>2, <1>5, <2>2 DEF TInv, CoreTypeOK, TokensUsed, WorkerOK, Minting
    <2>4. DeletedApart' /\ LiveSecretValid'
      BY <1>1, <1>2, <1>5, <2>2 DEF TInv, DeletedApart, LiveSecretValid, Recorded, Live
    <2>5. TokensAccounted'
      BY <1>1, <1>2, <1>5, <2>2 DEF TInv, TokensAccounted, Exists
    <2> QED
      BY <2>3, <2>4, <2>5 DEF TInv
  <1>6. CASE /\ rpc = None /\ u \in UIDs
             /\ rpc' = [uid |-> u, spec |-> s, status |-> NoStatus, deleting |-> FALSE, finalizer |-> FALSE]
    <2>1. rpc' \in Object /\ rpc'.status = NoStatus /\ rpc' # None
      BY <1>4, <1>6, Fresh
    <2>2. CoreTypeOK' /\ TokensUsed'
      BY <1>1, <1>2, <2>1, Values DEF TInv, CoreTypeOK, TokensUsed
    <2>3. WorkerOK'
      BY <1>1, <1>2, <2>1, Values DEF TInv, CoreTypeOK, WorkerOK, Minting
    <2>4. DeletedApart' /\ LiveSecretValid'
      BY <2>1, Values DEF DeletedApart, LiveSecretValid, Recorded
    <2>5. TokensAccounted'
      BY <1>1, <1>2, <1>6 DEF TInv, TokensAccounted, Exists
    <2> QED
      BY <2>2, <2>3, <2>4, <2>5 DEF TInv
  <1> QED
    BY <1>3, <1>5, <1>6

(* Every step of the proxy, and of its surroundings. *)
LEMMA ProxyInv == ASSUME TInv, ProxyNext PROVE TInv'
  <1>1. CASE Start \/ CallFails \/ DeliverProxy
    BY <1>1, StartInv, CallFailsInv, DeliverInv
  <1>2. CASE ProxyStep
    BY <1>2, FinalizeInv, MintInv, ApplySecretInv, RecordTokenInv, ApplyAllInv, AddressesInv, FinishInv,
       RevokeInv, UnfinalizeInv DEF ProxyStep
  <1>3. CASE Assign \/ Enroll \/ Collect \/ Meddle
    <2>1. UNCHANGED <<rpc, rpcSeen, tokens, nextToken, worker, lost>> /\ secret' \in {secret, None}
      BY <1>3, Zenon DEF Assign, Enroll, Collect, Meddle, Drop
    <2> QED
      BY <2>1, Frame
  <1> QED
    BY <1>1, <1>2, <1>3 DEF ProxyNext

(* The status of a Gateway, and the copy the reconcile works on. *)
LEMMA GwSteps == ASSUME IInv, GwNext PROVE GwTypeOK'
  <1> USE DEF IInv
  <1>1. \A g \in GwObject : g # None
    BY Values
  <1>2. GwIdle \in [step: {"idle", "fail", "apply", "sync"}, spec: Specs \cup {None}, fresh: BOOLEAN]
        /\ GwIdle.step = "idle" /\ ~GwIdle.fresh
    BY DEF GwIdle
  <1>3. ASSUME UNCHANGED <<gw, cert, objects, gwWorker>> PROVE GwTypeOK'
    BY <1>3 DEF GwTypeOK
  <1>4. ASSUME gw' \in GwObject \cup {None}, UNCHANGED <<cert, objects>>, gwWorker' = GwIdle
        PROVE  GwTypeOK'
    BY <1>2, <1>4 DEF GwTypeOK
  <1>5. CASE User
    <2>1. UNCHANGED <<cert, objects>>
      BY <1>5 DEF User
    <2>2. CASE UNCHANGED <<gw, gwWorker>>
      BY <1>3, <2>1, <2>2
    <2>3. CASE gw # None /\ gwWorker' = [gwWorker EXCEPT !.fresh = FALSE]
               /\ (gw' = None \/ \E s \in Specs \cup {None} : gw' = [gw EXCEPT !.spec = s])
      <3>1. gw' \in GwObject \cup {None}
        BY <2>3 DEF GwTypeOK, GwObject
      <3>2. /\ gwWorker' \in [step: {"idle", "fail", "apply", "sync"}, spec: Specs \cup {None}, fresh: BOOLEAN]
            /\ ~gwWorker'.fresh /\ gwWorker'.step = gwWorker.step /\ gwWorker'.spec = gwWorker.spec
        BY <2>3 DEF GwTypeOK
      <3> QED
        BY <2>1, <3>1, <3>2 DEF GwTypeOK
    <2> QED
      BY <1>5, <2>2, <2>3, Zenon DEF User
  <1>6. CASE Change
    <2>1. cert' \in BOOLEAN /\ UNCHANGED <<gw, gwWorker, objects>>
      BY <1>6, Zenon DEF Change, GwTypeOK, proxyVars
    <2> QED
      BY <2>1 DEF GwTypeOK
  <1>7. CASE Orphan
    BY <1>3, <1>7 DEF Orphan, gwVars
  <1>8. CASE GwStart
    <2> DEFINE n == IF inputs = "noParams" \/ gw.spec = None THEN "fail" ELSE "apply"
    <2>1. n \in {"fail", "apply"} /\ (n = "apply" => gw.spec # None)
      OBVIOUS
    <2>2. /\ gwWorker' = [step |-> n, spec |-> gw.spec, fresh |-> TRUE] /\ gw \in GwObject /\ gw # None
          /\ UNCHANGED <<gw, cert, objects>>
      BY <1>8 DEF GwStart, GwTypeOK, proxyVars
    <2>3. gw.spec \in Specs \cup {None}
      BY <2>2 DEF GwObject
    <2> HIDE DEF n
    <2> QED
      BY <2>1, <2>2, <2>3 DEF GwTypeOK
  <1>9. ASSUME NEW s, gw # None => s \in GwStatus, UpdateStatus(s), UNCHANGED <<cert, objects>>
        PROVE  GwTypeOK'
    <2>1. CASE ~gwWorker.fresh
      BY <1>4, <1>9, <2>1 DEF UpdateStatus, GwTypeOK
    <2>2. CASE gwWorker.fresh
      <3>1. gw \in GwObject /\ s \in GwStatus
        BY <1>9, <2>2 DEF GwTypeOK
      <3>2. [gw EXCEPT !.status = s] \in GwObject
        BY <3>1 DEF GwObject
      <3> QED
        BY <1>4, <1>9, <2>2, <3>2 DEF UpdateStatus
    <2> QED
      BY <2>1, <2>2
  <1>10. gw # None => gw.status \in GwStatus
    BY DEF GwTypeOK, GwObject
  <1>11. CASE Fail
    <2>1. ASSUME gw # None PROVE [gw.status EXCEPT !.accepted = FALSE] \in GwStatus
      BY <1>10, <2>1, Zenon DEF GwStatus
    <2> QED
      BY <1>9, <1>11, <2>1 DEF Fail, proxyVars
  <1>12. CASE ApplyProxy
    <2>1. /\ gwWorker' = [gwWorker EXCEPT !.step = "sync"] /\ gwWorker.step = "apply" /\ UNCHANGED <<gw, cert>>
          /\ objects' \in 0..MaxObjects
      BY <1>12, RolloutBounds DEF ApplyProxy, GwTypeOK
    <2> QED
      BY <2>1 DEF GwTypeOK
  <1>13. CASE Sync
    <2>1. CASE rpcSeen = None
      BY <1>4, <1>13, <2>1 DEF Sync, GwTypeOK, proxyVars
    <2>2. CASE rpcSeen # None
      <3>1. rpcSeen.status \in Status /\ cert \in BOOLEAN
        BY <2>2 DEF TInv, CoreTypeOK, Object, GwTypeOK
      <3>2. ASSUME gw # None PROVE syncStatus(gw.status, rpcSeen.status) \in GwStatus
        BY <1>10, <3>1, <3>2 DEF syncStatus, Status, GwStatus
      <3> QED
        BY <1>9, <1>13, <2>2, <3>2 DEF Sync, proxyVars
    <2> QED
      BY <2>1, <2>2
  <1>14. CASE GwFails
    BY <1>4, <1>14 DEF GwFails, GwTypeOK, proxyVars
  <1> QED
    BY <1>5, <1>6, <1>7, <1>8, <1>11, <1>12, <1>13, <1>14 DEF GwNext, GwStep

(* What the Gateway's side does to the proxy. *)
LEMMA GwProxy == ASSUME IInv, GwNext PROVE TInv'
  <1>1. TInv
    BY DEF IInv
  <1>2. CASE User
    <2>1. CASE UNCHANGED <<rpc, lost>>
      BY <1>1, <1>2, <2>1, Frame DEF User
    <2>2. CASE Live /\ Deleted
      BY <1>1, <1>2, <2>2, DeletedInv DEF User
    <2> QED
      BY <1>2, <2>1, <2>2 DEF User
  <1>3. CASE Orphan
    BY <1>1, <1>3, DeletedInv DEF Orphan
  <1>4. CASE Change \/ GwStart \/ Fail \/ Sync \/ GwFails
    <2>1. UNCHANGED proxyVars
      BY <1>4 DEF Change, GwStart, Fail, Sync, GwFails
    <2> QED
      BY <1>1, <2>1, Frame DEF proxyVars
  <1>5. CASE ApplyProxy
    BY <1>5, ApplyProxyInv
  <1> QED
    BY <1>2, <1>3, <1>4, <1>5 DEF GwNext, GwStep

(* The initial states. *)
LEMMA InitInv == ASSUME Init PROVE IInv
  <1>1. 1 \in 1..(MaxTokens + 1)
    BY RolloutBounds
  <1>2. CoreTypeOK /\ TokensUsed /\ WorkerOK
    BY <1>1, IdleOK DEF Init, ProxyInit, CoreTypeOK, TokensUsed, WorkerOK, Minting
  <1>3. DeletedApart /\ LiveSecretValid /\ TokensAccounted
    BY DEF Init, ProxyInit, DeletedApart, LiveSecretValid, TokensAccounted, Recorded, Live
  <1>4. GwTypeOK
    <2>1. PICK s \in Specs \cup {None} : gw = [spec |-> s, status |-> NewStatus]
      BY GatewayValues DEF Init
    <2>2. gw \in GwObject
      BY <2>1 DEF GwObject, NewStatus, GwStatus
    <2>3. /\ GwIdle \in [step: {"idle", "fail", "apply", "sync"}, spec: Specs \cup {None}, fresh: BOOLEAN]
          /\ GwIdle.step = "idle" /\ ~GwIdle.fresh
      BY DEF GwIdle
    <2>4. objects \in 0..MaxObjects
      BY RolloutBounds DEF Init, ProxyInit
    <2> QED
      BY <2>2, <2>3, <2>4 DEF Init, GwTypeOK
  <1> QED
    BY <1>2, <1>3, <1>4 DEF IInv, TInv

(* Every step keeps the invariant. *)
LEMMA NextInv == ASSUME IInv, [Next]_vars PROVE IInv'
  <1>1. CASE ProxyNext /\ UNCHANGED gwVars
    <2>1. TInv'
      BY <1>1, ProxyInv DEF IInv
    <2>2. UNCHANGED objects
      BY <1>1, Zenon DEF ProxyNext, ProxyStep, Start, Finalize, Mint, ApplySecret, RecordToken, ApplyAll,
                  Addresses, Finish, Revoke, Unfinalize, CallFails, DeliverProxy, Assign, Enroll, Collect, Meddle
    <2>3. GwTypeOK'
      BY <1>1, <2>2 DEF IInv, GwTypeOK, gwVars
    <2> QED
      BY <2>1, <2>3 DEF IInv
  <1>2. CASE GwNext
    BY <1>2, GwSteps, GwProxy DEF IInv
  <1>3. CASE UNCHANGED vars
    <2>1. TInv'
      BY <1>3, Frame DEF IInv, vars, proxyVars
    <2>2. GwTypeOK'
      BY <1>3 DEF IInv, GwTypeOK, vars, gwVars, proxyVars
    <2> QED
      BY <2>1, <2>2 DEF IInv
  <1> QED
    BY <1>1, <1>2, <1>3 DEF Next

(* The invariant holds throughout. *)
THEOREM Invariance == Spec => []IInv
  BY InitInv, NextInv, PTL DEF Spec

(* "Proxy enrollment tokens are one-shot and revoked", for any specs,      *)
(* objects, tokens and faults: a valid token is in the status of the       *)
(* ReverseProxyCluster, with the reconcile that minted it, or lost.        *)
THEOREM TokensNotLeftBehind == Spec => []TokensAccounted
  <1>1. IInv => TokensAccounted
    BY DEF IInv, TInv
  <1> QED
    BY <1>1, Invariance, PTL

(* The Secret of a live ReverseProxyCluster that records a token never     *)
(* holds one that a reconcileDelete revoked, neither one that ran on the   *)
(* copy of a predecessor of the same name nor the one in the Secret that   *)
(* the predecessor left behind.                                            *)
THEOREM SecretNeverRevoked == Spec => []LiveSecretValid
  <1>1. IInv => LiveSecretValid
    BY DEF IInv, TInv
  <1> QED
    BY <1>1, Invariance, PTL

-----------------------------------------------------------------------------
(* The ReverseProxyServices (ProxyService).  Only servable requests reach  *)
(* NetBird, and no service is left behind without a named reason, for any  *)
(* number of objects, specs, backends, ids and faults.                     *)
CONSTANTS CRs, SvcSpecs, Resources, Backends, AccessGroups, AtStart, MaxIDs
VARIABLES api, seen, services, nextID, backend, groups, svcWorker, orphans, svcObjects, svcFaults

Svc == INSTANCE ProxyService
           WITH Specs <- SvcSpecs, worker <- svcWorker, objects <- svcObjects, faults <- svcFaults

(* An id that anyone holds was handed out, so a created service is new. *)
IDUsed(o) == o # None /\ o.id # None => o.id < nextID

Used ==
    /\ \A c \in CRs : IDUsed(api[c]) /\ IDUsed(seen[c])
    /\ IDUsed(svcWorker.obj)
    /\ \A i \in Svc!IDs : services[i] # None => i < nextID

(* The service the copy names is no longer there. *)
CopyFreed == svcWorker.obj.id # None => services[svcWorker.obj.id] = None

(* What the worker holds at each step. *)
SvcWorkerOK ==
    /\ svcWorker.step # "idle" => svcWorker.cr \in CRs /\ svcWorker.obj \in Svc!Object
    /\ svcWorker.step \in {"update", "create", "patch"} => svcWorker.req \in Svc!Requests /\ Svc!Servable(svcWorker.req)
    /\ svcWorker.step = "update" => svcWorker.obj.id # None
    /\ svcWorker.step = "patch" => svcWorker.id \in Svc!IDs /\ svcWorker.id < nextID
    /\ svcWorker.step \in {"create", "unfinalize"} => CopyFreed
    /\ svcWorker.step = "patch" /\ svcWorker.id # svcWorker.obj.id => CopyFreed

(* An updated service was accounted for before the update. *)
Accounted(i) ==
    \/ i \in orphans
    \/ \E c \in CRs : Svc!Exists(c) /\ api[c].id = i
    \/ svcWorker.step = "patch" /\ svcWorker.id = i /\ svcWorker.obj.id # i

AllAccounted == \A i \in Svc!IDs : services[i] # None => Accounted(i)

SvcInv == Svc!TypeOK /\ Used /\ SvcWorkerOK /\ Svc!ServicesServable /\ AllAccounted

-----------------------------------------------------------------------------
(* resolveBackend and resolveL4Backend give a target of the kind the mode  *)
(* needs, and the rules of the CRD do the rest.                            *)
LEMMA RequestServable ==
    ASSUME Svc!ServiceBounds, Svc!SpecsAdmitted,
           NEW s \in SvcSpecs, NEW b \in Backends, NEW g,
           Svc!Outcome(s, b, g) \notin {"error", "dependency"}
    PROVE  b # None /\ Svc!Request(s, b) \in Svc!Requests /\ Svc!Servable(Svc!Request(s, b))
  <1> USE DEF Svc!Outcome
  <1>1. b # None
    BY DEF Svc!Target, Svc!resolveBackend, Svc!resolveL4Backend
  <1>2. Svc!Request(s, b) \in Svc!Requests
    BY <1>1 DEF Svc!Requests
  <1>3. Svc!Admitted(s) /\ s.mode \in Svc!Modes
    BY Svc!SpecsAdmitted
  <1>4. b \in Svc!Backend
    BY <1>1, Svc!ServiceBounds
  <1>5. CASE s.mode = "http"
    <2>1. Svc!Target(s, b) \in {"mesh", "cluster.local"}
      BY <1>5 DEF Svc!Target, Svc!resolveBackend
    <2>2. Svc!serviceMode(s.mode) = [mode |-> "http", protocol |-> "http"]
      BY <1>5 DEF Svc!serviceMode
    <2>3. Svc!Target(s, b) \notin Resources
      BY <2>1, Svc!ServiceBounds
    <2>4. (s.mode = "http" /\ s.private /\ s.groups # {}) = (s.mode = "http" /\ s.private)
      BY <1>3 DEF Svc!Admitted
    <2>5. Svc!Request(s, b).groups = Svc!Request(s, b).private
      BY <2>4 DEF Svc!Request
    <2>6. /\ Svc!Request(s, b).mode = [mode |-> "http", protocol |-> "http"]
          /\ Svc!Request(s, b).target \notin Resources
          /\ ~Svc!Request(s, b).listen /\ ~Svc!Request(s, b).proxyProtocol
      BY <1>5, <2>2, <2>3, Zenon DEF Svc!Request
    <2> QED
      BY <1>1, <1>2, <2>5, <2>6 DEF Svc!Servable
  <1>6. CASE s.mode # "http"
    <2>1. Svc!Target(s, b) \in Resources
      BY <1>4, <1>6, Zenon DEF Svc!Target, Svc!resolveL4Backend, Svc!preferL4Resource, Svc!Backend
    <2>2. /\ Svc!serviceMode(s.mode).mode # "http"
          /\ s.mode \in {"tcp", "tls"} => Svc!serviceMode(s.mode).protocol = "tcp"
      BY <1>3, <1>6 DEF Svc!serviceMode, Svc!Modes
    <2> QED
      BY <1>1, <1>2, <1>3, <1>6, <2>1, <2>2, Zenon DEF Svc!Servable, Svc!Request, Svc!Admitted
  <1> QED
    BY <1>5, <1>6

(* Ids are positive naturals, and None is none of the values beside it. *)
LEMMA SvcValues ==
    ASSUME Svc!ServiceBounds, Svc!ServiceValues
    PROVE  /\ Svc!IDs \subseteq Nat /\ MaxIDs \in Nat /\ \A i \in Svc!IDs : i <= MaxIDs
           /\ None \notin CRs /\ None \notin Svc!IDs /\ None \notin Svc!Object /\ None \notin Svc!Requests
  BY Svc!ServiceBounds, Svc!ServiceValues DEF Svc!IDs

(* The domain NetBird is asked for is one of the domains of the specs. *)
LEMMA RequestDomain == \A q \in Svc!Requests : q.domain \in Svc!Domains
  <1> SUFFICES ASSUME NEW q \in Svc!Requests PROVE q.domain \in Svc!Domains
    OBVIOUS
  <1>1. PICK s \in SvcSpecs, b \in Backends \ {None} : q = Svc!Request(s, b)
    BY DEF Svc!Requests
  <1>2. q.domain = Svc!ServiceDomain(s, b)
    BY <1>1 DEF Svc!Request
  <1> QED
    BY <1>2 DEF Svc!Domains

(* Writing a flag of an object keeps its type and its id. *)
LEMMA SvcFlags ==
    ASSUME NEW o \in Svc!Object, NEW b \in BOOLEAN
    PROVE  /\ [o EXCEPT !.deleting = b] \in Svc!Object /\ [o EXCEPT !.deleting = b].id = o.id
           /\ [o EXCEPT !.finalizer = b] \in Svc!Object /\ [o EXCEPT !.finalizer = b].id = o.id
           /\ [o EXCEPT !.ready = b] \in Svc!Object /\ [o EXCEPT !.ready = b].id = o.id
  BY DEF Svc!Object

(* No service and no id at the start. *)
LEMMA InitSvcInv ==
    ASSUME Svc!ServiceBounds, Svc!ServiceValues
    PROVE  Svc!Init => SvcInv
  BY SvcValues, Svc!ServiceBounds DEF Svc!Init, SvcInv, Svc!TypeOK, Used, IDUsed, SvcWorkerOK, Svc!ServicesServable,
     AllAccounted, Svc!Idle

-----------------------------------------------------------------------------
(* An informer event carries an object whose id is in order already. *)
LEMMA DeliverSvcInv ==
    ASSUME Svc!ServiceBounds, Svc!ServiceValues, SvcInv, NEW c \in CRs, Svc!Deliver(c)
    PROVE  SvcInv'
  <1> USE SvcValues DEF Svc!Deliver, SvcInv, Svc!netbird, Svc!deps, Svc!bounds
  <1>1. Svc!TypeOK'
    BY DEF Svc!TypeOK
  <1>2. Used'
    BY DEF Used, IDUsed, Svc!TypeOK
  <1>3. SvcWorkerOK' /\ Svc!ServicesServable' /\ AllAccounted'
    BY DEF SvcWorkerOK, CopyFreed, Svc!ServicesServable, AllAccounted, Accounted, Svc!Exists
  <1> QED
    BY <1>1, <1>2, <1>3

(* A user writes the spec and the deletion, never an id; an object that    *)
(* goes without a finalizer leaves its id to the orphans.                  *)
LEMMA UserSvcInv ==
    ASSUME Svc!ServiceBounds, Svc!ServiceValues, SvcInv, NEW c \in CRs, Svc!User(c)
    PROVE  SvcInv'
  <1> USE SvcValues DEF SvcInv, Svc!netbird, Svc!deps, Svc!bounds
  <1>1. /\ UNCHANGED <<seen, services, nextID, backend, groups, svcWorker>>
        /\ orphans \subseteq orphans' /\ orphans' \subseteq orphans \cup {api[c].id}
        /\ Svc!Exists(c) /\ api'[c] = None /\ api[c].id # None => api[c].id \in orphans'
    BY DEF Svc!User, Svc!Exists
  <1>2. /\ \A d \in CRs \ {c} : api'[d] = api[d]
        /\ api' \in [CRs -> Svc!Object \cup {None}]
        /\ api'[c] # None => \/ api[c] = None /\ api'[c].id = None
                             \/ api[c] # None /\ api'[c].id = api[c].id
    <2>1. CASE api[c] = None /\ \E s \in SvcSpecs : api' = [api EXCEPT ![c] = Svc!New(s)]
      <3>1. PICK s \in SvcSpecs : api' = [api EXCEPT ![c] = Svc!New(s)]
        BY <2>1, Zenon
      <3>2. Svc!New(s) \in Svc!Object /\ Svc!New(s).id = None
        BY DEF Svc!New, Svc!Object
      <3> QED
        BY <2>1, <3>1, <3>2 DEF Svc!TypeOK
    <2>2. CASE Svc!Live(c) /\ \E s \in SvcSpecs : api' = [api EXCEPT ![c].spec = s]
      BY <2>2 DEF Svc!TypeOK, Svc!Live, Svc!Object
    <2>3. CASE Svc!Live(c) /\ api' = [api EXCEPT ![c] = [api[c] EXCEPT !.deleting = TRUE]]
      <3>1. api[c] \in Svc!Object
        BY <2>3 DEF Svc!TypeOK, Svc!Live
      <3> QED
        BY <2>3, <3>1, SvcFlags, Zenon DEF Svc!TypeOK
    <2>4. CASE Svc!Live(c) /\ api' = [api EXCEPT ![c] = None]
      BY <2>4 DEF Svc!TypeOK, Svc!Live
    <2>5. CASE Svc!Live(c) /\ api' = [api EXCEPT ![c] = IF @.finalizer THEN [@ EXCEPT !.deleting = TRUE]
                                                                  ELSE None]
      <3>1. CASE api[c].finalizer
        BY <2>3, <2>5, <3>1
      <3>2. CASE ~api[c].finalizer
        BY <2>4, <2>5, <3>2
      <3> QED
        BY <3>1, <3>2
    <2> QED
      BY <2>1, <2>2, <2>5 DEF Svc!User
  <1>3. Svc!TypeOK'
    <2>1. orphans' \subseteq Svc!IDs
      BY DEF Svc!User, Svc!TypeOK, Svc!Object, Svc!Exists
    <2>2. svcObjects' \in 0..MaxObjects /\ svcFaults' \in 0..MaxFaults
      BY Svc!ServiceBounds DEF Svc!User, Svc!TypeOK, Svc!Spend
    <2> QED
      BY <1>1, <1>2, <2>1, <2>2 DEF Svc!TypeOK
  <1>4. Used'
    BY <1>1, <1>2 DEF Used, IDUsed, Svc!TypeOK
  <1>5. SvcWorkerOK' /\ Svc!ServicesServable'
    BY <1>1 DEF SvcWorkerOK, CopyFreed, Svc!ServicesServable
  <1>6. AllAccounted'
    <2> SUFFICES ASSUME NEW i \in Svc!IDs, services'[i] # None PROVE Accounted(i)'
      BY DEF AllAccounted
    <2>1. Accounted(i)
      BY <1>1 DEF AllAccounted
    <2>2. CASE \E d \in CRs : Svc!Exists(d) /\ api[d].id = i
      BY <1>1, <1>2, <2>2 DEF Accounted, Svc!Exists
    <2> QED
      BY <1>1, <2>1, <2>2 DEF Accounted
  <1> QED
    BY <1>3, <1>4, <1>5, <1>6

(* What others change is the backend, or takes a service away. *)
LEMMA OutsideSvcInv ==
    ASSUME Svc!ServiceBounds, Svc!ServiceValues, SvcInv, Svc!Outside
    PROVE  SvcInv'
  <1> USE SvcValues DEF SvcInv, Svc!netbird, Svc!deps, Svc!bounds
  <1>1. /\ UNCHANGED <<api, seen, nextID, svcWorker, orphans, svcObjects>>
        /\ \A i \in Svc!IDs : services'[i] \in {services[i], None}
    BY DEF Svc!Outside, Svc!TypeOK
  <1>2. Svc!TypeOK'
    BY <1>1, Svc!ServiceBounds DEF Svc!Outside, Svc!TypeOK, Svc!Spend
  <1>3. Used'
    BY <1>1 DEF Used, IDUsed
  <1>4. SvcWorkerOK'
    <2>1. CopyFreed /\ svcWorker.obj \in Svc!Object => CopyFreed'
      BY <1>1 DEF CopyFreed, Svc!Object
    <2> QED
      BY <1>1, <2>1 DEF SvcWorkerOK
  <1>5. Svc!ServicesServable' /\ AllAccounted'
    BY <1>1 DEF Svc!ServicesServable, AllAccounted, Accounted, Svc!Exists
  <1> QED
    BY <1>2, <1>3, <1>4, <1>5

(* Flags of objects may change, what they record does not. *)
SameIDs ==
    /\ api' \in [CRs -> Svc!Object \cup {None}]
    /\ \A c \in CRs : (api'[c] = None <=> api[c] = None) /\ (api[c] # None => api'[c].id = api[c].id)

(* A write of one flag leaves every id where it was. *)
LEMMA FlagKeepsIDs ==
    ASSUME Svc!ServiceBounds, Svc!ServiceValues,
           Svc!TypeOK, NEW c \in CRs, api[c] # None, NEW b \in BOOLEAN,
           \/ api' = [api EXCEPT ![c] = [api[c] EXCEPT !.ready = b]]
           \/ api' = [api EXCEPT ![c] = [api[c] EXCEPT !.finalizer = b]]
    PROVE  SameIDs
  <1>1. api[c] \in Svc!Object
    BY SvcValues DEF Svc!TypeOK
  <1>2. PICK n \in Svc!Object : n.id = api[c].id /\ api' = [api EXCEPT ![c] = n]
    BY <1>1, SvcFlags, Zenon
  <1> QED
    BY <1>1, <1>2, SvcValues DEF Svc!TypeOK, SameIDs

(* A step that leaves NetBird, ids and histories alone only has to keep    *)
(* the worker in order.                                                    *)
LEMMA QuietSvcInv ==
    ASSUME Svc!ServiceBounds, Svc!ServiceValues,
           SvcInv, SameIDs, UNCHANGED <<seen, Svc!netbird, backend, groups, orphans, Svc!bounds>>,
           Svc!TypeOK', SvcWorkerOK', IDUsed(svcWorker.obj)', svcWorker.step # "patch" \/ svcWorker.id = svcWorker.obj.id
    PROVE  SvcInv'
  <1> USE SvcValues DEF SvcInv, Svc!netbird, Svc!deps, Svc!bounds
  <1>1. Used'
    BY DEF Used, IDUsed, SameIDs
  <1>2. Svc!ServicesServable'
    BY DEF Svc!ServicesServable
  <1>3. AllAccounted'
    BY DEF AllAccounted, Accounted, Svc!Exists, SameIDs
  <1> QED
    BY <1>1, <1>2, <1>3

(* The reconcile takes its copy from the informer. *)
LEMMA StartSvcInv ==
    ASSUME Svc!ServiceBounds, Svc!ServiceValues, SvcInv, NEW c \in CRs, Svc!Start(c)
    PROVE  SvcInv'
  <1> USE SvcValues DEF SvcInv, Svc!netbird, Svc!deps, Svc!bounds
  <1>1. SameIDs
    BY DEF Svc!Start, SameIDs, Svc!TypeOK
  <1>2. /\ seen[c] \in Svc!Object /\ svcWorker'.cr = c /\ svcWorker'.obj = seen[c] /\ svcWorker'.req = None
        /\ svcWorker'.id = None /\ svcWorker'.step \in {"delete", "resolve", "finalize"}
        /\ svcWorker' \in [step: {"delete", "resolve", "finalize"}, cr: CRs, obj: Svc!Object,
                        req: {None}, id: {None}]
    <2>1. seen[c] \in Svc!Object
      BY DEF Svc!Start, Svc!TypeOK
    <2> DEFINE n == IF seen[c].deleting THEN "delete"
                    ELSE IF seen[c].finalizer THEN "resolve" ELSE "finalize"
    <2>2. n \in {"delete", "resolve", "finalize"}
      OBVIOUS
    <2>3. svcWorker' = [step |-> n, cr |-> c, obj |-> seen[c], req |-> None, id |-> None]
      BY Zenon DEF Svc!Start, Svc!Idle
    <2> HIDE DEF n
    <2> QED
      BY <2>1, <2>2, <2>3
  <1>3. Svc!TypeOK'
    BY <1>2 DEF Svc!Start, Svc!TypeOK
  <1>4. SvcWorkerOK'
    BY <1>2 DEF SvcWorkerOK
  <1>5. IDUsed(svcWorker.obj)'
    BY <1>2 DEF Svc!Start, Used, IDUsed
  <1> QED
    BY <1>1, <1>3, <1>4, <1>5, QuietSvcInv DEF Svc!Start

(* The finalizer is added before anything is created in NetBird. *)
LEMMA FinalizeSvcInv ==
    ASSUME Svc!ServiceBounds, Svc!ServiceValues, SvcInv, Svc!Finalize
    PROVE  SvcInv'
  <1> USE SvcValues DEF SvcInv, Svc!netbird, Svc!deps, Svc!bounds
  <1>1. svcWorker.cr \in CRs /\ svcWorker.obj \in Svc!Object
    BY DEF Svc!Finalize, SvcWorkerOK
  <1>2. SameIDs
    <2>1. CASE Svc!Exists(svcWorker.cr)
      <3>1. api' = [api EXCEPT ![svcWorker.cr] = [api[svcWorker.cr] EXCEPT !.finalizer = TRUE]]
        BY <2>1 DEF Svc!Finalize
      <3> QED
        BY <1>1, <2>1, <3>1, FlagKeepsIDs, Zenon DEF Svc!Exists
    <2>2. CASE ~Svc!Exists(svcWorker.cr)
      BY <2>2 DEF Svc!Finalize, SameIDs, Svc!TypeOK
    <2> QED
      BY <2>1, <2>2
  <1>3. svcWorker' = Svc!Idle \/ svcWorker' = [svcWorker EXCEPT !.step = "resolve"]
    BY DEF Svc!Finalize
  <1>4. Svc!TypeOK'
    BY <1>2, <1>3 DEF Svc!Finalize, Svc!TypeOK, SameIDs, Svc!Idle
  <1>5. SvcWorkerOK' /\ IDUsed(svcWorker.obj)'
    BY <1>1, <1>3 DEF Svc!Finalize, Svc!TypeOK, SvcWorkerOK, Svc!Idle, Used, IDUsed
  <1> QED
    BY <1>2, <1>4, <1>5, QuietSvcInv DEF Svc!Finalize

(* applyReverseProxyService up to the call: the request is servable, or    *)
(* there is no call.                                                       *)
LEMMA ResolveSvcInv ==
    ASSUME Svc!ServiceBounds, Svc!ServiceValues, Svc!SpecsAdmitted, SvcInv, Svc!Resolve
    PROVE  SvcInv'
  <1> USE SvcValues DEF SvcInv, Svc!netbird, Svc!deps, Svc!bounds
  <1> DEFINE t == Svc!Outcome(svcWorker.obj.spec, backend, groups)
             q == Svc!Request(svcWorker.obj.spec, backend)
  <1>1. /\ svcWorker.cr \in CRs /\ svcWorker.obj \in Svc!Object /\ svcWorker.obj.spec \in SvcSpecs
        /\ backend \in Backends
    BY DEF Svc!Resolve, SvcWorkerOK, Svc!TypeOK, Svc!Object
  <1>2. CASE api' = api /\ svcWorker' = Svc!Idle
    <2>1. Svc!TypeOK' /\ SvcWorkerOK' /\ IDUsed(svcWorker.obj)'
      BY <1>2 DEF Svc!Resolve, Svc!TypeOK, SvcWorkerOK, Svc!Idle, IDUsed
    <2> QED
      BY <1>2, <2>1, QuietSvcInv DEF Svc!Resolve, SameIDs, Svc!TypeOK
  <1>3. CASE /\ svcWorker' = Svc!Idle /\ Svc!Exists(svcWorker.cr)
             /\ api' = [api EXCEPT ![svcWorker.cr] = [api[svcWorker.cr] EXCEPT !.ready = FALSE]]
    <2>1. SameIDs
      BY <1>1, <1>3, FlagKeepsIDs, Zenon DEF Svc!Exists
    <2>2. Svc!TypeOK' /\ SvcWorkerOK' /\ IDUsed(svcWorker.obj)'
      BY <1>3, <2>1 DEF Svc!Resolve, Svc!TypeOK, SvcWorkerOK, Svc!Idle, IDUsed, SameIDs
    <2> QED
      BY <2>1, <2>2, QuietSvcInv DEF Svc!Resolve
  <1>4. CASE /\ t \notin {"error", "dependency"} /\ api' = api
             /\ svcWorker' = [svcWorker EXCEPT !.req = q,
                              !.step = IF svcWorker.obj.id = None THEN "create" ELSE "update"]
    <2>1. q \in Svc!Requests /\ Svc!Servable(q)
      BY <1>1, <1>4, RequestServable
    <2>2. /\ svcWorker'.obj = svcWorker.obj /\ svcWorker'.cr = svcWorker.cr /\ svcWorker'.req = q
          /\ svcWorker'.step = IF svcWorker.obj.id = None THEN "create" ELSE "update"
      BY <1>4 DEF Svc!TypeOK
    <2>3. Svc!TypeOK'
      BY <1>4, <2>1, Zenon DEF Svc!Resolve, Svc!TypeOK
    <2>4. SvcWorkerOK'
      BY <1>1, <2>1, <2>2 DEF SvcWorkerOK, CopyFreed
    <2>5. IDUsed(svcWorker.obj)'
      BY <2>2 DEF Svc!Resolve, Used, IDUsed
    <2> QED
      BY <1>4, <2>3, <2>4, <2>5, QuietSvcInv DEF Svc!Resolve, SameIDs, Svc!TypeOK
  <1> QED
    BY <1>2, <1>3, <1>4 DEF Svc!Resolve

-----------------------------------------------------------------------------
(* The update of a service, or the create that follows a 404. *)
LEMMA UpdateSvcInv ==
    ASSUME Svc!ServiceBounds, Svc!ServiceValues, SvcInv, Svc!Update
    PROVE  SvcInv'
  <1> USE SvcValues DEF SvcInv, Svc!netbird, Svc!deps, Svc!bounds
  <1> DEFINE i == svcWorker.obj.id
  <1>1. /\ svcWorker.cr \in CRs /\ svcWorker.obj \in Svc!Object /\ i \in Svc!IDs
        /\ svcWorker.req \in Svc!Requests /\ Svc!Servable(svcWorker.req)
    BY DEF Svc!Update, SvcWorkerOK, Svc!Object
  <1>2. CASE services[i] = None /\ svcWorker' = [svcWorker EXCEPT !.step = "create"] /\ UNCHANGED services
    <2>1. Svc!TypeOK' /\ SvcWorkerOK' /\ IDUsed(svcWorker.obj)'
      BY <1>1, <1>2 DEF Svc!Update, Svc!TypeOK, SvcWorkerOK, CopyFreed, Used, IDUsed
    <2> QED
      BY <1>2, <2>1, QuietSvcInv DEF Svc!Update, SameIDs, Svc!TypeOK
  <1>3. CASE svcWorker' = Svc!Idle /\ UNCHANGED services
    <2>1. Svc!TypeOK' /\ SvcWorkerOK' /\ IDUsed(svcWorker.obj)'
      BY <1>3 DEF Svc!Update, Svc!TypeOK, SvcWorkerOK, Svc!Idle, IDUsed
    <2> QED
      BY <1>3, <2>1, QuietSvcInv DEF Svc!Update, SameIDs, Svc!TypeOK
  <1>4. CASE /\ services[i] # None /\ services' = [services EXCEPT ![i] = svcWorker.req]
             /\ svcWorker' = [svcWorker EXCEPT !.step = "patch", !.id = i]
    <2>1. Svc!TypeOK'
      BY <1>1, <1>4, Zenon DEF Svc!Update, Svc!TypeOK
    <2>2. Used'
      BY <1>1, <1>4 DEF Svc!Update, Svc!TypeOK, Used, IDUsed
    <2>3. SvcWorkerOK'
      BY <1>1, <1>4 DEF Svc!Update, Svc!TypeOK, SvcWorkerOK, Used
    <2>4. Svc!ServicesServable'
      BY <1>1, <1>4 DEF Svc!TypeOK, Svc!ServicesServable
    <2>5. AllAccounted'
      BY <1>1, <1>4 DEF Svc!Update, Svc!TypeOK, AllAccounted, Accounted, Svc!Exists
    <2> QED
      BY <2>1, <2>2, <2>3, <2>4, <2>5
  <1> QED
    BY <1>2, <1>3, <1>4 DEF Svc!Update

(* The new service is in the hands of the worker until the patch. *)
LEMMA CreateSvcInv ==
    ASSUME Svc!ServiceBounds, Svc!ServiceValues, SvcInv, Svc!Create
    PROVE  SvcInv'
  <1> USE SvcValues DEF SvcInv, Svc!netbird, Svc!deps, Svc!bounds
  <1>1. /\ svcWorker.cr \in CRs /\ svcWorker.obj \in Svc!Object /\ CopyFreed
        /\ svcWorker.req \in Svc!Requests /\ Svc!Servable(svcWorker.req)
    BY DEF Svc!Create, SvcWorkerOK
  <1>2. CASE svcWorker' = Svc!Idle /\ UNCHANGED Svc!netbird
    <2>1. Svc!TypeOK' /\ SvcWorkerOK' /\ IDUsed(svcWorker.obj)'
      BY <1>2 DEF Svc!Create, Svc!TypeOK, SvcWorkerOK, Svc!Idle, IDUsed
    <2> QED
      BY <1>2, <2>1, QuietSvcInv DEF Svc!Create, SameIDs, Svc!TypeOK
  <1>3. CASE /\ nextID <= MaxIDs /\ nextID' = nextID + 1
             /\ services' = [services EXCEPT ![nextID] = svcWorker.req]
             /\ svcWorker' = [svcWorker EXCEPT !.step = "patch", !.id = nextID]
    <2>1. nextID \in Svc!IDs
      BY <1>3 DEF Svc!TypeOK, Svc!IDs
    <2>2. Svc!TypeOK'
      <3>1. UNCHANGED <<api, seen, backend, groups, orphans, svcObjects, svcFaults>>
        BY DEF Svc!Create
      <3>2. nextID' \in 1..(MaxIDs + 1)
        BY <1>3 DEF Svc!TypeOK
      <3>3. services' \in [Svc!IDs -> Svc!Requests \cup {None}]
        BY <1>1, <1>3, Zenon DEF Svc!TypeOK
      <3> QED
        BY <1>3, <2>1, <3>1, <3>2, <3>3, Zenon DEF Svc!TypeOK
    <2>3. Used'
      BY <1>1, <1>3, <2>1 DEF Svc!Create, Svc!TypeOK, Used, IDUsed, Svc!Object
    <2>4. svcWorker.obj.id # nextID
      BY <1>1, <2>1 DEF Used, IDUsed, Svc!TypeOK
    <2>5. SvcWorkerOK'
      BY <1>1, <1>3, <2>1, <2>4 DEF Svc!Create, Svc!TypeOK, SvcWorkerOK, CopyFreed, Svc!Object
    <2>6. Svc!ServicesServable'
      BY <1>1, <1>3, <2>1 DEF Svc!TypeOK, Svc!ServicesServable
    <2>7. AllAccounted'
      BY <1>1, <1>3, <2>1, <2>4 DEF Svc!Create, Svc!TypeOK, AllAccounted, Accounted, Svc!Exists
    <2> QED
      BY <2>2, <2>3, <2>5, <2>6, <2>7
  <1> QED
    BY <1>2, <1>3 DEF Svc!Create

(* The patch moves the id from the worker to the object; what it replaces  *)
(* is gone from NetBird or joins the orphans.                              *)
LEMMA PatchSvcInv ==
    ASSUME Svc!ServiceBounds, Svc!ServiceValues, SvcInv, Svc!Patch
    PROVE  SvcInv'
  <1> USE SvcValues DEF SvcInv, Svc!netbird, Svc!deps, Svc!bounds
  <1> DEFINE c == svcWorker.cr
             o == svcWorker.obj
  <1>1. /\ c \in CRs /\ o \in Svc!Object /\ svcWorker.id \in Svc!IDs /\ svcWorker.req \in Svc!Requests
        /\ svcWorker.id # o.id => CopyFreed
    BY DEF Svc!Patch, SvcWorkerOK
  <1>2. /\ svcWorker' = Svc!Idle /\ UNCHANGED <<seen, services, nextID, backend, groups, svcObjects, svcFaults>>
        /\ orphans \subseteq orphans'
    BY DEF Svc!Patch
  <1>3. /\ api' \in [CRs -> Svc!Object \cup {None}] /\ orphans' \subseteq Svc!IDs
        /\ \A d \in CRs : api'[d] = None <=> api[d] = None
        /\ \A d \in CRs \ {c} : api'[d] = api[d]
        /\ Svc!Exists(c) => api'[c].id = IF svcWorker.id = o.id THEN api[c].id ELSE svcWorker.id
    <2>1. CASE Svc!Exists(c)
      <3>1. api[c] \in Svc!Object /\ svcWorker.req.domain \in Svc!Domains
        BY <1>1, <2>1, RequestDomain DEF Svc!TypeOK, Svc!Exists
      <3> DEFINE n == [api[c] EXCEPT !.id = IF svcWorker.id = o.id THEN @ ELSE svcWorker.id,
                                     !.domain = IF svcWorker.req.domain = o.domain THEN @ ELSE svcWorker.req.domain,
                                     !.ready = IF o.ready THEN @ ELSE TRUE]
      <3>2. n \in Svc!Object /\ n.id = IF svcWorker.id = o.id THEN api[c].id ELSE svcWorker.id
        BY <1>1, <3>1, Zenon DEF Svc!Object
      <3>3. api' = [api EXCEPT ![c] = n]
        BY <2>1, Zenon DEF Svc!Patch
      <3>4. orphans' \subseteq Svc!IDs
        BY <2>1, <3>1 DEF Svc!Patch, Svc!TypeOK, Svc!Object
      <3> HIDE DEF n
      <3> QED
        BY <1>1, <2>1, <3>1, <3>2, <3>3, <3>4 DEF Svc!TypeOK, Svc!Exists
    <2>2. CASE ~Svc!Exists(c)
      BY <1>1, <2>2 DEF Svc!Patch, Svc!TypeOK
    <2> QED
      BY <2>1, <2>2
  <1>4. Svc!TypeOK'
    BY <1>2, <1>3 DEF Svc!TypeOK, Svc!Idle
  <1>5. svcWorker.id < nextID
    BY <1>1 DEF Svc!Patch, SvcWorkerOK
  <1>6. Used'
    BY <1>1, <1>2, <1>3, <1>5 DEF Used, IDUsed, Svc!Idle, Svc!Exists
  <1>7. SvcWorkerOK' /\ Svc!ServicesServable'
    BY <1>2 DEF SvcWorkerOK, Svc!ServicesServable, Svc!Idle
  <1>8. AllAccounted'
    <2> SUFFICES ASSUME NEW i \in Svc!IDs, services[i] # None PROVE Accounted(i)'
      BY <1>2 DEF AllAccounted
    <2>1. Accounted(i)
      BY DEF AllAccounted
    <2>2. CASE svcWorker.id = i /\ o.id # i
      BY <1>1, <1>3, <2>2 DEF Accounted, Svc!Exists, Svc!Patch
    <2>3. CASE \E d \in CRs : Svc!Exists(d) /\ api[d].id = i
      <3>1. PICK d \in CRs : Svc!Exists(d) /\ api[d].id = i
        BY <2>3
      <3>2. CASE d = c /\ svcWorker.id # o.id /\ i # svcWorker.id
        <4>1. i # o.id
          BY <1>1, <3>2 DEF CopyFreed
        <4>2. i \in orphans'
          BY <3>1, <3>2, <4>1 DEF Svc!Patch
        <4> QED
          BY <4>2 DEF Accounted
      <3>3. CASE d # c \/ svcWorker.id = o.id \/ i = svcWorker.id
        BY <1>3, <3>1, <3>3 DEF Accounted, Svc!Exists
      <3> QED
        BY <3>2, <3>3
    <2> QED
      BY <1>2, <2>1, <2>2, <2>3, Zenon DEF Accounted
  <1> QED
    BY <1>4, <1>6, <1>7, <1>8

(* After the delete the recorded service is gone. *)
LEMMA DeleteSvcInv ==
    ASSUME Svc!ServiceBounds, Svc!ServiceValues, SvcInv, Svc!Delete
    PROVE  SvcInv'
  <1> USE SvcValues DEF SvcInv, Svc!netbird, Svc!deps, Svc!bounds
  <1>1. svcWorker.cr \in CRs /\ svcWorker.obj \in Svc!Object
    BY DEF Svc!Delete, SvcWorkerOK
  <1>2. /\ svcWorker' = [svcWorker EXCEPT !.step = "unfinalize"]
        /\ UNCHANGED <<api, seen, nextID, backend, groups, orphans, svcObjects, svcFaults>>
        /\ services' \in [Svc!IDs -> Svc!Requests \cup {None}]
        /\ \A i \in Svc!IDs : services'[i] \in {services[i], None}
        /\ svcWorker.obj.id # None => services'[svcWorker.obj.id] = None
    BY <1>1 DEF Svc!Delete, Svc!TypeOK, Svc!Object
  <1>3. Svc!TypeOK'
    BY <1>2 DEF Svc!TypeOK
  <1>4. Used'
    BY <1>2 DEF Svc!TypeOK, Used, IDUsed
  <1>5. SvcWorkerOK'
    BY <1>1, <1>2 DEF Svc!TypeOK, SvcWorkerOK, CopyFreed
  <1>6. Svc!ServicesServable'
    BY <1>2 DEF Svc!ServicesServable
  <1>7. AllAccounted'
    BY <1>2 DEF Svc!Delete, Svc!TypeOK, AllAccounted, Accounted, Svc!Exists
  <1> QED
    BY <1>3, <1>4, <1>5, <1>6, <1>7

(* The object goes with an id that is freed, or another one, which is      *)
(* counted as an orphan.                                                   *)
LEMMA UnfinalizeSvcInv ==
    ASSUME Svc!ServiceBounds, Svc!ServiceValues, SvcInv, Svc!Unfinalize
    PROVE  SvcInv'
  <1> USE SvcValues DEF SvcInv, Svc!netbird, Svc!deps, Svc!bounds
  <1> DEFINE c == svcWorker.cr
  <1>1. c \in CRs /\ svcWorker.obj \in Svc!Object /\ CopyFreed
    BY DEF Svc!Unfinalize, SvcWorkerOK
  <1>2. CASE Svc!Live(c)
    <2>1. api' = [api EXCEPT ![c] = [api[c] EXCEPT !.finalizer = FALSE]]
      BY <1>2 DEF Svc!Unfinalize
    <2>2. SameIDs
      BY <1>1, <1>2, <2>1, FlagKeepsIDs, Zenon DEF Svc!Live
    <2>3. UNCHANGED orphans /\ svcWorker' = Svc!Idle
      BY <1>2 DEF Svc!Unfinalize
    <2>4. Svc!TypeOK' /\ SvcWorkerOK' /\ IDUsed(svcWorker.obj)'
      BY <2>2, <2>3 DEF Svc!Unfinalize, Svc!TypeOK, SvcWorkerOK, Svc!Idle, IDUsed, SameIDs
    <2> QED
      BY <2>2, <2>3, <2>4, QuietSvcInv DEF Svc!Unfinalize
  <1>3. CASE ~Svc!Live(c)
    <2>1. /\ svcWorker' = Svc!Idle /\ UNCHANGED <<seen, services, nextID, backend, groups, svcObjects, svcFaults>>
          /\ api' = [api EXCEPT ![c] = None]
          /\ orphans' = orphans \cup (IF Svc!Exists(c) THEN {api[c].id} \ {None, svcWorker.obj.id} ELSE {})
      BY <1>3 DEF Svc!Unfinalize
    <2>2. Svc!TypeOK'
      <3>1. Svc!Exists(c) => api[c].id \in Svc!IDs \cup {None}
        BY <1>1 DEF Svc!TypeOK, Svc!Exists, Svc!Object
      <3>2. orphans' \subseteq Svc!IDs
        BY <2>1, <3>1 DEF Svc!TypeOK
      <3>3. api' \in [CRs -> Svc!Object \cup {None}]
        BY <1>1, <2>1 DEF Svc!TypeOK
      <3> QED
        BY <2>1, <3>2, <3>3 DEF Svc!TypeOK, Svc!Idle
    <2>3. Used'
      BY <1>1, <2>1 DEF Svc!TypeOK, Used, IDUsed, Svc!Idle
    <2>4. SvcWorkerOK' /\ Svc!ServicesServable'
      BY <2>1 DEF SvcWorkerOK, Svc!ServicesServable, Svc!Idle
    <2>5. AllAccounted'
      <3> SUFFICES ASSUME NEW i \in Svc!IDs, services[i] # None PROVE Accounted(i)'
        BY <2>1 DEF AllAccounted
      <3>1. Accounted(i) /\ i # svcWorker.obj.id
        BY <1>1 DEF AllAccounted, CopyFreed
      <3>2. CASE \E d \in CRs : Svc!Exists(d) /\ api[d].id = i
        BY <1>1, <2>1, <3>1, <3>2 DEF Accounted, Svc!Exists, Svc!TypeOK
      <3> QED
        BY <2>1, <3>1, <3>2 DEF Accounted, Svc!Unfinalize
    <2> QED
      BY <2>2, <2>3, <2>4, <2>5
  <1> QED
    BY <1>2, <1>3

(* A failure between create and patch makes the service an orphan. *)
LEMMA CallFailsSvcInv ==
    ASSUME Svc!ServiceBounds, Svc!ServiceValues, SvcInv, Svc!CallFails
    PROVE  SvcInv'
  <1> USE SvcValues DEF SvcInv, Svc!netbird, Svc!deps, Svc!bounds
  <1>1. /\ svcWorker' = Svc!Idle /\ UNCHANGED <<api, seen, services, nextID, backend, groups, svcObjects>>
        /\ orphans' = orphans \cup (IF svcWorker.step = "patch" /\ svcWorker.id # svcWorker.obj.id
                                    THEN {svcWorker.id} ELSE {})
    BY DEF Svc!CallFails
  <1>2. Svc!TypeOK'
    <2>1. svcFaults' \in 0..MaxFaults
      <3>1. svcFaults < MaxFaults /\ svcFaults' = svcFaults + 1
        BY DEF Svc!CallFails, Svc!Spend
      <3>2. svcFaults \in 0..MaxFaults /\ MaxFaults \in Nat
        BY Svc!ServiceBounds DEF Svc!TypeOK
      <3> QED
        BY <3>1, <3>2
    <2>2. orphans' \subseteq Svc!IDs
      BY <1>1 DEF Svc!TypeOK, SvcWorkerOK
    <2> QED
      BY <1>1, <2>1, <2>2 DEF Svc!TypeOK, Svc!Idle
  <1>3. Used'
    BY <1>1 DEF Used, IDUsed, Svc!Idle
  <1>4. SvcWorkerOK' /\ Svc!ServicesServable'
    BY <1>1 DEF SvcWorkerOK, Svc!ServicesServable, Svc!Idle
  <1>5. AllAccounted'
    BY <1>1, Zenon DEF AllAccounted, Accounted, Svc!Exists
  <1> QED
    BY <1>2, <1>3, <1>4, <1>5

(* Every step of the specification preserves the invariant. *)
LEMMA NextSvcInv ==
    ASSUME Svc!ServiceBounds, Svc!ServiceValues, Svc!SpecsAdmitted
    PROVE  SvcInv /\ [Svc!Next]_(Svc!vars) => SvcInv'
  <1> SUFFICES ASSUME SvcInv, [Svc!Next]_(Svc!vars) PROVE SvcInv'
    OBVIOUS
  <1>1. CASE UNCHANGED Svc!vars
    BY <1>1, Zenon DEF Svc!vars, Svc!netbird, Svc!deps, Svc!bounds, SvcInv, Svc!TypeOK, Used, IDUsed, SvcWorkerOK, CopyFreed,
       Svc!ServicesServable, AllAccounted, Accounted, Svc!Exists
  <1>2. CASE Svc!Next
    BY <1>2, DeliverSvcInv, UserSvcInv, StartSvcInv, OutsideSvcInv, CallFailsSvcInv, FinalizeSvcInv,
       ResolveSvcInv, UpdateSvcInv, CreateSvcInv, PatchSvcInv, DeleteSvcInv, UnfinalizeSvcInv DEF Svc!Next, Svc!Step
  <1> QED
    BY <1>1, <1>2

-----------------------------------------------------------------------------
(* The inductive invariant of the ReverseProxyService mirror. *)
THEOREM SvcInvariance ==
    ASSUME Svc!ServiceBounds, Svc!ServiceValues, Svc!SpecsAdmitted
    PROVE  Svc!Spec => []SvcInv
  BY InitSvcInv, NextSvcInv, PTL DEF Svc!Spec

(* applyReverseProxyService sends NetBird only services it can serve,      *)
(* whatever admitted specs users write and however the backends change.    *)
THEOREM OnlyServable ==
    ASSUME Svc!ServiceBounds, Svc!ServiceValues, Svc!SpecsAdmitted
    PROVE  Svc!Spec => []Svc!ServicesServable
  <1>1. SvcInv => Svc!ServicesServable
    BY DEF SvcInv
  <1> QED
    BY SvcInvariance, <1>1, PTL

(* Every service in NetBird is recorded, in hand, or lost to a failure     *)
(* between create and patch or to a copy that missed its id.               *)
THEOREM NothingLeftBehind ==
    ASSUME Svc!ServiceBounds, Svc!ServiceValues, Svc!SpecsAdmitted
    PROVE  Svc!Spec => []Svc!ServicesAccounted
  <1>1. SvcInv => Svc!ServicesAccounted
    BY DEF SvcInv, AllAccounted, Accounted, Svc!ServicesAccounted
  <1> QED
    BY SvcInvariance, <1>1, PTL
=============================================================================
