# TLA+ models of the NetBird operator

The operator keeps objects of the NetBird Management API (networks, resources,
routers, groups, DNS zones and records, setup keys, reverse-proxy services and
domains) in step with custom resources in a Kubernetes cluster. These modules
model its controllers, check them with TLC on small instances, and prove safety
properties of some of them with TLAPS for every value of the constants.
`PROJECT.json` maps each definition to the lines it translates and lists runs,
mutants, hazards and theorems.

```
tlc -config dnszone.cfg MCDNSZoneMirror   # one run: a cfg and its MC module
tlapm DNSZoneMirrorProofs.tla             # the proofs of one module
```

## 1. The system

| Part | Source | State | Operations |
|---|---|---|---|
| Mirror reconciler | `mirror.go`, `reconcile.go` | finalizer, NetBird id in the status | finalize, apply, patch the status, delete, requeue |
| DNSZone mirror | `dnszone_mirror.go` | zone id; zones in NetBird | verify, adopt by name, update, create, guarded delete |
| DNSRecord mirror | `dnsrecord_mirror.go` | zone id and record id | resolve the zone, verify, adopt by content, update or create, delete |
| Network, NetworkResource mirrors | `network_mirror.go`, `networkresource_mirror.go` | network id; pair (network id, resource id) | verify, update, create, delete; reset when the parent changes |
| List caches | `netbirdutil/cache.go` | cached list, expiry, mutex | list, refresh, lookup |
| SetupKey controller | `setupkey_controller.go` | key id, owned Secret, keys in NetBird | check, rotate, delete |
| GatewayClass, Gateway, HTTPRoute controllers | `gateway_controller.go` | class, ReverseProxyCluster, ReverseProxyServices, conditions | restore the class, render the cluster, report its status, admit, translate, apply, prune |
| ReverseProxyCluster controller | `reverseproxycluster_controller.go` | token and Secret, owned DNSZone, Deployment, Service and DNSRecords, domain and cluster registrations | mint, deploy, publish addresses, register, validate, revoke |
| ReverseProxyService mirror | `reverseproxyservice_mirror.go` | service id, domain | resolve cluster and backend, render the request, update or create (no adoption), delete |
| Group controller | `group_controller.go` | group id | get and write back, create, delete refused while in use |
| NetworkRouter controller | `networkrouter_controller.go` | Group, SetupKey, DaemonSet, router id | the chain of owned objects, then the router |
| LoadBalancer controller | `loadbalancer_controller.go`, `serviceaddr.go` | NetworkResource and DNSRecord children of a Service | advertise, prune |
| ClusterProxy controller | `clusterproxy_controller.go` | SetupKey, Secret, Deployment | apply in turn, report |
| Pod webhook | `webhook/v1/pod_webhook.go` | the SidecarProfiles its informer has | inject a sidecar |
| Process | `cmd/main.go` | start-up phase, API key | start probes, webhook, caches, controllers; seed the GatewayClass |

How the parts interact. Each kind has one worker and a deduplicating work
queue. A worker reads Kubernetes objects from an *informer*, a local copy that
a watch brings up to date some time after etcd has changed, so a controller may
not see its own last write. It writes to etcd (merge patches of the status that
carry only the difference to the copy read, server-side apply, or an update
that fails on a conflict) and to NetBird, whose objects other people may change
as well. Parents hand ids to children through their status (DNSZone to
DNSRecord, Network to NetworkResource); a controller that renders children owns
them and hears of their changes. A reconcile that ends well is repeated after
`resyncInterval`, one that fails after a back-off.

What makes it hard: several workers and NetBird change between two calls of a
reconcile; copies are stale in ways that differ by kind; a call may fail or the
process die between any two steps, after which an id that was only in memory is
gone; adoption lets two objects own one thing; a result that is not requeued is
the last one until an event comes.

## 2. Modules

| Module | Models | Composes |
|---|---|---|
| `DNSZoneMirror` | the DNSZone kind under `MirrorReconciler` | worker, informer, NetBird zones, zone list cache |
| `DNSRecordMirror` | the DNSRecord kind | worker, informers of two kinds, zone and records |
| `NetworkTree` | Network and NetworkResource | two workers, two informers, cascading deletes |
| `ListCache` | `listCache` and `lookup` | several callers, a clock, the server |
| `SetupKey` | `SetupKeyReconciler` | worker, two informers, Secret, keys |
| `KeyHandover` | what a SetupKey promises (abstract) | – |
| `RouteTranslation` | the pure functions of `gateway_controller.go` | – |
| `HTTPRoutes` | HTTPRoute and GatewayClass controllers | worker, work queue, three informers, garbage collection |
| `ProxyRegistration` | ReverseProxyClusters against NetBird's domains and clusters | several objects, worker, informer, enrolling proxies |
| `ProxyRollout` | one ReverseProxyCluster in Kubernetes | worker, informer, token, Secret, owned objects, LoadBalancer |
| `Gateway` | `GatewayReconciler` over `ProxyRollout` | two controllers, one rendering into the other |
| `ServiceRequest` | the pure functions of `reverseproxyservice_mirror.go` | – |
| `ProxyService` | the ReverseProxyService kind | worker, informer, services, a changing backend |
| `Groups` | `GroupReconciler` for one Group | worker, informer, NetBird groups |
| `NetworkRouter` | `NetworkRouterReconciler` over `Groups` | two controllers, SetupKey, DaemonSet, pods that enroll |
| `LoadBalancer` | `LoadBalancerReconciler` for one Service | worker, two informers, work queue, timer |
| `Operator` | the process, the Pod webhook, the GatewayClass seed | start-up phases, informers |
| `ClusterProxy` | `ClusterProxyReconciler` in `Operator`'s process | worker, work queue, restarts with another API key |
| `MC*` | instances for TLC | |
| `*Proofs`, `NetworkTreeLemmas` | TLAPS proofs of the module they extend, or instance | |

Conventions shared by the modules:

* `api` (or `net`, `res`, `routes`, `rpc`, `nr`, ...) is etcd; `informer`
  (`seen`, `rpcSeen`, ...) is the copy. In `DNSZoneMirror`, `DNSRecordMirror`,
  `NetworkTree` and `SetupKey`, `events` are the watch events between them, in
  order, at most `MaxLag`. In the other modules the copy jumps to the latest
  version at a `Deliver` that may come at any time, so that it can be old by
  any number of writes but never shows a version between.
* `worker` is the reconcile in progress: its step, the copy it read and what it
  holds in memory. One step is one call of the code that others can observe; a
  read of the informer and the computation after it belong to the call before.
* Failed calls and restarts (`CallFails`, `Crash`) may hit between any two
  steps and lose what the worker held. They share a budget, `MaxFaults`, with
  edits and with what others do out of band.
* A status patch is a merge patch: it carries only the fields in which the
  worker's status differs from the copy it read (`Merged`, `Patch`).
* `None` is an absent object or an empty id. NetBird never reuses an id.
* Fields called `lagged`, `lagging`, `excused`, `orphaned`, `orphans`, `lost`,
  `lostGroups`, `blind`, `from`, `managed`, `present`, `absent`, `known`,
  `missed` and `nsUsed` are history: properties read them, the code does not.
* A definition named `X_something` beside `X` is a plausible bug in `X`
  (a mutant); the property listed with it in `PROJECT.json` must then fail.

**DNSZoneMirror.** `Start`, `Finalize`, `PatchStatus` and `Unfinalize` are the
generic reconciler; `Verify` (`verifyNetbirdID`), `Adopt` (`GetDNSZoneByName`
through the list cache, which may be stale), `Update`, `Create` are
`applyDNSZone`; `DelGet`, `DelScan`, `DelZone` are `deleteDNSZone` with its list
of other owners. Users create, rename and delete; an administrator creates and
deletes zones.

**DNSRecordMirror.** `Resolve` reads the zone id from the DNSZone's copy and
drops the record id when the zone changed; `Verify`, `List` (adoption by name,
type and content), `Update` (404 falls through) and `Create` follow. The zone is
deleted and recreated by `Admin`.

**NetworkTree.** One Network, several resources, a worker for each kind. The
status of a resource holds two ids that one merge patch writes, each only if it
differs from the copy (`Merged`). Deleting a network in NetBird drops its
resources (`DropNetwork`).

**ListCache.** The time is read before the mutex is taken, so a waiting caller
compares and stores an old time (`now`). `Fetched` and `FetchFails` release it.
The cache is one of those `cachesFor` keeps for the one client there is; it
starts empty.

**SetupKey.** `CheckKey`, `CheckSecret`, `Create`, `Record`, `ApplySecret`,
`DelOld`, `MarkReady` in the code's order. The Secret is compared by a prefix of
the key (`Prefix` is a constant, so two keys may share one).

**RouteTranslation.** Hostnames are label sequences from the right, so that
"under the domain" is a prefix; paths are segment sequences. Lists whose order
the code does not use are turned into sets.

**HTTPRoutes.** `Start` decides the plan from the copies, `Apply` writes one
child, `List` and `Delete` are `prune`, `Finish` writes the condition (a
conflict is an error) and requeues or not, exactly where the code does. A
deleted child lingers (`dying`) until its finalizer is done. The Gateway
controller appears through its status writes: one per spec (`GatewayStatus`,
fair) and others that nobody may rely on (`GatewayTouched`, not fair).

**ProxyRegistration.** `EnsureDomain`, `Drop`, `CreateDomain`, `RecordDomain`
and `Validate` are `ensureDomain` and the status writes around it; `Revoke`,
`DeleteDomain`, `DeleteCluster` and `Unfinalize` are `reconcileDelete`, with the
guards (`GuardDomain`, `GuardCluster`, from `anotherClusterMatches`) evaluated
on the informer when the call before them returns. A proxy that is deployed
registers its address by itself (`Enroll`).

**ProxyRollout, Gateway.** `Mint`, `ApplySecret`, `RecordToken`, then the
applies of `Workload`, the addresses of the Service (`Addresses`), the records
of the families it has and the deletes of the others (`applyRecords`), `Finish`.
`Revoke` and `Unfinalize` delete. In `Gateway`, `ApplyProxy` renders the spec
into the ReverseProxyCluster, `Sync` copies the status back from the informer's
copy, and `Fail` is the path without class, parameters or usable listener.
Objects have a uid, and what they own carries it (`owner`): a proxy that is
deleted and applied again starts at once, beside the Secret, the Deployment and
the records of its predecessor, which the garbage collector removes at any time
(`Collect`) unless an apply has taken them over before (`Write`).

**ServiceRequest, ProxyService.** `Target` resolves the backend for HTTP and
for L4 modes to a target, a missing dependency or an error; `ServiceDomain`,
`serviceMode`, `accessRestrictionsFor` and `Request` build what is sent, and
`GetGroupIDs` resolves the access groups of a private service or fails the whole
reconcile (`Outcome`). Specs are assumed to obey the validation rules of the CRD (`SpecsAdmitted`). The
worker updates the recorded service, creates one when NetBird has it no more,
patches id and domain, deletes.

**Groups, NetworkRouter.** A group is read (`GetGroup`) and written back with
the peers that were read (`UpdateGroup`). The router applies Group, SetupKey and
DaemonSet in turn, reads the group id back through the informer, and verifies,
updates or creates the router. The pods of the DaemonSet enroll into the group
of the key (`Join`); a group is in use (`InUse`) while a router or the key names
it, and NetBird then refuses its deletion (`IsConflict`).

**LoadBalancer.** `Start` evaluates annotations, addresses and Network, and
returns at once when the informer lacks the Namespace (`ns = None`);
`EnsureZone`, `ApplyResource` and `ApplyRecord` are one server-side apply each,
and `Prune` deletes those of the informer's children whose family is not desired.
A deleted child stays as `Dying` until its own controller has taken the finalizer
off (`Finalized`); an apply before that does not bring it back.
`queued` and `timer` are the work queue and `RequeueAfter`: what is not requeued
and not watched stays as it is.

**Operator, ClusterProxy.** `Advance` moves the process through its phases;
the webhook answers once its caches have synced, and refuses a Pod whose profile
has no SetupKey or is malformed (`Default`); `Seed` is the Start runnable of
`GatewayClassReconciler`, which runs once. The ClusterProxy is reconciled only by events of
itself, its SetupKey and its Deployment, and by the list at each start.

## 3. Runs

Every run checks its component's safety and liveness in one instance. Each module
also has a type invariant, `TypeOK`; it holds on every instance below (add
`INVARIANT TypeOK` to the cfg), and `dnszone` lists it since it is also proved.
The same goes for two invariants at rest of section 4, `RestsSettled` of
`ClusterProxy` and `ClassRestsSettled`, on `clusterproxy`.

| Run | Checks | Instance, distinct states |
|---|---|---|
| `dnszone` | `TypeOK`, `DeleteGuard`, `AbandonsOnlyMissing`, `ZonesConverge` | 2 objects, 2 names, 2 zone ids, lag 1, an edit, a fault; 1.2 million |
| `dnsrecord` | `RecordInZone`, `DeletionRemoves`, `RecordsConverge` | 2 objects, 2 keys, 2 zone incarnations, lag 1, an edit, a fault; 520 000 |
| `nettree` | `PairConsistent`, `ResourcesAccounted`, `TreeConverges` | 1 network, 1 resource, 2 ids of each, lag 1 on both watches, a fault; 2.2 million |
| `listcache` | `HitsAreRecent`, `MissesAreConfirmed`, `LookupsReturn` | 2 callers, TTL 2, clock 0 to 4; 87 000 |
| `setupkey` | `RotationSafe`, `DeletionRevokes`, `ImplementsHandover`, `KeyConverges` | 4 keys, lag 2 on both watches, 2 faults; 342 000 |
| `httproute` | `NoForeignClaim`, `NothingWidened`, `AcceptedIsCounted`, `RoutesRestSettled`, `RoutesConverge` | 1 route, 3 Gateway and 4 route specs, an edit, a fault; 580 000 |
| `gateway` | `TokensAccounted`, `LiveSecretValid`, `RolloutConverges`, `GatewayTellsTruth`, `TeardownFinishes` | 2 specs, one with its own zone, no, one or two address families, 2 tokens, 2 objects, a fault; 1.2 million |
| `proxyregistration` | `RegistrationGuard`, `RegistrationsConverge` | 2 objects, 2 domains, 2 addresses, 3 registrations, a fault; 1.5 million |
| `proxyservice` | `ServicesServable`, `ServicesAccounted`, `ServicesConverge` | 2 objects, HTTP and L4 specs, changing backends and access groups, 3 services, a fault; 760 000 |
| `networkrouter` | `GroupsAccounted`, `RoutersAccounted`, `RouterConverges` | 1 router, 1 peer, 2 groups, 2 routers, 2 network ids, a fault; 2.1 million |
| `loadbalancer` | `RestsSettled`, `LoadBalancerConverges` | 1 Service, 4 addresses of both families and none, 3 ways to begin, 2 faults; 810 000 |
| `clusterproxy` | `SidecarsNotSkipped`, `ClassConverges`, `ClusterProxyConverges` | 2 specs, 2 API keys, profiles that overlap, one malformed, 2 faults; 950 000 |

What they show, in short. *Shared objects*: a zone, domain or cluster that
another live object records is not deleted (bar one whose event was in flight
when the guard listed). *Ids*: recorded ids are only abandoned when NetBird lost
the object, pairs of ids belong together, and a zone, token, group, router or
service without an owner has a named cause. *Secrets*: the rotation never kills
the key in use, a live proxy that records a token never has a revoked one in its
Secret, cached answers are as fresh as promised. *Routing*: a published hostname was admitted,
a request path goes to the services the route names for it, a service sent to
NetBird can be served. *Start-up*: the webhook never admits a Pod without a
sidecar it should have known. And when users, administrators and faults rest,
everything converges and every deleted object goes away, with the exceptions
each property names and section 5 explains.

Four more configurations are kept for reference. Each checks one sentence of the
documentation, and TLC answers with a counterexample (section 5 has the quotes):

| cfg (module) | Counterexample |
|---|---|
| `dnszone_last_standing` (`MCDNSZoneMirror`) | The owner of a zone leaves it to a same-named DNSZone that has no id yet; if that one is deleted before its first reconcile the zone stays. |
| `setupkey_old_key` (`MCSetupKey`) | The id of the old key is only in memory after the status patch: a failure before `DelOld` leaks the key. |
| `dnsrecord_shared` (`MCDNSRecordMirror`) | `deleteDNSRecord` deletes a record that another DNSRecord has adopted. |
| `httproute_self_heal` (`MCHTTPRoutes`) | A route reconciled while the GatewayClass is missing loses its children and is not requeued; the restored class causes no event that brings them back. The informers' default resync, about ten hours, is left out of the model. |

Bounds. Two objects are enough for every interaction the code has between
objects of one kind (adoption, sharing, the guards look at one other); routes,
LoadBalancer Services and NetworkRouters do not interact with their like, hence
one. A lag of 1 or 2 gives a copy that misses the worker's own last write, or
the one before. One fault can be placed at every step of every reconcile. Id
budgets bound the behaviours, not the states of interest; where a stale copy or
a fault can use up the ids, the liveness properties except `Spent`: the worker
stands at a create that the bound forbids. In `gateway`, `objects = MaxObjects`
excepts a Gateway whose proxy was deleted once more than the bound lets it be
created; one Gateway lives and dies there, as a second one of its name would only
render the same object again, and it begins with one spec (`Drafts`) that an edit
changes. `loadbalancer` begins in three states (a Service older than the
informer's namespaces, one advertised by default, one that overrides its
namespace) and reaches the other addresses and annotations by edits;
`proxyservice` begins without dependencies or with all of them. In `HTTPRoutes` every object is created at most once, so that "same
content" may stand for "same version" in the conflict test; raising `MaxEdits`
above 1 would need versions, for a spec edited back and forth. `setupkey` uses
distinct key prefixes; the proofs hold for any. Deadlock checking is off where
the system may rest once nothing is left to do; `listcache` never rests, since a
new lookup is always possible.

Fairness. Watches deliver; a worker that has begun goes on, every call
returning or failing (weak fairness of `Step`); the garbage collector runs; a
deployed proxy and the pods of a DaemonSet enroll, a NetworkRouter's network and
keys become ready in the end. In the mirror modules, `SetupKey`, `Groups`,
`NetworkRouter`, `ProxyRegistration` and `ProxyRollout` every existing object is
reconciled again and again: the code requeues after `resyncInterval`,
`dependencyRetry` or `cleanupRetry` or with a back-off, or an event follows.
This is strong fairness of `Start` where several objects share the worker, weak
fairness where there is one. Where a worker has one object, its `Start` and its
steps, of which only one kind is enabled at a time, share one condition; where
several deliveries or steps of the environment can be taken only finitely often
without the worker, they share one too, which assumes no more. In `ListCache` a waiter gets the mutex (strong
fairness: Go's mutex hands over to a starving waiter) and a request is answered
or fails. `HTTPRoutes`, `LoadBalancer` and `ClusterProxy` assume less, because
there some paths are *not* requeued: an object is started only when it is in the
queue, and it gets there by the events, timers and results of the code alone.
Faults, edits and outside changes are bounded and never fair.

## 4. Proofs

| Module | Theorem | States |
|---|---|---|
| `DNSZoneMirrorProofs` | `TypeCorrect`, `DeleteGuarded`, `AbandonsOnlyMissingHolds` | the safety properties of `dnszone` |
| | `HitsRecent`, `MissesConfirmed` | the two freshness bounds of `ListCache` |
| `SetupKeyProofs` | `RotationSafeHolds`, `DeletionRevokesHolds` | rotation order and deletion |
| | `Refinement` | `SetupKey` implements `KeyHandover` |
| | `WebhookSkipsNone` | the sidecars the Pod webhook of `Operator` gives out |
| | `ProxyNotForgotten`, `ClassNotForgotten` | `ClusterProxy`, `Operator`: at rest, proxy and GatewayClass are settled |
| | `ProxyTypeCorrect` | the type invariant of `ClusterProxy` |
| `DNSRecordMirrorProofs` | `RecordsInTheirZone`, `RemovedWithRecord` | the pair of ids in a status; deletion |
| `NetworkRouterProofs` | `RoutersNotLeftBehind`, `GroupsNotLeftBehind` | routers and groups have an owner |
| | `ServiceNotForgotten` | `LoadBalancer`: at rest, the Service is settled |
| `ProxyProofs` | `TokensNotLeftBehind`, `SecretNeverRevoked` | `Gateway`: enrollment tokens have an owner; the Secret of an object that records one holds a valid one |
| | `OnlyServable`, `NothingLeftBehind` | `ProxyService`: what is sent to NetBird, and that no service is left behind |
| `NetworkTreeProofs` | `PairsBelongTogether`, `ResourcesNotLost` | the pair of ids in a status; resources have an owner |
| `PublishingProofs` | `ForeignNeverClaims`, `TrafficExact`, `AcceptedCounted` | what `HTTPRoutes` publishes, serves and accepts |
| | `NoRouteForgotten` | `HTTPRoutes`: at rest, a route is settled |
| | `RegistrationsGuarded` | the guards of `ProxyRegistration` |

They hold for any set of objects, names or callers, any lag and any bounds. The
assumptions are the named `ASSUME`s of each module: bounds are naturals, `None`
is distinct from every value it stands beside, and in `HTTPRoutes` the routes
are finitely many and hostnames are sequences of labels. A component that shares
a proof module with another is instanced there (`Cache`, `Reg`,
`Svc`, `Op`, `Lb`): its constants
and variables are declared beside the others', and its assumptions, where the
argument needs them, are hypotheses of the theorem.

*DNSZoneMirror.* `DeleteGuard` speaks of the moment before the delete, but what
makes it true happens at the list. The invariant adds `Synced` (the informer
equals etcd for every object without an event in flight), `WorkerOK` (what each
step holds in hand), `IDsUsed` and `WorkerIDs` (ids anyone holds were handed
out, so a created zone is new to all) and `NoAbandon` (a worker about to record
another id than its copy's has seen the old zone missing; zones never come
back). One lemma per action; `Store`, which every write goes through, has
lemmas of its own.

*ListCache.* `CacheRecent` and `ReplyRecent` relate the stored expiry and the
answer in flight to the histories `present` and `absent`; the step that matters
is that an expiry computed from a time read before waiting is never later than
one computed at the fetch.

*SetupKey.* `VersionsOK` (every version of the object in etcd, informer and
events names only used ids and has its finalizer once it has an id), `Synced`,
`WorkerOK` (the new key differs from the one in the copy, is the recorded one
from the status patch on, and when the old key is to be deleted the Secret holds
the new one unless someone spoiled it) and `DeleteOK` (unless its copy lagged, a
delete still works on the object etcd has, and the key is gone before the
finalizer is).

*Refinement.* `KeyHandover` has no informers, copies or order of calls: while
nobody deletes the SetupKey, its Secret receives only the recorded key, and no
key that is recorded or published is deleted. The mapping takes the id in etcd
for the recorded key, the Secret for the published one and the keys NetBird has
for those alive. `RInv` adds to the invariant that deletion is for good (`Final`):
a copy that is being deleted is one of an object that still is, or is gone. Each
step is then an abstract step or a stutter; `setupkey` checks the same property
on its instance.

*ProxyService.* `ServicesAccounted` needs to know what each reconcile holds: a
service it created is new to every status (ids anyone holds were handed out),
and an id it is about to overwrite is one NetBird has lost, or is counted as
lost. `ServicesServable` needs that the spec in every version of an object is an
admitted one; which request an admitted spec gives is a lemma on `Request`.

*NetworkRouter.* Routers live inside a network, so the invariant says that all
routers in NetBird are on the network's present id, that a status which names an
existing router names that id, and that a network whose id changed under a
reconcile took its routers along; hence the router of the reconcile's copy is
gone before another id is recorded. For groups it says that the reconcile that
creates one works on a copy without an id.

*At rest, settled.* `HTTPRoutes`, `LoadBalancer` and `ClusterProxy` are not
reconciled at intervals on every path: some results are final until an event
comes. If the event that should follow were lost, or consumed too early, the
object would stay wrong for good. The convergence properties exclude this under
fairness, on one instance; the safety half of it needs no fairness and is proved
for all: *whenever nothing is queued, in progress, on a timer or on its way to an
informer, the object is settled* (`RoutesRestSettled`, `RestsSettled`,
`ClassRestsSettled`). The convergence properties say more, that such a state is
reached. The invariants all have the same shape: an object whose wake-up is not
pending has been decided upon from exactly what its informers now show, and a
reconcile in progress works on that too, or another one is pending behind it.
What differs is how the code reaches the decision:

- *HTTPRoutes*, `NoRouteForgotten` (`Rested`, `InHand`). A route is left alone
  for good if it names no Gateway of ours or has rules that cannot be translated;
  the children the informer lists are then being deleted, or the prune in progress
  still has them to do (`Pruned`). The one exception is the route of section 5
  whose class was missing (`orphaned`). `Quiet` collects what a step must leave
  alone to matter to no other route.
- *LoadBalancer*, `ServiceNotForgotten` (`LbDecided`, `LbWatched`). A reconcile
  that advertises always leaves a timer, so a Service at rest either waits for an
  address or was pruned; between the prune and the rest every child that is still
  there has a pending event, or is dying. A namespace that changed, or that the
  informer lacked, is excepted, as nothing watches it.
- *ClusterProxy* and the GatewayClass, `ProxyNotForgotten`, `ClassNotForgotten`
  (`OpWatched`, `ClassWatched`, `SecretOK`). The proof follows the process through
  its start: the list at the start queues what was missed while it was down, which
  is also how a new API key gets into the Secret that no event reports. A class
  that is missing once the seed has run is queued, unless the seed itself met no
  class and failed (`missed`); a seed that failed on another controller's class
  is made good by the event of its deletion.

*Gateway.* A token is in the hands of one reconcile from mint to patch; it is in
no status and no copy until then, and valid. `SecretNeverRevoked` needs what
makes a revocation harmless: the copy of an object that is being deleted, in the
informer or in hand, names no token that the Secret of a live object with a
recorded token holds (`DeletedApart`). A successor of the same name may find its
predecessor's Secret with a revoked token in it; but it records a token only
after it has put that token, which is new to all, into the Secret.

*NetworkTree.* A status holds two ids that a merge patch writes against a copy
that may be old, so the danger is a patch of one of them. The invariant orders
what etcd, the informer and the events between them hold of an object (`Chains`):
while it is live the versions go up, from blank to finalized to dying, and after
its end down, from dying to a blank successor; a worker's copy is one of them. On
the way up the network id never goes back, from the informer's copy of the
Network to what any reconcile resolves (`NetChain`), so the id in etcd lies
between the copy's and the resolved one and the patch always leaves the resolved
one; a resource id is kept only if the network did not change. `NetFresh` and
`RessUsed` say that ids in hand or recorded were handed out, so nothing a create
returns is known to anyone. `NetworkTreeLemmas` has the invariant, the lemmas on
versions and the Network's steps, `NetworkTreeProofs` the resources' steps.

*DNSRecordMirror.* The same danger, with zone and record for network and
resource, and the same `Chains` of versions. The zone the informer shows only
goes up, and no zone id that anyone holds is above it; so the copy's zone is at
most etcd's, and that at most the resolved one, and the patch always leaves the
resolved zone. A record id is kept only together with its zone. For the deletion
the invariant says that an exact copy of a dying object stays exact until the
finalizer goes, that the record is gone by then, and that an object without a
finalizer has recorded nothing.

*HTTPRoutes.* Every child stays what `Rendered` made of a route and a Gateway
that admitted it, whatever has become of both since (`ChildrenFaithful`), and a
plan in hand consists of admitted hostnames (`PlanAdmitted`). The rest is lemmas
on the decisions, for all inputs: an admitted hostname has a listener within the
domain that names it and admits the route (`AdmittedBy`), one of a foreign route
a listener that says All (`ForeignNeedsAll`), such a listener is counted
(`AdmittedIsCounted`), and `routeBackends` serves each path by exactly the
services its rules ask for when it accepts the rules (`BackendsExact`).

*ProxyRegistration.* `RegistrationGuard` is nearly inductive; it needs that the
registration in hand was handed out (`FreshIDs`, `Handed`), for otherwise the
next one that someone creates could come to be it.

*Operator.* Before the caches are synced the webhook does not answer. From then
on a profile that some informer has shown and that still exists is in the
present informer too (`SidecarInv`), so the webhook chooses from a set that
holds it; that the choice exists and is the least is a lemma on sets of
naturals. The steps are those of `ClusterProxy`, which the process drives.

Only model-checked: all liveness properties (fairness is out of the prover's
reach), and the type invariants of the components whose proofs need
only part of them (`NetworkTree`, `DNSRecordMirror`, `HTTPRoutes`,
`ProxyRegistration`, `LoadBalancer`); that of `LoadBalancer` rests on what
`SelectSeq` keeps of a sequence, a recursion over data.

## 5. Observations

Behaviours met while modelling. The first four have a configuration with a
counterexample (section 3).

* docs/architecture.md:315 says "Shared NetBird objects are deleted by the last
  CR standing". `dnsZoneSharedByOther` (dnszone_mirror.go:134) counts a live
  DNSZone with the name that has recorded no id; when that one is deleted before
  its first reconcile, the zone stays. `deleteDNSRecord` (dnsrecord_mirror.go:98)
  has no such guard at all, and deletes a record another DNSRecord has adopted;
  the survivor creates it again at its next resync. `DeletionRemoves` therefore
  asks nothing of a record that another live DNSRecord names, and
  `SkipsDeleteWhileUsed` is what the sentence would ask of it.
* setupkey_controller.go:166 says "Delete the old status key if we are
  recreating". A failure between the status patch and that delete leaves the old
  key in NetBird, still valid when the Secret was what caused the rotation.
* docs/architecture.md:384 promises self-healing within the resync. A route
  pruned while its GatewayClass is missing (gateway_controller.go:479) is not
  requeued. The sentence names NetBird deletions as its example.
* Zones are adopted by name; the domain of the adopted zone is not compared.
  Two DNSZones with one name and different domains rewrite the zone in turn at
  every resync, although architecture.md:324 says such a conflict is "never
  fought over". Two DNSRecords that share a record do the same once one of them
  is edited; `RecordsConverge` names the case as an exception.
* Under lag the guards of deletion can miss an adoption in flight; `DeleteGuard`
  and `RegistrationGuard` state exactly that exception.
* An overused setup key is announced as being recreated but returned as an
  error; `KeyConverges` excepts it. A stale copy of the Secret right after a
  rotation provokes another one.
* Objects without adoption are lost to a failure between create and status
  patch: NetworkResources, groups, routers, proxy tokens (histories `excused`,
  `lostGroups`, `lost`). A service lost this way also holds its domain, so the
  creates that follow are refused (`Blocked` in `ServicesConverge`).
* A NetworkRouter may be created with an empty peer group and be Ready, because
  the owned Group is read back before it has its id; a later reconcile corrects
  it. An edit from `peers.deploy` to `peers.group` leaves the owned objects.
* A Service with two addresses of one family renders both into the same two
  objects, each apply an event that starts the next reconcile (`Clash`);
  architecture.md:338 asks for renders that make reconciles "no-ops, not
  updates". When all its addresses are released its
  children stay; so do a proxy's records and address.
* A proxy token's Secret is written only by the reconcile that mints; when it is
  deleted nothing restores it. The same holds for the ClusterProxy's Secret,
  whose events are not watched, until the next event or restart.
* A renamed proxy domain is registered anew and the old registration stays.
* If seeding the GatewayClass fails on a fresh install nothing tries again:
  cmd/main.go:339 says "the controller's watch self-heals it thereafter", but
  there is no object whose event could (`missed` in `ClassSettled`). A seed that
  fails on the class of another controller does recover once that class is
  deleted, as gateway_controller.go:184 says, and `ClassConverges` asks for it.
* A Group is read and then written back with the peers that were read
  (group_controller.go:62-79): a peer that enrolls between the two calls is taken
  out of the group again.
* A LoadBalancer Service whose Namespace the informer does not have yet is left
  alone without a requeue (loadbalancer_controller.go:73); the Namespace is not
  watched, so that only the next event of the Service or a restart brings it back
  (`Unnoticed` in `LoadBalancerConverges`).
* Two rules of one route with the same prefix are merged into one set of
  backends, where the Gateway API gives the first rule precedence;
  `NothingWidened` takes the union as what the route asks for. Header and method
  matches are not translated, as the code's comment says, and not modelled.
* A detached route keeps its last `Accepted` condition, and a Gateway that fails
  keeps `Programmed`, its addresses and its listeners, although
  architecture.md:334 wants every not-ready path to reset what it normally sets.
  So does a ReverseProxyService whose access group does not resolve or whose L4
  backend is no LoadBalancer (reverseproxyservice_mirror.go:164): the reconcile
  ends in an error as often as it is tried, and the object keeps `Ready=True` and
  the service it had. `ServicesConverge` asks nothing while that lasts.

## 6. Not modelled

* Generated code (deep copies, apply configurations), the declarations of the
  API types beyond the fields the modules use, and the test double of the
  NetBird API: no behaviour of the operator.
* Of the webhook, what the container it adds looks like (the override and the
  injection mode appear only as reasons to refuse a Pod); of the process, the
  other flags, certificates and metrics.
* Logging, events, condition texts and reasons. Conditions appear where a
  property is about them: `Accepted` of routes, `ready` of most kinds, and
  `Programmed`, the address and the listener of a Gateway.
* Object names and label values (`safeName`, `routeChildName`), which the code
  makes collision-free by a hash; the order in which targets of a service are
  sorted.
* Several Gateways over one route, and a Network, its routers and its
  LoadBalancer resources in one composition: each module takes the others' effect
  on it as its environment.
