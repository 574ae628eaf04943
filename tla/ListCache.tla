----------------------------- MODULE ListCache -----------------------------
(***************************************************************************)
(* listCache of netbirdutil/cache.go: a NetBird list (zones, proxy         *)
(* clusters) memoized for listCacheTTL and searched by several controllers *)
(* at once.  A caller takes the time before it queues for the mutex, and   *)
(* the mutex is held across the fetch, so a slow fetch makes the callers   *)
(* behind it work with an old time.                                        *)
(***************************************************************************)
EXTENDS Naturals

CONSTANTS Callers,   \* concurrent lookups (one per controller worker)
          Items,     \* what the list may hold
          TTL,       \* listCacheTTL
          MaxTime,   \* bound: the clock stops here
          None       \* nobody, nothing

ASSUME TimeAssumption == TTL \in Nat /\ MaxTime \in Nat
ASSUME NoneAssumption == None \notin Callers /\ None \notin Items /\ None \notin Nat

VARIABLES
    clock,     \* the wall clock
    server,    \* NetBird: the items that exist
    cache,     \* [ok, items, expires] of the listCache struct
    holder,    \* the caller that holds mu, or None
    call,      \* caller -> its lookup: step, item sought, now, result
    present,   \* history: item -> latest time it existed (None: never)
    absent     \* history: item -> latest time it did not exist

vars == <<clock, server, cache, holder, call, present, absent>>

Steps == {"idle", "list", "refresh", "fetch", "reply", "found", "notFound"}

(* again: the fetch is the one that confirms a miss; reply: its answer. *)
IdleCall == [step |-> "idle", item |-> None, now |-> 0, again |-> FALSE, reply |-> {}]

Init ==
    /\ clock = 0
    /\ server \in SUBSET Items
    /\ cache = [ok |-> FALSE, items |-> {}, expires |-> 0]
    /\ holder = None
    /\ call = [c \in Callers |-> IdleCall]
    /\ present = [i \in Items |-> IF i \in server THEN 0 ELSE None]
    /\ absent  = [i \in Items |-> IF i \in server THEN None ELSE 0]

-----------------------------------------------------------------------------
(* Time passes; what exists now existed at the new time. *)
Tick ==
    /\ clock < MaxTime
    /\ clock' = clock + 1
    /\ present' = [i \in Items |-> IF i \in server THEN clock + 1 ELSE present[i]]
    /\ absent'  = [i \in Items |-> IF i \in server THEN absent[i] ELSE clock + 1]
    /\ UNCHANGED <<server, cache, holder, call>>

(* An item is created or deleted in NetBird. *)
Change(i) ==
    /\ server' = IF i \in server THEN server \ {i} ELSE server \cup {i}
    /\ present' = [present EXCEPT ![i] = clock]
    /\ absent'  = [absent EXCEPT ![i] = clock]
    /\ UNCHANGED <<clock, cache, holder, call>>

-----------------------------------------------------------------------------
(* GetDNSZoneByName, GetProxyClusterByAddress: now is read at the call. *)
Lookup(c, i) ==
    /\ call[c].step \in {"idle", "found", "notFound"}
    /\ call' = [call EXCEPT ![c] = [IdleCall EXCEPT !.step = "list", !.item = i,
                                                   !.now = clock]]
    /\ UNCHANGED <<clock, server, cache, holder, present, absent>>

(* Mutant: a cached list is used until it is replaced. *)
Fresh_always(now) == cache.ok

Fresh(now) == cache.ok /\ now < cache.expires

(* Mutant: a miss in the cached slice reported without a fetch. *)
List_trustsMiss(c) ==
    /\ call[c].step = "list"
    /\ holder = None
    /\ \/ /\ Fresh(call[c].now)
          /\ call' = [call EXCEPT ![c].step =
                         IF call[c].item \in cache.items THEN "found" ELSE "notFound"]
          /\ UNCHANGED holder
       \/ /\ ~Fresh(call[c].now)
          /\ call' = [call EXCEPT ![c].step = "fetch"]
          /\ holder' = c
    /\ UNCHANGED <<clock, server, cache, present, absent>>

(* list under the mutex: a fresh slice is searched, else a fetch begins. *)
List(c) ==
    /\ call[c].step = "list"
    /\ holder = None
    /\ \/ /\ Fresh(call[c].now)
          /\ call' = [call EXCEPT ![c].step =
                         IF call[c].item \in cache.items THEN "found" ELSE "refresh"]
          /\ UNCHANGED holder
       \/ /\ ~Fresh(call[c].now)
          /\ call' = [call EXCEPT ![c].step = "fetch"]
          /\ holder' = c
    /\ UNCHANGED <<clock, server, cache, present, absent>>

(* refresh under the mutex: always fetches. *)
Refresh(c) ==
    /\ call[c].step = "refresh"
    /\ holder = None
    /\ call' = [call EXCEPT ![c].step = "fetch", ![c].again = TRUE]
    /\ holder' = c
    /\ UNCHANGED <<clock, server, cache, present, absent>>

(* NetBird answers the request; the answer is on its way. *)
Answer(c) ==
    /\ call[c].step = "fetch"
    /\ call' = [call EXCEPT ![c].step = "reply", ![c].reply = server]
    /\ UNCHANGED <<clock, server, cache, holder, present, absent>>

(* fetchLocked stores the answer and the mutex is released; lookup         *)
(* searches the slice it got, and confirms the miss of a first fetch.      *)
Fetched(c) ==
    /\ call[c].step = "reply"
    /\ cache' = [ok |-> TRUE, items |-> call[c].reply, expires |-> call[c].now + TTL]
    /\ holder' = None
    /\ call' = [call EXCEPT ![c].step =
                   IF call[c].item \in call[c].reply THEN "found"
                   ELSE IF call[c].again THEN "notFound" ELSE "refresh"]
    /\ UNCHANGED <<clock, server, present, absent>>

(* Mutant: an error return that leaves the mutex locked. *)
FetchFails_keepsLock(c) ==
    /\ call[c].step = "fetch"
    /\ call' = [call EXCEPT ![c] = IdleCall]
    /\ UNCHANGED <<clock, server, cache, holder, present, absent>>

(* The fetch fails: the error is returned and the cache kept as it was. *)
FetchFails(c) ==
    /\ call[c].step = "fetch"
    /\ call' = [call EXCEPT ![c] = IdleCall]
    /\ holder' = None
    /\ UNCHANGED <<clock, server, cache, present, absent>>

-----------------------------------------------------------------------------
Next ==
    \/ Tick
    \/ \E i \in Items : Change(i)
    \/ \E c \in Callers :
          \/ \E i \in Items : Lookup(c, i)
          \/ List(c) \/ Refresh(c) \/ Answer(c) \/ Fetched(c) \/ FetchFails(c)

Spec == Init /\ [][Next]_vars

(* A Go mutex is handed to a waiter that has waited long enough, and the   *)
(* HTTP client answers or fails.                                           *)
Fairness ==
    \A c \in Callers : /\ SF_vars(List(c)) /\ SF_vars(Refresh(c))
                       /\ WF_vars(Answer(c) \/ Fetched(c) \/ FetchFails(c))

FairSpec == Spec /\ Fairness

-----------------------------------------------------------------------------
Times == 0..MaxTime

TypeOK ==
    /\ clock \in Times
    /\ server \subseteq Items
    /\ cache \in [ok: BOOLEAN, items: SUBSET Items, expires: Nat]
    /\ holder \in Callers \cup {None}
    /\ call \in [Callers -> [step: Steps, item: Items \cup {None}, now: Times,
                            again: BOOLEAN, reply: SUBSET Items]]
    /\ present \in [Items -> Times \cup {None}]
    /\ absent \in [Items -> Times \cup {None}]

(* lookup: an item that is found existed in NetBird less than listCacheTTL *)
(* before the call, however long the caller waited for the mutex and in    *)
(* whatever order the callers' older times were stored as expiries.        *)
HitsAreRecent ==
    \A c \in Callers :
        call[c].step = "found" =>
            /\ present[call[c].item] # None
            /\ \/ present[call[c].item] + TTL > call[c].now
               \/ present[call[c].item] >= call[c].now

(* lookup: "refetching once on a miss before reporting not-found - so a    *)
(* just-created item isn't missed due to a stale cache".  An item reported *)
(* not found did not exist at some time since the call began.              *)
MissesAreConfirmed ==
    \A c \in Callers :
        call[c].step = "notFound" =>
            /\ absent[call[c].item] # None
            /\ absent[call[c].item] >= call[c].now

(* The mutex taken by list and refresh is released on every path: each     *)
(* lookup returns.                                                         *)
LookupsReturn ==
    \A c \in Callers :
        call[c].step = "list" ~> call[c].step \in {"idle", "found", "notFound"}
=============================================================================
