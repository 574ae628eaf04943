------------------------ MODULE NetworkRouterProofs ------------------------
(* Proofs that no NetBird group and no router is left behind without a     *)
(* named reason, and that a Group keeps the peers it has seen, for any     *)
(* peers, ids, networks and faults; and that the LoadBalancer controller   *)
(* (Lb) prunes nothing it has applied and forgets no Service.              *)
EXTENDS NetworkRouter, TLAPS

-----------------------------------------------------------------------------
(* The Group.  Ids that anyone holds were handed out. *)
GroupUsed(o) == o # None /\ o.id # None => o.id < nextGroup

GroupsUsed ==
    /\ GroupUsed(group) /\ GroupUsed(groupSeen)
    /\ gworker.old # None => gworker.old < nextGroup
    /\ \A g \in GroupIDs : groups[g] # None => g < nextGroup

(* Past the GET, or the delete, the group of the copy is gone. *)
GroupWorkerOK ==
    /\ gworker.step = "update" => gworker.old # None
    /\ gworker.step = "record" => gworker.id \in GroupIDs /\ gworker.id < nextGroup
    /\ gworker.step \in {"create", "record", "unfinalize"} /\ gworker.old # None =>
         groups[gworker.old] = None

GInv == GroupTypeOK /\ GroupsUsed /\ GroupWorkerOK /\ GroupsAccounted

-----------------------------------------------------------------------------
(* The NetworkRouter.  Ids and networks that a status names were handed    *)
(* out, and a router it names that still exists is on its network.         *)
StatusOK(s) ==
    /\ s.router # None => s.router < nextRouter
    /\ s.net # None => net # None /\ s.net <= net
    /\ s.router # None /\ routers[s.router] # None => s.net = net

(* A status with the present network is not ahead of the object. *)
NotAhead(s) == s.net = net /\ nr # None => nr.status.net = net

RoutersOK ==
    /\ \A r \in RouterIDs : routers[r] # None => r < nextRouter /\ routers[r].net = net
    /\ nr # None => StatusOK(nr.status) /\ (nr.status.router # None => nr.finalizer)
    /\ nrSeen # None => /\ StatusOK(nrSeen.status) /\ NotAhead(nrSeen.status)
                        /\ nr # None /\ nrSeen.finalizer => nr.finalizer

Working(w) == w.step \in {"dependency", "group", "key", "ds", "update", "create", "record"}

(* The router in the copy is gone. *)
CopyFreed(w) == w.obj.status.router # None => routers[w.obj.status.router] = None

CopyOK(w) ==
    /\ w.obj \in Copy
    /\ StatusOK(w.obj.status) /\ NotAhead(w.obj.status) /\ StatusOK(w.status)

(* The status names another router than the copy only when that one is     *)
(* gone.  A network that changed under the reconcile took all routers.     *)
HoldOK(w) ==
    /\ w.status.router # w.obj.status.router => CopyFreed(w)
    /\ w.status.net # net => /\ \A r \in RouterIDs : routers[r] = None
                             /\ nr # None => nr.status.net # net

WorkOK(w) ==
    /\ CopyOK(w) /\ (Working(w) => HoldOK(w))
    /\ w.step \in {"group", "key", "ds", "update", "create"} => w.status.net # None
    /\ w.step \in {"update", "record"} => w.status.router # None
    /\ w.step \in {"create", "unfinalize"} => CopyFreed(w)
    /\ w.step \in {"finalize", "delete", "unfinalize"} => w.status = w.obj.status

WorkerOK ==
    /\ worker.step # "idle" => WorkOK(worker)
    /\ Working(worker) /\ nr # None => nr.finalizer

(* An updated router was accounted for before the update. *)
AllAccounted ==
    \A r \in RouterIDs : routers[r] # None =>
        \/ r \in lost
        \/ nr # None /\ nr.status.router = r
        \/ worker.step = "record" /\ worker.status.router = r /\ worker.obj.status.router # r

RInv == RouterTypeOK /\ RoutersOK /\ WorkerOK /\ AllAccounted

IInv == TypeOK /\ GInv /\ RInv

-----------------------------------------------------------------------------
(* Ids are naturals, and None is none of the values beside it. *)
LEMMA GroupValues ==
    /\ \A g \in GroupIDs : g \in Nat /\ g # None
    /\ \A o \in GroupObject : o # None
    /\ NewGroup \in GroupObject /\ NewGroup.id = None
  BY GroupBounds DEF GroupIDs, GroupObject, NewGroup

(* Writing a flag of a Group keeps its type and its id. *)
LEMMA GroupFlags ==
    ASSUME NEW o \in GroupObject, NEW b \in BOOLEAN
    PROVE  /\ [o EXCEPT !.deleting = b] \in GroupObject /\ [o EXCEPT !.deleting = b].id = o.id
           /\ [o EXCEPT !.finalizer = b] \in GroupObject /\ [o EXCEPT !.finalizer = b].id = o.id
  BY DEF GroupObject

(* The read of the recorded group: found, or gone. *)
LEMMA GetGroupOK ==
    ASSUME GroupTypeOK, NEW w \in GroupWorker
    PROVE  /\ GetGroup(w) \in GroupWorker /\ GetGroup(w).old = w.old
           /\ \/ GetGroup(w).step = "update" /\ w.old # None
              \/ GetGroup(w).step = "create" /\ (w.old # None => groups[w.old] = None)
  <1>1. CASE w.old # None /\ groups[w.old] # None
    <2> DEFINE p == groups[w.old]
    <2>1. p \in SUBSET Peers
      BY <1>1 DEF GroupTypeOK, GroupWorker
    <2>2. GetGroup(w) = [w EXCEPT !.step = "update", !.peers = p]
      BY <1>1 DEF GetGroup
    <2> HIDE DEF p
    <2> QED
      BY <1>1, <2>1, <2>2, Zenon DEF GroupWorker
  <1>2. CASE ~(w.old # None /\ groups[w.old] # None)
    BY <1>2 DEF GetGroup, GroupWorker
  <1> QED
    BY <1>1, <1>2

(* What leaves the Group and its groups alone. *)
LEMMA GroupFrame == ASSUME GInv, UNCHANGED groupVars PROVE GInv'
  BY DEF GInv, groupVars, GroupTypeOK, GroupsUsed, GroupUsed, GroupWorkerOK, GroupsAccounted

(* The informer event. *)
LEMMA DeliverGroupInv == ASSUME GInv, DeliverGroup PROVE GInv'
  BY DEF GInv, DeliverGroup, GroupTypeOK, GroupsUsed, GroupUsed, GroupWorkerOK, GroupsAccounted

(* A deletion that removes the object leaves its group to the lost ones. *)
LEMMA DeletedGroupInv ==
    ASSUME GInv, group # None, DeletedGroup, UNCHANGED <<groupSeen, groups, nextGroup, gworker>>
    PROVE  GInv'
  <1>1. group \in GroupObject
    BY DEF GInv, GroupTypeOK
  <1>2. GroupTypeOK' /\ GroupUsed(group)'
    <2>1. CASE group.finalizer
      <3>1. group' \in GroupObject /\ group'.id = group.id /\ lostGroups' = lostGroups
        BY <1>1, <2>1, GroupFlags, Zenon DEF DeletedGroup
      <3> QED
        BY <3>1 DEF GInv, GroupTypeOK, GroupsUsed, GroupUsed
    <2>2. CASE ~group.finalizer
      BY <1>1, <2>2 DEF DeletedGroup, GInv, GroupTypeOK, GroupUsed, GroupObject
    <2> QED
      BY <2>1, <2>2
  <1>3. \/ group.id = None
        \/ group.id \in lostGroups'
        \/ group' # None /\ group'.id = group.id
    <2>1. CASE group.finalizer
      BY <1>1, <2>1, GroupFlags, GroupValues, Zenon DEF DeletedGroup
    <2>2. CASE ~group.finalizer
      BY <2>2 DEF DeletedGroup
    <2> QED
      BY <2>1, <2>2
  <1>4. lostGroups \subseteq lostGroups'
    BY DEF DeletedGroup
  <1>5. GroupsUsed'
    BY <1>2 DEF GInv, GroupsUsed, GroupUsed
  <1>6. GroupWorkerOK'
    BY DEF GInv, GroupWorkerOK
  <1>7. GroupsAccounted'
    BY <1>3, <1>4, GroupValues DEF GInv, GroupsAccounted
  <1> QED
    BY <1>2, <1>5, <1>6, <1>7 DEF GInv

(* The reconcile takes its copy from the informer. *)
LEMMA StartGroupInv == ASSUME GInv, StartGroup PROVE GInv'
  <1>1. groupSeen \in GroupObject /\ groupSeen.id \in GroupIDs \cup {None}
    BY DEF GInv, GroupTypeOK, StartGroup, GroupObject
  <1> DEFINE w == [GroupIdle EXCEPT !.old = groupSeen.id]
  <1>2. w \in GroupWorker /\ w.old = groupSeen.id
    BY <1>1 DEF GroupWorker, GroupIdle
  <1>3. gworker' \in {[w EXCEPT !.step = "delete"], GetGroup(w), [w EXCEPT !.step = "finalize"]}
    BY DEF StartGroup
  <1> HIDE DEF w
  <1>4. /\ gworker' \in GroupWorker /\ gworker'.old = groupSeen.id
        /\ \/ gworker'.step \in {"delete", "finalize"}
           \/ gworker'.step = "update" /\ groupSeen.id # None
           \/ gworker'.step = "create" /\ (groupSeen.id # None => groups[groupSeen.id] = None)
    <2>1. CASE gworker' = GetGroup(w)
      BY <1>2, <2>1, GetGroupOK DEF GInv
    <2>2. CASE gworker' # GetGroup(w)
      BY <1>2, <1>3, <2>2 DEF GroupWorker
    <2> QED
      BY <2>1, <2>2
  <1>5. GroupTypeOK'
    BY <1>4 DEF GInv, GroupTypeOK, StartGroup
  <1>6. GroupsUsed'
    BY <1>4 DEF GInv, GroupsUsed, GroupUsed, StartGroup
  <1>7. GroupWorkerOK'
    BY <1>4 DEF GInv, GroupWorkerOK, StartGroup
  <1>8. GroupsAccounted'
    BY DEF GInv, GroupsAccounted, StartGroup
  <1> QED
    BY <1>5, <1>6, <1>7, <1>8 DEF GInv

(* The finalizer is added before a group is created. *)
LEMMA FinalizeGroupInv == ASSUME GInv, FinalizeGroup PROVE GInv'
  <1>1. CASE group = None
    <2>1. gworker' = GroupIdle /\ group' = group
      BY <1>1 DEF FinalizeGroup
    <2>2. gworker' \in GroupWorker /\ gworker'.old = None /\ gworker'.step = "idle"
      BY <2>1 DEF GroupWorker, GroupIdle
    <2> QED
      BY <2>1, <2>2 DEF GInv, FinalizeGroup, GroupTypeOK, GroupsUsed, GroupUsed, GroupWorkerOK,
         GroupsAccounted
  <1>2. CASE group # None
    <2>1. group \in GroupObject /\ gworker \in GroupWorker
      BY <1>2 DEF GInv, GroupTypeOK
    <2>2. group' \in GroupObject /\ group'.id = group.id
      BY <1>2, <2>1, GroupFlags, Zenon DEF FinalizeGroup
    <2>3. /\ gworker' \in GroupWorker /\ gworker'.old = gworker.old
          /\ \/ gworker'.step = "update" /\ gworker.old # None
             \/ gworker'.step = "create" /\ (gworker.old # None => groups[gworker.old] = None)
      BY <1>2, <2>1, GetGroupOK DEF FinalizeGroup, GInv
    <2>4. GroupTypeOK'
      BY <2>2, <2>3 DEF GInv, GroupTypeOK, FinalizeGroup
    <2>5. GroupsUsed'
      BY <1>2, <2>2, <2>3 DEF GInv, GroupsUsed, GroupUsed, FinalizeGroup
    <2>6. GroupWorkerOK'
      BY <2>3 DEF GInv, GroupWorkerOK, FinalizeGroup
    <2>7. GroupsAccounted'
      BY <1>2, <2>2, GroupValues DEF GInv, GroupsAccounted, FinalizeGroup
    <2> QED
      BY <2>4, <2>5, <2>6, <2>7 DEF GInv
  <1> QED
    BY <1>1, <1>2

(* Peers that join or leave a group, and groups that disappear. *)
LEMMA GroupsChangeInv ==
    ASSUME GInv, UNCHANGED <<group, groupSeen, nextGroup, gworker, lostGroups>>,
           groups' \in [GroupIDs -> (SUBSET Peers) \cup {None}],
           \A g \in GroupIDs : groups'[g] # None => groups[g] # None
    PROVE  GInv'
  <1>1. GroupTypeOK' /\ GroupsUsed'
    BY DEF GInv, GroupTypeOK, GroupsUsed, GroupUsed
  <1>2. GroupWorkerOK'
    BY DEF GInv, GroupWorkerOK, GroupTypeOK, GroupWorker
  <1>3. GroupsAccounted'
    BY DEF GInv, GroupsAccounted
  <1> QED
    BY <1>1, <1>2, <1>3 DEF GInv

(* What the idle worker holds. *)
LEMMA GroupIdleOK ==
    GroupIdle \in GroupWorker /\ GroupIdle.step = "idle" /\ GroupIdle.old = None
  BY DEF GroupIdle, GroupWorker

(* The PUT writes peers back to a group that is there. *)
LEMMA UpdateGroupInv == ASSUME GInv, UpdateGroup PROVE GInv'
  <1>1. gworker \in GroupWorker /\ gworker.old \in GroupIDs /\ gworker.peers \in SUBSET Peers
    BY DEF GInv, GroupTypeOK, GroupWorker, GroupWorkerOK, UpdateGroup
  <1>2. CASE groups[gworker.old] = None
    <2>1. /\ gworker' \in GroupWorker /\ gworker'.old = gworker.old /\ gworker'.step = "create"
          /\ groups' = groups
      BY <1>1, <1>2 DEF UpdateGroup, GroupWorker
    <2> QED
      BY <1>2, <2>1 DEF GInv, UpdateGroup, GroupTypeOK, GroupsUsed, GroupUsed, GroupWorkerOK,
         GroupsAccounted
  <1>3. CASE groups[gworker.old] # None
    <2>1. groups' = [groups EXCEPT ![gworker.old] = gworker.peers] /\ gworker' = GroupIdle
      BY <1>3 DEF UpdateGroup, UpdateRequest
    <2>2. groups' \in [GroupIDs -> (SUBSET Peers) \cup {None}]
      BY <1>1, <2>1 DEF GInv, GroupTypeOK
    <2>3. \A g \in GroupIDs : groups'[g] # None => groups[g] # None
      BY <1>1, <1>3, <2>1 DEF GInv, GroupTypeOK
    <2>4. GroupTypeOK'
      BY <2>1, <2>2, GroupIdleOK DEF GInv, GroupTypeOK, UpdateGroup
    <2>5. GroupsUsed'
      BY <2>1, <2>3, GroupIdleOK DEF GInv, GroupsUsed, GroupUsed, UpdateGroup
    <2>6. GroupWorkerOK'
      BY <2>1, GroupIdleOK DEF GroupWorkerOK
    <2>7. GroupsAccounted'
      BY <2>1, <2>3 DEF GInv, GroupsAccounted, UpdateGroup
    <2> QED
      BY <2>4, <2>5, <2>6, <2>7 DEF GInv
  <1> QED
    BY <1>2, <1>3

(* The new group is in the hands of the worker until the patch. *)
LEMMA CreateGroupInv == ASSUME GInv, CreateGroup PROVE GInv'
  <1>1. gworker \in GroupWorker /\ nextGroup \in GroupIDs /\ nextGroup \in Nat
    BY GroupBounds DEF GInv, GroupTypeOK, CreateGroup, GroupIDs
  <1>2. /\ gworker' \in GroupWorker /\ gworker'.old = gworker.old /\ gworker'.step = "record"
        /\ gworker'.id = nextGroup
    BY <1>1, Zenon DEF CreateGroup, GroupWorker
  <1>3. /\ groups' \in [GroupIDs -> (SUBSET Peers) \cup {None}]
        /\ \A g \in GroupIDs : g # nextGroup => groups'[g] = groups[g]
    BY <1>1 DEF GInv, GroupTypeOK, CreateGroup
  <1>4. nextGroup' \in 1..(MaxGroups + 1) /\ nextGroup' = nextGroup + 1
    BY <1>1, GroupBounds DEF CreateGroup, GroupIDs
  <1>5. GroupTypeOK'
    BY <1>2, <1>3, <1>4 DEF GInv, GroupTypeOK, CreateGroup
  <1>6. /\ \A i \in GroupIDs \cup {None} : i # None /\ i < nextGroup => i < nextGroup'
        /\ nextGroup < nextGroup'
    BY <1>1, <1>4, GroupValues
  <1>7. GroupsUsed'
    <2>1. /\ group # None => group.id \in GroupIDs \cup {None}
          /\ groupSeen # None => groupSeen.id \in GroupIDs \cup {None}
      BY DEF GInv, GroupTypeOK, GroupObject
    <2>2. GroupUsed(group)' /\ GroupUsed(groupSeen)'
      BY <1>6, <2>1 DEF GInv, GroupsUsed, CreateGroup, GroupUsed
    <2>3. gworker'.old # None => gworker'.old < nextGroup'
      BY <1>1, <1>2, <1>6, Zenon DEF GInv, GroupsUsed, GroupWorker
    <2>4. \A g \in GroupIDs : groups'[g] # None => g < nextGroup'
      BY <1>3, <1>6, GroupValues DEF GInv, GroupsUsed
    <2> QED
      BY <2>2, <2>3, <2>4 DEF GroupsUsed
  <1>8. GroupWorkerOK'
    <2>1. gworker.old # None => gworker.old \in GroupIDs /\ gworker.old # nextGroup
      BY <1>1, GroupValues DEF GInv, GroupsUsed, GroupWorker
    <2>2. gworker.old # None => groups'[gworker.old] = None
      BY <1>3, <2>1 DEF GInv, GroupWorkerOK, CreateGroup
    <2> QED
      BY <1>1, <1>2, <1>6, <2>2 DEF GroupWorkerOK
  <1>9. GroupsAccounted'
    BY <1>2, <1>3 DEF GInv, GroupsAccounted, CreateGroup
  <1> QED
    BY <1>5, <1>7, <1>8, <1>9 DEF GInv

(* The patch hands the new group over to the object, or loses it. *)
LEMMA RecordGroupInv == ASSUME GInv, RecordGroup PROVE GInv'
  <1>1. gworker \in GroupWorker /\ gworker.id \in GroupIDs /\ gworker.id < nextGroup
    BY DEF GInv, GroupTypeOK, GroupWorkerOK, RecordGroup
  <1>2. gworker' = GroupIdle
    BY DEF RecordGroup
  <1>3. \A g \in GroupIDs : groups[g] # None => g # gworker.old
    BY GroupValues DEF GInv, GroupWorkerOK, RecordGroup
  <1>4. CASE group = None
    <2>1. group' = None /\ lostGroups' = lostGroups \cup {gworker.id}
      BY <1>4 DEF RecordGroup
    <2>2. GroupTypeOK'
      BY <1>1, <1>2, <2>1, GroupIdleOK DEF GInv, GroupTypeOK, RecordGroup
    <2>3. GroupsUsed' /\ GroupWorkerOK'
      BY <1>2, <2>1, GroupIdleOK DEF GInv, GroupsUsed, GroupUsed, GroupWorkerOK, RecordGroup
    <2>4. GroupsAccounted'
      BY <1>4, <2>1 DEF GInv, GroupsAccounted, RecordGroup
    <2> QED
      BY <2>2, <2>3, <2>4 DEF GInv
  <1>5. CASE group # None
    <2>1. group \in GroupObject
      BY <1>5 DEF GInv, GroupTypeOK
    <2>2. /\ group' \in GroupObject /\ group'.id = gworker.id
          /\ lostGroups' = lostGroups \cup ({group.id} \ {None, gworker.old})
      BY <1>1, <1>5, <2>1 DEF RecordGroup, GroupObject
    <2>3. GroupTypeOK'
      BY <1>2, <2>1, <2>2, GroupIdleOK DEF GInv, GroupTypeOK, RecordGroup, GroupObject
    <2>4. GroupsUsed' /\ GroupWorkerOK'
      BY <1>1, <1>2, <2>2, GroupIdleOK DEF GInv, GroupsUsed, GroupUsed, GroupWorkerOK, RecordGroup
    <2>5. GroupsAccounted'
      BY <1>3, <2>2, GroupValues DEF GInv, GroupsAccounted, RecordGroup
    <2> QED
      BY <2>3, <2>4, <2>5 DEF GInv
  <1> QED
    BY <1>4, <1>5

(* After the delete the recorded group is gone. *)
LEMMA DeleteGroupInv == ASSUME GInv, NEW S, DeleteGroup(S) PROVE GInv'
  <1>1. gworker \in GroupWorker /\ gworker.old \in GroupIDs \cup {None}
    BY DEF GInv, GroupTypeOK, GroupWorker
  <1>2. CASE gworker.old # None /\ gworker.old \in S
    <2>1. gworker' = GroupIdle /\ groups' = groups
      BY <1>2 DEF DeleteGroup, IsConflict
    <2> QED
      BY <2>1, GroupIdleOK
      DEF GInv, DeleteGroup, IsConflict, GroupTypeOK, GroupsUsed, GroupUsed, GroupWorkerOK, GroupsAccounted
  <1>3. CASE ~(gworker.old # None /\ gworker.old \in S)
    <2>1. /\ gworker' = [gworker EXCEPT !.step = "unfinalize"]
          /\ groups' = IF gworker.old = None THEN groups ELSE [groups EXCEPT ![gworker.old] = None]
      BY <1>3 DEF DeleteGroup, IsConflict
    <2>2. gworker' \in GroupWorker /\ gworker'.old = gworker.old /\ gworker'.step = "unfinalize"
      BY <1>1, <2>1 DEF GroupWorker
    <2>3. /\ groups' \in [GroupIDs -> (SUBSET Peers) \cup {None}]
          /\ \A g \in GroupIDs : groups'[g] # None => groups[g] # None
          /\ gworker.old # None => groups'[gworker.old] = None
      BY <1>1, <2>1 DEF GInv, GroupTypeOK
    <2>4. GroupTypeOK'
      BY <2>2, <2>3 DEF GInv, GroupTypeOK, DeleteGroup
    <2>5. GroupsUsed' /\ GroupWorkerOK'
      BY <2>2, <2>3 DEF GInv, GroupsUsed, GroupUsed, GroupWorkerOK, DeleteGroup
    <2>6. GroupsAccounted'
      BY <2>3 DEF GInv, GroupsAccounted, DeleteGroup
    <2> QED
      BY <2>4, <2>5, <2>6 DEF GInv
  <1> QED
    BY <1>2, <1>3

(* The object goes with a group that is gone, or one that is lost. *)
LEMMA UnfinalizeGroupInv == ASSUME GInv, UnfinalizeGroup PROVE GInv'
  <1>1. gworker' = GroupIdle
    BY DEF UnfinalizeGroup
  <1>2. \A g \in GroupIDs : groups[g] # None => g # gworker.old
    BY GroupValues DEF GInv, GroupWorkerOK, UnfinalizeGroup
  <1>3. CASE group # None /\ ~group.deleting
    <2>1. group \in GroupObject
      BY <1>3 DEF GInv, GroupTypeOK
    <2>2. group' \in GroupObject /\ group'.id = group.id /\ lostGroups' = lostGroups
      BY <1>3, <2>1, GroupFlags, Zenon DEF UnfinalizeGroup
    <2>3. GroupTypeOK'
      BY <1>1, <2>2, GroupIdleOK DEF GInv, GroupTypeOK, UnfinalizeGroup
    <2>4. GroupsUsed' /\ GroupWorkerOK'
      BY <1>1, <1>3, <2>2, GroupIdleOK DEF GInv, GroupsUsed, GroupUsed, GroupWorkerOK, UnfinalizeGroup
    <2>5. GroupsAccounted'
      BY <1>3, <2>2, GroupValues DEF GInv, GroupsAccounted, UnfinalizeGroup
    <2> QED
      BY <2>3, <2>4, <2>5 DEF GInv
  <1>4. CASE ~(group # None /\ ~group.deleting)
    <2>1. /\ group' = None
          /\ lostGroups' = lostGroups \cup
                             (IF group = None THEN {} ELSE {group.id} \ {None, gworker.old})
      BY <1>4 DEF UnfinalizeGroup
    <2>2. group # None => group.id \in GroupIDs \cup {None}
      BY DEF GInv, GroupTypeOK, GroupObject
    <2>3. GroupTypeOK'
      BY <1>1, <2>1, <2>2, GroupIdleOK DEF GInv, GroupTypeOK, UnfinalizeGroup
    <2>4. GroupsUsed' /\ GroupWorkerOK'
      BY <1>1, <2>1, GroupIdleOK DEF GInv, GroupsUsed, GroupUsed, GroupWorkerOK, UnfinalizeGroup
    <2>5. GroupsAccounted'
      BY <1>2, <2>1, GroupValues DEF GInv, GroupsAccounted, UnfinalizeGroup
    <2> QED
      BY <2>3, <2>4, <2>5 DEF GInv
  <1> QED
    BY <1>3, <1>4

(* A failure between create and patch loses the group. *)
LEMMA GroupFailsInv == ASSUME GInv, GroupFails PROVE GInv'
  <1>1. gworker' = GroupIdle
    BY DEF GroupFails
  <1>2. gworker.step = "record" => gworker.id \in GroupIDs
    BY DEF GInv, GroupWorkerOK
  <1>3. GroupTypeOK'
    BY <1>1, <1>2, GroupIdleOK DEF GInv, GroupTypeOK, GroupFails
  <1>4. GroupsUsed' /\ GroupWorkerOK'
    BY <1>1, GroupIdleOK DEF GInv, GroupsUsed, GroupUsed, GroupWorkerOK, GroupFails
  <1>5. GroupsAccounted'
    BY <1>1 DEF GInv, GroupsAccounted, GroupFails
  <1> QED
    BY <1>3, <1>4, <1>5 DEF GInv

(* Every step of the Group controller. *)
LEMMA GroupNextInv == ASSUME GInv, NEW S, GroupNext(S) PROVE GInv'
  BY DeliverGroupInv, StartGroupInv, FinalizeGroupInv, UpdateGroupInv, CreateGroupInv, RecordGroupInv,
     DeleteGroupInv, UnfinalizeGroupInv, GroupFailsInv
  DEF GroupNext, GroupStep

-----------------------------------------------------------------------------
(* Ids and networks are naturals, and None is none of the values beside it.*)
LEMMA RouterValues ==
    /\ \A r \in RouterIDs : r \in Nat /\ r # None
    /\ \A n \in Nets : n \in Nat /\ n # None
    /\ None \notin Router /\ None \notin NBRouter /\ None \notin Copy
    /\ NoStatus \in Status /\ NoStatus.router = None /\ NoStatus.net = None
  BY RouterBounds DEF RouterIDs, Nets, NoStatus, Status

(* The idle worker. *)
LEMMA IdleOK == Idle \in Worker /\ Idle.step = "idle" /\ ~Working(Idle)
  <1>1. Idle \in Worker /\ Idle.step = "idle"
    BY RouterValues DEF Idle, Worker, PeerGroups
  <1> QED
    BY <1>1 DEF Working

(* The step of a worker changes, and nothing it holds. *)
LEMMA StepOf ==
    ASSUME NEW w \in Worker,
           NEW s \in {"idle", "finalize", "dependency", "group", "key", "ds", "update", "create", "record",
                      "delete", "unfinalize"}
    PROVE  /\ [w EXCEPT !.step = s] \in Worker /\ [w EXCEPT !.step = s].step = s
           /\ [w EXCEPT !.step = s].obj = w.obj /\ [w EXCEPT !.step = s].status = w.status
           /\ [w EXCEPT !.step = s].group = w.group
  BY DEF Worker

(* Writes to the object that leave its status alone. *)
LEMMA Flags ==
    ASSUME NEW o \in Router, NEW b \in BOOLEAN, NEW p \in {"deploy", "group"}
    PROVE  /\ [o EXCEPT !.deleting = b] \in Router /\ [o EXCEPT !.deleting = b].status = o.status
           /\ [o EXCEPT !.deleting = b].finalizer = o.finalizer
           /\ [o EXCEPT !.finalizer = b] \in Router /\ [o EXCEPT !.finalizer = b].status = o.status
           /\ [o EXCEPT !.finalizer = b].finalizer = b
           /\ [o EXCEPT !.peers = p] \in Router /\ [o EXCEPT !.peers = p].status = o.status
           /\ [o EXCEPT !.peers = p].finalizer = o.finalizer
  BY DEF Router

(* What leaves the NetworkRouter, its network and its routers alone. *)
LEMMA RouterFrame == ASSUME RInv, UNCHANGED <<nr, nrSeen, net, netbird, worker, lost>> PROVE RInv'
  <1>1. RouterTypeOK' /\ RoutersOK' /\ AllAccounted'
    BY DEF RInv, netbird, RouterTypeOK, RoutersOK, StatusOK, NotAhead, AllAccounted
  <1>2. WorkerOK'
    BY DEF RInv, netbird, WorkerOK, WorkOK, CopyOK, HoldOK, Working, CopyFreed, StatusOK, NotAhead
  <1> QED
    BY <1>1, <1>2 DEF RInv

(* What is in order before a step that leaves the statuses, the network    *)
(* and the routers alone is in order after it.                             *)
LEMMA WorkSame ==
    ASSUME UNCHANGED <<net, netbird>>, nr' # None => nr # None /\ nr'.status = nr.status,
           WorkOK(worker')
    PROVE  WorkOK(worker)'
  BY DEF netbird, WorkOK, CopyOK, HoldOK, Working, CopyFreed, StatusOK, NotAhead

(* A step that writes to the object and leaves its status alone.           *)
LEMMA RouterQuiet ==
    ASSUME RInv, UNCHANGED <<nrSeen, net, netbird, lost>>, worker.step # "record",
           nr' \in Router \cup {None}, worker' \in Worker,
           nr' = None => nr = None \/ nr.status.router = None,
           nr' # None => /\ nr # None /\ nr'.status = nr.status
                         /\ nr.finalizer => nr'.finalizer,
           worker'.step # "idle" => WorkOK(worker'),
           Working(worker') /\ nr' # None => nr'.finalizer
    PROVE  RInv'
  <1>1. RouterTypeOK'
    BY DEF RInv, RouterTypeOK, netbird
  <1>2. RoutersOK'
    BY DEF RInv, netbird, RoutersOK, StatusOK, NotAhead
  <1>3. WorkerOK'
    BY WorkSame DEF WorkerOK, Working
  <1>4. AllAccounted'
    BY RouterValues DEF RInv, netbird, AllAccounted
  <1> QED
    BY <1>1, <1>2, <1>3, <1>4 DEF RInv

(* The GET of upsertRouter: an update has a router, and before a create    *)
(* the router of the copy is gone.                                         *)
LEMMA VerifyOK ==
    ASSUME RInv, NEW w \in Worker, NEW g \in PeerGroups, CopyOK(w), HoldOK(w),
           w.status.net # None
    PROVE  Verify(w, g) \in Worker /\ WorkOK(Verify(w, g)) /\ Verify(w, g).step \in {"update", "create"}
  <1> DEFINE s == IF w.status.router # None /\ Has(w.status.router, w.status.net)
                  THEN "update" ELSE "create"
             v == Verify(w, g)
  <1>1. s \in {"update", "create"}
    OBVIOUS
  <1>2. v = [w EXCEPT !.group = g, !.step = s]
    BY DEF Verify
  <1>3. s = "update" => w.status.router # None
    OBVIOUS
  <1>4. s = "create" => CopyFreed(w)
    <2> SUFFICES ASSUME s = "create", w.obj.status.router # None,
                        routers[w.obj.status.router] # None
                 PROVE  FALSE
      BY DEF CopyFreed
    <2>1. w.status.router = w.obj.status.router
      BY DEF HoldOK, CopyFreed
    <2>2. w.obj.status.router \in RouterIDs
      BY DEF CopyOK, Copy, Status
    <2>3. w.status.net = net /\ routers[w.obj.status.router].net = net
      BY <2>2 DEF HoldOK, RInv, RoutersOK
    <2> QED
      BY <2>1, <2>3 DEF Has
  <1> HIDE DEF s
  <1>5. /\ v \in Worker /\ v.step = s /\ v.obj = w.obj /\ v.status = w.status
    BY <1>1, <1>2, Zenon DEF Worker
  <1> HIDE DEF v
  <1>6. WorkOK(v)
    BY <1>1, <1>3, <1>4, <1>5 DEF WorkOK, CopyOK, HoldOK, CopyFreed, Working
  <1> QED
    BY <1>1, <1>5, <1>6 DEF v

(* A copy whose network is another one names a router that is gone. *)
LEMMA WithNetworkOK ==
    ASSUME RInv, net # None, NEW w \in Worker, CopyOK(w), w.status = w.obj.status
    PROVE  LET v == WithNetwork(w) IN
           v \in Worker /\ v.obj = w.obj /\ v.status.net = net /\ CopyOK(v) /\ HoldOK(v)
  <1> DEFINE r == KeptRouter(w.status)
             t == [w.status EXCEPT !.net = net, !.router = r]
             v == WithNetwork(w)
  <1>1. w.status \in Status /\ w.obj.status \in Status /\ net \in Nets
    BY DEF Worker, RInv, RouterTypeOK, CopyOK, Copy
  <1>2. r \in RouterIDs \cup {None}
    BY <1>1 DEF Status, KeptRouter
  <1>3. r # w.obj.status.router => CopyFreed(w)
    BY DEF CopyOK, StatusOK, CopyFreed, KeptRouter
  <1>4. r # None => /\ r < nextRouter /\ r = w.status.router
    BY DEF CopyOK, StatusOK, KeptRouter
  <1>5. net <= net
    BY <1>1, RouterValues
  <1>6. v = [w EXCEPT !.status = t]
    BY DEF WithNetwork
  <1> HIDE DEF r
  <1>7. t \in Status /\ t.net = net /\ t.router = r
    BY <1>1, <1>2, Zenon DEF Status
  <1> HIDE DEF t
  <1>8. v \in Worker /\ v.obj = w.obj /\ v.status = t
    BY <1>6, <1>7 DEF Worker
  <1> HIDE DEF v
  <1>9. v.status.router # v.obj.status.router => CopyFreed(v)
    BY <1>3, <1>7, <1>8 DEF CopyFreed
  <1>10. StatusOK(v.status)
    BY <1>4, <1>5, <1>7, <1>8 DEF StatusOK
  <1>11. CopyOK(v) /\ HoldOK(v)
    BY <1>7, <1>8, <1>9, <1>10 DEF CopyOK, HoldOK
  <1> QED
    BY <1>7, <1>8, <1>11 DEF v

(* resolveNetworkID and the step after it. *)
LEMMA ResolveOK ==
    ASSUME RInv, NEW w \in Worker, CopyOK(w), w.status = w.obj.status
    PROVE  Resolve(w) \in Worker /\ WorkOK(Resolve(w)) /\ Resolve(w).step \notin {"idle", "record"}
  <1>1. CASE net = None
    <2> DEFINE v == [w EXCEPT !.step = "dependency"]
    <2>1. Resolve(w) = v
      BY <1>1 DEF Resolve
    <2>2. v \in Worker /\ v.step = "dependency" /\ v.obj = w.obj /\ v.status = w.status
      BY StepOf, Zenon
    <2> HIDE DEF v
    <2>3. w.status.net = net
      BY <1>1 DEF CopyOK, StatusOK
    <2>4. WorkOK(v)
      BY <2>2, <2>3 DEF WorkOK, CopyOK, HoldOK, Working
    <2> QED
      BY <2>1, <2>2, <2>4
  <1>2. CASE net # None
    <2> DEFINE u == WithNetwork(w)
               v == [u EXCEPT !.step = "group"]
    <2>1. u \in Worker /\ u.obj = w.obj /\ u.status.net = net /\ CopyOK(u) /\ HoldOK(u)
      BY <1>2, WithNetworkOK
    <2>2. v \in Worker /\ v.step = "group" /\ v.obj = u.obj /\ v.status = u.status
      BY <2>1, StepOf, Zenon
    <2>3. Resolve(w) \in {v, Verify(u, Named)}
      BY <1>2 DEF Resolve
    <2> HIDE DEF v, u
    <2>4. WorkOK(v)
      BY <1>2, <2>1, <2>2 DEF WorkOK, CopyOK, HoldOK, Working, CopyFreed
    <2>5. Named \in PeerGroups
      BY DEF PeerGroups
    <2> QED
      BY <1>2, <2>1, <2>2, <2>3, <2>4, <2>5, VerifyOK
  <1> QED
    BY <1>1, <1>2

-----------------------------------------------------------------------------
(* The informer event. *)
LEMMA DeliverInv == ASSUME RInv, Deliver PROVE RInv'
  <1>1. RouterTypeOK' /\ AllAccounted'
    BY DEF RInv, Deliver, netbird, RouterTypeOK, AllAccounted
  <1>2. RoutersOK'
    BY DEF RInv, Deliver, netbird, RoutersOK, StatusOK, NotAhead
  <1>3. WorkerOK'
    <2>1. worker.step # "idle" => WorkOK(worker')
      BY DEF RInv, Deliver, WorkerOK
    <2> QED
      BY <2>1, WorkSame DEF RInv, Deliver, WorkerOK, Working
  <1> QED
    BY <1>1, <1>2, <1>3 DEF RInv

(* Whoever changes the spec or deletes the object leaves its status alone; *)
(* an object that goes at once has no finalizer and so no router.          *)
LEMMA UserInv == ASSUME RInv, User PROVE RInv'
  <1>1. nr \in Router /\ nr.finalizer \in BOOLEAN
    BY DEF RInv, RouterTypeOK, User, Live, Router
  <1>2. UNCHANGED <<nrSeen, net, netbird, worker, lost>>
    BY DEF User
  <1>3. \/ nr' = None /\ ~nr.finalizer
        \/ nr' \in Router /\ nr'.status = nr.status /\ nr'.finalizer = nr.finalizer
    <2>1. CASE Spend /\ nr' = [nr EXCEPT !.peers = IF @ = "deploy" THEN "group" ELSE "deploy"]
      <3> DEFINE p == IF nr.peers = "deploy" THEN "group" ELSE "deploy"
      <3>1. nr' = [nr EXCEPT !.peers = p] /\ p \in {"deploy", "group"}
        BY <2>1
      <3> HIDE DEF p
      <3>2. nr' \in Router /\ nr'.status = nr.status /\ nr'.finalizer = nr.finalizer
        BY <1>1, <3>1 DEF Router
      <3> QED
        BY <3>2
    <2>2. CASE nr' = IF nr.finalizer THEN [nr EXCEPT !.deleting = TRUE] ELSE None
      <3>1. CASE nr.finalizer
        BY <1>1, <2>2, <3>1, Flags, Zenon
      <3>2. CASE ~nr.finalizer
        BY <2>2, <3>2
      <3> QED
        BY <3>1, <3>2
    <2> QED
      BY <2>1, <2>2 DEF User
  <1>4. RouterTypeOK'
    BY <1>2, <1>3 DEF RInv, RouterTypeOK, netbird
  <1>5. RoutersOK'
    BY <1>1, <1>2, <1>3, RouterValues DEF RInv, netbird, RoutersOK, StatusOK, NotAhead
  <1>6. WorkerOK'
    <2>1. worker.step # "idle" => WorkOK(worker')
      BY <1>2 DEF RInv, WorkerOK
    <2> QED
      BY <1>1, <1>2, <1>3, <2>1, WorkSame, RouterValues DEF RInv, WorkerOK, Working
  <1>7. AllAccounted'
    BY <1>1, <1>2, <1>3, RouterValues DEF RInv, netbird, RoutersOK, AllAccounted
  <1> QED
    BY <1>4, <1>5, <1>6, <1>7 DEF RInv

(* Routers that disappear, and with them perhaps the network. *)
LEMMA RoutersGoInv ==
    ASSUME RInv, UNCHANGED <<nr, nrSeen, nextRouter, worker, lost>>,
           routers' \in [RouterIDs -> NBRouter \cup {None}],
           \A r \in RouterIDs : routers'[r] # None => routers'[r] = routers[r],
           \/ net' = net
           \/ /\ net' \in Nets /\ (net # None => net' > net)
              /\ \A r \in RouterIDs : routers'[r] = None
    PROVE  RInv'
  <1>1. net' \in Nets \cup {None} /\ (net # None => net' # None /\ net <= net')
    BY RouterValues DEF RInv, RouterTypeOK
  <1>2. RouterTypeOK'
    BY <1>1 DEF RInv, RouterTypeOK
  <1> DEFINE After(s) ==
        /\ s.router # None => s.router < nextRouter'
        /\ s.net # None => net' # None /\ s.net <= net'
        /\ s.router # None /\ routers'[s.router] # None => s.net = net'
  <1>3. ASSUME NEW s \in Status, StatusOK(s)
        PROVE  After(s) /\ (net' # net => s.net # net')
    <2>1. /\ s.net # None => net' # None /\ s.net <= net'
          /\ net' # net => s.net # net'
      BY <1>1, <1>3, RouterValues DEF StatusOK, Status, RInv, RouterTypeOK
    <2>2. s.router # None /\ routers'[s.router] # None => s.net = net'
      BY <1>3, RouterValues DEF StatusOK, Status
    <2> QED
      BY <1>3, <2>1, <2>2 DEF StatusOK
  <1> HIDE DEF After
  <1>4. nr # None => nr.status \in Status /\ StatusOK(nr.status)
    BY DEF RInv, RouterTypeOK, Router, RoutersOK
  <1>5. nrSeen # None => nrSeen.status \in Status /\ StatusOK(nrSeen.status) /\ NotAhead(nrSeen.status)
    BY DEF RInv, RouterTypeOK, Router, RoutersOK
  <1>6. RoutersOK'
    <2>1. \A r \in RouterIDs : routers'[r] # None => r < nextRouter' /\ routers'[r].net = net'
      BY DEF RInv, RoutersOK
    <2>2. nr' # None => StatusOK(nr.status)'
      <3>1. nr # None => After(nr.status)
        BY <1>3, <1>4
      <3> QED
        BY <3>1 DEF StatusOK, After
    <2>3. nrSeen' # None => StatusOK(nrSeen.status)' /\ NotAhead(nrSeen.status)'
      <3>1. nrSeen # None => After(nrSeen.status) /\ (net' # net => nrSeen.status.net # net')
        BY <1>3, <1>5
      <3> QED
        BY <1>5, <3>1 DEF StatusOK, After, NotAhead
    <2> QED
      BY <2>1, <2>2, <2>3 DEF RInv, RoutersOK
  <1>7. worker.step # "idle" => WorkOK(worker)'
    <2> SUFFICES ASSUME worker.step # "idle" PROVE WorkOK(worker)'
      OBVIOUS
    <2>1. /\ WorkOK(worker) /\ CopyOK(worker) /\ worker.status \in Status /\ worker.obj.status \in Status
          /\ worker.obj.status.router \in RouterIDs \cup {None}
      BY DEF RInv, WorkerOK, WorkOK, CopyOK, RouterTypeOK, Worker, Copy, Status
    <2>2. CopyOK(worker)'
      <3>1. /\ After(worker.status) /\ After(worker.obj.status)
            /\ net' # net => worker.obj.status.net # net'
        BY <1>3, <2>1 DEF CopyOK
      <3>2. StatusOK(worker.obj.status)' /\ StatusOK(worker.status)'
        BY <3>1 DEF StatusOK, After
      <3>3. NotAhead(worker.obj.status)'
        BY <2>1, <3>1 DEF CopyOK, NotAhead
      <3> QED
        BY <2>1, <3>2, <3>3 DEF CopyOK
    <2>3. CopyFreed(worker) => CopyFreed(worker)'
      BY <2>1 DEF CopyFreed
    <2>4. Working(worker) => HoldOK(worker)'
      <3>1. nr # None /\ net' # net => nr.status.net # net'
        BY <1>3, <1>4
      <3> QED
        BY <2>1, <2>3, <3>1 DEF WorkOK, HoldOK
    <2> QED
      BY <2>1, <2>2, <2>3, <2>4 DEF WorkOK, Working
  <1>8. WorkerOK'
    BY <1>7 DEF RInv, WorkerOK, Working
  <1>9. AllAccounted'
    BY DEF RInv, AllAccounted
  <1> QED
    BY <1>2, <1>6, <1>8, <1>9 DEF RInv

(* The Network gets its id; there was no router before. *)
LEMMA NetworkReadyInv == ASSUME RInv, NetworkReady PROVE RInv'
  <1>1. \A r \in RouterIDs : routers[r] = None
    <2> SUFFICES ASSUME NEW r \in RouterIDs, routers[r] # None PROVE FALSE
      OBVIOUS
    <2>1. routers[r].net \in Nets /\ routers[r].net = None
      BY DEF RInv, RouterTypeOK, NBRouter, RoutersOK, NetworkReady
    <2> QED
      BY <2>1, RouterValues
  <1>2. net = None /\ net' \in Nets /\ UNCHANGED <<nr, nrSeen, routers, nextRouter, worker, lost>>
    BY RouterBounds DEF NetworkReady, netbird, Nets
  <1>3. routers' \in [RouterIDs -> NBRouter \cup {None}] /\ \A r \in RouterIDs : routers'[r] = None
    BY <1>1, <1>2 DEF RInv, RouterTypeOK
  <1> QED
    BY <1>2, <1>3, RoutersGoInv

(* A step that moves the worker on. *)
LEMMA WorkerMoves ==
    ASSUME RInv, UNCHANGED <<nr, nrSeen, net, netbird, lost>>, worker.step # "record",
           worker' \in Worker, worker'.step # "idle" => WorkOK(worker'),
           Working(worker') /\ nr # None => nr.finalizer
    PROVE  RInv'
  BY RouterQuiet DEF RInv, RouterTypeOK

(* The reconcile takes its copy from the informer. *)
LEMMA StartInv == ASSUME RInv, Start PROVE RInv'
  <1> DEFINE o == [peers |-> nrSeen.peers, status |-> nrSeen.status]
             w == [Idle EXCEPT !.obj = o, !.status = nrSeen.status]
  <1>1. nrSeen \in Router /\ nrSeen # None
    BY DEF RInv, RouterTypeOK, Start
  <1>2. o \in Copy /\ o.status = nrSeen.status /\ nrSeen.status \in Status
    BY <1>1 DEF Router, Copy
  <1>3. worker' = IF nrSeen.deleting THEN [w EXCEPT !.step = "delete"]
                  ELSE IF nrSeen.finalizer THEN Resolve(w) ELSE [w EXCEPT !.step = "finalize"]
    BY DEF Start
  <1> HIDE DEF o
  <1>4. w \in Worker /\ w.step = "idle" /\ w.obj = o /\ w.status = nrSeen.status
    BY <1>2, Zenon DEF Idle, Worker, PeerGroups
  <1> HIDE DEF w
  <1>5. CopyOK(w) /\ w.status = w.obj.status
    BY <1>1, <1>2, <1>4 DEF CopyOK, RInv, RoutersOK
  <1>6. /\ worker' \in Worker /\ WorkOK(worker')
        /\ Working(worker') => nrSeen.finalizer
    <2>1. ASSUME NEW s \in {"delete", "finalize"}, worker' = [w EXCEPT !.step = s]
          PROVE  worker' \in Worker /\ WorkOK(worker') /\ ~Working(worker')
      <3>1. worker' \in Worker /\ worker'.step = s /\ worker'.obj = w.obj /\ worker'.status = w.status
        BY <1>4, <2>1 DEF Worker
      <3>2. ~Working(worker') /\ worker'.step \notin {"update", "record", "create", "unfinalize"}
        BY <3>1 DEF Working
      <3>3. CopyOK(worker') /\ worker'.status = worker'.obj.status
        BY <1>5, <3>1 DEF CopyOK
      <3> QED
        BY <3>1, <3>2, <3>3 DEF WorkOK
    <2>2. CASE nrSeen.deleting
      BY <1>3, <2>1, <2>2
    <2>3. CASE ~nrSeen.deleting /\ ~nrSeen.finalizer
      BY <1>3, <2>1, <2>3
    <2>4. CASE ~nrSeen.deleting /\ nrSeen.finalizer
      BY <1>3, <1>4, <1>5, <2>4, ResolveOK
    <2> QED
      BY <2>2, <2>3, <2>4
  <1>7. Working(worker') /\ nr # None => nr.finalizer
    BY <1>1, <1>6 DEF RInv, RoutersOK
  <1> QED
    BY <1>6, <1>7, WorkerMoves DEF Start, kube

(* The finalizer comes before any router. *)
LEMMA FinalizeInv == ASSUME RInv, Finalize PROVE RInv'
  <1>1. CASE nr = None
    <2>1. worker' = Idle /\ nr' = nr
      BY <1>1 DEF Finalize
    <2> QED
      BY <2>1, IdleOK, WorkerMoves DEF Finalize
  <1>2. CASE nr # None
    <2>1. nr \in Router
      BY <1>2 DEF RInv, RouterTypeOK
    <2>2. nr' \in Router /\ nr'.status = nr.status /\ nr'.finalizer /\ nr' # None
      <3>1. nr' = [nr EXCEPT !.finalizer = TRUE]
        BY <1>2 DEF Finalize
      <3>2. nr' \in Router /\ nr'.status = nr.status /\ nr'.finalizer
        BY <2>1, <3>1, Zenon DEF Router
      <3> QED
        BY <3>2, RouterValues
    <2>3. worker \in Worker /\ CopyOK(worker) /\ worker.status = worker.obj.status
      BY DEF Finalize, RInv, RouterTypeOK, WorkerOK, WorkOK
    <2>4. worker' = Resolve(worker)
      BY <1>2 DEF Finalize
    <2>5. worker' \in Worker /\ WorkOK(worker')
      BY <2>3, <2>4, ResolveOK
    <2> QED
      BY <1>2, <2>2, <2>5, RouterQuiet DEF Finalize
  <1> QED
    BY <1>1, <1>2

(* The steps of ensureDeployedPeers. *)
LEMMA EnsureInv ==
    ASSUME RInv, UNCHANGED <<nr, nrSeen, net, netbird, lost>>, worker.step \in {"group", "key", "ds"},
           NEW g \in PeerGroups, NEW s \in {"dependency", "key", "ds"},
           \/ worker' = Verify(worker, g)
           \/ worker' = [worker EXCEPT !.step = s]
           \/ worker' = [worker EXCEPT !.step = s, !.group = g]
    PROVE  RInv'
  <1>1. worker \in Worker /\ WorkOK(worker) /\ Working(worker)
    BY DEF RInv, RouterTypeOK, WorkerOK, Working
  <1>2. CASE worker' = Verify(worker, g)
    <2>1. worker' \in Worker /\ WorkOK(worker')
      BY <1>1, <1>2, VerifyOK DEF WorkOK
    <2> QED
      BY <1>1, <2>1, WorkerMoves DEF RInv, WorkerOK
  <1>3. CASE worker' = [worker EXCEPT !.step = s] \/ worker' = [worker EXCEPT !.step = s, !.group = g]
    <2>1. worker' \in Worker /\ worker'.step = s /\ worker'.obj = worker.obj /\ worker'.status = worker.status
      BY <1>1, <1>3, Zenon DEF Worker
    <2>2. WorkOK(worker')
      BY <1>1, <2>1 DEF WorkOK, CopyOK, HoldOK, CopyFreed, Working
    <2> QED
      BY <1>1, <2>1, <2>2, WorkerMoves DEF RInv, WorkerOK
  <1> QED
    BY <1>2, <1>3

(* The owned Group. *)
LEMMA ApplyGroupInv == ASSUME GInv, RInv, ApplyGroup PROVE GInv' /\ RInv'
  <1>1. GInv'
    <2>1. CASE group = None
      <3>1. group' \in GroupObject /\ group' # None /\ group'.id = None
        BY <2>1, GroupValues DEF ApplyGroup
      <3>2. GroupTypeOK' /\ GroupsUsed' /\ GroupWorkerOK'
        BY <3>1 DEF GInv, ApplyGroup, GroupTypeOK, GroupsUsed, GroupUsed, GroupWorkerOK
      <3>3. GroupsAccounted'
        BY <2>1 DEF GInv, ApplyGroup, GroupsAccounted
      <3> QED
        BY <3>2, <3>3 DEF GInv
    <2>2. CASE group # None
      BY <2>2, GroupFrame DEF ApplyGroup, groupVars
    <2> QED
      BY <2>1, <2>2
  <1>2. RInv'
    <2>1. Unset \in PeerGroups /\ (groupSeen # None /\ groupSeen.id # None => groupSeen.id \in PeerGroups)
      BY DEF PeerGroups, GInv, GroupTypeOK, GroupObject
    <2>2. \/ worker' = Verify(worker, Unset)
          \/ worker' = [worker EXCEPT !.step = "dependency"]
          \/ /\ groupSeen # None /\ groupSeen.id # None
             /\ worker' = [worker EXCEPT !.step = "key", !.group = groupSeen.id]
      BY DEF ApplyGroup, Missing, Ensured
    <2>3. UNCHANGED <<nr, nrSeen, net, netbird, lost>> /\ worker.step \in {"group", "key", "ds"}
      BY DEF ApplyGroup, kube
    <2> QED
      BY <2>1, <2>2, <2>3, EnsureInv, Zenon
  <1> QED
    BY <1>1, <1>2

(* The owned SetupKey and DaemonSet. *)
LEMMA ApplyOthersInv == ASSUME RInv, ApplyKey \/ ApplyDaemonSet PROVE RInv'
  <1>1. worker.group \in PeerGroups /\ Unset \in PeerGroups
    BY DEF RInv, RouterTypeOK, Worker, PeerGroups
  <1>2. \/ worker' = Verify(worker, Unset) \/ worker' = Verify(worker, worker.group)
        \/ worker' = [worker EXCEPT !.step = "dependency"]
        \/ worker' = [worker EXCEPT !.step = "ds"]
    BY DEF ApplyKey, ApplyDaemonSet, Missing, Ensured
  <1>3. UNCHANGED <<nr, nrSeen, net, netbird, lost>> /\ worker.step \in {"group", "key", "ds"}
    BY DEF ApplyKey, ApplyDaemonSet
  <1> QED
    BY <1>1, <1>2, <1>3, EnsureInv, Zenon

-----------------------------------------------------------------------------
(* The PUT changes the peer group of a router that is there. *)
LEMMA UpdateInv == ASSUME RInv, Update PROVE RInv'
  <1> DEFINE r == worker.status.router
  <1>1. /\ worker \in Worker /\ WorkOK(worker) /\ r \in RouterIDs /\ Working(worker)
        /\ worker.group \in PeerGroups
    BY DEF RInv, RouterTypeOK, WorkerOK, WorkOK, Worker, Status, Update, Working
  <1>2. CASE ~Has(r, worker.status.net)
    <2>1. worker' = Idle /\ UNCHANGED <<nr, nrSeen, net, netbird, lost>>
      BY <1>2 DEF Update, kube, netbird
    <2> QED
      BY <2>1, IdleOK, WorkerMoves DEF Update
  <1>3. CASE Has(r, worker.status.net)
    <2>1. /\ routers' = [routers EXCEPT ![r] = Updated(worker)]
          /\ worker' = [worker EXCEPT !.step = "record"]
          /\ UNCHANGED <<nr, nrSeen, net, nextRouter, lost>>
      BY <1>3 DEF Update, kube
    <2>2. routers[r] \in NBRouter
      BY <1>1, <1>3 DEF Has, RInv, RouterTypeOK
    <2>3. Updated(worker) \in NBRouter /\ Updated(worker).net = routers[r].net
      BY <1>1, <2>2 DEF Updated, NBRouter
    <2>4. /\ routers' \in [RouterIDs -> NBRouter \cup {None}]
          /\ \A q \in RouterIDs : (routers'[q] = None <=> routers[q] = None)
          /\ \A q \in RouterIDs : routers[q] # None => routers'[q].net = routers[q].net
      BY <1>1, <2>1, <2>2, <2>3, RouterValues DEF RInv, RouterTypeOK
    <2>5. /\ worker' \in Worker /\ worker'.step = "record" /\ worker'.obj = worker.obj
          /\ worker'.status = worker.status
      BY <1>1, <2>1, StepOf, Zenon
    <2>6. RouterTypeOK'
      BY <2>1, <2>4, <2>5 DEF RInv, RouterTypeOK
    <2>7. \A s \in Status : (s.router # None /\ routers'[s.router] # None) =>
                             (s.router # None /\ routers[s.router] # None)
      BY <2>4 DEF Status
    <2>8. RoutersOK'
      <3>1. /\ nr # None => nr.status \in Status
            /\ nrSeen # None => nrSeen.status \in Status
        BY DEF RInv, RouterTypeOK, Router
      <3>2. nr' # None => StatusOK(nr.status)'
        BY <2>1, <2>7, <3>1 DEF RInv, RoutersOK, StatusOK
      <3>3. nrSeen' # None => StatusOK(nrSeen.status)' /\ NotAhead(nrSeen.status)'
        BY <2>1, <2>7, <3>1 DEF RInv, RoutersOK, StatusOK, NotAhead
      <3> QED
        BY <2>1, <2>4, <3>2, <3>3 DEF RInv, RoutersOK
    <2>9. WorkerOK'
      <3>1. worker.obj.status \in Status /\ worker.status \in Status /\ worker.obj.status.router \in RouterIDs \cup {None}
        BY <1>1 DEF WorkOK, CopyOK, Worker, Copy, Status
      <3>2. CopyOK(worker)'
        BY <1>1, <2>1, <2>5, <2>7, <3>1 DEF WorkOK, CopyOK, StatusOK, NotAhead
      <3>3. HoldOK(worker)'
        BY <1>1, <2>1, <2>4, <2>5, <3>1 DEF WorkOK, HoldOK, CopyFreed
      <3>4. WorkOK(worker)'
        BY <1>1, <2>5, <3>2, <3>3, RouterValues DEF WorkOK
      <3> QED
        BY <1>1, <2>1, <2>5, <3>4 DEF RInv, WorkerOK
    <2>10. AllAccounted'
      BY <2>1, <2>4, <2>5 DEF RInv, AllAccounted, Update
    <2> QED
      BY <2>6, <2>8, <2>9, <2>10 DEF RInv
  <1> QED
    BY <1>2, <1>3

(* The new router is in the hands of the worker until the patch. *)
LEMMA CreateInv == ASSUME RInv, Create PROVE RInv'
  <1>1. worker \in Worker /\ WorkOK(worker) /\ CopyFreed(worker) /\ worker.group \in PeerGroups
    BY DEF RInv, RouterTypeOK, WorkerOK, WorkOK, Worker, Create
  <1>2. CASE worker.status.net # net
    <2>1. worker' = Idle /\ UNCHANGED <<nr, nrSeen, net, netbird, lost>>
      BY <1>2 DEF Create, kube, netbird
    <2> QED
      BY <2>1, IdleOK, WorkerMoves DEF Create
  <1>3. CASE worker.status.net = net
    <2> DEFINE x == [net |-> net, group |-> worker.group]
               t == [worker.status EXCEPT !.router = nextRouter]
    <2>1. /\ routers' = [routers EXCEPT ![nextRouter] = x] /\ nextRouter' = nextRouter + 1
          /\ nextRouter <= MaxRouters /\ UNCHANGED <<nr, nrSeen, net, lost>>
      BY <1>3 DEF Create, kube
    <2>2. worker' = [worker EXCEPT !.step = "record", !.status = t]
      BY <1>3 DEF Create
    <2>3. nextRouter \in RouterIDs /\ nextRouter \in Nat
      BY <2>1, RouterBounds DEF RInv, RouterTypeOK, RouterIDs
    <2>4. nextRouter' \in 1..(MaxRouters + 1) /\ nextRouter < nextRouter'
      BY <2>1, <2>3, RouterBounds DEF RouterIDs
    <2>5. worker.status \in Status /\ worker.obj.status \in Status
      BY <1>1 DEF Worker, WorkOK, CopyOK, Copy
    <2>6. t \in Status /\ t.router = nextRouter /\ t.net = net
      BY <1>3, <2>3, <2>5 DEF Status
    <2> HIDE DEF t
    <2>7. /\ worker' \in Worker /\ worker'.step = "record" /\ worker'.obj = worker.obj
          /\ worker'.status = t
      BY <1>1, <2>2, <2>6, Zenon DEF Worker
    <2>8. net # None
      BY <1>1, <1>3 DEF WorkOK, Create
    <2>9. x \in NBRouter /\ x.net = net /\ x # None
      BY <1>1, <2>8, RouterValues DEF NBRouter, RInv, RouterTypeOK
    <2> HIDE DEF x
    <2>10. /\ routers' \in [RouterIDs -> NBRouter \cup {None}] /\ routers'[nextRouter] = x
           /\ \A r \in RouterIDs : r # nextRouter => routers'[r] = routers[r]
      BY <2>1, <2>3, <2>9 DEF RInv, RouterTypeOK
    <2>11. RouterTypeOK'
      BY <2>1, <2>4, <2>7, <2>10 DEF RInv, RouterTypeOK
    <2>12. \A r \in RouterIDs : r < nextRouter => r < nextRouter' /\ routers'[r] = routers[r]
      BY <2>3, <2>4, <2>10, RouterValues
    <2> DEFINE After(s) ==
          /\ s.router # None => s.router < nextRouter'
          /\ s.net # None => net' # None /\ s.net <= net'
          /\ s.router # None /\ routers'[s.router] # None => s.net = net'
    <2>13. ASSUME NEW s \in Status, StatusOK(s) PROVE After(s)
      BY <2>1, <2>12, <2>13 DEF StatusOK, Status
    <2>14. After(t)
      <3>1. net <= net
        BY <2>8, RouterValues DEF RInv, RouterTypeOK
      <3> QED
        BY <2>1, <2>4, <2>6, <2>8, <3>1
    <2> HIDE DEF After
    <2>15. RoutersOK'
      <3>1. /\ nr # None => After(nr.status)
            /\ nrSeen # None => After(nrSeen.status)
        BY <2>13 DEF RInv, RouterTypeOK, Router, RoutersOK
      <3>2. nr' # None => StatusOK(nr.status)'
        BY <2>1, <3>1 DEF StatusOK, After
      <3>3. nrSeen' # None => StatusOK(nrSeen.status)' /\ NotAhead(nrSeen.status)'
        BY <2>1, <3>1 DEF StatusOK, After, NotAhead, RInv, RoutersOK
      <3>4. \A r \in RouterIDs : routers'[r] # None => r < nextRouter' /\ routers'[r].net = net'
        BY <2>1, <2>4, <2>9, <2>10, <2>12 DEF RInv, RoutersOK
      <3> QED
        BY <2>1, <3>2, <3>3, <3>4 DEF RInv, RoutersOK
    <2>16. WorkOK(worker)'
      <3>1. After(worker.obj.status) /\ NotAhead(worker.obj.status)
        BY <1>1, <2>5, <2>13 DEF WorkOK, CopyOK
      <3>2. StatusOK(worker.obj.status)' /\ StatusOK(worker.status)'
        BY <2>7, <2>14, <3>1 DEF StatusOK, After
      <3>3. CopyOK(worker)'
        BY <1>1, <2>1, <2>7, <3>1, <3>2 DEF WorkOK, CopyOK, NotAhead
      <3>4. CopyFreed(worker)'
        <4>1. worker.obj.status.router # None =>
                worker.obj.status.router \in RouterIDs /\ worker.obj.status.router < nextRouter
          BY <1>1, <2>5 DEF WorkOK, CopyOK, StatusOK, Status
        <4> QED
          BY <1>1, <2>7, <2>12, <4>1 DEF CopyFreed
      <3>5. HoldOK(worker)' /\ worker'.status.router # None
        BY <2>1, <2>3, <2>6, <2>7, <3>4, RouterValues DEF HoldOK
      <3> QED
        BY <2>7, <3>3, <3>5 DEF WorkOK
    <2>17. WorkerOK'
      BY <2>1, <2>7, <2>16 DEF RInv, WorkerOK, Working, Create
    <2>18. AllAccounted'
      <3>1. worker.obj.status \in Status /\ StatusOK(worker.obj.status)
        BY <1>1, <2>5 DEF WorkOK, CopyOK
      <3>2. worker.obj.status.router # nextRouter
        BY <2>3, <3>1, RouterValues DEF StatusOK, Status
      <3> QED
        BY <2>1, <2>6, <2>7, <2>10, <3>2 DEF RInv, AllAccounted, Create
    <2> QED
      BY <2>11, <2>15, <2>17, <2>18 DEF RInv
  <1> QED
    BY <1>2, <1>3

(* The patch hands the router over to the object.  The id it replaces is   *)
(* the one of the copy, whose router is gone, or counted as lost; and the  *)
(* network it leaves in the status is the one of the router.               *)
LEMMA PatchInv ==
    ASSUME RInv, worker.step \in {"dependency", "record"}, NEW b \in BOOLEAN,
           Patch([worker EXCEPT !.status.ready = b]), UNCHANGED <<nrSeen, net, netbird>>
    PROVE  RInv'
  <1> DEFINE t == [worker.status EXCEPT !.ready = b]
             w == [worker EXCEPT !.status = t]
             o == worker.obj.status
  <1>1. worker \in Worker /\ WorkOK(worker) /\ HoldOK(worker)
    BY DEF RInv, RouterTypeOK, WorkerOK, WorkOK, Working
  <1>2. worker.status \in Status /\ o \in Status
    BY <1>1 DEF Worker, WorkOK, CopyOK, Copy
  <1>3. t \in Status /\ t.net = worker.status.net /\ t.router = worker.status.router
    BY <1>2 DEF Status
  <1>4. Patch(w)
    OBVIOUS
  <1> HIDE DEF t
  <1>5. w.obj = worker.obj /\ w.status = t
    BY <1>1, <1>3 DEF Worker
  <1> HIDE DEF w
  <1>6. worker' = Idle
    BY <1>4 DEF Patch
  <1>7. WorkerOK'
    BY <1>6, IdleOK DEF WorkerOK
  <1>8. \A r \in RouterIDs : routers[r] # None /\ t.router # o.router => r # o.router
    BY <1>1, <1>3, RouterValues DEF HoldOK, CopyFreed
  <1>9. CASE nr = None
    <2>1. nr' = None /\ lost' = lost \cup ({t.router} \ {None, o.router})
      BY <1>4, <1>5, <1>9 DEF Patch
    <2>2. RouterTypeOK'
      BY <1>3, <1>6, <2>1, IdleOK DEF RInv, RouterTypeOK, netbird, Status
    <2>3. RoutersOK'
      BY <1>9, <2>1 DEF RInv, RoutersOK, netbird, StatusOK, NotAhead
    <2>4. AllAccounted'
      BY <1>3, <1>9, <2>1, RouterValues DEF RInv, AllAccounted, netbird
    <2> QED
      BY <1>7, <2>2, <2>3, <2>4 DEF RInv
  <1>10. CASE nr # None
    <2> DEFINE n == IF t.net = o.net THEN nr.status.net ELSE t.net
               q == IF t.router = o.router THEN nr.status.router ELSE t.router
               d == IF t.ready = o.ready THEN nr.status.ready ELSE t.ready
               s == [net |-> n, router |-> q, ready |-> d]
    <2>1. nr \in Router /\ nr.status \in Status
      BY <1>10 DEF RInv, RouterTypeOK, Router
    <2>2. /\ nr' = [nr EXCEPT !.status = s]
          /\ lost' = lost \cup ({nr.status.router} \ {None, o.router, nr'.status.router})
      BY <1>4, <1>5, <1>10 DEF Patch
    <2>3. s \in Status
      BY <1>2, <1>3, <2>1 DEF Status
    <2>4. s.net = n /\ s.router = q
      OBVIOUS
    <2>5. /\ t.net = o.net => n = nr.status.net
          /\ t.net # o.net => n = t.net
          /\ t.router = o.router => q = nr.status.router
          /\ t.router # o.router => q = t.router
      OBVIOUS
    <2> HIDE DEF n, q, d, s
    <2>6. nr' \in Router /\ nr'.status = s /\ nr'.finalizer = nr.finalizer /\ nr' # None
      BY <2>1, <2>2, <2>3, RouterValues DEF Router
    <2>7. RouterTypeOK'
      BY <1>6, <2>1, <2>2, <2>6, IdleOK DEF RInv, RouterTypeOK, netbird, Status
    <2>8. StatusOK(t) /\ StatusOK(nr.status) /\ NotAhead(o)
      BY <1>1, <1>3, <1>10 DEF WorkOK, CopyOK, StatusOK, RInv, RoutersOK
    <2>9. t.net # net => (\A r \in RouterIDs : routers[r] = None) /\ nr.status.net # net
      BY <1>1, <1>3, <1>10 DEF HoldOK
    <2>10. StatusOK(s)
      <3>1. q # None => q < nextRouter
        BY <2>5, <2>8 DEF StatusOK
      <3>2. n # None => net # None /\ n <= net
        BY <2>5, <2>8 DEF StatusOK
      <3>3. q # None /\ routers[q] # None => n = net
        <4> SUFFICES ASSUME q # None, routers[q] # None PROVE n = net
          OBVIOUS
        <4>1. t.net = net
          BY <2>3, <2>4, <2>9 DEF Status
        <4>2. CASE t.net = o.net
          BY <1>10, <2>5, <2>8, <4>1, <4>2 DEF NotAhead
        <4>3. CASE t.net # o.net
          BY <2>5, <4>1, <4>3
        <4> QED
          BY <4>2, <4>3
      <3> QED
        BY <2>4, <3>1, <3>2, <3>3 DEF StatusOK
    <2>11. nr.status.net = net => n = net
      BY <2>5, <2>9
    <2>12. RoutersOK'
      <3>1. StatusOK(nr.status)'
        BY <2>6, <2>10 DEF StatusOK, netbird
      <3>2. nr.finalizer
        BY <1>10 DEF RInv, WorkerOK, Working
      <3>3. nrSeen' # None => StatusOK(nrSeen.status)' /\ NotAhead(nrSeen.status)'
        BY <1>10, <2>4, <2>6, <2>11 DEF RInv, RoutersOK, StatusOK, NotAhead, netbird
      <3> QED
        BY <2>6, <3>1, <3>2, <3>3 DEF RInv, RoutersOK, netbird
    <2>13. AllAccounted'
      <3> SUFFICES ASSUME NEW r \in RouterIDs, routers[r] # None
                   PROVE  r \in lost' \/ nr'.status.router = r
        BY <2>6 DEF AllAccounted, netbird
      <3>1. \/ r \in lost \/ nr.status.router = r
            \/ t.router = r /\ o.router # r
        BY <1>3 DEF RInv, AllAccounted
      <3>2. CASE r \in lost
        BY <2>2, <3>2
      <3>3. CASE nr.status.router = r
        <4>1. t.router # o.router => r # o.router
          BY <1>8
        <4> QED
          BY <2>2, <2>4, <2>5, <2>6, <3>3, <4>1, RouterValues
      <3>4. CASE t.router = r /\ o.router # r
        BY <2>4, <2>5, <2>6, <3>4
      <3> QED
        BY <3>1, <3>2, <3>3, <3>4
    <2> QED
      BY <1>7, <2>7, <2>12, <2>13 DEF RInv
  <1> QED
    BY <1>9, <1>10

(* After the delete the router of the copy is gone. *)
LEMMA DeleteInv == ASSUME RInv, Delete PROVE RInv'
  <1> DEFINE r == worker.status.router
  <1>1. worker \in Worker /\ WorkOK(worker) /\ r \in RouterIDs \cup {None}
    BY DEF RInv, RouterTypeOK, WorkerOK, Worker, Status, Delete
  <1>2. worker.status = worker.obj.status /\ StatusOK(worker.status)
    BY <1>1 DEF WorkOK, CopyOK, Delete
  <1>3. r # None /\ routers[r] # None => worker.status.net # None /\ Has(r, worker.status.net)
    <2> SUFFICES ASSUME r # None, routers[r] # None PROVE worker.status.net # None /\ Has(r, worker.status.net)
      OBVIOUS
    <2>1. routers[r].net = net /\ routers[r].net \in Nets
      BY <1>1 DEF RInv, RoutersOK, RouterTypeOK, NBRouter
    <2>2. worker.status.net = net
      BY <1>2 DEF StatusOK
    <2> QED
      BY <2>1, <2>2, RouterValues DEF Has
  <1>4. /\ routers' \in [RouterIDs -> NBRouter \cup {None}]
        /\ \A q \in RouterIDs : routers'[q] # None => routers'[q] = routers[q]
        /\ r # None => routers'[r] = None
    BY <1>1, <1>3 DEF Delete, RInv, RouterTypeOK
  <1>5. UNCHANGED <<nr, nrSeen, nextRouter, lost, net>>
    BY DEF Delete, kube
  <1>6. /\ worker' \in Worker /\ worker'.step = "unfinalize" /\ worker'.obj = worker.obj
        /\ worker'.status = worker.status
    BY <1>1, StepOf, Zenon DEF Delete
  <1>7. RouterTypeOK'
    BY <1>4, <1>5, <1>6 DEF RInv, RouterTypeOK
  <1>8. \A s \in Status : (s.router # None /\ routers'[s.router] # None) =>
                           (s.router # None /\ routers[s.router] # None)
    BY <1>4 DEF Status
  <1>9. RoutersOK'
    <2>1. /\ nr # None => nr.status \in Status
          /\ nrSeen # None => nrSeen.status \in Status
      BY DEF RInv, RouterTypeOK, Router
    <2>2. nr' # None => StatusOK(nr.status)'
      BY <1>5, <1>8, <2>1 DEF RInv, RoutersOK, StatusOK
    <2>3. nrSeen' # None => StatusOK(nrSeen.status)' /\ NotAhead(nrSeen.status)'
      BY <1>5, <1>8, <2>1 DEF RInv, RoutersOK, StatusOK, NotAhead
    <2> QED
      BY <1>4, <1>5, <2>2, <2>3 DEF RInv, RoutersOK
  <1>10. WorkerOK'
    <2>1. worker.status \in Status
      BY <1>1, SMTT(20) DEF Worker
    <2>2. CopyOK(worker)'
      BY <1>1, <1>2, <1>5, <1>6, <1>8, <2>1 DEF WorkOK, CopyOK, StatusOK, NotAhead
    <2>3. CopyFreed(worker)' /\ worker'.status = worker'.obj.status
      BY <1>2, <1>4, <1>6 DEF CopyFreed
    <2> QED
      BY <1>6, <2>2, <2>3 DEF WorkerOK, WorkOK, Working
  <1>11. AllAccounted'
    BY <1>4, <1>5 DEF RInv, AllAccounted, Delete
  <1> QED
    BY <1>7, <1>9, <1>10, <1>11 DEF RInv

(* The object goes with a router that is gone, or one that is lost. *)
LEMMA UnfinalizeInv == ASSUME RInv, Unfinalize PROVE RInv'
  <1>1. /\ worker' = Idle /\ nr' = None /\ UNCHANGED <<nrSeen, net, netbird>>
        /\ lost' = lost \cup (IF nr = None THEN {} ELSE {nr.status.router} \ {None, worker.status.router})
    BY DEF Unfinalize
  <1>2. nr # None => nr.status.router \in RouterIDs \cup {None}
    BY DEF RInv, RouterTypeOK, Router, Status
  <1>3. \A r \in RouterIDs : routers[r] # None => r # worker.status.router
    BY RouterValues DEF RInv, WorkerOK, WorkOK, CopyFreed, Unfinalize
  <1>4. RouterTypeOK'
    BY <1>1, <1>2, IdleOK DEF RInv, RouterTypeOK, netbird
  <1>5. RoutersOK' /\ WorkerOK'
    BY <1>1, IdleOK DEF RInv, RoutersOK, WorkerOK, netbird, StatusOK, NotAhead
  <1>6. AllAccounted'
    BY <1>1, <1>3, RouterValues DEF RInv, AllAccounted, netbird, Unfinalize
  <1> QED
    BY <1>4, <1>5, <1>6 DEF RInv

(* A failure between create and patch loses the router. *)
LEMMA CallFailsInv == ASSUME RInv, CallFails PROVE RInv'
  <1>1. /\ worker' = Idle /\ UNCHANGED <<nr, nrSeen, net, netbird>>
        /\ lost' = lost \cup (IF worker.step = "record" /\ worker.status.router # worker.obj.status.router
                              THEN {worker.status.router} ELSE {})
    BY DEF CallFails, kube
  <1>2. worker.step = "record" => worker.status.router \in RouterIDs
    BY DEF RInv, RouterTypeOK, WorkerOK, WorkOK, Worker, Status
  <1>3. RouterTypeOK'
    BY <1>1, <1>2, IdleOK DEF RInv, RouterTypeOK, netbird
  <1>4. RoutersOK' /\ WorkerOK'
    BY <1>1, IdleOK DEF RInv, RoutersOK, WorkerOK, netbird, StatusOK, NotAhead
  <1>5. AllAccounted'
    BY <1>1 DEF RInv, AllAccounted, netbird
  <1> QED
    BY <1>3, <1>4, <1>5 DEF RInv

-----------------------------------------------------------------------------
(* The SetupKey, the DaemonSet and the bound on faults. *)
OthersOK ==
    /\ key \in GroupIDs \cup {None, Unset} /\ ds \in (SUBSET Peers) \cup {None}
    /\ faults \in 0..MaxFaults

(* A fault is counted within its bound. *)
LEMMA SpendOK == ASSUME faults \in 0..MaxFaults, Spend PROVE faults' \in 0..MaxFaults
  BY GroupBounds DEF Spend

(* A pod joins the group its key names, which is there. *)
LEMMA JoinInv == ASSUME IInv, Join PROVE GInv' /\ OthersOK'
  <1>1. key \in GroupIDs /\ groups[key] \in SUBSET Peers /\ ds \in SUBSET Peers /\ groups[key] # None
    BY DEF IInv, TypeOK, Join, GroupTypeOK
  <1>2. PICK p \in Peers : ds' = ds \cup {p} /\ groups' = [groups EXCEPT ![key] = @ \cup {p}]
    BY Zenon DEF Join
  <1> DEFINE m == groups[key] \cup {p}
  <1>3. m \in SUBSET Peers /\ m # None /\ groups' = [groups EXCEPT ![key] = m]
    BY <1>1, <1>2, GroupBounds
  <1> HIDE DEF m
  <1>4. /\ groups' \in [GroupIDs -> (SUBSET Peers) \cup {None}]
        /\ \A g \in GroupIDs : groups'[g] # None => groups[g] # None
    BY <1>1, <1>3 DEF IInv, GInv, GroupTypeOK
  <1>5. GInv'
    BY <1>4, GroupsChangeInv DEF IInv, Join
  <1>6. OthersOK'
    BY <1>1, <1>2 DEF IInv, TypeOK, OthersOK, Join
  <1> QED
    BY <1>5, <1>6

(* Deletions in NetBird and of the owned Group. *)
LEMMA OutsideInv == ASSUME IInv, Outside PROVE GInv' /\ RInv' /\ OthersOK'
  <1>1. OthersOK'
    <2>1. faults' \in 0..MaxFaults
      BY SpendOK DEF IInv, TypeOK, Outside
    <2> QED
      BY <2>1 DEF OthersOK, IInv, TypeOK, Outside
  <1>2. UNCHANGED <<nr, nrSeen, nextRouter, worker, lost, groupSeen, nextGroup, gworker>>
    BY DEF Outside
  <1>3. CASE group # None /\ DeletedGroup /\ UNCHANGED <<net, routers, groups>>
    <2>1. GInv'
      BY <1>2, <1>3, DeletedGroupInv DEF IInv
    <2>2. RInv'
      BY <1>2, <1>3, RouterFrame DEF IInv, netbird
    <2> QED
      BY <1>1, <2>1, <2>2
  <1>4. CASE /\ \E r \in RouterIDs : routers[r] # None /\ routers' = [routers EXCEPT ![r] = None]
             /\ UNCHANGED <<group, lostGroups, net, groups>>
    <2>1. PICK r \in RouterIDs : routers' = [routers EXCEPT ![r] = None]
      BY <1>4, Zenon
    <2>2. /\ routers' \in [RouterIDs -> NBRouter \cup {None}]
          /\ \A q \in RouterIDs : routers'[q] # None => routers'[q] = routers[q]
      BY <2>1 DEF IInv, RInv, RouterTypeOK
    <2>3. RInv'
      BY <1>2, <1>4, <2>2, RoutersGoInv DEF IInv
    <2> QED
      BY <1>1, <1>2, <1>4, <2>3, GroupFrame DEF IInv, groupVars
  <1>5. CASE /\ \E g \in GroupIDs \ InUse : groups[g] # None /\ groups' = [groups EXCEPT ![g] = None]
             /\ UNCHANGED <<group, lostGroups, net, routers>>
    <2>1. PICK g \in GroupIDs : groups' = [groups EXCEPT ![g] = None]
      BY <1>5, Zenon
    <2>2. /\ groups' \in [GroupIDs -> (SUBSET Peers) \cup {None}]
          /\ \A q \in GroupIDs : groups'[q] # None => groups[q] # None
      BY <2>1 DEF IInv, GInv, GroupTypeOK
    <2>3. GInv'
      BY <1>2, <1>5, <2>2, GroupsChangeInv DEF IInv
    <2> QED
      BY <1>1, <1>2, <1>5, <2>3, RouterFrame DEF IInv, netbird
  <1>6. CASE /\ net \in 1..(MaxNets - 1) /\ net' = net + 1 /\ routers' = [r \in RouterIDs |-> None]
             /\ UNCHANGED <<group, lostGroups, groups>>
    <2>1. net' \in Nets /\ net' > net
      BY <1>6, RouterBounds DEF Nets
    <2>2. routers' \in [RouterIDs -> NBRouter \cup {None}] /\ \A r \in RouterIDs : routers'[r] = None
      BY <1>6
    <2>3. RInv'
      BY <1>2, <2>1, <2>2, RoutersGoInv DEF IInv
    <2> QED
      BY <1>1, <1>2, <1>6, <2>3, GroupFrame DEF IInv, groupVars
  <1> QED
    BY <1>1, <1>3, <1>4, <1>5, <1>6 DEF Outside

(* Garbage collection takes the Group the way a user would. *)
LEMMA CollectInv == ASSUME IInv, Collect PROVE GInv' /\ RInv' /\ OthersOK'
  <1>1. RInv'
    BY RouterFrame DEF IInv, Collect
  <1>2. OthersOK'
    BY DEF IInv, TypeOK, OthersOK, Collect
  <1>3. CASE group # None /\ DeletedGroup
    BY <1>1, <1>2, <1>3, DeletedGroupInv DEF IInv, Collect
  <1>4. CASE UNCHANGED <<group, lostGroups>>
    BY <1>1, <1>2, <1>4, GroupFrame DEF IInv, Collect, groupVars
  <1> QED
    BY <1>3, <1>4 DEF Collect

(* Nothing in NetBird and no reconcile at the start. *)
LEMMA InitInv == Init => IInv
  <1> SUFFICES ASSUME Init PROVE IInv
    OBVIOUS
  <1>1. GInv
    <2>1. GroupTypeOK
      BY GroupBounds, GroupIdleOK DEF Init, GroupInit, GroupTypeOK
    <2>2. GroupsUsed /\ GroupWorkerOK /\ GroupsAccounted
      BY GroupIdleOK DEF Init, GroupInit, GroupsUsed, GroupUsed, GroupWorkerOK, GroupsAccounted
    <2> QED
      BY <2>1, <2>2 DEF GInv
  <1>2. nr \in Router /\ nr.status = NoStatus
    BY RouterValues DEF Init, Router
  <1>3. RInv
    <2>1. RouterTypeOK
      BY <1>2, RouterBounds, IdleOK DEF Init, RouterTypeOK
    <2>2. RoutersOK
      BY <1>2, RouterValues DEF Init, RoutersOK, StatusOK, NotAhead
    <2>3. WorkerOK /\ AllAccounted
      BY IdleOK DEF Init, WorkerOK, AllAccounted
    <2> QED
      BY <2>1, <2>2, <2>3 DEF RInv
  <1>4. OthersOK
    BY GroupBounds DEF Init, OthersOK
  <1> QED
    BY <1>1, <1>3, <1>4 DEF IInv, TypeOK, GInv, RInv, OthersOK

(* Every step preserves the invariant. *)
LEMMA NextInv == IInv /\ [Next]_vars => IInv'
  <1> SUFFICES ASSUME IInv, [Next]_vars PROVE GInv' /\ RInv' /\ OthersOK'
    BY DEF IInv, TypeOK, GInv, RInv, OthersOK
  <1> USE DEF IInv
  <1>0. OthersOK
    BY DEF TypeOK, OthersOK
  <1>1. CASE Deliver
    BY <1>0, <1>1, DeliverInv, GroupFrame DEF Deliver, OthersOK
  <1>2. CASE User
    <2>1. faults' \in 0..MaxFaults
      BY <1>0, <1>2, SpendOK DEF User, OthersOK
    <2> QED
      BY <1>0, <1>2, <2>1, UserInv, GroupFrame DEF User, OthersOK
  <1>3. CASE NetworkReady
    BY <1>0, <1>3, NetworkReadyInv, GroupFrame DEF NetworkReady, OthersOK
  <1>4. CASE KeyReady
    <2>1. key' \in GroupIDs
      BY <1>4 DEF KeyReady, GInv, GroupTypeOK, GroupObject
    <2> QED
      BY <1>0, <1>4, <2>1, RouterFrame, GroupFrame DEF KeyReady, OthersOK
  <1>5. CASE Join
    BY <1>5, JoinInv, RouterFrame, Zenon DEF Join
  <1>6. CASE Start
    BY <1>0, <1>6, StartInv, GroupFrame DEF Start, kube, OthersOK
  <1>7. CASE Finalize
    BY <1>0, <1>7, FinalizeInv, GroupFrame DEF Finalize, OthersOK
  <1>8. CASE Dependency
    <2>1. RInv'
      BY <1>8, PatchInv, Zenon DEF Dependency
    <2> QED
      BY <1>0, <1>8, <2>1, GroupFrame DEF Dependency, OthersOK
  <1>9. CASE ApplyGroup
    BY <1>0, <1>9, ApplyGroupInv DEF ApplyGroup, kube, OthersOK
  <1>10. CASE ApplyKey \/ ApplyDaemonSet
    <2>1. OthersOK'
      BY <1>0, <1>10 DEF ApplyKey, ApplyDaemonSet, ensureDaemonSet, OthersOK
    <2> QED
      BY <1>10, <2>1, ApplyOthersInv, GroupFrame DEF ApplyKey, ApplyDaemonSet
  <1>11. CASE Update
    BY <1>0, <1>11, UpdateInv, GroupFrame DEF Update, kube, OthersOK
  <1>12. CASE Create
    BY <1>0, <1>12, CreateInv, GroupFrame DEF Create, kube, OthersOK
  <1>13. CASE Record
    <2>1. RInv'
      BY <1>13, PatchInv, Zenon DEF Record
    <2> QED
      BY <1>0, <1>13, <2>1, GroupFrame DEF Record, OthersOK
  <1>14. CASE Delete
    BY <1>0, <1>14, DeleteInv, GroupFrame DEF Delete, kube, OthersOK
  <1>15. CASE Unfinalize
    BY <1>0, <1>15, UnfinalizeInv, GroupFrame DEF Unfinalize, OthersOK
  <1>16. CASE CallFails
    <2>1. faults' \in 0..MaxFaults
      BY <1>0, <1>16, SpendOK DEF CallFails, OthersOK
    <2> QED
      BY <1>0, <1>16, <2>1, CallFailsInv, GroupFrame DEF CallFails, kube, OthersOK
  <1>17. CASE GroupNext(InUse) /\ UNCHANGED <<kube, netbird, worker, lost>>
    <2>1. GInv'
      BY <1>17, GroupNextInv
    <2>2. faults' \in 0..MaxFaults
      BY <1>0, <1>17, SpendOK
      DEF GroupNext, GroupStep, DeliverGroup, StartGroup, FinalizeGroup, UpdateGroup, CreateGroup, RecordGroup,
          DeleteGroup, IsConflict, UnfinalizeGroup, GroupFails, OthersOK
    <2> QED
      BY <1>0, <1>17, <2>1, <2>2, RouterFrame DEF kube, OthersOK
  <1>18. CASE UNCHANGED vars
    BY <1>0, <1>18, GroupFrame, RouterFrame DEF vars, kube, OthersOK
  <1> QED
    BY <1>1, <1>2, <1>3, <1>4, <1>5, <1>6, <1>7, <1>8, <1>9, <1>10, <1>11, <1>12, <1>13, <1>14, <1>15,
       <1>16, <1>17, <1>18, CollectInv, OutsideInv
    DEF Next, Step

-----------------------------------------------------------------------------
(* The inductive invariant of the NetworkRouter and its Group. *)
THEOREM Invariance == Spec => []IInv
  BY InitInv, NextInv, PTL DEF Spec

(* Every NetBird group is recorded by the Group, in the hands of the       *)
(* reconcile that created it, or lost for a named reason.                  *)
THEOREM GroupsNotLeftBehind == Spec => []GroupsAccounted
  <1>1. IInv => GroupsAccounted
    BY DEF IInv, GInv
  <1> QED
    BY <1>1, Invariance, PTL

(* Every router is recorded by the NetworkRouter, in hand, or lost for a   *)
(* named reason, however the network changes its id under the reconciles.  *)
THEOREM RoutersNotLeftBehind == Spec => []RoutersAccounted
  <1>1. IInv => RoutersAccounted
    BY DEF IInv, RInv, AllAccounted, RoutersAccounted
  <1> QED
    BY <1>1, Invariance, PTL

-----------------------------------------------------------------------------
(* The LoadBalancer controller, beside the NetworkRouter.                  *)
CONSTANTS Addresses, FamilyOf, Ingresses, Annotations, AtStart, DefaultAdvertise, DefaultGroups
VARIABLES svc, svcSeen, ns, network, zone, children, childrenSeen, queued, timer,
          lbWorker, nsUsed, lbFaults

Lb == INSTANCE LoadBalancer WITH worker <- lbWorker, faults <- lbFaults

(* A reconcile in progress is a record of its four fields. *)
LbWorkerShape ==
    lbWorker = [step |-> lbWorker.step, todo |-> lbWorker.todo, groups |-> lbWorker.groups,
                desired |-> lbWorker.desired]

(* A Service that the informer shows and that is neither queued nor waits  *)
(* for a timer was last found without its namespace or without an address, *)
(* or was not advertised and what is left of its objects is being deleted  *)
(* or has yet to be reported.                                              *)
LbDecided ==
    nsUsed # None =>
        IF Lb!Advertise(svcSeen, nsUsed) THEN Lb!lbIngressAddresses(svcSeen) = <<>>
        ELSE \A k \in Lb!Slots : children[k] \notin {None, Lb!Dying} => childrenSeen[k] # children[k]

(* The reconcile in progress ends with a timer, or it prunes all objects   *)
(* of a Service that is not advertised.                                    *)
LbWatched ==
    /\ svcSeen # None /\ ~queued /\ ~timer /\ lbWorker = Lb!Idle => LbDecided
    /\ lbWorker.step = "record" => lbWorker.desired # {}
    /\ lbWorker.step = "prune" /\ svcSeen # None /\ ~queued /\ lbWorker.desired = {} =>
         nsUsed # None /\ ~Lb!Advertise(svcSeen, nsUsed)

LbInv ==
    /\ LbWorkerShape /\ LbWatched /\ queued \in BOOLEAN /\ timer \in BOOLEAN
    /\ children \in [Lb!Slots -> {children[k] : k \in Lb!Slots}]

(* Events and timers queue the Service. *)
LEMMA LbEventInv ==
    ASSUME LbInv, Lb!DeliverService \/ Lb!DeliverChildren \/ Lb!Fire
    PROVE  LbInv'
  <1>1. /\ lbWorker' = lbWorker /\ children' = children /\ queued' = TRUE /\ timer' \in BOOLEAN
    BY Zenon DEF LbInv, Lb!DeliverService, Lb!DeliverChildren, Lb!Fire
  <1> QED
    BY <1>1 DEF LbInv, LbWatched, LbWorkerShape

(* What is deleted is None or dying, and the rest stays. *)
LEMMA LbDeleted ==
    ASSUME NEW ks, children \in [Lb!Slots -> {children[k] : k \in Lb!Slots}]
    PROVE  /\ Lb!Deleted(ks) = [k \in Lb!Slots |-> Lb!Deleted(ks)[k]]
           /\ \A k \in Lb!Slots : Lb!Deleted(ks)[k] \in {children[k], Lb!Dying}
           /\ \A k \in Lb!Slots : k \in ks => Lb!Deleted(ks)[k] \in {None, Lb!Dying}
  BY DEF Lb!Deleted

(* Others change what the reconcile does not look at again, or delete an   *)
(* object.                                                                 *)
LEMMA LbOthersInv ==
    ASSUME LbInv, Lb!DeliverNamespace \/ Lb!Change \/ Lb!Collect \/ Lb!Finalized
    PROVE  LbInv'
  <1>1. UNCHANGED <<svcSeen, childrenSeen, queued, timer, lbWorker, nsUsed>>
    BY DEF Lb!DeliverNamespace, Lb!Change, Lb!Collect, Lb!Finalized
  <1>2. /\ children' \in [Lb!Slots -> {children'[k] : k \in Lb!Slots}]
        /\ \A k \in Lb!Slots : children'[k] \in {children[k], None, Lb!Dying}
    <2>1. CASE children' = children
      BY <2>1 DEF LbInv
    <2>2. CASE \E k \in Lb!Slots : children' = [children EXCEPT ![k] = None]
      BY <2>2 DEF LbInv
    <2>3. CASE \E ks : children' = Lb!Deleted(ks)
      BY <2>3, LbDeleted DEF LbInv
    <2> QED
      BY <2>1, <2>2, <2>3 DEF Lb!DeliverNamespace, Lb!Change, Lb!Collect, Lb!Finalized
  <1>3. LbDecided => LbDecided'
    BY <1>1, <1>2 DEF LbDecided
  <1>4. Lb!Advertise(svcSeen, nsUsed)' <=> Lb!Advertise(svcSeen, nsUsed)
    BY <1>1
  <1>5. LbWorkerShape'
    BY <1>1 DEF LbInv, LbWorkerShape
  <1>6. LbWatched'
    BY <1>1, <1>3, <1>4 DEF LbInv, LbWatched
  <1> QED
    BY <1>1, <1>2, <1>5, <1>6 DEF LbInv

(* The outcomes of a reconcile's decision. *)
LEMMA LbStartInv == ASSUME LbInv, Lb!Start PROVE LbInv'
  <1>1. /\ UNCHANGED <<svcSeen, children, childrenSeen>> /\ queued' = FALSE /\ lbWorker.step = "idle"
        /\ svcSeen # None => nsUsed' = ns
    BY DEF Lb!Start
  <1>2. CASE svcSeen = None
    BY <1>1, <1>2, Zenon DEF Lb!Start, LbInv, LbWatched, LbWorkerShape
  <1>3. CASE svcSeen # None /\ ns = None
    <2>1. lbWorker' = lbWorker /\ timer' = timer
      BY <1>3, Zenon DEF Lb!Start
    <2>2. LbDecided'
      BY <1>1, <1>3 DEF LbDecided
    <2> QED
      BY <1>1, <2>1, <2>2, Zenon DEF LbInv, LbWatched, LbWorkerShape
  <1>4. CASE svcSeen # None /\ ns # None /\ ~Lb!Advertise(svcSeen, ns)
    <2>1. lbWorker' = [Lb!Idle EXCEPT !.step = "prune"] /\ timer' = timer
      BY <1>4, Zenon DEF Lb!Start
    <2>2. lbWorker' = [step |-> "prune", todo |-> <<>>, groups |-> None, desired |-> {}] /\ lbWorker' # Lb!Idle
      BY <2>1, Zenon DEF Lb!Idle
    <2>3. nsUsed' # None /\ ~Lb!Advertise(svcSeen, nsUsed)'
      BY <1>1, <1>4, SMTT(20)
    <2>4. LbWorkerShape' /\ lbWorker'.step = "prune"
      BY <2>2 DEF LbWorkerShape
    <2>5. LbWatched'
      BY <2>2, <2>3, <2>4 DEF LbWatched
    <2> QED
      BY <1>1, <2>1, <2>4, <2>5, Zenon DEF LbInv
  <1>5. CASE svcSeen # None /\ ns # None /\ Lb!Advertise(svcSeen, ns) /\ Lb!lbIngressAddresses(svcSeen) = <<>>
    <2>1. lbWorker' = lbWorker /\ timer' = timer
      BY <1>5, Zenon DEF Lb!Start
    <2>2. LbDecided'
      BY <1>1, <1>5 DEF LbDecided
    <2> QED
      BY <1>1, <2>1, <2>2, Zenon DEF LbInv, LbWatched, LbWorkerShape
  <1>6. CASE svcSeen # None /\ ns # None /\ Lb!Advertise(svcSeen, ns) /\ Lb!lbIngressAddresses(svcSeen) # <<>>
             /\ ~network
    <2>1. lbWorker' = lbWorker /\ timer' = TRUE
      BY <1>6, Zenon DEF Lb!Start
    <2> QED
      BY <1>1, <2>1, Zenon DEF LbInv, LbWatched, LbWorkerShape
  <1>7. CASE svcSeen # None /\ ns # None /\ Lb!Advertise(svcSeen, ns) /\ Lb!lbIngressAddresses(svcSeen) # <<>>
             /\ network
    <2>1. timer' = timer /\ lbWorker' = [step |-> "zone", todo |-> Lb!lbIngressAddresses(svcSeen),
                                       groups |-> Lb!resourceGroups(svcSeen, ns), desired |-> {}]
      BY <1>7, Zenon DEF Lb!Start
    <2>2. lbWorker' # Lb!Idle
      BY <2>1 DEF Lb!Idle
    <2> QED
      BY <1>1, <2>1, <2>2, Zenon DEF LbInv, LbWatched, LbWorkerShape
  <1> QED
    BY <1>2, <1>3, <1>4, <1>5, <1>6, <1>7

(* An address makes its family desired. *)
LEMMA LbApplyInv == ASSUME LbInv, Lb!EnsureZone \/ Lb!ApplyResource \/ Lb!ApplyRecord PROVE LbInv'
  <1>1. /\ UNCHANGED <<svcSeen, childrenSeen, queued, timer, nsUsed>>
    BY DEF Lb!EnsureZone, Lb!ApplyResource, Lb!ApplyRecord
  <1>2. children' \in [Lb!Slots -> {children'[k] : k \in Lb!Slots}]
    <2>1. CASE children' = children
      BY <2>1 DEF LbInv
    <2>2. CASE \E j, c : children' = [children EXCEPT ![j] = c]
      BY <2>2, Zenon DEF LbInv
    <2> QED
      BY <2>1, <2>2 DEF Lb!EnsureZone, Lb!ApplyResource, Lb!ApplyRecord, Lb!Applied
  <1>3. /\ LbWorkerShape' /\ lbWorker'.step \in {"resource", "record", "prune"}
        /\ lbWorker'.step \in {"record", "prune"} => lbWorker'.desired # {}
    <2>1. CASE Lb!EnsureZone
      BY <2>1 DEF Lb!EnsureZone, LbInv, LbWorkerShape
    <2>2. CASE Lb!ApplyResource
      BY <2>2, Zenon DEF Lb!ApplyResource, LbInv, LbWorkerShape
    <2>3. CASE Lb!ApplyRecord
      BY <2>3, Zenon DEF Lb!ApplyRecord, LbInv, LbWorkerShape, LbWatched
    <2> QED
      BY <2>1, <2>2, <2>3
  <1>4. lbWorker' # Lb!Idle
    BY <1>3 DEF Lb!Idle
  <1> QED
    BY <1>1, <1>2, <1>3, <1>4 DEF LbInv, LbWatched

(* What prune does not see in the informer's list differs from it. *)
LEMMA LbPruneInv == ASSUME LbInv, Lb!Prune PROVE LbInv'
  <1>1. /\ UNCHANGED <<svcSeen, childrenSeen, queued, nsUsed>> /\ lbWorker' = Lb!Idle /\ lbWorker.step = "prune"
        /\ timer' = (timer \/ lbWorker.desired # {})
        /\ children' = Lb!Deleted(Lb!Pruned)
    BY DEF Lb!Prune
  <1>2. LbWorkerShape' /\ lbWorker'.step = "idle" /\ timer' \in BOOLEAN
    BY <1>1 DEF LbWorkerShape, Lb!Idle, LbInv
  <1>3. children' \in [Lb!Slots -> {children'[k] : k \in Lb!Slots}]
    BY <1>1 DEF Lb!Deleted
  <1>4. ASSUME svcSeen' # None, ~queued', ~timer' PROVE LbDecided'
    <2>1. lbWorker.desired = {} /\ nsUsed # None /\ ~Lb!Advertise(svcSeen, nsUsed)
      BY <1>1, <1>4, Zenon DEF LbInv, LbWatched
    <2>2. ~Lb!Advertise(svcSeen, nsUsed)'
      BY <1>1, <2>1
    <2>3. \A k \in Lb!Slots : k \notin Lb!Pruned => childrenSeen[k] = None
      BY <2>1 DEF Lb!Pruned
    <2>4. \A k \in Lb!Slots : children'[k] \notin {None, Lb!Dying} => childrenSeen'[k] # children'[k]
      BY <1>1, <2>3, LbDeleted DEF LbInv
    <2> QED
      BY <2>2, <2>4 DEF LbDecided
  <1>5. LbWatched'
    BY <1>2, <1>4 DEF LbWatched
  <1>6. queued' \in BOOLEAN
    BY <1>1 DEF LbInv
  <1> QED
    BY <1>2, <1>3, <1>5, <1>6 DEF LbInv

(* A failed reconcile is queued again, or comes back with the timer. *)
LEMMA LbCallFailsInv == ASSUME LbInv, Lb!CallFails PROVE LbInv'
  <1>1. /\ UNCHANGED svcSeen /\ lbWorker' = Lb!Idle
        /\ queued' = (queued \/ lbWorker.step # "zone") /\ timer' = (timer \/ lbWorker.step = "zone")
    BY DEF Lb!CallFails
  <1>2. LbWorkerShape' /\ lbWorker'.step = "idle"
    BY <1>1 DEF LbWorkerShape, Lb!Idle
  <1>3. queued' \in BOOLEAN /\ timer' \in BOOLEAN /\ (queued' \/ timer')
    BY <1>1, Zenon DEF LbInv
  <1>4. children' \in [Lb!Slots -> {children'[k] : k \in Lb!Slots}]
    <2>1. PICK done : children' = Lb!Deleted(done)
      BY DEF Lb!CallFails
    <2> QED
      BY <2>1 DEF Lb!Deleted
  <1> QED
    BY <1>2, <1>3, <1>4, SMTT(20) DEF LbInv, LbWatched

(* Every step keeps the invariant. *)
LEMMA LbInvNext == ASSUME LbInv, [Lb!Next]_(Lb!vars) PROVE LbInv'
  <1>1. CASE UNCHANGED Lb!vars
    <2>1. UNCHANGED <<svcSeen, children, childrenSeen, queued, timer, lbWorker, nsUsed>>
      BY <1>1 DEF Lb!vars
    <2>2. /\ LbDecided' <=> LbDecided
          /\ Lb!Advertise(svcSeen, nsUsed)' <=> Lb!Advertise(svcSeen, nsUsed)
      BY <2>1 DEF LbDecided
    <2>3. LbWorkerShape'
      BY <2>1 DEF LbInv, LbWorkerShape
    <2>4. LbWatched'
      BY <2>1, <2>2 DEF LbInv, LbWatched
    <2> QED
      BY <2>1, <2>3, <2>4 DEF LbInv
  <1> QED
    BY <1>1, LbEventInv, LbOthersInv, LbStartInv, LbApplyInv, LbPruneInv, LbCallFailsInv DEF Lb!Next,
       Lb!Step

(* LoadBalancerReconciler returns without a requeue when a Service is not  *)
(* advertised, has no address, or its Namespace is not found.  No wake-up  *)
(* is lost: when nothing is left that would bring it back, an advertised   *)
(* Service has no address, and another has no objects but ones that are    *)
(* being deleted, whatever changed or failed in between, unless its        *)
(* namespace has changed since or is not known yet.                        *)
THEOREM ServiceNotForgotten == Lb!Spec => []Lb!RestsSettled
  <1>1. Lb!Init => LbInv
    <2> SUFFICES ASSUME Lb!Init PROVE LbInv
      OBVIOUS
    <2>1. LbWorkerShape /\ lbWorker.step = "idle" /\ svcSeen = None /\ queued \in BOOLEAN /\ timer \in BOOLEAN
      BY Zenon DEF Lb!Init, LbWorkerShape, Lb!Idle
    <2>2. children \in [Lb!Slots -> {children[k] : k \in Lb!Slots}]
      BY DEF Lb!Init, Lb!Bare
    <2> QED
      BY <2>1, <2>2 DEF LbInv, LbWatched
  <1>2. LbInv /\ [Lb!Next]_(Lb!vars) => LbInv'
    BY LbInvNext
  <1>3. ASSUME LbInv, Lb!AtRest, svc # None, nsUsed = ns, ns # None
        PROVE  IF Lb!Advertise(svc, ns) THEN Lb!lbIngressAddresses(svc) = <<>>
               ELSE \A k \in Lb!Slots : children[k] \in {None, Lb!Dying}
    <2>1. LbDecided /\ svcSeen = svc /\ childrenSeen = children
      BY <1>3 DEF LbInv, LbWatched, Lb!AtRest
    <2>2. CASE Lb!Advertise(svc, ns)
      BY <1>3, <2>1, <2>2 DEF LbDecided
    <2>3. CASE ~Lb!Advertise(svc, ns)
      <3>1. \A k \in Lb!Slots : children[k] \in {None, Lb!Dying}
        BY <1>3, <2>1, <2>3, SMTT(20) DEF LbDecided
      <3> QED
        BY <2>3, <3>1
    <2> QED
      BY <2>2, <2>3
  <1>4. LbInv => Lb!RestsSettled
    BY <1>3 DEF Lb!RestsSettled
  <1> QED
    BY <1>1, <1>2, <1>4, PTL DEF Lb!Spec
=============================================================================
