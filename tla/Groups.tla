------------------------------- MODULE Groups -------------------------------
(***************************************************************************)
(* The Group controller (group_controller.go) for one Group, and the       *)
(* NetBird groups it manages.  A group is read and then written back with  *)
(* the peers that were read; its deletion is refused while it is in use.   *)
(***************************************************************************)
EXTENDS Naturals

CONSTANTS Peers, None,
          MaxGroups,  \* bound: group ids NetBird hands out
          MaxFaults   \* bound: edits, failed calls, restarts, out-of-band changes

GroupIDs == 1..MaxGroups

GroupObject == [id: GroupIDs \cup {None}, deleting: BOOLEAN, finalizer: BOOLEAN]

ASSUME GroupBounds ==
    /\ MaxGroups \in Nat /\ MaxFaults \in Nat
    /\ None \notin GroupIDs /\ None \notin GroupObject /\ \A s \in SUBSET Peers : s # None

NewGroup    == [id |-> None, deleting |-> FALSE, finalizer |-> FALSE]

VARIABLES
    group, groupSeen,   \* the Group: etcd, informer
    groups, nextGroup,  \* NetBird: id -> peers, or None
    gworker,
    lostGroups,         \* history: groups no status names any more
    faults

groupVars == <<group, groupSeen, groups, nextGroup, gworker, lostGroups>>

GroupIdle == [step |-> "idle", old |-> None, id |-> None, peers |-> {}]

GroupInit ==
    /\ group = None /\ groupSeen = None
    /\ groups = [g \in GroupIDs |-> None] /\ nextGroup = 1
    /\ gworker = GroupIdle /\ lostGroups = {}

Spend == faults < MaxFaults /\ faults' = faults + 1

-----------------------------------------------------------------------------
DeliverGroup ==
    /\ groupSeen # group /\ groupSeen' = group
    /\ UNCHANGED <<group, groups, nextGroup, gworker, lostGroups, faults>>

(* A deletion of the Group; without a finalizer it is gone at once. *)
DeletedGroup ==
    IF group.finalizer THEN group' = [group EXCEPT !.deleting = TRUE] /\ UNCHANGED lostGroups
    ELSE group' = None /\ lostGroups' = lostGroups \cup ({group.id} \ {None})

(* The recorded group is read, with its peers; a 404 means a new one. *)
GetGroup(w) ==
    IF w.old # None /\ groups[w.old] # None THEN [w EXCEPT !.step = "update", !.peers = groups[w.old]]
    ELSE [w EXCEPT !.step = "create"]

StartGroup ==
    /\ gworker.step = "idle" /\ groupSeen # None
    /\ LET w == [GroupIdle EXCEPT !.old = groupSeen.id] IN
       gworker' = IF groupSeen.deleting THEN [w EXCEPT !.step = "delete"]
                  ELSE IF groupSeen.finalizer THEN GetGroup(w)
                  ELSE [w EXCEPT !.step = "finalize"]
    /\ UNCHANGED <<group, groupSeen, groups, nextGroup, lostGroups, faults>>

FinalizeGroup ==
    /\ gworker.step = "finalize"
    /\ IF group # None THEN group' = [group EXCEPT !.finalizer = TRUE] /\ gworker' = GetGroup(gworker)
       ELSE gworker' = GroupIdle /\ UNCHANGED group
    /\ UNCHANGED <<groupSeen, groups, nextGroup, lostGroups, faults>>

(* The request replaces the peers by those that were read. *)
UpdateRequest(w) == w.peers

(* The patch after an update finds nothing to send. *)
UpdateGroup ==
    /\ gworker.step = "update"
    /\ LET g == gworker.old IN
       IF groups[g] = None THEN gworker' = [gworker EXCEPT !.step = "create"] /\ UNCHANGED groups
       ELSE /\ groups' = [groups EXCEPT ![g] = UpdateRequest(gworker)]
            /\ gworker' = GroupIdle
    /\ UNCHANGED <<group, groupSeen, nextGroup, lostGroups, faults>>

CreateGroup ==
    /\ gworker.step = "create" /\ nextGroup <= MaxGroups
    /\ groups' = [groups EXCEPT ![nextGroup] = {}] /\ nextGroup' = nextGroup + 1
    /\ gworker' = [gworker EXCEPT !.step = "record", !.id = nextGroup]
    /\ UNCHANGED <<group, groupSeen, lostGroups, faults>>

(* The patch sends the new id.  A group is lost when the object is gone,   *)
(* or when the copy missed the id that is overwritten.                     *)
RecordGroup ==
    /\ gworker.step = "record" /\ gworker' = GroupIdle
    /\ IF group # None
       THEN /\ group' = [group EXCEPT !.id = gworker.id]
            /\ lostGroups' = lostGroups \cup ({group.id} \ {None, gworker.old})
       ELSE UNCHANGED group /\ lostGroups' = lostGroups \cup {gworker.id}
    /\ UNCHANGED <<groupSeen, groups, nextGroup, faults>>

(* IsConflict: NetBird refuses to delete a group that is in use. *)
IsConflict(g, inUse) == g # None /\ g \in inUse

(* Mutant: a group that is in use is given up. *)
DeleteGroup_givesUp(inUse) ==
    /\ gworker.step = "delete"
    /\ LET g == gworker.old IN
       /\ gworker' = [gworker EXCEPT !.step = "unfinalize"]
       /\ groups' = IF g = None \/ g \in inUse THEN groups ELSE [groups EXCEPT ![g] = None]
    /\ UNCHANGED <<group, groupSeen, nextGroup, lostGroups, faults>>

(* reconcileDelete: a conflict is retried, and the finalizer stays. *)
DeleteGroup(inUse) ==
    /\ gworker.step = "delete"
    /\ LET g == gworker.old IN
       IF IsConflict(g, inUse) THEN gworker' = GroupIdle /\ UNCHANGED groups
       ELSE /\ gworker' = [gworker EXCEPT !.step = "unfinalize"]
            /\ groups' = IF g = None THEN groups ELSE [groups EXCEPT ![g] = None]
    /\ UNCHANGED <<group, groupSeen, nextGroup, lostGroups, faults>>

(* An object made since the copy loses its finalizer. *)
UnfinalizeGroup ==
    /\ gworker.step = "unfinalize" /\ gworker' = GroupIdle
    /\ IF group # None /\ ~group.deleting
       THEN group' = [group EXCEPT !.finalizer = FALSE] /\ UNCHANGED lostGroups
       ELSE /\ group' = None
            /\ lostGroups' = lostGroups \cup
                               (IF group = None THEN {} ELSE {group.id} \ {None, gworker.old})
    /\ UNCHANGED <<groupSeen, groups, nextGroup, faults>>

GroupFails ==
    /\ gworker.step # "idle" /\ Spend /\ gworker' = GroupIdle
    /\ lostGroups' = lostGroups \cup
                       (IF gworker.step = "record" THEN {gworker.id} ELSE {})
    /\ UNCHANGED <<group, groupSeen, groups, nextGroup>>

GroupStep(inUse) ==
    \/ FinalizeGroup \/ UpdateGroup \/ CreateGroup \/ RecordGroup
    \/ DeleteGroup(inUse) \/ UnfinalizeGroup

GroupNext(inUse) == DeliverGroup \/ StartGroup \/ GroupStep(inUse) \/ GroupFails

-----------------------------------------------------------------------------
GroupWorker ==
    [step: {"idle", "finalize", "update", "create", "record", "delete", "unfinalize"},
     old: GroupIDs \cup {None}, id: GroupIDs \cup {None}, peers: SUBSET Peers]

GroupTypeOK ==
    /\ group \in GroupObject \cup {None} /\ groupSeen \in GroupObject \cup {None}
    /\ groups \in [GroupIDs -> (SUBSET Peers) \cup {None}] /\ nextGroup \in 1..(MaxGroups + 1)
    /\ gworker \in GroupWorker /\ lostGroups \subseteq GroupIDs

(* Every NetBird group is recorded by the Group, in the hands of the       *)
(* reconcile that created it, or lost to a failure between create and      *)
(* patch or to a copy that missed the recorded id: a Group is only         *)
(* released when its NetBird group is gone.                                *)
GroupsAccounted ==
    \A g \in GroupIDs : groups[g] # None =>
        \/ g \in lostGroups
        \/ group # None /\ group.id = g
        \/ gworker.step = "record" /\ gworker.id = g
=============================================================================
