---------------------------- MODULE KeyHandover ----------------------------
(***************************************************************************)
(* What a SetupKey promises its users, without informers, copies or the    *)
(* order of a reconcile: as long as nobody deletes the SetupKey, its       *)
(* Secret only ever receives the recorded key, and the operator never      *)
(* deletes a key that is recorded or that the Secret hands out.  Others    *)
(* may spoil the Secret and delete keys; such interference is counted.     *)
(***************************************************************************)
EXTENDS Naturals

CONSTANTS Keys, None, Garbled

VARIABLES recorded,     \* the id in the status, or None
          ending,       \* the SetupKey is being deleted, or is gone
          published,    \* the key in the Secret, Garbled, or None
          issued,       \* keys NetBird has handed out
          alive,        \* those of them that exist
          interference  \* what others did, and calls that failed

vars == <<recorded, ending, published, issued, alive, interference>>

Init ==
    /\ recorded = None /\ ~ending /\ published = None
    /\ issued = {} /\ alive = {} /\ interference = 0

Issue(k) ==
    /\ k \notin issued /\ issued' = issued \cup {k} /\ alive' = alive \cup {k}
    /\ UNCHANGED <<recorded, ending, published, interference>>

Record(k) ==
    /\ k \in issued /\ recorded' = k
    /\ UNCHANGED <<ending, published, issued, alive, interference>>

Publish(k) ==
    /\ k \in issued /\ published' = k
    /\ ending \/ k = recorded
    /\ UNCHANGED <<recorded, ending, issued, alive, interference>>

Retire(k) ==
    /\ ending \/ k \notin {recorded, published}
    /\ alive' = alive \ {k}
    /\ UNCHANGED <<recorded, ending, published, issued, interference>>

(* The user deletes the SetupKey; it goes, and its Secret is collected. *)
End ==
    /\ ending' = TRUE
    /\ UNCHANGED <<recorded, published, issued, alive, interference>>

Vanish ==
    /\ ending /\ recorded' = None
    /\ UNCHANGED <<ending, published, issued, alive, interference>>

Collect ==
    /\ ending /\ published' = None
    /\ UNCHANGED <<recorded, ending, issued, alive, interference>>

Interfere ==
    /\ interference' = interference + 1
    /\ \/ UNCHANGED <<published, alive>>
       \/ published' \in {None, Garbled} /\ UNCHANGED alive
       \/ (\E k \in Keys : alive' = alive \ {k}) /\ UNCHANGED published
    /\ UNCHANGED <<recorded, ending, issued>>

Next ==
    \/ \E k \in Keys : Issue(k) \/ Record(k) \/ Publish(k) \/ Retire(k)
    \/ End \/ Vanish \/ Collect \/ Interfere

Spec == Init /\ [][Next]_vars
=============================================================================
