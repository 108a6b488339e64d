------------------------------ MODULE MCStorage ------------------------------
(***************************************************************************)
(* Small instances of the components that keep blocks and remove them.     *)
(* They share no state here, so a behaviour is one of a single instance,   *)
(* picked by part: "pruned" and "archival" (EdsStore, on a node that       *)
(* prunes and on one that does not), "pruner" (Pruner on a node that is    *)
(* restarted once) and "modes" (Pruner on a shorter chain, on a node whose *)
(* operator sets or drops the archival flag at every start).               *)
(***************************************************************************)
EXTENDS EdsStore, Pruner, TLC

CONSTANTS p1, p2, g1, r1

VARIABLE part

\* The properties of EdsStore are the same on an archival node.
ArchivalStore == INSTANCE EdsStore WITH archival <- TRUE

allVars == <<part, vars, prunerVars>>

\* The components that do not move are in one initial state.
MCInit ==
    /\ part \in {"pruned", "archival", "pruner", "modes"}
    /\ IF part \in {"pruner", "modes"} THEN TRUE ELSE time = [h \in Heights |-> 0] /\ tail = 1 /\ head = 1
    /\ Init /\ PrunerInit
    /\ part = "modes" => head < MaxHeight /\ time[MaxHeight] = time[MaxHeight - 1]

MCNext ==
    \/ part = "pruned" /\ Next /\ UNCHANGED <<part, prunerVars>>
    \/ part = "archival" /\ ArchivalStore!Next /\ UNCHANGED <<part, prunerVars>>
    \/ part = "pruner" /\ PrunerNext /\ ~isArchival' /\ starts' < MaxStarts /\ UNCHANGED <<part, vars>>
    \/ part = "modes" /\ PrunerNext /\ head' < MaxHeight /\ UNCHANGED <<part, vars>>

MCSpec == MCInit /\ [][MCNext]_allVars

=============================================================================
