------------------------------ MODULE Handover ------------------------------
(***************************************************************************)
(* A resource type that goes and comes back: syncInformers cancels its     *)
(* informer and forgets it, and a later call starts another one, without   *)
(* waiting for the first to end.  Both then feed the same reconciler.      *)
(*                                                                         *)
(* The variables of Informer are those of the first informer; a second set *)
(* of them is its successor's.  The cluster and what is collected are      *)
(* shared.                                                                 *)
(***************************************************************************)
EXTENDS Informer

VARIABLES
    pc2, todo2, newIndex2, resourceIndex2, stream2, resyncCh2, stopping2,
    registered,   \* which informer the registry has: first, none or second
    relisted      \* the successor began its last list after the first had stopped

Second == INSTANCE Informer WITH
    pc <- pc2, todo <- todo2, newIndex <- newIndex2, resourceIndex <- resourceIndex2,
    stream <- stream2, resyncCh <- resyncCh2, stopping <- stopping2

firstVars == <<pc, todo, newIndex, resourceIndex, stream, resyncCh, stopping>>
secondVars == <<pc2, todo2, newIndex2, resourceIndex2, stream2, resyncCh2, stopping2>>
allVars == <<vars, secondVars, registered, relisted>>

HandoverInit ==
    /\ Init
    /\ pc2 = "off"
    /\ todo2 = {} /\ newIndex2 = {} /\ resourceIndex2 = {} /\ stream2 = <<>>
    /\ resyncCh2 = FALSE /\ stopping2 = FALSE
    /\ registered = "first"
    /\ relisted = FALSE

\* The type is not in the new list: the informer is cancelled and left to itself.
StopInformer ==
    /\ registered = "first"
    /\ registered' = "none"
    /\ Cancel
    /\ UNCHANGED <<secondVars, relisted>>

\* The type is in a later list, and has no informer.
StartInformer ==
    /\ registered = "none"
    /\ registered' = "second"
    /\ pc2' = "top"
    /\ UNCHANGED <<vars, todo2, newIndex2, resourceIndex2, stream2, resyncCh2, stopping2, relisted>>

\* Only a registered informer is asked to list again.
RequestResync ==
    /\ \/ registered = "first" /\ TriggerResync /\ UNCHANGED secondVars
       \/ registered = "second" /\ Second!TriggerResync /\ UNCHANGED firstVars
    /\ UNCHANGED <<registered, relisted>>

ClusterChanges(r) ==
    /\ \/ ClusterWrites(r) /\ Second!ClusterWrites(r)
       \/ ClusterDeletes(r) /\ Second!ClusterDeletes(r)
    /\ UNCHANGED <<registered, relisted>>

FirstStep ==
    /\ InformerStep \/ TakeResync \/ TakeStop
    /\ UNCHANGED <<secondVars, registered, relisted>>

FirstFails ==
    /\ ListFails \/ OpenFails \/ WatchEnds
    /\ UNCHANGED <<secondVars, registered, relisted>>

SecondStep ==
    /\ Second!InformerStep \/ Second!TakeResync
    /\ relisted' = IF pc2 = "wait" THEN pc = "stopped" ELSE relisted
    /\ UNCHANGED <<firstVars, registered>>

SecondFails ==
    /\ Second!ListFails \/ Second!OpenFails \/ Second!WatchEnds
    /\ UNCHANGED <<firstVars, registered, relisted>>

HandoverNext ==
    \/ \E r \in Resource : ClusterChanges(r)
    \/ StopInformer \/ StartInformer \/ RequestResync
    \/ FirstStep \/ FirstFails
    \/ SecondStep \/ SecondFails

HandoverSpec ==
    /\ HandoverInit /\ [][HandoverNext]_allVars
    /\ WF_allVars(FirstStep)
    /\ SF_allVars(TakeStop /\ UNCHANGED <<secondVars, registered, relisted>>)
    /\ WF_allVars(SecondStep)

-----------------------------------------------------------------------------
(* Properties.                                                             *)

\* The type invariant, of both informers; a successor is there when it is registered.
HandoverTypeOK ==
    /\ TypeOK
    /\ registered \in {"first", "none", "second"}
    /\ pc2 = "off" <=> registered # "second"
    /\ stopping <=> registered # "first"
    /\ pc2 # "off" => Second!TypeOK

\* A list that the successor makes once its predecessor has stopped restores whatever
\* that one has removed, before any event of the watch.
ListRepairs ==
    relisted /\ pc2 = "open" => \A r \in newIndex2 : collected[r] # None

\* A successor that has made such a list, and whose watch has caught up, has collected
\* every resource in its last version.
SuccessorCatchesUp ==
    relisted /\ pc2 = "watch" /\ stream2 = <<>> => \A r \in Live : collected[r] = cluster[r]

\* A cancelled informer ends although its successor works on the same resources.
PredecessorEnds == registered # "first" ~> pc = "stopped"

\* syncInformers keeps one informer of a type, "so that we don't end up with 2 informers":
\* once its predecessor has ended, a successor whose watch has caught up has collected
\* every resource of the type.
NothingLost ==
    pc = "stopped" /\ pc2 = "watch" /\ stream2 = <<>> => \A r \in Live : collected[r] # None
=============================================================================
