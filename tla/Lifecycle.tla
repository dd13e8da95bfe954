------------------------------ MODULE Lifecycle ------------------------------
(***************************************************************************)
(* The process from its start to its end: main, RunInformers up to its     *)
(* select, the informers' first lists, the transformer workers, the sender *)
(* loop, and the signal that cancels the main context.  The cluster does   *)
(* not change meanwhile, and the indexer begins with the rows that an      *)
(* earlier process sent.                                                   *)
(*                                                                         *)
(* A payload that arrives makes the rows what the reconciler holds: that a *)
(* diff does so as well is shown of Reconciler and Sender.                 *)
(***************************************************************************)
EXTENDS Integers, FiniteSets

CONSTANTS
    Type,
    ItemsOf,       \* the resources of each type
    Worker,        \* the transformer routines
    None,
    TimeoutLimit,  \* bound on the first lists that take longer than ten seconds
    FaultLimit     \* bound on failed requests

Items(S) == UNION {ItemsOf[t] : t \in S}

ASSUME LifecycleAssumption ==
    /\ IsFiniteSet(Type) /\ IsFiniteSet(Items(Type)) /\ IsFiniteSet(Worker)
    /\ \A t, u \in Type : t # u => ItemsOf[t] \cap ItemsOf[u] = {}
    /\ None \notin Type \cup Items(Type) \cup [deleted : BOOLEAN, item : Items(Type)]
    /\ TimeoutLimit \in Nat /\ FaultLimit \in Nat

VARIABLES
    main,        \* waiting for the informers, serving, or exited
    cancelled,   \* the main context
    quiet,       \* the signal came outside of a send cycle
    running,     \* where RunInformers is
    supported,   \* the types that discovery returned
    waitingFor,  \* the informer that RunInformers waits for
    closes,      \* how often the channel informersInitialized was closed
    informer,    \* where each informer is
    listed,      \* what the current list of each informer handed over, {} between lists
    initialized, \* the informers that listed once
    indexed,     \* the informers' resource indexes together
    work,        \* the event that each worker has taken
    received,    \* the event the reconciler has received and not yet applied
    held,        \* the nodes in the reconciler
    removed,     \* what the informers deleted when they stopped
    sender,      \* where the send loop is
    initial,     \* the first payload
    rows,        \* what the indexer holds
    timeouts, faults

mainVars == <<main, cancelled, quiet>>
runVars == <<running, supported, waitingFor, closes, timeouts>>
informerVars == <<informer, listed, initialized, indexed>>
pipeVars == <<work, received, held, removed>>
sendVars == <<sender, initial, rows>>
vars == <<mainVars, runVars, informerVars, pipeVars, sendVars, faults>>

Up == main # "exited"

Fault == faults < FaultLimit /\ faults' = faults + 1

-----------------------------------------------------------------------------
(* The main routine and the signals.                                       *)

Signal ==
    /\ Up
    /\ ~cancelled
    /\ cancelled' = TRUE
    /\ quiet' = (sender # "cycle")
    /\ UNCHANGED <<main, runVars, informerVars, pipeVars, sendVars, faults>>

SecondSignal ==
    /\ Up
    /\ cancelled
    /\ main' = "exited"
    /\ UNCHANGED <<cancelled, quiet, runVars, informerVars, pipeVars, sendVars, faults>>

StartSender ==
    /\ Up
    /\ main = "waiting" /\ closes > 0
    /\ main' = "serving"
    /\ sender' = "loop"
    /\ UNCHANGED <<cancelled, quiet, runVars, informerVars, pipeVars, initial, rows, faults>>

\* Both routines of the wait group are done, or RunInformers failed.
Exit ==
    /\ Up
    /\ \/ main = "serving" /\ running = "returned" /\ sender = "returned"
       \/ running = "failed"
    /\ main' = "exited"
    /\ UNCHANGED <<cancelled, quiet, runVars, informerVars, pipeVars, sendVars, faults>>

-----------------------------------------------------------------------------
(* RunInformers.                                                           *)

CRDInformerSynced ==
    /\ Up
    /\ running = "crds"
    /\ running' = "discover"
    /\ UNCHANGED <<mainVars, supported, waitingFor, closes, timeouts, informerVars, pipeVars, sendVars, faults>>

\* The wait for the CRD informer ends with an error, and the channel is closed.
CRDInformerFails ==
    /\ Up
    /\ running = "crds" /\ cancelled
    /\ running' = "failed"
    /\ closes' = closes + 1
    /\ UNCHANGED <<mainVars, supported, waitingFor, timeouts, informerVars, pipeVars, sendVars, faults>>

\* A request that fails leaves a partial list, or none, and that is what is used.
Discover ==
    /\ Up
    /\ running = "discover"
    /\ running' = "sync"
    /\ \/ supported' = Type /\ UNCHANGED faults
       \/ supported' \in SUBSET Type /\ Fault
    /\ UNCHANGED <<mainVars, waitingFor, closes, timeouts, informerVars, pipeVars, sendVars>>

StartInformer(t) ==
    /\ Up
    /\ running = "sync" /\ waitingFor = None
    /\ t \in supported /\ informer[t] = "none"
    /\ informer' = [informer EXCEPT ![t] = "loop"]
    /\ waitingFor' = t
    /\ UNCHANGED <<mainVars, running, supported, closes, timeouts, listed, initialized, indexed,
                   pipeVars, sendVars, faults>>

WaitUntilInitialized ==
    /\ Up
    /\ waitingFor \in initialized
    /\ waitingFor' = None
    /\ UNCHANGED <<mainVars, running, supported, closes, timeouts, informerVars, pipeVars, sendVars, faults>>

\* Mutation: the wait for an informer has no limit.
NeverTimesOut == FALSE /\ UNCHANGED vars

\* After ten seconds the next informer is started; that an informer which was stopped
\* never lists is not counted as slow.
TimesOut ==
    /\ Up
    /\ waitingFor # None /\ waitingFor \notin initialized
    /\ \/ informer[waitingFor] = "stopped" /\ UNCHANGED timeouts
       \/ timeouts < TimeoutLimit /\ timeouts' = timeouts + 1
    /\ waitingFor' = None
    /\ UNCHANGED <<mainVars, running, supported, closes, informerVars, pipeVars, sendVars, faults>>

CloseInitialized ==
    /\ Up
    /\ running = "sync" /\ waitingFor = None
    /\ \A t \in supported : informer[t] # "none"
    /\ closes' = closes + 1
    /\ running' = "select"
    /\ UNCHANGED <<mainVars, supported, waitingFor, timeouts, informerVars, pipeVars, sendVars, faults>>

Return ==
    /\ Up
    /\ running = "select" /\ cancelled
    /\ running' = "returned"
    /\ UNCHANGED <<mainVars, supported, waitingFor, closes, timeouts, informerVars, pipeVars, sendVars, faults>>

-----------------------------------------------------------------------------
(* An informer.                                                            *)

StartList(t) ==
    /\ Up
    /\ informer[t] = "loop" /\ ~cancelled
    /\ informer' = [informer EXCEPT ![t] = "listing"]
    /\ UNCHANGED <<mainVars, runVars, listed, initialized, indexed, pipeVars, sendVars, faults>>

\* A worker takes an event from the unbuffered channel when it has no other one.
Take(w, i) ==
    /\ work[w] = None
    /\ work' = [work EXCEPT ![w] = i]

AddListed(t, i, w) ==
    /\ Up
    /\ informer[t] = "listing" /\ i \in ItemsOf[t] \ listed[t]
    /\ Take(w, i)
    /\ listed' = [listed EXCEPT ![t] = @ \cup {i}]
    /\ UNCHANGED <<mainVars, runVars, informer, initialized, indexed, received, held, removed, sendVars, faults>>

\* Mutation: an informer whose list fails is left alone.
ListFailsForGood(t) ==
    /\ Up
    /\ informer[t] = "listing"
    /\ Fault
    /\ informer' = [informer EXCEPT ![t] = "stopped"]
    /\ UNCHANGED <<mainVars, runVars, listed, initialized, indexed, pipeVars, sendVars>>

\* The list begins again, after a wait.
ListFails(t) ==
    /\ Up
    /\ informer[t] = "listing"
    /\ Fault
    /\ informer' = [informer EXCEPT ![t] = "loop"]
    /\ listed' = [listed EXCEPT ![t] = {}]
    /\ UNCHANGED <<mainVars, runVars, initialized, indexed, pipeVars, sendVars>>

\* Mutation: the informer counts as initialized before its list is complete.
EndListEarly(t) ==
    /\ Up
    /\ informer[t] = "listing"
    /\ initialized' = initialized \cup {t}
    /\ informer' = [informer EXCEPT ![t] = IF listed[t] = ItemsOf[t] THEN "watching" ELSE @]
    /\ UNCHANGED <<mainVars, runVars, listed, indexed, pipeVars, sendVars, faults>>

EndList(t) ==
    /\ Up
    /\ informer[t] = "listing" /\ listed[t] = ItemsOf[t]
    /\ initialized' = initialized \cup {t}
    /\ informer' = [informer EXCEPT ![t] = "watching"]
    /\ listed' = [listed EXCEPT ![t] = {}]
    /\ UNCHANGED <<mainVars, runVars, indexed, pipeVars, sendVars, faults>>

\* The watch begins with an event for everything that exists.
WatchAdds(t, i, w) ==
    /\ Up
    /\ informer[t] = "watching" /\ i \in ItemsOf[t] \ indexed
    /\ Take(w, i)
    /\ indexed' = indexed \cup {i}
    /\ UNCHANGED <<mainVars, runVars, informer, listed, initialized, received, held, removed, sendVars, faults>>

StopWatch(t) ==
    /\ Up
    /\ informer[t] = "watching" /\ cancelled
    /\ informer' = [informer EXCEPT ![t] = "loop"]
    /\ UNCHANGED <<mainVars, runVars, listed, initialized, indexed, pipeVars, sendVars, faults>>

\* The reconciler's Input is unbuffered too: the routine that receives has no other event.
Receive(deleted, i) ==
    /\ received = None
    /\ received' = [deleted |-> deleted, item |-> i]

\* A stopped informer deletes what it indexed, one after the other.
DeleteIndexed(t, i) ==
    /\ Up
    /\ informer[t] = "loop" /\ cancelled /\ i \in indexed \cap ItemsOf[t]
    /\ Receive(TRUE, i)
    /\ indexed' = indexed \ {i}
    /\ UNCHANGED <<mainVars, runVars, informer, listed, initialized, work, held, removed, sendVars, faults>>

StopInformer(t) ==
    /\ Up
    /\ informer[t] = "loop" /\ cancelled /\ indexed \cap ItemsOf[t] = {}
    /\ informer' = [informer EXCEPT ![t] = "stopped"]
    /\ UNCHANGED <<mainVars, runVars, listed, initialized, indexed, pipeVars, sendVars, faults>>

InformerStep(t) ==
    \/ StartList(t)
    \/ \E i \in ItemsOf[t], w \in Worker : AddListed(t, i, w) \/ WatchAdds(t, i, w)
    \/ EndList(t)
    \/ StopWatch(t)
    \/ \E i \in ItemsOf[t] : DeleteIndexed(t, i)
    \/ StopInformer(t)

-----------------------------------------------------------------------------
(* The workers, the reconciler's routine and the sender.                   *)

\* A worker hands its event over and is free to take another.
Deliver(w) ==
    /\ Up
    /\ work[w] # None
    /\ Receive(FALSE, work[w])
    /\ work' = [work EXCEPT ![w] = None]
    /\ UNCHANGED <<mainVars, runVars, informerVars, held, removed, sendVars, faults>>

\* What was received is applied under the reconciler's mutex, for which the sender may have
\* come first.  The reconciler remembers what was deleted, and drops what arrives for it.
ReconcileNode ==
    /\ Up
    /\ received # None
    /\ IF received.deleted
       THEN held' = held \ {received.item} /\ removed' = removed \cup {received.item}
       ELSE held' = held \cup ({received.item} \ removed) /\ UNCHANGED removed
    /\ received' = None
    /\ UNCHANGED <<mainVars, runVars, informerVars, work, sendVars, faults>>

\* Mutation: the context is not checked.
StartCycleUnchecked ==
    /\ Up
    /\ sender = "loop"
    /\ sender' = "cycle"
    /\ UNCHANGED <<mainVars, runVars, informerVars, pipeVars, initial, rows, faults>>

StartCycle ==
    /\ Up
    /\ sender = "loop" /\ ~cancelled
    /\ sender' = "cycle"
    /\ UNCHANGED <<mainVars, runVars, informerVars, pipeVars, initial, rows, faults>>

\* Sync, in which the reconciler is asked only once the cycle is under way.
Sync ==
    /\ Up
    /\ sender = "cycle"
    /\ \/ rows' = held /\ UNCHANGED faults
       \/ UNCHANGED rows /\ Fault
    /\ initial' = IF initial = None THEN held ELSE initial
    /\ sender' = "loop"
    /\ UNCHANGED <<mainVars, runVars, informerVars, pipeVars>>

LoopReturns ==
    /\ Up
    /\ sender = "loop" /\ cancelled
    /\ sender' = "returned"
    /\ UNCHANGED <<mainVars, runVars, informerVars, pipeVars, initial, rows, faults>>

-----------------------------------------------------------------------------
Init ==
    /\ main = "waiting" /\ cancelled = FALSE /\ quiet = FALSE
    /\ running = "crds" /\ supported = {} /\ waitingFor = None /\ closes = 0 /\ timeouts = 0
    /\ informer = [t \in Type |-> "none"]
    /\ listed = [t \in Type |-> {}]
    /\ initialized = {} /\ indexed = {}
    /\ work = [w \in Worker |-> None] /\ received = None
    /\ held = {} /\ removed = {}
    /\ sender = "none" /\ initial = None
    /\ rows = Items(Type)
    /\ faults = 0

RunStep ==
    \/ CRDInformerSynced
    \/ CRDInformerFails
    \/ Discover
    \/ \E t \in Type : StartInformer(t)
    \/ WaitUntilInitialized
    \/ TimesOut
    \/ CloseInitialized
    \/ Return

SenderStep == StartCycle \/ Sync \/ LoopReturns

Next ==
    \/ Signal \/ SecondSignal \/ StartSender \/ Exit
    \/ RunStep
    \/ \E t \in Type : InformerStep(t) \/ ListFails(t)
    \/ \E w \in Worker : Deliver(w)
    \/ ReconcileNode
    \/ SenderStep

\* Every routine goes on as long as it can.  Signals and faults may or may not come.
Fairness ==
    /\ WF_vars(StartSender) /\ WF_vars(Exit)
    /\ WF_vars(RunStep)
    /\ \A t \in Type : WF_vars(InformerStep(t))
    /\ \A w \in Worker : WF_vars(Deliver(w))
    /\ WF_vars(ReconcileNode)
    /\ WF_vars(SenderStep)

Spec == Init /\ [][Next]_vars /\ Fairness

-----------------------------------------------------------------------------
(* Properties.                                                             *)

\* The type invariant; the channel is closed at most once, as closing it again panics.
TypeOK ==
    /\ main \in {"waiting", "serving", "exited"} /\ {cancelled, quiet} \subseteq BOOLEAN
    /\ running \in {"crds", "discover", "sync", "select", "returned", "failed"}
    /\ supported \subseteq Type /\ waitingFor \in supported \cup {None}
    /\ closes \in 0..1
    /\ informer \in [Type -> {"none", "loop", "listing", "watching", "stopped"}]
    /\ listed \in [Type -> SUBSET Items(Type)]
    /\ initialized \subseteq supported /\ indexed \subseteq Items(initialized)
    /\ work \in [Worker -> Items(Type) \cup {None}]
    /\ received = None \/ received \in [deleted : BOOLEAN, item : Items(supported)]
    /\ held \subseteq Items(supported) /\ removed \subseteq Items(supported)
    /\ sender \in {"none", "loop", "cycle", "returned"}
    /\ initial = None \/ initial \subseteq Items(supported)
    /\ rows \subseteq Items(Type)
    /\ timeouts \in 0..TimeoutLimit /\ faults \in 0..FaultLimit

\* What an informer handed over and the reconciler has not applied: the workers' events and
\* the one received, since reconcileNode receives before it takes the mutex.
InFlight ==
    {work[w] : w \in Worker} \cup (IF received = None THEN {} ELSE {received.item})

\* Where no list was slow, what the first payload lacks is in flight when the sender asks for it.
InitialMissesInFlight ==
    sender = "cycle" /\ initial = None /\ timeouts = 0 /\ ~cancelled =>
        Items(supported) \ held \subseteq InFlight

\* The types, with the channel that is closed once, and the first payload.
LifecycleInv ==
    /\ TypeOK
    /\ InitialMissesInFlight

\* The deletions of the informers that a signal stops are sent only if the signal came
\* during a send cycle.
DeletionsNotSent == [][cancelled /\ quiet => rows \subseteq rows']_vars

\* The rows become those of the types that discovery returned.
RowsComplete == <>[](cancelled \/ rows = Items(supported))

\* After a signal the process exits.
ShutdownCompletes == cancelled ~> main = "exited"

\* The initial payload has the complete state of the cluster.
InitialPayloadComplete == initial # None => initial = Items(Type)
=============================================================================
