------------------------------ MODULE Pipeline ------------------------------
(***************************************************************************)
(* The way of an event from an informer to the reconciler.  The handlers   *)
(* of pkg/informer/runInformers.go stamp an event with the time in whole   *)
(* seconds.  Creations and updates go through one of several transformer   *)
(* goroutines (pkg/transforms/transformer.go) that all read one unbuffered *)
(* channel; deletions go to the reconciler directly.  So two events of one *)
(* resource, observed in order by one informer, may reach the reconciler   *)
(* in either order, and the reconciler has only their times to go by.      *)
(*                                                                         *)
(* The sender's part is reduced to its calls of Diff and Complete, at any  *)
(* time.                                                                   *)
(***************************************************************************)
EXTENDS Reconciler

CONSTANTS
    Workers,          \* number of transformer goroutines
    Untransformable,  \* the resource versions whose transformation panics
    MayReturn         \* resources that may be added again after a deletion

ASSUME WorkersAssumption == Workers \in Nat \ {0}
ASSUME UntransformableAssumption == Untransformable \subseteq UID \X Version
ASSUME MayReturnAssumption == MayReturn \subseteq UID

VARIABLES
    clock,     \* time.Now().Unix()
    observed,  \* [UID -> Version or Absent]: last version an informer saw
    latest,    \* [UID -> Version or Absent]: last of them that transforms, if any
    gone,      \* the resources whose deletion an informer saw
    inflight,  \* events on their way to the reconciler
    heldTime,  \* [UID -> Time or 0]: the time of the event currentNodes is from
    unordered  \* history: the resources of which an update overtook another

pipeVars == <<clock, observed, latest, gone, inflight, heldTime, unordered>>

vars == <<recVars, pipeVars>>

PipeInit ==
    /\ RecInit
    /\ \E t \in Time : clock = t
    /\ observed = [u \in UID |-> Absent]
    /\ latest = [u \in UID |-> Absent]
    /\ gone = {}
    /\ inflight = {}
    /\ heldTime = [u \in UID |-> 0]
    /\ unordered = {}

Upserts == {ne \in inflight : ne.op # "Delete"}

-----------------------------------------------------------------------------
(* The informers' handlers.                                                *)

\* The informer that observes u is inside DeleteFunc, which returns once the
\* reconciler has taken the event.
Deleting(u) == \E ne \in inflight : ne.uid = u /\ ne.op = "Delete"

\* Each worker has one event in hand; the channel between the handlers and the
\* workers has no buffer.
FreeWorker == Cardinality(Upserts) < Workers

\* AddFunc and UpdateFunc: a free worker takes the event.  A new list re-adds
\* resources whose version has not changed.  A UID is not reused, but a resource
\* that was deleted because its namespace or kind was deselected may return.
ObserveUpsert(u, v) ==
    LET ne == [uid |-> u,
               op |-> IF v = observed[u] \/ observed[u] = Absent
                      THEN "Create" ELSE "Update",
               ver |-> v, time |-> clock]
    IN  /\ u \in gone => u \in MayReturn
        /\ ~Deleting(u)
        /\ v >= observed[u]
        /\ FreeWorker
        /\ ne \notin inflight
        /\ inflight' = inflight \cup {ne}
        /\ observed' = [observed EXCEPT ![u] = v]
        /\ latest' = IF <<u, v>> \in Untransformable THEN latest
                     ELSE [latest EXCEPT ![u] = v]
        /\ gone' = gone \ {u}
        /\ UNCHANGED <<recVars, clock, heldTime, unordered>>

\* DeleteFunc: the event waits for the reconciler itself.
ObserveDelete(u) ==
    /\ u \notin gone
    /\ observed[u] # Absent
    /\ gone' = gone \cup {u}
    /\ inflight' = inflight \cup
          {[uid |-> u, op |-> "Delete", ver |-> Absent, time |-> clock]}
    /\ latest' = [latest EXCEPT ![u] = Absent]
    /\ UNCHANGED <<recVars, clock, observed, heldTime, unordered>>

-----------------------------------------------------------------------------
(* Transformer and reconciler.                                             *)

\* A transformation that panics drops the event; the worker is restarted.
WorkerPanics(ne) ==
    /\ <<ne.uid, ne.ver>> \in Untransformable
    /\ inflight' = inflight \ {ne}
    /\ UNCHANGED <<recVars, clock, observed, latest, gone, heldTime, unordered>>

\* An event that was observed before ne and is still with another worker.
Overtaken(ne) ==
    \E m \in Upserts : m.uid = ne.uid /\ ne.op # "Delete" /\ m.ver < ne.ver

\* The event reaches the reconciler.  It is received before the reconciler's mutex is taken,
\* and its worker is free by then; that is one step here, as an event that is received and
\* not applied yet is like one that one more worker has.
Deliver(ne) ==
    /\ <<ne.uid, ne.ver>> \notin Untransformable
    /\ inflight' = inflight \ {ne}
    /\ \/ IgnoreEvent(ne) /\ UNCHANGED heldTime
       \/ /\ DeleteNode(ne) \/ UpsertNode(ne)
          /\ heldTime' = [heldTime EXCEPT ![ne.uid] = ne.time]
    /\ unordered' = IF Overtaken(ne) THEN unordered \cup {ne.uid} ELSE unordered
    /\ UNCHANGED <<clock, observed, latest, gone>>

HandOutDiff == Diff /\ UNCHANGED pipeVars

HandOutComplete == Complete /\ UNCHANGED pipeVars

Tick ==
    /\ clock + 1 \in Time
    /\ clock' = clock + 1
    /\ UNCHANGED <<recVars, observed, latest, gone, inflight, heldTime, unordered>>

PipeNext ==
    \/ \E u \in UID, v \in Version : ObserveUpsert(u, v)
    \/ \E u \in UID : ObserveDelete(u)
    \/ \E ne \in inflight : WorkerPanics(ne) \/ Deliver(ne)
    \/ HandOutDiff
    \/ HandOutComplete
    \/ Tick

PipeSpec == PipeInit /\ [][PipeNext]_vars

-----------------------------------------------------------------------------
(* Properties.                                                             *)

\* The type invariant of the pipeline: among other things no more events are in
\* transformation than there are workers.
PipeTypeOK ==
    /\ clock \in Time
    /\ observed \in [UID -> MaybeVersion]
    /\ latest \in [UID -> MaybeVersion]
    /\ gone \subseteq UID
    /\ inflight \subseteq NodeEvent
    /\ Cardinality(Upserts) <= Workers
    /\ heldTime \in [UID -> Time \cup {0}]
    /\ unordered \subseteq UID

\* No resurrection: while purgedNodes remembers a deletion, the deleted resource
\* stays out of the held state, however late its older events come and whichever
\* worker they come from.
RememberedStaysDeleted ==
    \A u \in gone :
        purgedNodes[u].rank > 0 /\ ~Deleting(u) => currentNodes[u] = Absent

\* Times only grow: no event, pending difference or held node is from the
\* future.
TimesPast ==
    /\ \A ne \in inflight : ne.time <= clock
    /\ \A u \in UID : heldTime[u] <= clock
    /\ \A u \in UID : diffNodes[u] # NoEvent => diffNodes[u].time <= clock

\* The deletion of a resource that is under way is the last thing that was
\* observed of it.
DeleteIsLast ==
    \A d \in inflight : d.op = "Delete" =>
        /\ d.uid \in gone
        /\ \A ne \in inflight : ne.uid = d.uid => ne.time <= d.time
        /\ \A ne \in inflight : ne.uid = d.uid /\ ne.op = "Delete" => ne = d
        /\ heldTime[d.uid] <= d.time
        /\ diffNodes[d.uid] # NoEvent => diffNodes[d.uid].time <= d.time

\* A node that is held although its deletion is remembered is from after it.
HeldAfterPurge ==
    \A u \in UID : purgedNodes[u].rank > 0 /\ currentNodes[u] # Absent
                      => heldTime[u] > purgedNodes[u].time

\* What is still under way of a resource whose deletion is remembered is from
\* before the deletion.
LateEventsOld ==
    \A ne \in inflight :
        ne.uid \in gone /\ ~Deleting(ne.uid) /\ purgedNodes[ne.uid].rank > 0
        => ne.time <= purgedNodes[ne.uid].time

\* The inductive invariant behind RememberedStaysDeleted.
PurgeInv ==
    /\ RecTypeOK
    /\ clock \in Time
    /\ gone \subseteq UID
    /\ inflight \subseteq NodeEvent
    /\ heldTime \in [UID -> Time \cup {0}]
    /\ TimesPast
    /\ DeleteIsLast
    /\ HeldAfterPurge
    /\ LateEventsOld
    /\ RememberedStaysDeleted

\* Once the deletion of a resource has reached the reconciler it is remembered,
\* as long as no more resources are deleted than the cache holds: the events
\* that the reconciler ignores do not push a deletion out.
PurgeRemembers ==
    \A u \in gone :
        Cardinality(UID) <= PurgeLimit /\ ~Deleting(u) => purgedNodes[u].rank > 0

\* The types of the pipeline, and that deletions are remembered.
PipeInv ==
    /\ PipeTypeOK
    /\ PurgeRemembers

\* The resources whose deletion the cache remembers.
Remembered(cache) == {u \in UID : cache[u].rank > 0}

\* A cache that has room for all resources leaves no gap in its order: no entry
\* is further back than there are entries.
RanksWithin ==
    Cardinality(UID) <= PurgeLimit =>
        \A u \in UID : purgedNodes[u].rank <= Cardinality(Remembered(purgedNodes))

\* The inductive invariant behind PipeInv.
PipeIInv ==
    /\ PurgeInv
    /\ PipeInv
    /\ IsFiniteSet(inflight)
    /\ RanksWithin

\* What the reconciler holds for u is what the informers last saw of it.
HoldsLatestOf(u) ==
    IF latest[u] = Absent THEN currentNodes[u] = Absent
    ELSE /\ currentNodes[u] # Absent
         /\ PropsOf[u][currentNodes[u]] = PropsOf[u][latest[u]]

\* When no event is under way, the reconciler holds for every resource what the
\* informers last saw of it, through events of one second, deletions that overtake
\* updates, lists that repeat a version and transformations that panic.  The only
\* exception are resources of which one update overtook another.
HoldsLatest == inflight = {} => \A u \in UID \ unordered : HoldsLatestOf(u)

\* The circumstances under which the times and the comparison with what was
\* handed out are enough to settle on the latest version: no resource returns
\* after its deletion, the cache remembers all deletions, no change is taken back
\* by a later one, and the revision of a helm release does not fall.
EventsTellAll ==
    /\ MayReturn = {}
    /\ Cardinality(UID) <= PurgeLimit
    /\ \A u \in UID, v, w, x \in Version :
          v <= w /\ w <= x /\ PropsOf[u][v] = PropsOf[u][x] => PropsOf[u][w] = PropsOf[u][x]
    /\ \A u \in UID, v, w \in Version : v <= w => RevisionOf[u][v] <= RevisionOf[u][w]

\* What is known of a resource that was not deleted.
Known(u) ==
    /\ purgedNodes[u].rank = 0
    /\ diffNodes[u] # NoEvent => diffNodes[u].time = heldTime[u]
    /\ currentNodes[u] <= latest[u]
    /\ latest[u] <= observed[u]
    /\ <<u, latest[u]>> \notin Untransformable
    /\ \A m \in Upserts : m.uid = u =>
          /\ m.ver <= observed[u]
          /\ <<u, m.ver>> \notin Untransformable => m.ver <= latest[u]

\* What is known besides if no update of the resource overtook another: nothing
\* under way is older than what is held, and times order versions.
InOrder(u) ==
    /\ previousNodes[u] <= currentNodes[u]
    /\ \A m \in Upserts : m.uid = u =>
          /\ currentNodes[u] <= m.ver
          /\ heldTime[u] > m.time => m.ver <= currentNodes[u]
          /\ \A n \in Upserts : n.uid = u /\ m.time < n.time => m.ver <= n.ver

\* The latest version is held or under way.
SettlesOn(u) ==
    latest[u] # Absent =>
        HoldsLatestOf(u) \/ \E m \in Upserts : m.uid = u /\ m.ver = latest[u]

\* The inductive invariant behind HoldsLatest.
SettleInv ==
    /\ PipeIInv
    /\ \A u \in gone : latest[u] = Absent
    /\ \A u \in UID \ gone : Known(u)
    /\ \A u \in UID \ (gone \cup unordered) : InOrder(u) /\ SettlesOn(u)

\* The expectation of TestReconcilerOutOfOrderAdd ("inserted nodes out of order:
\* found stale data"): a held node is never replaced by one whose event has an
\* earlier time.
NeverOlderTime ==
    [][\A u \in UID :
          currentNodes[u] # Absent /\ currentNodes'[u] # Absent
          => heldTime'[u] >= heldTime[u]]_vars

=============================================================================
