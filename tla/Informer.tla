------------------------------ MODULE Informer ------------------------------
(***************************************************************************)
(* One GenericInformer of pkg/informer/informer.go: a goroutine that lists *)
(* the resources of one kind, deletes what disappeared since the last      *)
(* list, opens a watch and handles its events until the watch ends, a      *)
(* resync is requested or the informer is stopped.                         *)
(*                                                                         *)
(* The API server is external.  A watch is opened without a                *)
(* resourceVersion, so it starts with an ADDED event for every resource    *)
(* that exists when it is opened; it says nothing about resources deleted  *)
(* before.  AddFunc, UpdateFunc and DeleteFunc are abstracted to their     *)
(* effect, in order, on what has been collected; Pipeline.tla models what  *)
(* happens to the events after that.                                       *)
(***************************************************************************)
EXTENDS Integers, Sequences, FiniteSets, SequencesExt

CONSTANTS
    Resource,     \* the UIDs of this kind
    MaxVersion,   \* bound on the resourceVersion of a resource
    Namespace,    \* namespaces
    NamespaceOf,  \* [Resource -> Namespace]
    FaultLimit,   \* bound on failed lists, failed and ended watches
    ResyncLimit,  \* bound on TriggerResync calls
    SelectLimit,  \* bound on changes of the namespace selection
    MayStop       \* TRUE if the informer may be stopped

ASSUME InformerAssumption ==
    /\ IsFiniteSet(Resource)
    /\ MaxVersion \in Nat \ {0}
    /\ NamespaceOf \in [Resource -> Namespace]
    /\ FaultLimit \in Nat /\ ResyncLimit \in Nat /\ SelectLimit \in Nat
    /\ MayStop \in BOOLEAN

VARIABLES
    cluster,        \* [Resource -> version, or 0 when it does not exist]
    retired,        \* the resources deleted from the cluster
    selected,       \* namespaces the CollectorConfig selects now
    nsCache,        \* nsFilterCache.allowed
    pc,             \* where Run is
    todo,           \* listed resources not yet added, as <<resource, version>>
    newIndex,       \* newResourceIndex of listAndResync
    resourceIndex,  \* the resources known from watch events
    stream,         \* events of the open watch not yet handled
    resyncCh,       \* TRUE when the buffered channel holds a signal
    stopping,       \* TRUE when the context is cancelled
    collected,      \* [Resource -> version added last, or 0]
    faults, resyncs, selects   \* counters for the bounds

clusterVars == <<cluster, retired, selected, nsCache, selects>>
requestVars == <<resyncCh, stopping, resyncs>>
vars == <<clusterVars, pc, todo, newIndex, resourceIndex, stream, requestVars,
          collected, faults>>

None == 0

WatchEvent ==
    [type : {"ADDED", "MODIFIED", "DELETED"}, res : Resource, ver : 1..MaxVersion]

Live == {r \in Resource : cluster[r] # None}

Init ==
    /\ cluster = [r \in Resource |-> None]
    /\ retired = {}
    /\ selected = Namespace
    /\ nsCache = Namespace
    /\ pc = "top"
    /\ todo = {}
    /\ newIndex = {}
    /\ resourceIndex = {}
    /\ stream = <<>>
    /\ resyncCh = FALSE
    /\ stopping = FALSE
    /\ collected = [r \in Resource |-> None]
    /\ faults = 0 /\ resyncs = 0 /\ selects = 0

\* isNamespaceAllowed, from the cached selection.
Allowed(r) == NamespaceOf[r] \in nsCache

Fault == faults < FaultLimit /\ faults' = faults + 1

-----------------------------------------------------------------------------
(* The cluster (external).                                                 *)

\* An open watch reports every change in order.
Report(type, r, v) ==
    stream' = IF pc = "watch" THEN Append(stream, [type |-> type, res |-> r, ver |-> v])
              ELSE stream

ClusterWrites(r) ==
    /\ r \notin retired
    /\ cluster[r] < MaxVersion
    /\ cluster' = [cluster EXCEPT ![r] = @ + 1]
    /\ Report(IF cluster[r] = None THEN "ADDED" ELSE "MODIFIED", r, cluster[r] + 1)
    /\ UNCHANGED <<retired, selected, nsCache, selects, pc, todo, newIndex,
                   resourceIndex, requestVars, collected, faults>>

ClusterDeletes(r) ==
    /\ cluster[r] # None
    /\ cluster' = [cluster EXCEPT ![r] = None]
    /\ retired' = retired \cup {r}
    /\ Report("DELETED", r, cluster[r])
    /\ UNCHANGED <<selected, nsCache, selects, pc, todo, newIndex, resourceIndex,
                   requestVars, collected, faults>>

SelectNamespaces(S) ==
    /\ selects < SelectLimit
    /\ selects' = selects + 1
    /\ selected' = S
    /\ UNCHANGED <<cluster, retired, nsCache, pc, todo, newIndex, resourceIndex,
                   stream, requestVars, collected, faults>>

\* namespaceFilterCache: its TTL has expired when some informer asks, or the
\* namespaces informer regenerates it.
RefreshNamespaces ==
    /\ nsCache # selected
    /\ nsCache' = selected
    /\ UNCHANGED <<cluster, retired, selected, selects, pc, todo, newIndex,
                   resourceIndex, stream, requestVars, collected, faults>>

-----------------------------------------------------------------------------
(* Requests from the rest of the collector.                                *)

\* Coalesced: the channel holds at most one signal.
TriggerResync ==
    /\ resyncs < ResyncLimit
    /\ resyncs' = resyncs + 1
    /\ resyncCh' = TRUE
    /\ UNCHANGED <<clusterVars, pc, todo, newIndex, resourceIndex, stream,
                   stopping, collected, faults>>

Cancel ==
    /\ MayStop
    /\ stopping' = TRUE
    /\ UNCHANGED <<clusterVars, pc, todo, newIndex, resourceIndex, stream,
                   resyncCh, resyncs, collected, faults>>

-----------------------------------------------------------------------------
(* listAndResync.                                                          *)

\* Run looks at the context before it waits out the backoff, and not again before it lists.
BackOff ==
    /\ pc = "top"
    /\ ~stopping
    /\ pc' = "wait"
    /\ UNCHANGED <<clusterVars, todo, newIndex, resourceIndex, stream, requestVars, collected, faults>>

\* The list is a snapshot, fetched in pages; its items are added one by one.
StartList ==
    /\ pc = "wait"
    /\ todo' = {<<r, cluster[r]>> : r \in Live}
    /\ newIndex' = {}
    /\ pc' = "list"
    /\ UNCHANGED <<clusterVars, resourceIndex, stream, requestVars, collected, faults>>

AddListed(item) ==
    /\ pc = "list"
    /\ todo' = todo \ {item}
    /\ IF Allowed(item[1])
       THEN /\ collected' = [collected EXCEPT ![item[1]] = item[2]]
            /\ newIndex' = newIndex \cup {item[1]}
       ELSE UNCHANGED <<collected, newIndex>>
    /\ UNCHANGED <<clusterVars, pc, resourceIndex, stream, requestVars, faults>>

\* Fetching the first or a later page fails.  What was added stays added.
ListFails ==
    /\ pc = "wait" \/ (pc = "list" /\ todo # {})
    /\ Fault
    /\ todo' = {}
    /\ pc' = "top"
    /\ UNCHANGED <<clusterVars, newIndex, resourceIndex, stream, requestVars, collected>>

\* What collected becomes when the resources in S are deleted.
Without(S) == [r \in Resource |-> IF r \in S THEN None ELSE collected[r]]

\* Mutation: what is deleted stays in the index.
DeleteUnlistedKeepsIndex ==
    /\ pc = "list"
    /\ todo = {}
    /\ collected' = Without(resourceIndex \ newIndex)
    /\ pc' = "open"
    /\ UNCHANGED <<clusterVars, todo, newIndex, resourceIndex, stream, requestVars, faults>>

\* All pages are read: delete what was indexed and is no longer listed.
DeleteUnlisted ==
    /\ pc = "list"
    /\ todo = {}
    /\ collected' = Without(resourceIndex \ newIndex)
    /\ resourceIndex' = resourceIndex \cap newIndex
    /\ pc' = "open"
    /\ UNCHANGED <<clusterVars, todo, newIndex, stream, requestVars, faults>>

-----------------------------------------------------------------------------
(* watch.                                                                  *)

\* Mutations: a watch that reports only what changes from now on, and one that
\* takes an early resync request for done.
OpenWatchFromNow ==
    /\ pc = "open"
    /\ stream' = <<>>
    /\ pc' = "watch"
    /\ UNCHANGED <<clusterVars, todo, newIndex, resourceIndex, requestVars, collected, faults>>

OpenWatchDrainsResync ==
    /\ pc = "open"
    /\ stream' = SetToSeq({[type |-> "ADDED", res |-> r, ver |-> cluster[r]] : r \in Live})
    /\ pc' = "watch"
    /\ resyncCh' = FALSE
    /\ UNCHANGED <<clusterVars, todo, newIndex, resourceIndex, stopping, resyncs, collected, faults>>

OpenWatch ==
    /\ pc = "open"
    /\ stream' = SetToSeq({[type |-> "ADDED", res |-> r, ver |-> cluster[r]] : r \in Live})
    /\ pc' = "watch"
    /\ UNCHANGED <<clusterVars, todo, newIndex, resourceIndex, requestVars, collected, faults>>

OpenFails ==
    /\ pc = "open"
    /\ Fault
    /\ pc' = "top"
    /\ UNCHANGED <<clusterVars, todo, newIndex, resourceIndex, stream, requestVars, collected>>

\* Mutation: the last event first.
HandleLastEvent ==
    /\ pc = "watch"
    /\ stream # <<>>
    /\ LET e == Last(stream)
       IN  IF ~Allowed(e.res) THEN UNCHANGED <<collected, resourceIndex>>
           ELSE IF e.type = "DELETED"
           THEN /\ collected' = Without({e.res})
                /\ resourceIndex' = resourceIndex \ {e.res}
           ELSE /\ collected' = [collected EXCEPT ![e.res] = e.ver]
                /\ resourceIndex' = resourceIndex \cup {e.res}
    /\ stream' = Front(stream)
    /\ UNCHANGED <<clusterVars, pc, todo, newIndex, requestVars, faults>>

\* An ADDED, MODIFIED or DELETED event.  One of a namespace that is not allowed
\* is dropped, whatever its type.
HandleEvent ==
    /\ pc = "watch"
    /\ stream # <<>>
    /\ LET e == Head(stream)
       IN  IF ~Allowed(e.res) THEN UNCHANGED <<collected, resourceIndex>>
           ELSE IF e.type = "DELETED"
           THEN /\ collected' = Without({e.res})
                /\ resourceIndex' = resourceIndex \ {e.res}
           ELSE /\ collected' = [collected EXCEPT ![e.res] = e.ver]
                /\ resourceIndex' = resourceIndex \cup {e.res}
    /\ stream' = Tail(stream)
    /\ UNCHANGED <<clusterVars, pc, todo, newIndex, requestVars, faults>>

LeaveWatch ==
    /\ pc = "watch"
    /\ pc' = "top"
    /\ stream' = <<>>
    /\ UNCHANGED <<clusterVars, todo, newIndex, resourceIndex, stopping, resyncs, collected>>

\* An ERROR event, an unexpected one, or the channel is closed.
WatchEnds == LeaveWatch /\ Fault /\ UNCHANGED resyncCh

TakeResync == LeaveWatch /\ resyncCh /\ resyncCh' = FALSE /\ UNCHANGED faults

TakeStop == LeaveWatch /\ stopping /\ UNCHANGED <<resyncCh, faults>>

\* Mutation: what was indexed stays collected.
StoppedKeepsAll ==
    /\ pc = "top"
    /\ stopping
    /\ pc' = "stopped"
    /\ UNCHANGED <<clusterVars, todo, newIndex, resourceIndex, stream, requestVars,
                   collected, faults>>

\* Run: the context is cancelled.  Everything indexed is deleted.
Stopped ==
    /\ pc = "top"
    /\ stopping
    /\ collected' = Without(resourceIndex)
    /\ pc' = "stopped"
    /\ UNCHANGED <<clusterVars, todo, newIndex, resourceIndex, stream, requestVars, faults>>

-----------------------------------------------------------------------------
InformerStep ==
    \/ BackOff
    \/ StartList
    \/ \E item \in todo : AddListed(item)
    \/ DeleteUnlisted
    \/ OpenWatch
    \/ HandleEvent
    \/ Stopped

Next ==
    \/ InformerStep
    \/ ListFails \/ OpenFails \/ WatchEnds \/ TakeResync \/ TakeStop
    \/ \E r \in Resource : ClusterWrites(r) \/ ClusterDeletes(r)
    \/ \E S \in SUBSET Namespace : SelectNamespaces(S)
    \/ RefreshNamespaces
    \/ TriggerResync
    \/ Cancel

Spec == Init /\ [][Next]_vars

\* The goroutine keeps running; a select with several ready channels takes each
\* of them in the end; the cache's TTL expires.
FairSpec ==
    /\ Spec
    /\ WF_vars(InformerStep)
    /\ WF_vars(TakeResync)
    /\ WF_vars(TakeStop)
    /\ WF_vars(RefreshNamespaces)

-----------------------------------------------------------------------------
(* Properties.                                                             *)

\* The type invariant.  Items of a list are left only while listing, events of a
\* watch only while watching.
TypeOK ==
    /\ cluster \in [Resource -> 0..MaxVersion]
    /\ collected \in [Resource -> 0..MaxVersion]
    /\ retired \cup newIndex \cup resourceIndex \subseteq Resource
    /\ selected \cup nsCache \subseteq Namespace
    /\ pc \in {"top", "wait", "list", "open", "watch", "stopped"}
    /\ todo \subseteq Resource \X (1..MaxVersion)
    /\ stream \in Seq(WatchEvent)
    /\ resyncCh \in BOOLEAN /\ stopping \in BOOLEAN
    /\ faults \in 0..FaultLimit
    /\ todo # {} => pc = "list"
    /\ stream # <<>> => pc = "watch"

\* The watch is open and every event it sent has been handled.
CaughtUp == pc = "watch" /\ stream = <<>>

\* With an unchanged selection, a watch that has caught up has collected every
\* resource of the cluster in its last version, whatever lists and watches
\* failed before and whatever changed between the list and the watch.
NothingMissed ==
    CaughtUp /\ selects = 0 => \A r \in Live : collected[r] = cluster[r]

\* Every indexed resource is collected, and when the watch has caught up every
\* resource of the cluster is indexed: its deletion, however it is missed, will
\* be noticed by the next list or undone when the informer stops.
IndexCoversCluster ==
    /\ pc # "stopped" => \A r \in resourceIndex : collected[r] # None
    /\ CaughtUp /\ selects = 0 => Live \subseteq resourceIndex

\* The types of the informer, and what its index covers.
InformerInv ==
    /\ TypeOK
    /\ IndexCoversCluster

\* The comment on listAndResync, "delete any resources that are still in our
\* cache, but no longer exist in the cluster": once the watch after a list has
\* caught up, nothing is left that the cluster does not have.
NoGhost == CaughtUp => \A r \in Resource \ Live : collected[r] = None

\* The informer delivers the versions of a resource in order: lists, replayed
\* and live watch events never take a resource back to an older version.
VersionsInOrder ==
    [][\A r \in Resource : collected'[r] # None => collected'[r] >= collected[r]]_vars

\* A requested resync is never lost: the informer lists again, also when the
\* request comes while it lists, opens a watch or fails to.
ResyncLists == resyncCh ~> (pc = "list" /\ ~resyncCh) \/ pc = "stopped"

\* A cancelled informer stops, whatever it was doing, and takes what it indexed
\* out of the collected state.
StopStops == stopping ~> (pc = "stopped" /\ \A r \in resourceIndex : collected[r] = None)

=============================================================================
