----------------------------- MODULE Reconciler -----------------------------
(***************************************************************************)
(* The reconciler of pkg/reconciler/reconciler.go: the in-memory copy of   *)
(* the cluster's resources, what of it was last handed to the sender, and  *)
(* the differences between the two.                                        *)
(*                                                                         *)
(* A resource is identified by its UID.  The contents of a resource are    *)
(* abstracted to a version number; the constant functions PropsOf, RelOf,  *)
(* OwnerOf and RevisionOf say what the transformer extracts from a         *)
(* version.  Two versions may have equal properties: that is what the      *)
(* reconciler calls a redundant update.                                    *)
(*                                                                         *)
(* A Go map keyed by UID is a total function on UID, with Absent (or       *)
(* NoEvent) for the keys that are not in the map.  Every operation holds   *)
(* Reconciler.mutex from its first read to its last write, so each is one  *)
(* atomic action.                                                          *)
(***************************************************************************)
EXTENDS Integers, FiniteSets

CONSTANTS
    UID,         \* the resources' unique ids
    Version,     \* the versions a resource goes through, positive numbers
    Time,        \* event times in whole seconds, as time.Now().Unix() gives
    KindOf,      \* [UID -> Kind]: how the reconciler treats the resource
    PropsOf,     \* [UID -> [Version -> value]]: Node.Properties
    RelOf,       \* [UID -> [Version -> [UID -> RelType]]]: the related objects
    OwnerOf,     \* [UID -> [Version -> UID or NoOwner]]: Metadata["OwnerUID"]
    RevisionOf,  \* [UID -> [Version -> Nat]]: the revision of a helm release
    PurgeLimit,  \* CACHE_SIZE, the capacity of the purgedNodes cache
    NoOwner      \* a resource without an owner

(***************************************************************************)
(* The kinds the reconciler tells apart.  "App" is Application and         *)
(* Subscription, "Policy" the three policy kinds whose edge function also  *)
(* writes derived properties, "Compared" the other kinds whose related     *)
(* objects are compared (gatekeeper constraints, and the paramRef of a     *)
(* ValidatingAdmissionPolicyBinding), "Release" a helm release.            *)
(***************************************************************************)
Kind == {"App", "Policy", "Compared", "Release", "Other"}

\* How a version refers to another resource through its edge function.
RelType == {"none", "compliant", "noncompliant"}

EdgeType == {"ownedBy", "compliant", "noncompliant"}

Absent == 0

ASSUME VersionAssumption == Version \subseteq Nat \ {Absent}
ASSUME TimeAssumption == Time \subseteq Nat
ASSUME PurgeLimitAssumption == PurgeLimit \in Nat \ {0}
ASSUME NoOwnerAssumption == NoOwner \notin UID
ASSUME UIDAssumption == IsFiniteSet(UID)
ASSUME ContentAssumption ==
    /\ KindOf \in [UID -> Kind]
    /\ DOMAIN PropsOf = UID
    /\ RelOf \in [UID -> [Version -> [UID -> RelType]]]
    /\ OwnerOf \in [UID -> [Version -> UID \cup {NoOwner}]]
    /\ RevisionOf \in [UID -> [Version -> Nat]]

VARIABLES
    currentNodes,   \* [UID -> Version or Absent]
    previousNodes,  \* [UID -> Version or Absent]: what was last handed out
    missing,        \* Properties["_missingResources"] of the previousNodes
    diffNodes,      \* [UID -> NodeEvent or NoEvent]
    edgeFuncs,      \* [UID -> Version or Absent]: the version a closure is from
    previousEdges,  \* the edges last handed out
    totalEdges,     \* their number, cached
    purgedNodes     \* the LRU cache of deleted nodes, see PurgeEntry

recVars == <<currentNodes, previousNodes, missing, diffNodes, edgeFuncs,
             previousEdges, totalEdges, purgedNodes>>

-----------------------------------------------------------------------------
(* Data.                                                                   *)

MaybeVersion == Version \cup {Absent}

\* An event as a transformer worker or the delete handler sends it.  A delete
\* event carries only the UID.
NodeEvent ==
    [uid : UID, op : {"Create", "Update"}, ver : Version, time : Time] \cup
    [uid : UID, op : {"Delete"}, ver : {Absent}, time : Time]

NoEvent == [op |-> "None", ver |-> Absent]

Edge == [src : UID, dst : UID, type : EdgeType]

Pairs(edges) == {<<e.src, e.dst>> : e \in edges}

\* A node as it is sent: with the properties derived by its edge function.
Node == [uid : UID, ver : Version, missing : SUBSET UID]

\* rank 0: not in the cache; rank 1: the most recently used entry.
PurgeEntry == [rank : 0..PurgeLimit, time : Time \cup {0}]

Present(nodes) == {u \in UID : nodes[u] # Absent}

-----------------------------------------------------------------------------
(* Edges.                                                                  *)

\* The owner recorded in the metadata of a node of the node store.
Owner(nodes, u) == IF nodes[u] = Absent THEN NoOwner ELSE OwnerOf[u][nodes[u]]

\* A set of UIDs that following owners from u cannot leave.  edgesByOwner
\* follows the owner of every node it finds in the store, and stops at u.
OwnerClosed(nodes, u, S) ==
    \A x \in S \ {u} : Owner(nodes, x) \in UID => Owner(nodes, x) \in S

\* The nodes edgesByOwner links u to: its owner, the owner's owner and so on,
\* as far as the chain stays inside the node store.
OwnersInStore(nodes, u) ==
    {t \in Present(nodes) \ {u} :
        /\ Owner(nodes, u) \in UID
        /\ \A S \in SUBSET UID :
              Owner(nodes, u) \in S /\ OwnerClosed(nodes, u, S) => t \in S}

\* The type of the edge from u to t.  The edge function's edges are appended
\* before the common ones, so an ownedBy edge overwrites another to the same
\* destination.
LinkType(funcs, nodes, u, t) ==
    IF t \in OwnersInStore(nodes, u) THEN "ownedBy" ELSE RelOf[u][funcs[u]][t]

\* allEdges: every edge function of the map, run on the current node store.
\* At most one edge for each source and destination.
AllEdges(funcs, nodes) ==
    {e \in Edge : /\ funcs[e.src] # Absent
                  /\ nodes[e.dst] # Absent
                  /\ e.type = LinkType(funcs, nodes, e.src, e.dst)}

\* The related objects of a policy that the node store does not hold: its edge
\* function writes them into the node's own Properties.
MissingAfter(funcs, nodes) ==
    [u \in UID |->
        IF funcs[u] # Absent /\ KindOf[u] = "Policy"
        THEN {t \in UID : RelOf[u][funcs[u]][t] # "none" /\ nodes[t] = Absent}
        ELSE {}]

-----------------------------------------------------------------------------
(* The purgedNodes cache (groupcache/lru).                                 *)

\* Moves the entry of u to the front, shifting those that were before it.
ToFront(cache, u) ==
    [x \in UID |->
        IF x = u THEN 1
        ELSE IF cache[x].rank > 0
                /\ (cache[u].rank = 0 \/ cache[x].rank < cache[u].rank)
             THEN cache[x].rank + 1
             ELSE cache[x].rank]

\* Get: a hit refreshes the entry.
PurgeGet(cache, u) ==
    IF cache[u].rank = 0 THEN cache
    ELSE [x \in UID |-> [cache[x] EXCEPT !.rank = ToFront(cache, u)[x]]]

\* Mutation: one entry too few.
PurgeAddKeepsOneLess(cache, u, time) ==
    [x \in UID |->
        IF ToFront(cache, u)[x] >= PurgeLimit THEN [rank |-> 0, time |-> 0]
        ELSE [rank |-> ToFront(cache, u)[x],
              time |-> IF x = u THEN time ELSE cache[x].time]]

\* Add: a new entry may push the least recently used one out.
PurgeAdd(cache, u, time) ==
    [x \in UID |->
        IF ToFront(cache, u)[x] > PurgeLimit THEN [rank |-> 0, time |-> 0]
        ELSE [rank |-> ToFront(cache, u)[x],
              time |-> IF x = u THEN time ELSE cache[x].time]]

-----------------------------------------------------------------------------
(* reconcileNode.                                                          *)

\* Mutation: an event of the same second counts as older.
NewerInDiffOrSame(ne) ==
    diffNodes[ne.uid] # NoEvent /\ diffNodes[ne.uid].time >= ne.time

\* The pending difference of the resource is newer than the event.
NewerInDiff(ne) ==
    diffNodes[ne.uid] # NoEvent /\ diffNodes[ne.uid].time > ne.time

\* Mutation: an event of the second of the deletion counts as newer.
PurgedAfter(ne) ==
    purgedNodes[ne.uid].rank > 0 /\ purgedNodes[ne.uid].time > ne.time

\* The resource was deleted at the time of the event or later.
PurgedSince(ne) ==
    purgedNodes[ne.uid].rank > 0 /\ purgedNodes[ne.uid].time >= ne.time

\* reflect.DeepEqual on Properties.  The node handed out before may hold the
\* derived properties _missingResources and _nonCompliantResources, which the
\* event does not have.
SameProperties(u, ver) ==
    /\ PropsOf[u][ver] = PropsOf[u][previousNodes[u]]
    /\ KindOf[u] = "Policy" =>
          /\ missing[u] = {}
          /\ \A t \in UID : RelOf[u][previousNodes[u]][t] # "noncompliant"

\* An upsert that adds nothing to what was handed out last.
Redundant(u, ver) ==
    /\ previousNodes[u] # Absent
    /\ SameProperties(u, ver)
    /\ KindOf[u] # "App"
    /\ KindOf[u] \in {"Policy", "Compared"} =>
          RelOf[u][ver] = RelOf[u][previousNodes[u]]

\* A helm release event of a revision below the one handed out or held.
OldRevision(u, ver) ==
    /\ KindOf[u] = "Release"
    /\ \E nodes \in {previousNodes, currentNodes} :
          nodes[u] # Absent /\ RevisionOf[u][nodes[u]] > RevisionOf[u][ver]

\* The early returns.  The lookup in purgedNodes has refreshed its entry.
IgnoreEvent(ne) ==
    /\ \/ NewerInDiff(ne)
       \/ PurgedSince(ne)
       \/ ne.op # "Delete" /\ (Redundant(ne.uid, ne.ver) \/ OldRevision(ne.uid, ne.ver))
    /\ purgedNodes' = PurgeGet(purgedNodes, ne.uid)
    /\ UNCHANGED <<currentNodes, previousNodes, missing, diffNodes, edgeFuncs,
                   previousEdges, totalEdges>>

\* A deletion is left to send only if the node was ever handed out.
PendingDelete(ne) == IF previousNodes[ne.uid] # Absent THEN ne ELSE NoEvent

\* What the difference calls a creation or update depends only on what was
\* handed out before.
PendingUpsert(ne) ==
    [ne EXCEPT !.op = IF previousNodes[ne.uid] # Absent THEN "Update" ELSE "Create"]

\* A delete event: forget the node and remember that it was deleted.
DeleteNode(ne) ==
    /\ ne.op = "Delete"
    /\ ~NewerInDiff(ne)
    /\ ~PurgedSince(ne)
    /\ currentNodes' = [currentNodes EXCEPT ![ne.uid] = Absent]
    /\ edgeFuncs' = [edgeFuncs EXCEPT ![ne.uid] = Absent]
    /\ purgedNodes' = PurgeAdd(purgedNodes, ne.uid, ne.time)
    /\ diffNodes' = [diffNodes EXCEPT ![ne.uid] = PendingDelete(ne)]
    /\ UNCHANGED <<previousNodes, missing, previousEdges, totalEdges>>

\* A create or update event that is neither out of date nor redundant.
UpsertNode(ne) ==
    /\ ne.op # "Delete"
    /\ ~NewerInDiff(ne)
    /\ ~PurgedSince(ne)
    /\ ~Redundant(ne.uid, ne.ver)
    /\ ~OldRevision(ne.uid, ne.ver)
    /\ purgedNodes' = PurgeGet(purgedNodes, ne.uid)
    /\ currentNodes' = [currentNodes EXCEPT ![ne.uid] = ne.ver]
    /\ edgeFuncs' = [edgeFuncs EXCEPT ![ne.uid] = ne.ver]
    /\ diffNodes' = [diffNodes EXCEPT ![ne.uid] = PendingUpsert(ne)]
    /\ UNCHANGED <<previousNodes, missing, previousEdges, totalEdges>>

ReconcileNode(ne) == IgnoreEvent(ne) \/ DeleteNode(ne) \/ UpsertNode(ne)

-----------------------------------------------------------------------------
(* Diff and Complete.                                                      *)

\* Mutation: updates alone do not count as a difference.
NothingCreatedOrDeleted == \A u \in UID : diffNodes[u].op \notin {"Create", "Delete"}

DiffEmpty == \A u \in UID : diffNodes[u] = NoEvent

NewEdges == AllEdges(edgeFuncs, currentNodes)

NewMissing == MissingAfter(edgeFuncs, currentNodes)

\* The UIDs with a pending difference of this operation.
DiffOf(op) == {u \in UID : diffNodes[u].op = op}

DiffNodesOf(op) ==
    {[uid |-> u, ver |-> diffNodes[u].ver, missing |-> NewMissing[u]] : u \in DiffOf(op)}

\* Mutation: the early return leaves the total of the edges at zero.
NoChangeWithoutTotal(nodeCount, edgeCount) ==
    [clearAll |-> FALSE, add |-> {}, update |-> {}, delete |-> {},
     addEdges |-> {}, deleteEdges |-> {},
     totalNodes |-> nodeCount, totalEdges |-> 0]

NoChange(nodeCount, edgeCount) ==
    [clearAll |-> FALSE, add |-> {}, update |-> {}, delete |-> {},
     addEdges |-> {}, deleteEdges |-> {},
     totalNodes |-> nodeCount, totalEdges |-> edgeCount]

\* What Diff returns.  Without pending differences the edges are not rebuilt
\* and the cached number of edges is returned.  An edge is compared by its
\* source and destination; one that goes away with a deleted node is left to
\* the indexer.
DiffResult ==
    IF DiffEmpty
    THEN NoChange(Cardinality(Present(currentNodes)), totalEdges)
    ELSE [clearAll |-> FALSE,
          add |-> DiffNodesOf("Create"),
          update |-> DiffNodesOf("Update"),
          delete |-> DiffOf("Delete"),
          addEdges |-> {e \in NewEdges : <<e.src, e.dst>> \notin Pairs(previousEdges)},
          deleteEdges |->
              {e \in previousEdges : /\ <<e.src, e.dst>> \notin Pairs(NewEdges)
                                     /\ e.src \notin DiffOf("Delete")
                                     /\ e.dst \notin DiffOf("Delete")},
          totalNodes |-> Cardinality(Present(currentNodes)),
          totalEdges |-> Cardinality(NewEdges)]

\* What Complete returns.
CompleteResult ==
    [clearAll |-> TRUE,
     add |-> {[uid |-> u, ver |-> currentNodes[u], missing |-> NewMissing[u]] :
                  u \in Present(currentNodes)},
     update |-> {}, delete |-> {},
     addEdges |-> NewEdges, deleteEdges |-> {},
     totalNodes |-> Cardinality(Present(currentNodes)),
     totalEdges |-> Cardinality(NewEdges)]

\* Mutation: the cached total is not refreshed.
HandOutKeepsTotal ==
    /\ previousEdges' = NewEdges
    /\ missing' = NewMissing
    /\ diffNodes' = [u \in UID |-> NoEvent]
    /\ previousNodes' = currentNodes
    /\ UNCHANGED <<currentNodes, edgeFuncs, totalEdges, purgedNodes>>

\* resetDiffs, after allEdges has replaced the edges: what is held now is what
\* the next difference starts from.
HandOut ==
    /\ previousEdges' = NewEdges
    /\ totalEdges' = Cardinality(NewEdges)
    /\ missing' = NewMissing
    /\ diffNodes' = [u \in UID |-> NoEvent]
    /\ previousNodes' = currentNodes
    /\ UNCHANGED <<currentNodes, edgeFuncs, purgedNodes>>

Diff == IF DiffEmpty THEN UNCHANGED recVars ELSE HandOut

Complete == HandOut

-----------------------------------------------------------------------------
(* The reconciler on its own: events of any time in any order, and a       *)
(* sender that asks whenever it likes.                                     *)

RecInit ==
    /\ currentNodes = [u \in UID |-> Absent]
    /\ previousNodes = [u \in UID |-> Absent]
    /\ missing = [u \in UID |-> {}]
    /\ diffNodes = [u \in UID |-> NoEvent]
    /\ edgeFuncs = [u \in UID |-> Absent]
    /\ previousEdges = {}
    /\ totalEdges = 0
    /\ purgedNodes = [u \in UID |-> [rank |-> 0, time |-> 0]]

RecNext ==
    \/ \E ne \in NodeEvent : ReconcileNode(ne)
    \/ Diff
    \/ Complete

RecSpec == RecInit /\ [][RecNext]_recVars

-----------------------------------------------------------------------------
(* Properties.                                                             *)

\* The type invariant: what each field of the Reconciler struct may hold.  The
\* purgedNodes cache never holds more than its capacity.
RecTypeOK ==
    /\ currentNodes \in [UID -> MaybeVersion]
    /\ previousNodes \in [UID -> MaybeVersion]
    /\ missing \in [UID -> SUBSET UID]
    /\ diffNodes \in [UID -> NodeEvent \cup {NoEvent}]
    /\ edgeFuncs \in [UID -> MaybeVersion]
    /\ previousEdges \subseteq Edge
    /\ totalEdges \in Nat
    /\ purgedNodes \in [UID -> PurgeEntry]

\* The bookkeeping of reconcileNode, whatever the order of events: the pending
\* differences are exactly the differences between what was handed out and what
\* is held.  A creation is of a node the indexer has not, an update and a
\* deletion of one it has, and where nothing is pending nothing differs.
PendingMatchesState ==
    \A u \in UID :
        /\ diffNodes[u].op = "None" => currentNodes[u] = previousNodes[u]
        /\ diffNodes[u].op \in {"Create", "Update"} => currentNodes[u] = diffNodes[u].ver
        /\ diffNodes[u].op = "Delete" => currentNodes[u] = Absent
        /\ diffNodes[u].op = "Create" => previousNodes[u] = Absent
        /\ diffNodes[u].op \in {"Update", "Delete"} => previousNodes[u] # Absent

\* Every edge function belongs to a node that is held, and the other way round:
\* allEdges calls the function of every node and reads the node of every
\* function, and panics when one of the two is missing.
EdgeFuncsOfCurrent == edgeFuncs = currentNodes

\* The edges handed out are the edges of the nodes handed out, and the cached
\* total is their number.  So Diff may compare against previousEdges, and its
\* early return may use the cached total.
PreviousEdgesExact ==
    /\ previousEdges = AllEdges(previousNodes, previousNodes)
    /\ totalEdges = Cardinality(previousEdges)

\* The inductive invariant behind the results about Diff.
RecInv ==
    /\ RecTypeOK
    /\ PendingMatchesState
    /\ EdgeFuncsOfCurrent
    /\ PreviousEdgesExact

\* What a consumer that had the nodes of the last hand-out has after the diff.
NodesAfter(nodes, p) ==
    [u \in UID |->
        IF u \in p.delete THEN Absent
        ELSE IF \E n \in p.add \cup p.update : n.uid = u
             THEN (CHOOSE n \in p.add \cup p.update : n.uid = u).ver
             ELSE nodes[u]]

\* ... and the edges: a deleted node takes its edges with it.
EdgesAfter(edges, p) ==
    {e \in edges : e.src \notin p.delete /\ e.dst \notin p.delete /\ e \notin p.deleteEdges}
        \cup p.addEdges

\* Diff is complete: the nodes last handed out, changed by what Diff returns,
\* are the nodes held now, and the source and destination pairs of the edges
\* follow.
DiffReachesCurrent ==
    \A diff \in {DiffResult} :
        /\ NodesAfter(previousNodes, diff) = currentNodes
        /\ Pairs(EdgesAfter(previousEdges, diff)) = Pairs(NewEdges)

\* The totals sent with a diff are those a consumer gets that applies the diff:
\* send takes any other total for a failure.
DiffTotalsExact ==
    \A diff \in {DiffResult} :
        /\ diff.totalNodes = Cardinality(Present(NodesAfter(previousNodes, diff)))
        /\ diff.totalEdges = Cardinality(EdgesAfter(previousEdges, diff))

\* The comment on Diff, "Returns the diff between the current and previous
\* states", read for whole edges: the edges last handed out, changed by what
\* Diff returns, are the edges held now, their types included.
DiffReachesEdgeTypes ==
    EdgesAfter(previousEdges, DiffResult) = NewEdges

\* The same comment, read for the properties that the edge builders derive: a policy whose
\* missing resources are others than those handed out with it is part of the diff.
DiffReachesDerived ==
    \A u \in Present(currentNodes) :
        NewMissing[u] # missing[u] => \E n \in DiffResult.add \cup DiffResult.update : n.uid = u

=============================================================================
