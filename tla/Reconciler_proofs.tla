------------------------- MODULE Reconciler_proofs -------------------------
(***************************************************************************)
(* Proofs about the reconciler, for every set of resources, every content  *)
(* and every capacity of the purgedNodes cache.                            *)
(***************************************************************************)
EXTENDS Reconciler, FiniteSetTheorems, TLAPS

-----------------------------------------------------------------------------
(* The purgedNodes cache keeps its type.                                   *)

\* A rank given by ToFront is a natural number.
LEMMA ToFrontType ==
    ASSUME NEW cache \in [UID -> PurgeEntry], NEW u \in UID
    PROVE  ToFront(cache, u) \in [UID -> Nat]
BY DEF ToFront, PurgeEntry

\* A lookup leaves a cache.
LEMMA PurgeGetType ==
    ASSUME NEW cache \in [UID -> PurgeEntry], NEW u \in UID
    PROVE  PurgeGet(cache, u) \in [UID -> PurgeEntry]
<1>1. CASE cache[u].rank = 0
  BY <1>1 DEF PurgeGet
<1>2. CASE cache[u].rank # 0
  <2>1. ASSUME NEW x \in UID PROVE ToFront(cache, u)[x] \in 0..PurgeLimit
    <3>1. cache[x].rank \in 0..PurgeLimit /\ cache[u].rank \in 1..PurgeLimit
      BY <1>2, PurgeLimitAssumption DEF PurgeEntry
    <3> QED BY <1>2, <3>1, PurgeLimitAssumption DEF ToFront
  <2> QED BY <1>2, <2>1 DEF PurgeGet, PurgeEntry
<1> QED BY <1>1, <1>2

\* An addition leaves a cache.
LEMMA PurgeAddType ==
    ASSUME NEW cache \in [UID -> PurgeEntry], NEW u \in UID, NEW t \in Time
    PROVE  PurgeAdd(cache, u, t) \in [UID -> PurgeEntry]
<1>1. ASSUME NEW x \in UID, ~(ToFront(cache, u)[x] > PurgeLimit)
      PROVE  ToFront(cache, u)[x] \in 0..PurgeLimit
  BY <1>1, ToFrontType, PurgeLimitAssumption
<1> QED BY <1>1, PurgeLimitAssumption DEF PurgeAdd, PurgeEntry

-----------------------------------------------------------------------------
(* Edges.                                                                  *)

\* There are finitely many edges, so the total that allEdges counts is a number.
LEMMA EdgeFinite == IsFiniteSet(Edge)
<1> DEFINE f == [p \in (UID \X UID) \X EdgeType |->
                    [src |-> p[1][1], dst |-> p[1][2], type |-> p[2]]]
<1>1. IsFiniteSet(UID \X UID)
  BY UIDAssumption, FS_Product
<1>2. IsFiniteSet(EdgeType)
  <2>1. IsFiniteSet({})
    BY FS_EmptySet
  <2>2. IsFiniteSet({} \cup {"ownedBy"})
    BY <2>1, FS_AddElement
  <2>3. IsFiniteSet(({} \cup {"ownedBy"}) \cup {"compliant"})
    BY <2>2, FS_AddElement
  <2>4. IsFiniteSet((({} \cup {"ownedBy"}) \cup {"compliant"}) \cup {"noncompliant"})
    BY <2>3, FS_AddElement
  <2>5. EdgeType = (({} \cup {"ownedBy"}) \cup {"compliant"}) \cup {"noncompliant"}
    BY DEF EdgeType
  <2> QED BY <2>4, <2>5
<1>3. IsFiniteSet((UID \X UID) \X EdgeType)
  BY <1>1, <1>2, FS_Product
<1>4. f \in Surjection((UID \X UID) \X EdgeType, Edge)
  <2>1. f \in [(UID \X UID) \X EdgeType -> Edge]
    BY DEF Edge
  <2>2. ASSUME NEW e \in Edge
        PROVE  \E p \in (UID \X UID) \X EdgeType : f[p] = e
    <3>1. <<<<e.src, e.dst>>, e.type>> \in (UID \X UID) \X EdgeType
      BY DEF Edge
    <3>2. f[<<<<e.src, e.dst>>, e.type>>] = e
      BY <3>1 DEF Edge
    <3> QED BY <3>1, <3>2
  <2> QED BY <2>1, <2>2 DEF Surjection
<1> QED BY <1>3, <1>4, FS_Surjection

\* The edges of any node store are edges, and finitely many.
LEMMA AllEdgesType ==
    ASSUME NEW funcs, NEW nodes
    PROVE  /\ AllEdges(funcs, nodes) \subseteq Edge
           /\ Cardinality(AllEdges(funcs, nodes)) \in Nat
<1>1. AllEdges(funcs, nodes) \subseteq Edge
  BY DEF AllEdges
<1>2. IsFiniteSet(AllEdges(funcs, nodes))
  BY <1>1, EdgeFinite, FS_Subset
<1> QED BY <1>1, <1>2, FS_CardinalityType

\* Derived properties name resources.
LEMMA MissingType ==
    ASSUME NEW funcs, NEW nodes
    PROVE  MissingAfter(funcs, nodes) \in [UID -> SUBSET UID]
BY DEF MissingAfter

-----------------------------------------------------------------------------
(* Type correctness.                                                       *)

\* A hand-out keeps the types.
LEMMA HandOutType == RecTypeOK /\ HandOut => RecTypeOK'
BY AllEdgesType, MissingType DEF RecTypeOK, HandOut, NewEdges, NewMissing

\* Receiving an event keeps the types.
LEMMA ReconcileType ==
    ASSUME NEW ne \in NodeEvent, RecTypeOK, ReconcileNode(ne)
    PROVE  RecTypeOK'
<1>0. /\ ne.uid \in UID /\ ne.time \in Time
      /\ ne.op # "Delete" => ne.ver \in Version
  BY DEF NodeEvent
<1>1. CASE IgnoreEvent(ne)
  BY <1>0, <1>1, PurgeGetType DEF IgnoreEvent, RecTypeOK
<1>2. CASE DeleteNode(ne)
  BY <1>0, <1>2, PurgeAddType DEF DeleteNode, PendingDelete, RecTypeOK, MaybeVersion
<1>3. CASE UpsertNode(ne)
  <2>1. purgedNodes' \in [UID -> PurgeEntry]
    BY <1>0, <1>3, PurgeGetType DEF UpsertNode, RecTypeOK
  <2>2. \A op \in {"Create", "Update"} : [ne EXCEPT !.op = op] \in NodeEvent
    BY <1>3 DEF NodeEvent, UpsertNode
  <2>3. diffNodes' \in [UID -> NodeEvent \cup {NoEvent}]
    BY <1>0, <1>3, <2>2 DEF UpsertNode, PendingUpsert, RecTypeOK
  <2> QED BY <1>0, <1>3, <2>1, <2>3 DEF UpsertNode, RecTypeOK, MaybeVersion
<1> QED BY <1>1, <1>2, <1>3 DEF ReconcileNode

\* The reconciler's fields keep their types, whatever events arrive in whatever
\* order and whenever the sender asks.
THEOREM RecTypeCorrect == RecSpec => []RecTypeOK
<1>1. RecInit => RecTypeOK
  BY PurgeLimitAssumption DEF RecInit, RecTypeOK, MaybeVersion, PurgeEntry
<1>2. RecTypeOK /\ [RecNext]_recVars => RecTypeOK'
  <2> SUFFICES ASSUME RecTypeOK, [RecNext]_recVars PROVE RecTypeOK'
    OBVIOUS
  <2>1. CASE \E ne \in NodeEvent : ReconcileNode(ne)
    BY <2>1, ReconcileType
  <2>2. CASE HandOut
    BY <2>2, HandOutType
  <2>3. CASE UNCHANGED recVars
    BY <2>3 DEF recVars, RecTypeOK
  <2> QED BY <2>1, <2>2, <2>3 DEF RecNext, Diff, Complete
<1> QED BY <1>1, <1>2, PTL DEF RecSpec

-----------------------------------------------------------------------------
(* The inductive invariant.                                                *)

\* An event changes the entry of its own resource only, and leaves what was
\* handed out alone.
LEMMA ReconcileInv ==
    ASSUME NEW ne \in NodeEvent, RecInv, ReconcileNode(ne)
    PROVE  RecInv'
<1>0. /\ ne.uid \in UID
      /\ ne.op = "Delete" => ne.ver = Absent
      /\ ne.op # "Delete" => ne.ver \in Version /\ ne.ver # Absent
  BY VersionAssumption DEF NodeEvent
<1>1. RecTypeOK /\ RecTypeOK'
  BY ReconcileType DEF RecInv
<1>2. UNCHANGED <<previousNodes, previousEdges, totalEdges>>
  BY DEF ReconcileNode, IgnoreEvent, DeleteNode, UpsertNode
<1>3. PreviousEdgesExact'
  BY <1>2 DEF RecInv, PreviousEdgesExact
<1>4. CASE IgnoreEvent(ne)
  <2>1. UNCHANGED <<currentNodes, diffNodes, edgeFuncs>>
    BY <1>4 DEF IgnoreEvent
  <2> QED BY <1>1, <1>2, <1>3, <2>1 DEF RecInv, PendingMatchesState, EdgeFuncsOfCurrent
<1>5. CASE DeleteNode(ne)
  <2>1. EdgeFuncsOfCurrent'
    BY <1>5 DEF RecInv, EdgeFuncsOfCurrent, DeleteNode
  <2>2. PendingMatchesState'
    BY <1>0, <1>1, <1>2, <1>5 DEF RecInv, PendingMatchesState, DeleteNode, PendingDelete,
          RecTypeOK, NoEvent
  <2> QED BY <1>1, <1>3, <2>1, <2>2 DEF RecInv
<1>6. CASE UpsertNode(ne)
  <2>1. EdgeFuncsOfCurrent'
    BY <1>6 DEF RecInv, EdgeFuncsOfCurrent, UpsertNode
  <2>2. PendingMatchesState'
    BY <1>0, <1>1, <1>2, <1>6 DEF RecInv, PendingMatchesState, UpsertNode, PendingUpsert,
          RecTypeOK, NodeEvent
  <2> QED BY <1>1, <1>3, <2>1, <2>2 DEF RecInv
<1> QED BY <1>4, <1>5, <1>6 DEF ReconcileNode

\* After a hand-out nothing is pending and what is held is what was handed out.
LEMMA HandOutInv == RecInv /\ HandOut => RecInv'
<1> SUFFICES ASSUME RecInv, HandOut PROVE RecInv'
  OBVIOUS
<1>1. RecTypeOK'
  BY HandOutType DEF RecInv
<1>2. PendingMatchesState'
  BY DEF HandOut, PendingMatchesState, NoEvent
<1>3. EdgeFuncsOfCurrent'
  BY DEF RecInv, EdgeFuncsOfCurrent, HandOut
<1>4. PreviousEdgesExact'
  BY DEF RecInv, EdgeFuncsOfCurrent, HandOut, PreviousEdgesExact, NewEdges
<1> QED BY <1>1, <1>2, <1>3, <1>4 DEF RecInv

\* Nothing is held or handed out initially.
LEMMA RecInvInit == RecInit => RecInv
<1> SUFFICES ASSUME RecInit PROVE RecInv
  OBVIOUS
<1>1. RecTypeOK
  BY PurgeLimitAssumption DEF RecInit, RecTypeOK, MaybeVersion, PurgeEntry
<1>2. PendingMatchesState /\ EdgeFuncsOfCurrent
  BY DEF RecInit, PendingMatchesState, EdgeFuncsOfCurrent, NoEvent
<1>3. AllEdges(previousNodes, previousNodes) = {}
  BY DEF RecInit, AllEdges, Edge
<1>4. PreviousEdgesExact
  BY <1>3, FS_EmptySet DEF RecInit, PreviousEdgesExact
<1> QED BY <1>1, <1>2, <1>4 DEF RecInv

\* The bookkeeping of reconcileNode and resetDiffs is right: what is pending is
\* what differs, every node has its edge function, and the edges and the total
\* kept from the last hand-out are those of the nodes of the last hand-out.
THEOREM RecInvariant == RecSpec => []RecInv
<1>1. RecInit => RecInv
  BY RecInvInit
<1>2. RecInv /\ [RecNext]_recVars => RecInv'
  <2> SUFFICES ASSUME RecInv, [RecNext]_recVars PROVE RecInv'
    OBVIOUS
  <2>1. CASE \E ne \in NodeEvent : ReconcileNode(ne)
    BY <2>1, ReconcileInv
  <2>2. CASE HandOut
    BY <2>2, HandOutInv
  <2>3. CASE UNCHANGED recVars
    BY <2>3 DEF recVars, RecInv, RecTypeOK, PendingMatchesState, EdgeFuncsOfCurrent,
                PreviousEdgesExact
  <2> QED BY <2>1, <2>2, <2>3 DEF RecNext, Diff, Complete
<1> QED BY <1>1, <1>2, PTL DEF RecSpec
-----------------------------------------------------------------------------
(* What Diff returns.                                                      *)

\* An edge is determined by its source and destination: allEdges keeps one edge
\* for each pair.
LEMMA OneEdgePerPair ==
    ASSUME NEW funcs, NEW nodes,
           NEW e \in AllEdges(funcs, nodes), NEW f \in AllEdges(funcs, nodes),
           e.src = f.src, e.dst = f.dst
    PROVE  e = f
<1>1. e \in Edge /\ f \in Edge /\ e.type = f.type
  BY DEF AllEdges
<1> QED BY <1>1 DEF Edge

\* Without pending differences, what is held is what was handed out.
LEMMA NothingPending ==
    ASSUME RecInv, DiffEmpty
    PROVE  currentNodes = previousNodes /\ NewEdges = previousEdges
<1>1. \A u \in UID : currentNodes[u] = previousNodes[u]
  BY DEF RecInv, PendingMatchesState, DiffEmpty, NoEvent
<1>2. currentNodes = previousNodes
  BY <1>1 DEF RecInv, RecTypeOK
<1> QED BY <1>2 DEF RecInv, EdgeFuncsOfCurrent, PreviousEdgesExact, NewEdges

\* The nodes last handed out, changed by the diff, are the nodes held.
LEMMA DiffNodesExact ==
    ASSUME RecInv
    PROVE  NodesAfter(previousNodes, DiffResult) = currentNodes
<1>1. CASE DiffEmpty
  <2>1. /\ DiffResult.delete = {}
        /\ DiffResult.add \cup DiffResult.update = {}
    BY <1>1 DEF DiffResult, NoChange
  <2>2. NodesAfter(previousNodes, DiffResult) = [u \in UID |-> previousNodes[u]]
    BY <2>1 DEF NodesAfter
  <2> QED BY <1>1, <2>2, NothingPending DEF RecInv, RecTypeOK
<1>2. CASE ~DiffEmpty
  <2> DEFINE ups == DiffResult.add \cup DiffResult.update
  <2>1. DiffResult.delete = DiffOf("Delete")
    BY <1>2 DEF DiffResult
  <2>2. ups = DiffNodesOf("Create") \cup DiffNodesOf("Update")
    BY <1>2 DEF DiffResult
  <2>3. ASSUME NEW n \in ups
        PROVE  /\ n.uid \in UID
               /\ diffNodes[n.uid].op \in {"Create", "Update"}
               /\ n.ver = diffNodes[n.uid].ver
    BY <2>2 DEF DiffNodesOf, DiffOf
  <2>4. ASSUME NEW u \in UID, diffNodes[u].op \in {"Create", "Update"}
        PROVE  \E n \in ups : n.uid = u
    <3> DEFINE n == [uid |-> u, ver |-> diffNodes[u].ver, missing |-> NewMissing[u]]
    <3>1. n \in DiffNodesOf("Create") \cup DiffNodesOf("Update")
      BY <2>4 DEF DiffNodesOf, DiffOf
    <3>2. n.uid = u
      OBVIOUS
    <3> HIDE DEF n, ups
    <3> QED BY <2>2, <3>1, <3>2
  <2>5. ASSUME NEW u \in UID
        PROVE  NodesAfter(previousNodes, DiffResult)[u] = currentNodes[u]
    <3>1. diffNodes[u].op \in {"None", "Create", "Update", "Delete"}
      BY DEF RecInv, RecTypeOK, NodeEvent, NoEvent
    <3>2. NodesAfter(previousNodes, DiffResult)[u] =
            IF u \in DiffResult.delete THEN Absent
            ELSE IF \E n \in ups : n.uid = u
                 THEN (CHOOSE n \in ups : n.uid = u).ver
                 ELSE previousNodes[u]
      BY DEF NodesAfter
    <3> HIDE DEF ups
    <3>3. CASE diffNodes[u].op = "Delete"
      <4>1. currentNodes[u] = Absent
        BY <3>3 DEF RecInv, PendingMatchesState
      <4> QED BY <3>2, <3>3, <2>1, <4>1 DEF DiffOf
    <3>4. CASE diffNodes[u].op \in {"Create", "Update"}
      <4>1. u \notin DiffResult.delete
        BY <3>4, <2>1 DEF DiffOf
      <4>2. PICK n \in ups : n = CHOOSE m \in ups : m.uid = u
        BY <3>4, <2>4
      <4>3. n.uid = u
        BY <3>4, <2>4, <4>2
      <4>4. n.ver = diffNodes[u].ver
        BY <2>3, <4>3
      <4>5. currentNodes[u] = diffNodes[u].ver
        BY <3>4 DEF RecInv, PendingMatchesState
      <4> QED BY <3>2, <4>1, <4>2, <4>3, <4>4, <4>5
    <3>5. CASE diffNodes[u].op = "None"
      <4>1. u \notin DiffResult.delete
        BY <3>5, <2>1 DEF DiffOf
      <4>2. ~\E n \in ups : n.uid = u
        BY <3>5, <2>3
      <4>3. currentNodes[u] = previousNodes[u]
        BY <3>5 DEF RecInv, PendingMatchesState
      <4> QED BY <3>2, <4>1, <4>2, <4>3
    <3> QED BY <3>1, <3>3, <3>4, <3>5
  <2>6. /\ NodesAfter(previousNodes, DiffResult) =
              [u \in UID |-> NodesAfter(previousNodes, DiffResult)[u]]
        /\ currentNodes = [u \in UID |-> currentNodes[u]]
    BY DEF NodesAfter, RecInv, RecTypeOK
  <2> QED BY <2>5, <2>6
<1> QED BY <1>1, <1>2
\* With pending differences: an edge that stays, or is added, has the pair of
\* an edge held, and no edge held is lost, as none touches a deleted node.
LEMMA DiffPairsExact ==
    ASSUME RecInv
    PROVE  Pairs(EdgesAfter(previousEdges, DiffResult)) = Pairs(NewEdges)
<1>1. CASE DiffEmpty
  <2>1. /\ DiffResult.delete = {}
        /\ DiffResult.deleteEdges = {}
        /\ DiffResult.addEdges = {}
    BY <1>1 DEF DiffResult, NoChange
  <2>2. EdgesAfter(previousEdges, DiffResult) = previousEdges
    BY <2>1 DEF EdgesAfter
  <2> QED BY <1>1, <2>2, NothingPending
<1>2. CASE ~DiffEmpty
  <2> DEFINE after == EdgesAfter(previousEdges, DiffResult)
  <2>1. /\ DiffResult.delete = DiffOf("Delete")
        /\ DiffResult.addEdges =
              {e \in NewEdges : <<e.src, e.dst>> \notin Pairs(previousEdges)}
        /\ DiffResult.deleteEdges =
              {e \in previousEdges : /\ <<e.src, e.dst>> \notin Pairs(NewEdges)
                                     /\ e.src \notin DiffOf("Delete")
                                     /\ e.dst \notin DiffOf("Delete")}
    BY <1>2 DEF DiffResult
  <2>2. ASSUME NEW e \in after
        PROVE  <<e.src, e.dst>> \in Pairs(NewEdges)
    <3>1. CASE e \in DiffResult.addEdges
      BY <2>1, <3>1 DEF Pairs
    <3>2. CASE e \notin DiffResult.addEdges
      BY <2>1, <2>2, <3>2 DEF EdgesAfter
    <3> QED BY <3>1, <3>2
  <2>3. ASSUME NEW e \in NewEdges
        PROVE  <<e.src, e.dst>> \in Pairs(after)
    <3>1. e.src \in UID /\ e.dst \in UID
      BY DEF NewEdges, AllEdges, Edge
    <3>2. e.src \notin DiffOf("Delete") /\ e.dst \notin DiffOf("Delete")
      BY <3>1 DEF NewEdges, AllEdges, RecInv, EdgeFuncsOfCurrent, PendingMatchesState, DiffOf
    <3>3. CASE <<e.src, e.dst>> \notin Pairs(previousEdges)
      BY <2>1, <3>3 DEF EdgesAfter, Pairs
    <3>4. CASE <<e.src, e.dst>> \in Pairs(previousEdges)
      <4>1. PICK f \in previousEdges : <<f.src, f.dst>> = <<e.src, e.dst>>
        BY <3>4 DEF Pairs
      <4>2. f.src = e.src /\ f.dst = e.dst
        BY <4>1
      <4>3. <<f.src, f.dst>> \in Pairs(NewEdges)
        BY <4>1 DEF Pairs
      <4>4. f \notin DiffResult.deleteEdges
        BY <2>1, <4>3
      <4>5. f \in after
        BY <2>1, <3>2, <4>2, <4>4 DEF EdgesAfter
      <4> QED BY <4>1, <4>5 DEF Pairs
    <3> QED BY <3>3, <3>4
  <2> HIDE DEF after
  <2>4. Pairs(after) \subseteq Pairs(NewEdges)
    BY <2>2 DEF Pairs
  <2>5. Pairs(NewEdges) \subseteq Pairs(after)
    BY <2>3 DEF Pairs
  <2> QED BY <2>4, <2>5 DEF after
<1> QED BY <1>1, <1>2

\* Diff leaves nothing out and adds nothing: a consumer of the diffs holds the
\* nodes, and the linked pairs of nodes, that the reconciler holds.
THEOREM DiffComplete == RecSpec => []DiffReachesCurrent
<1>1. RecInv => DiffReachesCurrent
  BY DiffNodesExact, DiffPairsExact DEF DiffReachesCurrent
<1> QED BY <1>1, RecInvariant, PTL

-----------------------------------------------------------------------------
(* The totals sent with a diff.                                            *)

\* A finite set of edges with one edge for each pair has as many edges as pairs.
LEMMA CountByPairs ==
    ASSUME NEW E \in SUBSET Edge,
           \A e, f \in E : e.src = f.src /\ e.dst = f.dst => e = f
    PROVE  Cardinality(E) = Cardinality(Pairs(E))
<1> DEFINE g == [e \in E |-> <<e.src, e.dst>>]
<1>1. IsFiniteSet(E)
  BY EdgeFinite, FS_Subset
<1>2. g \in [E -> Pairs(E)]
  BY DEF Pairs
<1>3. \A a, b \in E : g[a] = g[b] => a = b
  OBVIOUS
<1>4. \A p \in Pairs(E) : \E e \in E : g[e] = p
  BY DEF Pairs
<1> HIDE DEF g
<1>5. g \in Bijection(E, Pairs(E))
  BY <1>2, <1>3, <1>4 DEF Bijection, Injection, Surjection, IsInjective
<1>6. ExistsBijection(E, Pairs(E))
  BY <1>5 DEF ExistsBijection
<1> QED BY <1>1, <1>6, FS_Bijection

\* Diff never adds a second edge for a pair.
LEMMA OneEdgeAfter ==
    ASSUME RecInv,
           NEW e \in EdgesAfter(previousEdges, DiffResult),
           NEW f \in EdgesAfter(previousEdges, DiffResult),
           e.src = f.src, e.dst = f.dst
    PROVE  e = f
<1>1. ASSUME NEW a \in EdgesAfter(previousEdges, DiffResult)
      PROVE  \/ a \in previousEdges
             \/ a \in NewEdges /\ <<a.src, a.dst>> \notin Pairs(previousEdges)
  BY DEF EdgesAfter, DiffResult, NoChange
<1>2. CASE e \in previousEdges /\ f \in previousEdges
  BY <1>2, OneEdgePerPair DEF RecInv, PreviousEdgesExact
<1>3. CASE e \in NewEdges /\ f \in NewEdges
  BY <1>3, OneEdgePerPair DEF NewEdges
<1>4. ASSUME NEW a \in previousEdges PROVE <<a.src, a.dst>> \in Pairs(previousEdges)
  BY DEF Pairs
<1> QED BY <1>1, <1>2, <1>3, <1>4

\* The totals that go with a diff are the totals a consumer that applies the
\* diff comes to, so a difference found by send is never of the collector's own
\* making.
THEOREM DiffTotals == RecSpec => []DiffTotalsExact
<1>1. ASSUME RecInv PROVE DiffTotalsExact
  <2> DEFINE after == EdgesAfter(previousEdges, DiffResult)
  <2>1. DiffResult.totalNodes = Cardinality(Present(currentNodes))
    BY DEF DiffResult, NoChange
  <2>2. DiffResult.totalEdges = Cardinality(NewEdges)
    <3>1. CASE DiffEmpty
      BY <1>1, <3>1, NothingPending DEF DiffResult, NoChange, RecInv, PreviousEdgesExact
    <3>2. CASE ~DiffEmpty
      BY <3>2 DEF DiffResult
    <3> QED BY <3>1, <3>2
  <2>3. NewEdges \subseteq Edge
    BY AllEdgesType DEF NewEdges
  <2>4. after \subseteq Edge
    BY <1>1, <2>3 DEF EdgesAfter, DiffResult, NoChange, RecInv, RecTypeOK
  <2>5. Cardinality(NewEdges) = Cardinality(Pairs(NewEdges))
    BY <2>3, OneEdgePerPair, CountByPairs DEF NewEdges
  <2>6. Cardinality(after) = Cardinality(Pairs(after))
    BY <1>1, <2>4, OneEdgeAfter, CountByPairs
  <2> QED BY <1>1, <2>1, <2>2, <2>5, <2>6, DiffNodesExact, DiffPairsExact
          DEF DiffTotalsExact
<1> QED BY <1>1, RecInvariant, PTL
=============================================================================
