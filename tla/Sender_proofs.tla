--------------------------- MODULE Sender_proofs ---------------------------
(***************************************************************************)
(* Proofs about the sender, the reconciler and the indexer together, for   *)
(* every set of resources, every content and every bound on events and     *)
(* faults: what a cycle that ends well leaves at the indexer, and that the *)
(* three implement ReplicaSync.                                            *)
(***************************************************************************)
EXTENDS Sender, Reconciler_proofs

-----------------------------------------------------------------------------
(* The inductive invariant.                                                *)

\* At most one edge of the set links a source to a destination.
OneEach(edges) == \A e, f \in edges : e.src = f.src /\ e.dst = f.dst => e = f

\* Whenever Sync is about to send a diff, the indexer has what was handed out last.
SyncedHasBaseline ==
    phase = "idle" /\ lastSentTime # "never" => IndexerHasBaseline /\ OneEach(indexer.edges)

\* Whenever the indexer applies the payload under way, it has the nodes handed out last
\* and at least their pairs, one edge for each.
ArrivesWhole ==
    Waiting =>
        \A after \in {IndexerAfter(payload, {})} :
            /\ after.nodes = previousNodes
            /\ Pairs(previousEdges) \subseteq Pairs(after.edges)
            /\ OneEach(after.edges)
            /\ payload.totalNodes = Cardinality(Present(previousNodes))
            /\ payload.totalEdges = Cardinality(previousEdges)
            /\ payload.addEdges \subseteq previousEdges
            /\ payload.clearAll => after.edges = previousEdges
            /\ phase = "complete" => payload.clearAll

SenderIInv ==
    /\ RecInv
    /\ SenderTypeOK
    /\ indexerFaults = 0 => SyncedHasBaseline /\ ArrivesWhole

-----------------------------------------------------------------------------
(* Payloads.                                                               *)

\* The number of the nodes held is a number.
LEMMA PresentCount ==
    ASSUME NEW nodes PROVE Cardinality(Present(nodes)) \in Nat
<1>1. Present(nodes) \subseteq UID
  BY DEF Present
<1> QED BY <1>1, UIDAssumption, FS_Subset, FS_CardinalityType

\* What Diff returns is a payload, with the totals of what is held now.
LEMMA DiffPayload ==
    ASSUME RecInv
    PROVE  /\ DiffResult \in Payload
           /\ DiffResult.clearAll = FALSE
           /\ DiffResult.addEdges \subseteq NewEdges
           /\ DiffResult.totalNodes = Cardinality(Present(currentNodes))
           /\ DiffResult.totalEdges = Cardinality(NewEdges)
<1>1. /\ NewEdges \subseteq Edge /\ Cardinality(NewEdges) \in Nat
      /\ previousEdges \subseteq Edge
      /\ NewMissing \in [UID -> SUBSET UID]
      /\ Cardinality(Present(currentNodes)) \in Nat
  BY AllEdgesType, MissingType, PresentCount DEF NewEdges, NewMissing, RecInv, RecTypeOK
<1>2. CASE DiffEmpty
  <2>1. Cardinality(NewEdges) = totalEdges
    BY <1>2, NothingPending DEF RecInv, PreviousEdgesExact
  <2> QED BY <1>1, <1>2, <2>1 DEF DiffResult, NoChange, Payload
<1>3. CASE ~DiffEmpty
  <2>1. ASSUME NEW op \in {"Create", "Update"} PROVE DiffNodesOf(op) \subseteq Node
    <3>1. ASSUME NEW u \in DiffOf(op) PROVE u \in UID /\ diffNodes[u].ver \in Version
      BY <2>1 DEF DiffOf, RecInv, RecTypeOK, NodeEvent, NoEvent
    <3> QED BY <1>1, <3>1 DEF DiffNodesOf, Node
  <2>2. DiffNodesOf("Create") \subseteq Node /\ DiffNodesOf("Update") \subseteq Node
    BY <2>1
  <2>3. DiffOf("Delete") \subseteq UID
    BY DEF DiffOf
  <2> QED BY <1>1, <1>3, <2>2, <2>3 DEF DiffResult, Payload
<1> QED BY <1>2, <1>3

\* What Complete returns is a payload, and takes an empty indexer to what is held now.
LEMMA CompletePayload ==
    ASSUME RecInv
    PROVE  /\ CompleteResult \in Payload
           /\ NodesAfter([u \in UID |-> Absent], CompleteResult) = currentNodes
           /\ EdgesAfter({}, CompleteResult) = NewEdges
<1>1. /\ NewEdges \subseteq Edge /\ Cardinality(NewEdges) \in Nat
      /\ NewMissing \in [UID -> SUBSET UID]
      /\ Cardinality(Present(currentNodes)) \in Nat
      /\ currentNodes \in [UID -> MaybeVersion]
  BY AllEdgesType, MissingType, PresentCount DEF NewEdges, NewMissing, RecInv, RecTypeOK
<1> DEFINE N(u) == [uid |-> u, ver |-> currentNodes[u], missing |-> NewMissing[u]]
           all == {N(u) : u \in Present(currentNodes)}
<1>2. all \subseteq Node
  BY <1>1 DEF Present, Node, MaybeVersion
<1>3. CompleteResult \in Payload
  BY <1>1, <1>2 DEF CompleteResult, Payload
<1>4. EdgesAfter({}, CompleteResult) = NewEdges
  BY DEF EdgesAfter, CompleteResult
<1>5. /\ CompleteResult.delete = {}
      /\ CompleteResult.add \cup CompleteResult.update = all
  BY DEF CompleteResult
<1>6. ASSUME NEW u \in UID
      PROVE  NodesAfter([x \in UID |-> Absent], CompleteResult)[u] = currentNodes[u]
  <2>1. NodesAfter([x \in UID |-> Absent], CompleteResult)[u] =
          IF \E n \in all : n.uid = u THEN (CHOOSE n \in all : n.uid = u).ver ELSE Absent
    BY <1>5 DEF NodesAfter
  <2>2. CASE currentNodes[u] = Absent
    <3>1. ~\E n \in all : n.uid = u
      BY <2>2 DEF Present
    <3> QED BY <2>1, <2>2, <3>1
  <2>3. CASE currentNodes[u] # Absent
    <3>1. N(u) \in all /\ N(u).uid = u
      BY <2>3 DEF Present
    <3>2. \A n \in all : n.ver = currentNodes[n.uid]
      OBVIOUS
    <3> HIDE DEF all, N
    <3>3. (CHOOSE n \in all : n.uid = u) \in all /\ (CHOOSE n \in all : n.uid = u).uid = u
      BY <3>1
    <3> QED BY <2>1, <3>1, <3>2, <3>3
  <2> QED BY <2>2, <2>3
<1>7. NodesAfter([u \in UID |-> Absent], CompleteResult) = [u \in UID |-> currentNodes[u]]
  BY <1>6 DEF NodesAfter
<1> QED BY <1>1, <1>3, <1>4, <1>7

-----------------------------------------------------------------------------
(* The indexer.                                                            *)

EmptyIndexer == [nodes |-> [u \in UID |-> Absent], edges |-> {}]

IndexerState == [nodes : [UID -> MaybeVersion], edges : SUBSET Edge]

\* The indexer keeps its type, whatever it rejects.
LEMMA IndexerAfterType ==
    ASSUME SenderTypeOK, NEW rejected
    PROVE  IndexerAfter(payload, rejected) \in IndexerState
<1> DEFINE accepted == [payload EXCEPT !.add = {n \in payload.add : n.uid \notin rejected}]
           start == IF payload.clearAll THEN EmptyIndexer ELSE indexer
<1>1. payload \in Payload
  BY DEF SenderTypeOK
<1>2. accepted \in Payload
  BY <1>1 DEF Payload
<1>3. start \in IndexerState
  BY DEF SenderTypeOK, IndexerState, EmptyIndexer, MaybeVersion
<1>4. IndexerAfter(payload, rejected) =
        [nodes |-> NodesAfter(start.nodes, accepted), edges |-> EdgesAfter(start.edges, accepted)]
  BY DEF IndexerAfter, EmptyIndexer
<1> HIDE DEF accepted, start
<1>5. EdgesAfter(start.edges, accepted) \subseteq Edge
  BY <1>2, <1>3 DEF EdgesAfter, Payload, IndexerState
<1>6. NodesAfter(start.nodes, accepted) \in [UID -> MaybeVersion]
  <2> DEFINE ups == accepted.add \cup accepted.update
  <2>1. ups \subseteq Node
    BY <1>2 DEF Payload
  <2>2. ASSUME NEW u \in UID, \E n \in ups : n.uid = u
        PROVE  (CHOOSE n \in ups : n.uid = u).ver \in Version
    <3> HIDE DEF ups
    <3>1. (CHOOSE n \in ups : n.uid = u) \in ups
      BY <2>2
    <3> QED BY <2>1, <3>1 DEF Node
  <2> HIDE DEF ups
  <2>3. NodesAfter(start.nodes, accepted) =
          [u \in UID |->
              IF u \in accepted.delete THEN Absent
              ELSE IF \E n \in ups : n.uid = u
                   THEN (CHOOSE n \in ups : n.uid = u).ver
                   ELSE start.nodes[u]]
    BY DEF NodesAfter, ups
  <2> QED BY <1>3, <2>2, <2>3 DEF IndexerState, MaybeVersion
<1> QED BY <1>4, <1>5, <1>6 DEF IndexerState

\* An indexer that rejects nothing applies the payload as it is.
LEMMA IndexerAfterAll ==
    ASSUME SenderTypeOK
    PROVE  /\ IndexerAfter(payload, {}).nodes =
                 NodesAfter(IF payload.clearAll THEN [u \in UID |-> Absent] ELSE indexer.nodes,
                            payload)
           /\ IndexerAfter(payload, {}).edges =
                 EdgesAfter(IF payload.clearAll THEN {} ELSE indexer.edges, payload)
<1>1. payload \in Payload
  BY DEF SenderTypeOK
<1>2. [payload EXCEPT !.add = {n \in payload.add : n.uid \notin {}}] = payload
  BY <1>1 DEF Payload
<1> QED BY <1>2 DEF IndexerAfter

\* The same in the next state.
LEMMA IndexerAfterAllNext ==
    ASSUME SenderTypeOK'
    PROVE  /\ IndexerAfter(payload, {})'.nodes =
                 NodesAfter(IF payload'.clearAll THEN [u \in UID |-> Absent] ELSE indexer'.nodes,
                            payload')
           /\ IndexerAfter(payload, {})'.edges =
                 EdgesAfter(IF payload'.clearAll THEN {} ELSE indexer'.edges, payload')
<1>1. payload' \in Payload
  BY DEF SenderTypeOK
<1>2. [payload' EXCEPT !.add = {n \in payload'.add : n.uid \notin {}}] = payload'
  BY <1>1 DEF Payload
<1> QED BY <1>2 DEF IndexerAfter, NodesAfter, EdgesAfter

\* An indexer with the baseline of a diff, one edge for each pair, has after the diff the
\* nodes held, at least the pairs held and one edge for each pair, even though its edges
\* need not have the types that the diff takes them to have.
LEMMA DiffOnBaseline ==
    ASSUME RecInv, IndexerHasBaseline, OneEach(indexer.edges)
    PROVE  /\ NodesAfter(indexer.nodes, DiffResult) = currentNodes
           /\ Pairs(NewEdges) \subseteq Pairs(EdgesAfter(indexer.edges, DiffResult))
           /\ OneEach(EdgesAfter(indexer.edges, DiffResult))
<1> DEFINE after == EdgesAfter(indexer.edges, DiffResult)
<1>1. NodesAfter(indexer.nodes, DiffResult) = currentNodes
  BY DiffNodesExact DEF IndexerHasBaseline
<1>2. Pairs(indexer.edges) = Pairs(previousEdges)
  BY DEF IndexerHasBaseline
<1>3. ASSUME NEW e \in NewEdges PROVE <<e.src, e.dst>> \in Pairs(after)
  <2>1. CASE DiffEmpty
    <3>1. after = indexer.edges
      BY <2>1 DEF EdgesAfter, DiffResult, NoChange
    <3> QED BY <1>2, <2>1, <3>1, NothingPending DEF Pairs
  <2>2. CASE ~DiffEmpty
    <3>1. /\ DiffResult.delete = DiffOf("Delete")
          /\ DiffResult.addEdges =
                {x \in NewEdges : <<x.src, x.dst>> \notin Pairs(previousEdges)}
          /\ \A x \in DiffResult.deleteEdges : <<x.src, x.dst>> \notin Pairs(NewEdges)
      BY <2>2 DEF DiffResult
    <3>2. e.src \in UID /\ e.dst \in UID
      BY DEF NewEdges, AllEdges, Edge
    <3>3. e.src \notin DiffOf("Delete") /\ e.dst \notin DiffOf("Delete")
      BY <3>2 DEF NewEdges, AllEdges, RecInv, EdgeFuncsOfCurrent, PendingMatchesState, DiffOf
    <3>4. CASE <<e.src, e.dst>> \notin Pairs(previousEdges)
      BY <3>1, <3>4 DEF EdgesAfter, Pairs
    <3>5. CASE <<e.src, e.dst>> \in Pairs(previousEdges)
      <4>1. PICK f \in indexer.edges : <<f.src, f.dst>> = <<e.src, e.dst>>
        BY <1>2, <3>5 DEF Pairs
      <4>2. f.src = e.src /\ f.dst = e.dst
        BY <4>1
      <4>3. f \notin DiffResult.deleteEdges
        BY <3>1, <4>1 DEF Pairs
      <4>4. f \in after
        BY <3>1, <3>3, <4>2, <4>3 DEF EdgesAfter
      <4> QED BY <4>1, <4>4 DEF Pairs
    <3> QED BY <3>4, <3>5
  <2> QED BY <2>1, <2>2
<1>4. ASSUME NEW a \in after
      PROVE  \/ a \in indexer.edges /\ <<a.src, a.dst>> \in Pairs(previousEdges)
             \/ a \in NewEdges /\ <<a.src, a.dst>> \notin Pairs(previousEdges)
  <2>1. a \in indexer.edges => <<a.src, a.dst>> \in Pairs(indexer.edges)
    BY DEF Pairs
  <2> QED BY <1>2, <2>1 DEF EdgesAfter, DiffResult, NoChange
<1> HIDE DEF after
<1>5. OneEach(after)
  <2> SUFFICES ASSUME NEW e \in after, NEW f \in after, e.src = f.src, e.dst = f.dst
               PROVE  e = f
    BY DEF OneEach
  <2>1. CASE e \in indexer.edges /\ f \in indexer.edges
    BY <2>1 DEF OneEach
  <2>2. CASE e \in NewEdges /\ f \in NewEdges
    BY <2>2, OneEdgePerPair DEF NewEdges
  <2> QED BY <1>4, <2>1, <2>2
<1>6. Pairs(NewEdges) \subseteq Pairs(after)
  BY <1>3 DEF Pairs
<1> QED BY <1>1, <1>5, <1>6 DEF after

\* Of two sets of edges with one edge for each pair, where one has all pairs of the other,
\* the numbers of edges are equal exactly if the pairs are.
LEMMA CountsTellPairs ==
    ASSUME NEW E \in SUBSET Edge, NEW F \in SUBSET Edge, OneEach(E), OneEach(F),
           Pairs(F) \subseteq Pairs(E)
    PROVE  Cardinality(E) = Cardinality(F) <=> Pairs(E) = Pairs(F)
<1>1. Cardinality(E) = Cardinality(Pairs(E)) /\ Cardinality(F) = Cardinality(Pairs(F))
  BY CountByPairs DEF OneEach
<1>2. IsFiniteSet(Pairs(E))
  <2>1. Pairs(E) \subseteq UID \X UID
    BY DEF Pairs, Edge
  <2> QED BY <2>1, UIDAssumption, FS_Product, FS_Subset
<1>3. Cardinality(Pairs(F)) = Cardinality(Pairs(E)) => Pairs(F) = Pairs(E)
  BY <1>2, FS_Subset
<1> QED BY <1>1, <1>3

-----------------------------------------------------------------------------
(* The invariant is inductive.                                             *)

\* A diff that Sync takes: what is held is now what was handed out.
LEMMA DiffHandsOut ==
    ASSUME RecInv, Diff
    PROVE  /\ RecInv'
           /\ previousNodes' = currentNodes
           /\ previousEdges' = NewEdges
<1>1. CASE DiffEmpty
  <2>1. UNCHANGED recVars
    BY <1>1 DEF Diff
  <2> QED BY <1>1, <2>1, NothingPending DEF recVars, RecInv, RecTypeOK, PendingMatchesState,
             EdgeFuncsOfCurrent, PreviousEdgesExact
<1>2. CASE ~DiffEmpty
  BY <1>2, HandOutInv DEF Diff, HandOut
<1> QED BY <1>1, <1>2

\* An event leaves what was handed out alone.
LEMMA ReconcileKeepsBaseline ==
    ASSUME NEW ne \in NodeEvent, ReconcileNode(ne)
    PROVE  UNCHANGED <<previousNodes, previousEdges>>
BY DEF ReconcileNode, IgnoreEvent, DeleteNode, UpsertNode

\* A step that leaves the reconciler alone keeps its invariant.
LEMMA RecUnchanged ==
    ASSUME RecInv, UNCHANGED recVars
    PROVE  RecInv'
BY DEF recVars, RecInv, RecTypeOK, PendingMatchesState, EdgeFuncsOfCurrent, PreviousEdgesExact

\* The totals of an indexer without faults agree exactly if its pairs are right.
LEMMA TotalsTruth ==
    ASSUME SenderIInv, indexerFaults = 0, Waiting
    PROVE  TotalsAgree(IndexerAfter(payload, {}), {})
              <=> Pairs(IndexerAfter(payload, {}).edges) = Pairs(previousEdges)
<1> DEFINE after == IndexerAfter(payload, {})
<1>1. /\ after.nodes = previousNodes
      /\ Pairs(previousEdges) \subseteq Pairs(after.edges)
      /\ OneEach(after.edges)
      /\ payload.totalNodes = Cardinality(Present(previousNodes))
      /\ payload.totalEdges = Cardinality(previousEdges)
  BY DEF SenderIInv, ArrivesWhole
<1>2. after.edges \subseteq Edge /\ previousEdges \subseteq Edge
  BY IndexerAfterType DEF SenderIInv, IndexerState, RecInv, RecTypeOK
<1>3. OneEach(previousEdges)
  BY OneEdgePerPair DEF OneEach, SenderIInv, RecInv, PreviousEdgesExact
<1>4. Cardinality(after.edges) = Cardinality(previousEdges)
        <=> Pairs(after.edges) = Pairs(previousEdges)
  BY <1>1, <1>2, <1>3, CountsTellPairs
<1>5. Cardinality({}) = 0 /\ Cardinality(Present(previousNodes)) \in Nat
  BY FS_EmptySet, PresentCount
<1> HIDE DEF after
<1>6. TotalsAgree(after, {}) <=> Cardinality(after.edges) = Cardinality(previousEdges)
  BY <1>1, <1>5 DEF TotalsAgree
<1> QED BY <1>4, <1>6 DEF after

\* Initially the indexer is empty and nothing is under way.
LEMMA SenderIInvInit == SenderInit => SenderIInv
<1> SUFFICES ASSUME SenderInit PROVE SenderIInv
  OBVIOUS
<1>1. RecInv
  BY RecInvInit DEF SenderInit
<1>2. SenderTypeOK
  BY SenderAssumption DEF SenderInit, SenderTypeOK, NoPayload, NoChange, Payload, MaybeVersion
<1>3. SyncedHasBaseline /\ ArrivesWhole
  BY DEF SenderInit, SyncedHasBaseline, ArrivesWhole, Waiting
<1> QED BY <1>1, <1>2, <1>3 DEF SenderIInv

\* A complete payload is formed.
LEMMA CompleteStep ==
    ASSUME SenderIInv, Complete, payload' = CompleteResult, phase' = "complete",
           UNCHANGED <<lastSentTime, indexer, received, faultVars>>
    PROVE  SenderIInv'
<1>1. RecInv'
  BY HandOutInv DEF SenderIInv, Complete
<1>2. SenderTypeOK'
  BY CompletePayload DEF SenderIInv, SenderTypeOK, faultVars
<1>3. previousNodes' = currentNodes /\ previousEdges' = NewEdges
  BY DEF Complete, HandOut
<1>4. /\ IndexerAfter(payload, {})'.nodes = previousNodes'
      /\ IndexerAfter(payload, {})'.edges = previousEdges'
  <2>1. payload'.clearAll
    BY DEF CompleteResult
  <2>2. /\ IndexerAfter(payload, {})'.nodes = NodesAfter([u \in UID |-> Absent], payload')
        /\ IndexerAfter(payload, {})'.edges = EdgesAfter({}, payload')
    BY <1>2, <2>1, IndexerAfterAllNext
  <2> QED BY <1>3, <2>2, CompletePayload DEF SenderIInv
<1>5. OneEach(previousEdges)'
  BY <1>1, <1>3, OneEdgePerPair DEF OneEach, NewEdges
<1>6. ArrivesWhole'
  BY <1>3, <1>4, <1>5 DEF ArrivesWhole, CompleteResult
<1>7. SyncedHasBaseline'
  BY DEF SyncedHasBaseline
<1> QED BY <1>1, <1>2, <1>6, <1>7 DEF SenderIInv

\* A diff is formed, from the baseline that the indexer has.
LEMMA DiffStep == SenderIInv /\ SyncDiff => SenderIInv'
<1> SUFFICES ASSUME SenderIInv, SyncDiff PROVE SenderIInv'
  OBVIOUS
<1>1. /\ RecInv' /\ previousNodes' = currentNodes /\ previousEdges' = NewEdges
  BY DiffHandsOut DEF SenderIInv, SyncDiff
<1>2. SenderTypeOK'
  BY DiffPayload DEF SenderIInv, SyncDiff, SenderTypeOK, faultVars
<1>3. SyncedHasBaseline'
  BY DEF SyncDiff, SyncedHasBaseline
<1>4. ASSUME indexerFaults' = 0 PROVE ArrivesWhole'
  <2>1. indexerFaults = 0 /\ indexer' = indexer /\ payload' = DiffResult /\ phase' = "diff"
    BY <1>4 DEF SyncDiff, faultVars
  <2>2. IndexerHasBaseline /\ OneEach(indexer.edges)
    BY <2>1 DEF SenderIInv, SyncedHasBaseline, SyncDiff
  <2>3. ~payload'.clearAll /\ RecInv
    BY <2>1, DiffPayload DEF SenderIInv
  <2>4. /\ IndexerAfter(payload, {})'.nodes = NodesAfter(indexer.nodes, DiffResult)
        /\ IndexerAfter(payload, {})'.edges = EdgesAfter(indexer.edges, DiffResult)
    BY <1>2, <2>1, <2>3, IndexerAfterAllNext
  <2>5. /\ IndexerAfter(payload, {})'.nodes = previousNodes'
        /\ Pairs(previousEdges') \subseteq Pairs(IndexerAfter(payload, {})'.edges)
        /\ OneEach(IndexerAfter(payload, {})'.edges)
    BY <1>1, <2>2, <2>3, <2>4, DiffOnBaseline
  <2> QED BY <1>1, <2>1, <2>3, <2>5, DiffPayload DEF ArrivesWhole, OneEach, Pairs, Present
<1> QED BY <1>1, <1>2, <1>3, <1>4 DEF SenderIInv

\* The indexer has applied the payload under way, and the sender goes on to the next
\* cycle or to a complete payload.
LEMMA AppliedStep ==
    ASSUME SenderIInv, Waiting, UNCHANGED recVars, SenderTypeOK',
           indexer' = IndexerAfter(payload, {}),
           \/ SendFailed
           \/ SendSucceeded /\ TotalsAgree(indexer', {}),
           indexerFaults' = indexerFaults
    PROVE  SenderIInv'
<1>1. RecInv'
  BY RecUnchanged DEF SenderIInv
<1>2. ArrivesWhole'
  BY DEF SendFailed, SendSucceeded, ArrivesWhole, Waiting
<1>3. ASSUME indexerFaults' = 0 PROVE SyncedHasBaseline'
  <2>1. CASE SendFailed
    BY <2>1 DEF SendFailed, SyncedHasBaseline, Waiting
  <2>2. CASE SendSucceeded /\ TotalsAgree(indexer', {})
    <3>1. Pairs(IndexerAfter(payload, {}).edges) = Pairs(previousEdges)
      BY <1>3, <2>2, TotalsTruth
    <3>2. /\ IndexerAfter(payload, {}).nodes = previousNodes
          /\ OneEach(IndexerAfter(payload, {}).edges)
      BY <1>3 DEF SenderIInv, ArrivesWhole
    <3>3. previousNodes' = previousNodes /\ previousEdges' = previousEdges
      BY DEF recVars
    <3> QED BY <3>1, <3>2, <3>3 DEF SyncedHasBaseline, IndexerHasBaseline, OneEach, Pairs
  <2> QED BY <2>1, <2>2
<1> QED BY <1>1, <1>2, <1>3 DEF SenderIInv

\* A fault leaves the counters within their bounds.
LEMMA FaultType ==
    ASSUME SenderTypeOK, NEW kind, Fault(kind)
    PROVE  /\ networkFaults' \in 0..NetworkFaultLimit
           /\ indexerFaults' \in 0..IndexerFaultLimit
           /\ kind \in NetworkFault => indexerFaults' = indexerFaults
           /\ kind \in IndexerFault => indexerFaults' # 0
BY SenderAssumption DEF SenderTypeOK, Fault, NetworkFault, IndexerFault

\* What becomes of a payload keeps the types.
LEMMA AnswerType ==
    ASSUME SenderTypeOK, SendFailed \/ SendSucceeded,
           indexer' = indexer \/ \E rejected : indexer' = IndexerAfter(payload, rejected),
           received' = received,
           networkFaults' \in 0..NetworkFaultLimit, indexerFaults' \in 0..IndexerFaultLimit
    PROVE  SenderTypeOK'
<1>1. indexer' \in IndexerState
  BY IndexerAfterType DEF SenderTypeOK, IndexerState
<1>2. payload' \in Payload
  <2>1. NoPayload \in Payload
    BY DEF NoPayload, NoChange, Payload
  <2> QED BY <2>1 DEF SendFailed, SendSucceeded
<1>3. lastSentTime' \in {"never", "recent", "due"} /\ phase' \in {"idle", "diff", "failed", "complete"}
  BY DEF SendFailed, SendSucceeded, SenderTypeOK
<1> QED BY <1>1, <1>2, <1>3 DEF SenderTypeOK, IndexerState

\* A step with a fault of the indexer leaves only types to keep.
LEMMA FaultyStep ==
    ASSUME SenderIInv, RecInv', SenderTypeOK', indexerFaults' # 0
    PROVE  SenderIInv'
BY DEF SenderIInv

\* Events, time and lost requests leave what was handed out and the indexer alone.
LEMMA QuietStep ==
    ASSUME SenderIInv, RecInv', SenderTypeOK', indexerFaults' = indexerFaults,
           UNCHANGED <<previousNodes, previousEdges, indexer>>,
           \/ UNCHANGED <<phase, payload>> /\ (lastSentTime' = "never" <=> lastSentTime = "never")
           \/ Waiting /\ SendFailed
    PROVE  SenderIInv'
<1>1. CASE UNCHANGED <<phase, payload>> /\ (lastSentTime' = "never" <=> lastSentTime = "never")
  <2>1. IndexerAfter(payload, {})' = IndexerAfter(payload, {})
    BY <1>1 DEF IndexerAfter, NodesAfter, EdgesAfter
  <2>2. ASSUME ArrivesWhole PROVE ArrivesWhole'
    BY <1>1, <2>1, <2>2 DEF ArrivesWhole, Waiting, OneEach, Pairs, Present
  <2>3. ASSUME SyncedHasBaseline PROVE SyncedHasBaseline'
    BY <1>1, <2>3 DEF SyncedHasBaseline, IndexerHasBaseline, OneEach, Pairs
  <2> QED BY <2>2, <2>3 DEF SenderIInv
<1>2. CASE Waiting /\ SendFailed
  BY <1>2 DEF SendFailed, SenderIInv, ArrivesWhole, SyncedHasBaseline, Waiting
<1> QED BY <1>1, <1>2

\* Every step keeps the invariant.
LEMMA SenderIInvNext == SenderIInv /\ [SenderNext]_vars => SenderIInv'
<1> SUFFICES ASSUME SenderIInv, [SenderNext]_vars PROVE SenderIInv'
  OBVIOUS
<1>0. RecInv /\ SenderTypeOK
  BY DEF SenderIInv
<1>1. CASE SyncComplete
  BY <1>1, CompleteStep DEF SyncComplete
<1>2. CASE SyncDiff
  BY <1>2, DiffStep
<1>3. CASE ResendComplete
  BY <1>3, CompleteStep DEF ResendComplete
<1>4. CASE PostAccepted
  <2>1. /\ Waiting /\ UNCHANGED recVars
        /\ indexer' = IndexerAfter(payload, {})
        /\ \/ SendFailed
           \/ SendSucceeded /\ TotalsAgree(indexer', {})
        /\ UNCHANGED <<received, networkFaults, indexerFaults>>
    BY <1>4 DEF PostAccepted, Post, faultVars
  <2>2. SenderTypeOK'
    BY <1>0, <2>1, AnswerType DEF SenderTypeOK
  <2> QED BY <2>1, <2>2, AppliedStep
<1>5. CASE PostRejected
  <2>1. PICK n \in payload.add : Post({n.uid}) /\ Fault("rejected")
    BY <1>5 DEF PostRejected
  <2>2. indexerFaults' # 0 /\ indexerFaults' \in 0..IndexerFaultLimit
          /\ networkFaults' \in 0..NetworkFaultLimit
    BY <1>0, <2>1, FaultType DEF IndexerFault
  <2>3. SenderTypeOK'
    BY <1>0, <2>1, <2>2, AnswerType DEF Post
  <2>4. RecInv'
    BY <1>0, <2>1, RecUnchanged DEF Post
  <2> QED BY <2>2, <2>3, <2>4, FaultyStep
<1>6. CASE PostBusy
  <2>1. /\ indexerFaults' = indexerFaults /\ indexerFaults' \in 0..IndexerFaultLimit
        /\ networkFaults' \in 0..NetworkFaultLimit
    BY <1>0, <1>6, FaultType DEF PostBusy, NetworkFault
  <2>2. RecInv' /\ SenderTypeOK'
    BY <1>0, <1>6, <2>1, RecUnchanged DEF PostBusy, SenderTypeOK
  <2> QED BY <1>6, <2>1, <2>2, QuietStep DEF PostBusy, recVars
<1>7. CASE PostLost
  <2>1. /\ indexerFaults' = indexerFaults /\ indexerFaults' \in 0..IndexerFaultLimit
        /\ networkFaults' \in 0..NetworkFaultLimit
    BY <1>0, <1>7, FaultType DEF PostLost, NetworkFault
  <2>2. RecInv' /\ SenderTypeOK'
    BY <1>0, <1>7, <2>1, RecUnchanged, AnswerType DEF PostLost
  <2> QED BY <1>7, <2>1, <2>2, QuietStep DEF PostLost, recVars
<1>8. CASE PostUnacked
  <2>1. /\ indexerFaults' = indexerFaults /\ indexerFaults' \in 0..IndexerFaultLimit
        /\ networkFaults' \in 0..NetworkFaultLimit
    BY <1>0, <1>8, FaultType DEF PostUnacked, NetworkFault
  <2>2. SenderTypeOK'
    BY <1>0, <1>8, <2>1, AnswerType DEF PostUnacked
  <2> QED BY <1>8, <2>1, <2>2, AppliedStep DEF PostUnacked
<1>9. CASE Receive
  <2>1. PICK ne \in NodeEvent : ReconcileNode(ne)
    BY <1>9 DEF Receive
  <2>2. RecInv' /\ UNCHANGED <<previousNodes, previousEdges>>
    BY <1>0, <2>1, ReconcileInv, ReconcileKeepsBaseline
  <2>3. SenderTypeOK'
    BY <1>0, <1>9, SenderAssumption DEF Receive, SenderTypeOK, faultVars
  <2> QED BY <1>9, <2>2, <2>3, QuietStep DEF Receive, faultVars
<1>10. CASE HeartbeatDue
  <2>1. RecInv' /\ SenderTypeOK'
    BY <1>0, <1>10, RecUnchanged DEF HeartbeatDue, SenderTypeOK, faultVars
  <2> QED BY <1>10, <2>1, QuietStep DEF HeartbeatDue, faultVars, recVars
<1>11. CASE IndexerReset
  <2>1. indexerFaults' # 0 /\ indexerFaults' \in 0..IndexerFaultLimit
          /\ networkFaults' \in 0..NetworkFaultLimit
    BY <1>0, <1>11, FaultType DEF IndexerReset, IndexerFault
  <2>2. RecInv' /\ SenderTypeOK'
    BY <1>0, <1>11, <2>1, RecUnchanged DEF IndexerReset, SenderTypeOK, MaybeVersion
  <2> QED BY <2>1, <2>2, FaultyStep
<1>12. CASE UNCHANGED vars
  <2>1. RecInv' /\ SenderTypeOK'
    BY <1>0, <1>12, RecUnchanged DEF vars, senderVars, SenderTypeOK, faultVars
  <2> QED BY <1>12, <2>1, QuietStep DEF vars, senderVars, faultVars, recVars
<1> QED BY <1>1, <1>2, <1>3, <1>4, <1>5, <1>6, <1>7, <1>8, <1>9, <1>10, <1>11, <1>12
        DEF SenderNext, SenderStep

\* The invariant holds throughout.
LEMMA SenderIInvariant == SenderSpec => []SenderIInv
BY SenderIInvInit, SenderIInvNext, PTL DEF SenderSpec

\* The totals that send compares are enough: as long as the indexer keeps what it is sent,
\* the answer is taken for a success only if the indexer then has the nodes and the pairs
\* handed out, so that the next diff starts from what the indexer has, whatever was
\* busy, lost or left unanswered in between.
THEOREM SenderInvariant == SenderSpec => []SenderInv
<1>1. ASSUME SenderIInv PROVE SenderInv
  <2>1. DiffFromBaseline
    BY <1>1 DEF SenderIInv, SyncedHasBaseline, DiffFromBaseline
  <2>2. TotalsTellTruth
    <3> SUFFICES ASSUME indexerFaults = 0, Waiting,
                        NEW after \in {IndexerAfter(payload, {})}
                 PROVE  /\ after.nodes = previousNodes
                        /\ TotalsAgree(after, {}) <=> Pairs(after.edges) = Pairs(previousEdges)
                        /\ phase = "complete" => TotalsAgree(after, {})
      BY DEF TotalsTellTruth
    <3>1. TotalsAgree(after, {}) <=> Pairs(after.edges) = Pairs(previousEdges)
      BY <1>1, TotalsTruth
    <3>2. /\ after.nodes = previousNodes
          /\ phase = "complete" => after.edges = previousEdges
      BY <1>1 DEF SenderIInv, ArrivesWhole
    <3> QED BY <3>1, <3>2
  <2> QED BY <1>1, <2>1, <2>2 DEF SenderIInv, SenderInv
<1> QED BY <1>1, SenderIInvariant, PTL

-----------------------------------------------------------------------------
(* The refinement of ReplicaSync.                                          *)

\* The variables of ReplicaSync, as Replica maps them.
Source == Contents(currentNodes, NewEdges)
Snapshot == Contents(previousNodes, previousEdges)
Held == Contents(indexer.nodes, indexer.edges)
Synced == phase = "idle" /\ lastSentTime # "never"
Intact == indexerFaults = 0

\* The steps of ReplicaSync, in the terms of the sender.
LEMMA ReplicaSteps ==
    /\ UNCHANGED <<Snapshot, Held, Synced, Intact>> => Replica!Next
    /\ /\ Snapshot' = Source /\ Synced' = FALSE
       /\ UNCHANGED <<Source, Held, Intact>>
       => Replica!Next
    /\ /\ Synced = FALSE
       /\ Held'.nodes = Snapshot.nodes
       /\ Snapshot.pairs \subseteq Held'.pairs
       /\ Held'.pairs \subseteq Snapshot.pairs \cup Held.pairs
       /\ Synced' \in BOOLEAN
       /\ Synced' => Held' = Snapshot
       /\ UNCHANGED <<Source, Snapshot, Intact>>
       => Replica!Next
    /\ Intact' = FALSE /\ UNCHANGED <<Source, Snapshot>> => Replica!Next
BY DEF Replica!Next, Replica!Change, Replica!Take, Replica!Install, Replica!Damage,
       Source, Snapshot, Held, Synced, Intact

\* A step that leaves the reconciler alone leaves source and snapshot alone.
LEMMA RecVarsContents ==
    ASSUME UNCHANGED recVars
    PROVE  UNCHANGED <<Source, Snapshot>>
BY DEF recVars, Source, Snapshot, Contents, Pairs, NewEdges, AllEdges, LinkType, OwnersInStore,
       OwnerClosed, Owner, Present

\* A payload is formed: Take.
LEMMA TakeStep ==
    ASSUME previousNodes' = currentNodes, previousEdges' = NewEdges,
           UNCHANGED <<currentNodes, edgeFuncs, indexer, indexerFaults>>,
           phase' \in {"diff", "complete"}
    PROVE  Replica!Next
<1>1. NewEdges' = NewEdges
  BY DEF NewEdges, AllEdges, LinkType, OwnersInStore, OwnerClosed, Owner, Present
<1>2. Snapshot' = Source /\ Synced' = FALSE /\ UNCHANGED <<Source, Held, Intact>>
  BY <1>1 DEF Source, Snapshot, Held, Synced, Intact, Contents, Pairs
<1> QED BY <1>2, ReplicaSteps

\* A payload is applied, and its answer arrives or not: Install.
LEMMA InstallStep ==
    ASSUME SenderIInv, indexerFaults = 0, indexerFaults' = 0, Waiting, UNCHANGED recVars,
           indexer' = IndexerAfter(payload, {}),
           \/ SendFailed
           \/ SendSucceeded /\ TotalsAgree(indexer', {})
    PROVE  Replica!Next
<1>1. /\ indexer'.nodes = previousNodes
      /\ Pairs(previousEdges) \subseteq Pairs(indexer'.edges)
      /\ payload.addEdges \subseteq previousEdges
  BY DEF SenderIInv, ArrivesWhole
<1>2. Pairs(indexer'.edges) \subseteq Pairs(previousEdges) \cup Pairs(indexer.edges)
  <2>1. indexer'.edges \subseteq payload.addEdges \cup indexer.edges
    BY IndexerAfterAll DEF SenderIInv, EdgesAfter
  <2>2. indexer'.edges \subseteq previousEdges \cup indexer.edges
    BY <1>1, <2>1
  <2> QED BY <2>2 DEF Pairs
<1>3. UNCHANGED <<Source, Snapshot, Intact>>
  BY RecVarsContents DEF Intact
<1>4. Synced = FALSE
  BY DEF Synced, Waiting
<1>5. Held' = [nodes |-> indexer'.nodes, pairs |-> Pairs(indexer'.edges)]
  BY DEF Held, Contents, Pairs
<1>6. Synced' => Held' = Snapshot
  <2>1. CASE SendFailed
    BY <2>1 DEF SendFailed, Synced, Waiting
  <2>2. CASE SendSucceeded /\ TotalsAgree(indexer', {})
    <3>1. Pairs(indexer'.edges) = Pairs(previousEdges)
      BY <2>2, TotalsTruth
    <3> QED BY <1>1, <1>5, <3>1 DEF Snapshot, Contents
  <2> QED BY <2>1, <2>2
<1>7. Synced' \in BOOLEAN
  BY DEF Synced
<1>8. /\ Held'.nodes = Snapshot.nodes
      /\ Snapshot.pairs \subseteq Held'.pairs
      /\ Held'.pairs \subseteq Snapshot.pairs \cup Held.pairs
  BY <1>1, <1>2, <1>5 DEF Snapshot, Held, Contents
<1> QED BY <1>3, <1>4, <1>6, <1>7, <1>8, ReplicaSteps

\* From the first fault of the indexer on, what it holds may be anything: Damage.
LEMMA DamageStep ==
    ASSUME indexerFaults' # 0, UNCHANGED recVars
    PROVE  Replica!Next
<1>1. Intact' = FALSE /\ UNCHANGED <<Source, Snapshot>>
  BY RecVarsContents DEF Intact
<1> QED BY <1>1, ReplicaSteps

\* Events, time and lost requests are changes of the source or nothing: Change.
LEMMA ChangeStep ==
    ASSUME UNCHANGED <<previousNodes, previousEdges, indexer, indexerFaults>>,
           Synced' = Synced
    PROVE  Replica!Next
<1>1. UNCHANGED <<Snapshot, Held, Synced, Intact>>
  BY DEF Snapshot, Held, Intact, Contents, Pairs
<1> QED BY <1>1, ReplicaSteps

\* The sender, the reconciler and the indexer implement ReplicaSync, for every number of
\* resources, events and faults: a diff, a complete payload, a repeated or an unanswered
\* request takes the indexer to the nodes of the last snapshot with all of its pairs, and
\* a sender that goes on to the next diff has left nothing but the snapshot there.
THEOREM SenderImplementsReplicaSync == SenderSpec => ImplementsReplicaSync
<1>1. SenderInit => Replica!Init
  <2> SUFFICES ASSUME SenderInit PROVE Replica!Init
    OBVIOUS
  <2>1. NewEdges = {}
    BY DEF SenderInit, RecInit, NewEdges, AllEdges, Edge
  <2>2. /\ currentNodes = previousNodes /\ previousEdges = {}
        /\ indexer.nodes = currentNodes /\ indexer.edges = {}
        /\ lastSentTime = "never" /\ indexerFaults = 0
    BY DEF SenderInit, RecInit
  <2> QED BY <2>1, <2>2 DEF Replica!Init, Contents
<1>2. SenderIInv /\ [SenderNext]_vars => [Replica!Next]_(Replica!vars)
  <2> SUFFICES ASSUME SenderIInv, SenderNext PROVE Replica!Next
    <3>1. ASSUME UNCHANGED vars PROVE UNCHANGED Replica!vars
      <4>1. UNCHANGED recVars /\ UNCHANGED <<indexer, phase, lastSentTime, indexerFaults>>
        BY <3>1 DEF vars, senderVars, faultVars
      <4>2. UNCHANGED <<Source, Snapshot>>
        BY <4>1, RecVarsContents
      <4>3. UNCHANGED <<Held, Synced, Intact>>
        BY <4>1 DEF Held, Synced, Intact, Contents, Pairs
      <4> QED BY <4>2, <4>3 DEF Replica!vars, Source, Snapshot, Held, Synced, Intact
    <3> QED BY <3>1
  <2>0. RecInv /\ SenderTypeOK
    BY DEF SenderIInv
  <2>1. CASE SyncComplete \/ ResendComplete
    BY <2>1, TakeStep DEF SyncComplete, ResendComplete, Complete, HandOut, faultVars
  <2>2. CASE SyncDiff
    <3>1. previousNodes' = currentNodes /\ previousEdges' = NewEdges
      BY <2>0, <2>2, DiffHandsOut DEF SyncDiff
    <3>2. UNCHANGED <<currentNodes, edgeFuncs>>
      BY <2>2 DEF SyncDiff, Diff, HandOut, recVars
    <3> QED BY <2>2, <3>1, <3>2, TakeStep DEF SyncDiff, faultVars
  <2>3. CASE PostAccepted
    <3>1. UNCHANGED recVars /\ indexerFaults' = indexerFaults
      BY <2>3 DEF PostAccepted, Post, faultVars
    <3>2. CASE indexerFaults = 0
      BY <2>3, <3>1, <3>2, InstallStep DEF PostAccepted, Post
    <3>3. CASE indexerFaults # 0
      BY <3>1, <3>3, DamageStep
    <3> QED BY <3>2, <3>3
  <2>4. CASE PostRejected
    <3>1. UNCHANGED recVars /\ Fault("rejected")
      BY <2>4 DEF PostRejected, Post
    <3>2. indexerFaults' # 0
      BY <2>0, <3>1, FaultType DEF IndexerFault
    <3> QED BY <3>1, <3>2, DamageStep
  <2>5. CASE PostBusy
    <3>1. indexerFaults' = indexerFaults
      BY <2>0, <2>5, FaultType DEF PostBusy, NetworkFault
    <3> QED BY <2>5, <3>1, ChangeStep DEF PostBusy, recVars, Synced
  <2>6. CASE PostLost
    <3>1. indexerFaults' = indexerFaults
      BY <2>0, <2>6, FaultType DEF PostLost, NetworkFault
    <3>2. Synced' = Synced
      BY <2>6 DEF PostLost, SendFailed, Waiting, Synced
    <3> QED BY <2>6, <3>1, <3>2, ChangeStep DEF PostLost, recVars
  <2>7. CASE PostUnacked
    <3>1. UNCHANGED recVars /\ indexerFaults' = indexerFaults
      BY <2>0, <2>7, FaultType DEF PostUnacked, NetworkFault
    <3>2. CASE indexerFaults = 0
      BY <2>7, <3>1, <3>2, InstallStep DEF PostUnacked
    <3>3. CASE indexerFaults # 0
      BY <3>1, <3>3, DamageStep
    <3> QED BY <3>2, <3>3
  <2>8. CASE Receive
    <3>1. UNCHANGED <<previousNodes, previousEdges>>
      BY <2>8, ReconcileKeepsBaseline DEF Receive
    <3> QED BY <2>8, <3>1, ChangeStep DEF Receive, faultVars, Synced
  <2>9. CASE HeartbeatDue
    BY <2>9, ChangeStep DEF HeartbeatDue, faultVars, recVars, Synced
  <2>10. CASE IndexerReset
    <3>1. indexerFaults' # 0
      BY <2>0, <2>10, FaultType DEF IndexerReset, IndexerFault
    <3> QED BY <2>10, <3>1, DamageStep DEF IndexerReset
  <2> QED BY <2>1, <2>2, <2>3, <2>4, <2>5, <2>6, <2>7, <2>8, <2>9, <2>10
          DEF SenderNext, SenderStep
<1> QED BY <1>1, <1>2, SenderIInvariant, PTL DEF SenderSpec, ImplementsReplicaSync, Replica!Spec
=============================================================================
