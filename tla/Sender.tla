------------------------------- MODULE Sender -------------------------------
(***************************************************************************)
(* The sender of pkg/send/sender.go composed with the reconciler it asks   *)
(* for payloads and with the indexer (the aggregator of the hub), which is *)
(* external and modelled from how the sender uses it.                      *)
(*                                                                         *)
(* The sender is one goroutine.  Between taking a payload from the         *)
(* reconciler and knowing what became of it, the reconciler's own          *)
(* goroutine keeps receiving events: the payload is a snapshot, and Diff   *)
(* has already moved previousNodes on.                                     *)
(***************************************************************************)
EXTENDS Reconciler

CONSTANTS
    EventLimit,        \* bound on the events received in one behaviour
    NetworkFaultLimit, \* bound on the faults of the network
    IndexerFaultLimit  \* bound on the faults of the indexer

\* A busy indexer answers 429.  A request is lost before it is applied, or it is
\* applied and the answer is lost or cannot be decoded.
NetworkFault == {"busy", "lost", "unacked"}

\* The indexer refuses some nodes and says so in AddErrors, or loses its data.
IndexerFault == {"rejected", "reset"}

ASSUME SenderAssumption ==
    EventLimit \in Nat /\ NetworkFaultLimit \in Nat /\ IndexerFaultLimit \in Nat

VARIABLES
    lastSentTime,  \* "never" for -1, "due" once HeartbeatMS has passed since
    phase,         \* where Sync is: idle, or waiting with which payload
    payload,       \* the payload being sent, with the expected totals
    indexer,       \* [nodes, edges] the indexer holds for this cluster
    received,      \* number of events received so far
    networkFaults, indexerFaults   \* number of faults so far

faultVars == <<networkFaults, indexerFaults>>

senderVars == <<lastSentTime, phase, payload, indexer, received, faultVars>>

vars == <<recVars, senderVars>>

\* A payload with the totals that send expects after it.
Payload ==
    [clearAll : BOOLEAN,
     add : SUBSET Node, update : SUBSET Node, delete : SUBSET UID,
     addEdges : SUBSET Edge, deleteEdges : SUBSET Edge,
     totalNodes : Nat, totalEdges : Nat]

NoPayload == NoChange(0, 0)

SenderInit ==
    /\ RecInit
    /\ lastSentTime = "never"
    /\ phase = "idle"
    /\ payload = NoPayload
    /\ indexer = [nodes |-> [u \in UID |-> Absent], edges |-> {}]
    /\ received = 0
    /\ networkFaults = 0 /\ indexerFaults = 0

-----------------------------------------------------------------------------
(* The indexer (external).                                                 *)

\* The indexer's data after a payload, leaving out the nodes it rejects.
IndexerAfter(p, rejected) ==
    LET accepted == [p EXCEPT !.add = {n \in p.add : n.uid \notin rejected}]
        start == IF p.clearAll
                 THEN [nodes |-> [u \in UID |-> Absent], edges |-> {}]
                 ELSE indexer
    IN  [nodes |-> NodesAfter(start.nodes, accepted),
         edges |-> EdgesAfter(start.edges, accepted)]

\* A fault of this kind can still happen in this behaviour, and now does.
Fault(kind) ==
    \/ /\ kind \in NetworkFault
       /\ networkFaults < NetworkFaultLimit
       /\ networkFaults' = networkFaults + 1
       /\ UNCHANGED indexerFaults
    \/ /\ kind \in IndexerFault
       /\ indexerFaults < IndexerFaultLimit
       /\ indexerFaults' = indexerFaults + 1
       /\ UNCHANGED networkFaults

-----------------------------------------------------------------------------
(* The sender.                                                             *)

\* Sync when nothing was ever sent or the last cycle failed.
SyncComplete ==
    /\ phase = "idle"
    /\ lastSentTime = "never"
    /\ payload' = CompleteResult
    /\ Complete
    /\ phase' = "complete"
    /\ UNCHANGED <<lastSentTime, indexer, received, faultVars>>

\* Sync otherwise.  An empty diff is sent only as a heartbeat; when none is due
\* the cycle ends without a change.
SyncDiff ==
    /\ phase = "idle"
    /\ lastSentTime # "never"
    /\ DiffEmpty => lastSentTime = "due"
    /\ payload' = DiffResult
    /\ Diff
    /\ phase' = "diff"
    /\ UNCHANGED <<lastSentTime, indexer, received, faultVars>>

\* The diff could not be sent: the state may have moved on, so a new complete
\* payload is formed.
ResendComplete ==
    /\ phase = "failed"
    /\ payload' = CompleteResult
    /\ Complete
    /\ phase' = "complete"
    /\ UNCHANGED <<lastSentTime, indexer, received, faultVars>>

Waiting == phase \in {"diff", "complete"}

\* Mutation: a failed diff ends the cycle, and the next diff follows on it.
SendFailedNextDiff ==
    /\ payload' = NoPayload
    /\ phase' = "idle"
    /\ lastSentTime' = IF phase = "diff" THEN lastSentTime ELSE "never"

\* sendWithRetry returned an error: a failed diff is followed by a complete
\* payload, a failed complete payload by another one in the next cycle.
SendFailed ==
    /\ payload' = NoPayload
    /\ phase' = IF phase = "diff" THEN "failed" ELSE "idle"
    /\ lastSentTime' = IF phase = "diff" THEN lastSentTime ELSE "never"

SendSucceeded ==
    /\ payload' = NoPayload
    /\ phase' = "idle"
    /\ lastSentTime' = "recent"

\* Mutation: the totals are not compared.
TotalsIgnored(state, rejected) == TRUE

\* send compares the totals the indexer reports with the expected ones, less
\* the nodes reported in AddErrors.
TotalsAgree(state, rejected) ==
    /\ Cardinality(Present(state.nodes)) = payload.totalNodes - Cardinality(rejected)
    /\ Cardinality(state.edges) = payload.totalEdges

\* The indexer answers 200, possibly with errors for some of the added nodes.
Post(rejected) ==
    /\ Waiting
    /\ indexer' = IndexerAfter(payload, rejected)
    /\ IF TotalsAgree(indexer', rejected) THEN SendSucceeded ELSE SendFailed
    /\ UNCHANGED <<recVars, received>>

PostAccepted == Post({}) /\ UNCHANGED faultVars

PostRejected ==
    \E n \in payload.add : Post({n.uid}) /\ Fault("rejected")

\* The indexer is busy: the same payload is sent again.
PostBusy ==
    /\ Waiting
    /\ Fault("busy")
    /\ UNCHANGED <<recVars, lastSentTime, phase, payload, indexer, received>>

PostLost ==
    /\ Waiting
    /\ Fault("lost")
    /\ SendFailed
    /\ UNCHANGED <<recVars, indexer, received>>

PostUnacked ==
    /\ Waiting
    /\ Fault("unacked")
    /\ indexer' = IndexerAfter(payload, {})
    /\ SendFailed
    /\ UNCHANGED <<recVars, received>>

-----------------------------------------------------------------------------
(* The rest of the system.                                                 *)

\* The reconciler's goroutine receives an event.
Receive ==
    /\ received < EventLimit
    /\ received' = received + 1
    /\ \E ne \in NodeEvent : ReconcileNode(ne)
    /\ UNCHANGED <<lastSentTime, phase, payload, indexer, faultVars>>

HeartbeatDue ==
    /\ lastSentTime = "recent"
    /\ lastSentTime' = "due"
    /\ UNCHANGED <<recVars, phase, payload, indexer, received, faultVars>>

IndexerReset ==
    /\ Fault("reset")
    /\ indexer' = [nodes |-> [u \in UID |-> Absent], edges |-> {}]
    /\ UNCHANGED <<recVars, lastSentTime, phase, payload, received>>

SenderStep == SyncComplete \/ SyncDiff \/ ResendComplete \/ PostAccepted

SenderNext ==
    \/ SenderStep
    \/ PostRejected \/ PostBusy \/ PostLost \/ PostUnacked
    \/ Receive
    \/ HeartbeatDue
    \/ IndexerReset

SenderSpec == SenderInit /\ [][SenderNext]_vars

\* The send loop never stops, time passes, and a busy indexer answers in the end.
FairSenderSpec ==
    SenderSpec /\ WF_vars(SenderStep) /\ WF_vars(HeartbeatDue)

-----------------------------------------------------------------------------
(* Properties.                                                             *)

\* The type invariant of the sender and the indexer.
SenderTypeOK ==
    /\ lastSentTime \in {"never", "recent", "due"}
    /\ phase \in {"idle", "diff", "failed", "complete"}
    /\ payload \in Payload
    /\ indexer \in [nodes : [UID -> MaybeVersion], edges : SUBSET Edge]
    /\ received \in 0..EventLimit
    /\ networkFaults \in 0..NetworkFaultLimit
    /\ indexerFaults \in 0..IndexerFaultLimit

\* The indexer holds exactly what the reconciler handed out last.
IndexerHasBaseline ==
    /\ indexer.nodes = previousNodes
    /\ Pairs(indexer.edges) = Pairs(previousEdges)

\* As long as the indexer keeps what it is sent, it holds the state that a diff
\* starts from whenever Sync is about to send one, whatever was busy, lost or left
\* unanswered before: a diff is never applied to another baseline than the one it
\* was computed from.
DiffFromBaseline ==
    indexerFaults = 0 /\ phase = "idle" /\ lastSentTime # "never" => IndexerHasBaseline

\* Two numbers are enough to tell: while a payload is under way, the indexer that applies
\* it has the nodes handed out, and the totals it reports are the expected ones if and only
\* if the linked pairs are right as well.  They may be wrong without any fault, as Diff
\* does not report a change of an edge's type and the deletion of that edge names one
\* that the indexer has not; the complete payload, which is sent then, is always right.
TotalsTellTruth ==
    indexerFaults = 0 /\ Waiting =>
        \A after \in {IndexerAfter(payload, {})} :
            /\ after.nodes = previousNodes
            /\ TotalsAgree(after, {}) <=> Pairs(after.edges) = Pairs(previousEdges)
            /\ phase = "complete" => TotalsAgree(after, {})

\* The types, the baseline of a diff and the totals together: as long as the indexer keeps
\* what it is sent, a cycle that ends well leaves the indexer with what was handed out.
SenderInv ==
    /\ SenderTypeOK
    /\ DiffFromBaseline
    /\ TotalsTellTruth

\* The collector's state as the indexer sees it: nodes, and edges by their end points.
Contents(nodes, edges) == [nodes |-> nodes, pairs |-> Pairs(edges)]

Replica == INSTANCE ReplicaSync WITH
    source <- Contents(currentNodes, NewEdges),
    snapshot <- Contents(previousNodes, previousEdges),
    replica <- Contents(indexer.nodes, indexer.edges),
    synced <- phase = "idle" /\ lastSentTime # "never",
    intact <- indexerFaults = 0

\* The sender, the reconciler and the indexer implement ReplicaSync: whatever request the
\* indexer applies, be it a diff, a complete state, a repetition after a busy answer or one
\* whose answer is lost, its nodes become those that the reconciler held when it last
\* formed a payload, none of the linked pairs is missing, one too many was there before,
\* and the sender takes it for synchronised only when there is none too many.
ImplementsReplicaSync == Replica!Spec

\* Once events and faults stop, the indexer comes to hold what the reconciler
\* holds and keeps it, even after it refused nodes or lost its data while there
\* was nothing to send: the heartbeat's totals reveal it.
EventuallyInSync ==
    <>[](/\ indexer.nodes = currentNodes
         /\ Pairs(indexer.edges) = Pairs(NewEdges))

=============================================================================
