---------------------------- MODULE ReplicaSync ----------------------------
(***************************************************************************)
(* What the collector promises to the hub, without its events, payloads    *)
(* and retries: a replica that follows the snapshots of a source, and that *)
(* the collector takes for synchronised only while it holds the last       *)
(* snapshot, until the replica itself loses something.                     *)
(***************************************************************************)
VARIABLES
    source,    \* what the collector holds: its nodes, and the pairs of linked nodes
    snapshot,  \* what it held when it last formed a payload
    replica,   \* what the indexer holds
    synced,    \* the collector takes the replica for the snapshot
    intact     \* the indexer has kept all that it was sent

vars == <<source, snapshot, replica, synced, intact>>

Init ==
    /\ snapshot = source
    /\ replica = source
    /\ synced = FALSE
    /\ intact = TRUE

\* The source changes at any time.
Change == UNCHANGED <<snapshot, replica, synced, intact>>

\* A payload is formed: its baseline is the source as it is now.
Take ==
    /\ snapshot' = source
    /\ synced' = FALSE
    /\ UNCHANGED <<source, replica, intact>>

\* A payload arrives.  The replica has the nodes of the snapshot and all of its pairs at
\* once, and possibly pairs that it had before.  Only if there are none of those does the
\* collector take it for synchronised; it need not, when the answer is lost.
Install ==
    /\ ~synced
    /\ replica'.nodes = snapshot.nodes
    /\ snapshot.pairs \subseteq replica'.pairs
    /\ replica'.pairs \subseteq snapshot.pairs \cup replica.pairs
    /\ synced' \in BOOLEAN
    /\ synced' => replica' = snapshot
    /\ UNCHANGED <<source, snapshot, intact>>

\* The replica drops something, and what it holds from now on may be anything.
Damage ==
    /\ intact' = FALSE
    /\ UNCHANGED <<source, snapshot>>

Next == Change \/ Take \/ Install \/ Damage

Spec == Init /\ [][Next]_vars
=============================================================================
