-------------------------- MODULE Pipeline_proofs --------------------------
(***************************************************************************)
(* Proofs about the way of events, for any number of workers, resources,   *)
(* versions and seconds: a remembered deletion is final, a cache with room *)
(* for all resources remembers every deletion, and where events tell all   *)
(* the reconciler settles on what was observed last.                       *)
(***************************************************************************)
EXTENDS Pipeline, Reconciler_proofs

\* Times are numbers, the zero of an entry that is not there included.
LEMMA TimeNat == \A t \in Time \cup {0} : t \in Nat
BY TimeAssumption

-----------------------------------------------------------------------------
(* What the cache forgets and what it keeps.                               *)

\* A lookup neither adds, removes nor changes an entry.
LEMMA PurgeGetKeeps ==
    ASSUME NEW cache \in [UID -> PurgeEntry], NEW u \in UID, NEW x \in UID
    PROVE  /\ PurgeGet(cache, u)[x].rank > 0 <=> cache[x].rank > 0
           /\ PurgeGet(cache, u)[x].time = cache[x].time
<1>1. CASE cache[u].rank = 0
  BY <1>1 DEF PurgeGet
<1>2. CASE cache[u].rank # 0
  <2>1. PurgeGet(cache, u)[x] = [cache[x] EXCEPT !.rank = ToFront(cache, u)[x]]
    BY <1>2 DEF PurgeGet
  <2>2. cache[x] \in PurgeEntry /\ cache[u] \in PurgeEntry
    OBVIOUS
  <2>3. ToFront(cache, u)[x] > 0 <=> cache[x].rank > 0
    BY <1>2, <2>2 DEF ToFront, PurgeEntry
  <2> QED BY <2>1, <2>2, <2>3 DEF PurgeEntry
<1> QED BY <1>1, <1>2

\* An addition remembers the new entry and otherwise adds and changes none.
LEMMA PurgeAddKeeps ==
    ASSUME NEW cache \in [UID -> PurgeEntry], NEW u \in UID, NEW t \in Time,
           NEW x \in UID
    PROVE  /\ PurgeAdd(cache, u, t)[u].rank > 0
           /\ PurgeAdd(cache, u, t)[u].time = t
           /\ x # u /\ PurgeAdd(cache, u, t)[x].rank > 0 =>
                 /\ cache[x].rank > 0
                 /\ PurgeAdd(cache, u, t)[x].time = cache[x].time
<1>1. cache[x] \in PurgeEntry /\ cache[u] \in PurgeEntry
  OBVIOUS
<1>2. ToFront(cache, u)[u] = 1
  BY DEF ToFront
<1>3. ~(1 > PurgeLimit)
  BY PurgeLimitAssumption
<1>4. PurgeAdd(cache, u, t)[u] = [rank |-> 1, time |-> t]
  BY <1>2, <1>3 DEF PurgeAdd
<1>5. ASSUME x # u, PurgeAdd(cache, u, t)[x].rank > 0
      PROVE  /\ cache[x].rank > 0
             /\ PurgeAdd(cache, u, t)[x].time = cache[x].time
  <2>1. PurgeAdd(cache, u, t)[x] =
          IF ToFront(cache, u)[x] > PurgeLimit THEN [rank |-> 0, time |-> 0]
          ELSE [rank |-> ToFront(cache, u)[x], time |-> cache[x].time]
    BY <1>5 DEF PurgeAdd
  <2>2. ToFront(cache, u)[x] > 0 => cache[x].rank > 0
    BY <1>1, <1>5 DEF ToFront, PurgeEntry
  <2> QED BY <1>5, <2>1, <2>2
<1> QED BY <1>4, <1>5

-----------------------------------------------------------------------------
(* The steps.                                                              *)

\* AddFunc and UpdateFunc: the new event is the latest, and of a resource that is
\* not gone any more.
LEMMA ObserveUpsertInv ==
    ASSUME NEW u \in UID, NEW v \in Version, PurgeInv, ObserveUpsert(u, v)
    PROVE  PurgeInv'
<1> DEFINE op == IF v = observed[u] \/ observed[u] = Absent THEN "Create" ELSE "Update"
           ne == [uid |-> u, op |-> op, ver |-> v, time |-> clock]
<1>1. /\ inflight' = inflight \cup {ne}
      /\ gone' = gone \ {u}
      /\ ~Deleting(u)
      /\ UNCHANGED <<recVars, clock, heldTime>>
  BY DEF ObserveUpsert
<1>2. UNCHANGED <<currentNodes, diffNodes, purgedNodes>> /\ RecTypeOK'
  BY <1>1 DEF PurgeInv, recVars, RecTypeOK
<1>3. /\ ne \in NodeEvent /\ ne.op # "Delete" /\ ne.uid = u /\ ne.time = clock
      /\ op \in {"Create", "Update"}
  BY DEF PurgeInv, NodeEvent
<1> HIDE DEF ne, op
<1>4. Time \subseteq Nat
  BY TimeAssumption
<1>5. TimesPast'
  BY <1>1, <1>2, <1>3, <1>4 DEF PurgeInv, TimesPast
<1>6. DeleteIsLast'
  BY <1>1, <1>2, <1>3 DEF PurgeInv, DeleteIsLast, Deleting
<1>7. HeldAfterPurge'
  BY <1>1, <1>2 DEF PurgeInv, HeldAfterPurge
<1>8. ASSUME NEW x \in UID PROVE Deleting(x)' <=> Deleting(x)
  BY <1>1, <1>3 DEF Deleting
<1>9. LateEventsOld'
  <2> SUFFICES ASSUME NEW e \in inflight',
                      e.uid \in gone', ~Deleting(e.uid)', purgedNodes'[e.uid].rank > 0
               PROVE  e.time <= purgedNodes'[e.uid].time
    BY DEF LateEventsOld
  <2>1. e \in inflight /\ e.uid \in UID
    BY <1>1, <1>3 DEF PurgeInv
  <2>2. ~Deleting(e.uid)
    BY <1>8, <2>1
  <2> QED BY <1>1, <1>2, <2>1, <2>2 DEF PurgeInv, LateEventsOld
<1>10. RememberedStaysDeleted'
  <2> SUFFICES ASSUME NEW x \in gone', purgedNodes'[x].rank > 0, ~Deleting(x)'
               PROVE  currentNodes'[x] = Absent
    BY DEF RememberedStaysDeleted
  <2>1. x \in gone /\ x \in UID
    BY <1>1 DEF PurgeInv
  <2> QED BY <1>2, <1>8, <2>1 DEF PurgeInv, RememberedStaysDeleted
<1>11. /\ clock' \in Time /\ gone' \subseteq UID /\ inflight' \subseteq NodeEvent
       /\ heldTime' \in [UID -> Time \cup {0}]
  BY <1>1, <1>3 DEF PurgeInv
<1> QED BY <1>2, <1>5, <1>6, <1>7, <1>9, <1>10, <1>11 DEF PurgeInv

\* DeleteFunc: the deletion is later than all that is under way.
LEMMA ObserveDeleteInv ==
    ASSUME NEW u \in UID, PurgeInv, ObserveDelete(u)
    PROVE  PurgeInv'
<1> DEFINE d == [uid |-> u, op |-> "Delete", ver |-> Absent, time |-> clock]
<1>1. /\ u \notin gone
      /\ inflight' = inflight \cup {d}
      /\ gone' = gone \cup {u}
      /\ UNCHANGED <<recVars, clock, heldTime>>
  BY DEF ObserveDelete
<1>2. UNCHANGED <<currentNodes, diffNodes, purgedNodes>> /\ RecTypeOK'
  BY <1>1 DEF PurgeInv, recVars, RecTypeOK
<1>3. d \in NodeEvent /\ d.op = "Delete" /\ d.uid = u /\ d.time = clock
  BY DEF PurgeInv, NodeEvent
<1> HIDE DEF d
<1>4. clock \in Nat
  BY TimeAssumption DEF PurgeInv
<1>5. TimesPast'
  BY <1>1, <1>2, <1>3, <1>4 DEF PurgeInv, TimesPast
<1>6. DeleteIsLast'
  <2> SUFFICES ASSUME NEW c \in inflight', c.op = "Delete"
               PROVE  /\ c.uid \in gone'
                      /\ \A ne \in inflight' : ne.uid = c.uid => ne.time <= c.time
                      /\ \A ne \in inflight' : ne.uid = c.uid /\ ne.op = "Delete" => ne = c
                      /\ heldTime'[c.uid] <= c.time
                      /\ diffNodes'[c.uid] # NoEvent => diffNodes'[c.uid].time <= c.time
    BY DEF DeleteIsLast
  <2>1. CASE c = d
    <3>1. \A ne \in inflight : ne.uid = u => ne.op # "Delete"
      BY <1>1 DEF PurgeInv, DeleteIsLast
    <3> QED BY <1>1, <1>2, <1>3, <1>4, <2>1, <3>1 DEF PurgeInv, TimesPast
  <2>2. CASE c # d
    <3>1. c \in inflight /\ c.uid \in gone /\ c.uid # u
      BY <1>1, <2>2 DEF PurgeInv, DeleteIsLast
    <3> QED BY <1>1, <1>2, <1>3, <3>1 DEF PurgeInv, DeleteIsLast
  <2> QED BY <2>1, <2>2
<1>7. HeldAfterPurge'
  BY <1>1, <1>2 DEF PurgeInv, HeldAfterPurge
<1>8. /\ Deleting(u)'
      /\ \A x \in UID : Deleting(x) => Deleting(x)'
  BY <1>1, <1>3 DEF Deleting
<1>9. LateEventsOld'
  <2> SUFFICES ASSUME NEW e \in inflight',
                      e.uid \in gone', ~Deleting(e.uid)', purgedNodes'[e.uid].rank > 0
               PROVE  e.time <= purgedNodes'[e.uid].time
    BY DEF LateEventsOld
  <2>1. e.uid # u
    BY <1>8
  <2>2. e \in inflight /\ e.uid \in gone /\ e.uid \in UID
    BY <1>1, <1>3, <2>1 DEF PurgeInv
  <2>3. ~Deleting(e.uid)
    BY <1>8, <2>2
  <2> QED BY <1>2, <2>2, <2>3 DEF PurgeInv, LateEventsOld
<1>10. RememberedStaysDeleted'
  <2> SUFFICES ASSUME NEW x \in gone', purgedNodes'[x].rank > 0, ~Deleting(x)'
               PROVE  currentNodes'[x] = Absent
    BY DEF RememberedStaysDeleted
  <2>1. x # u
    BY <1>8
  <2>2. x \in gone /\ x \in UID
    BY <1>1, <2>1 DEF PurgeInv
  <2> QED BY <1>2, <1>8, <2>2 DEF PurgeInv, RememberedStaysDeleted
<1>11. /\ clock' \in Time /\ gone' \subseteq UID /\ inflight' \subseteq NodeEvent
       /\ heldTime' \in [UID -> Time \cup {0}]
  BY <1>1, <1>3 DEF PurgeInv
<1> QED BY <1>2, <1>5, <1>6, <1>7, <1>9, <1>10, <1>11 DEF PurgeInv

\* An event that a worker drops is one event less to deliver; it is no deletion.
LEMMA WorkerPanicsInv ==
    ASSUME NEW ne \in inflight, PurgeInv, WorkerPanics(ne)
    PROVE  PurgeInv'
<1>1. /\ inflight' = inflight \ {ne}
      /\ UNCHANGED <<recVars, clock, gone, heldTime>>
  BY DEF WorkerPanics
<1>2. UNCHANGED <<currentNodes, diffNodes, purgedNodes>> /\ RecTypeOK'
  BY <1>1 DEF PurgeInv, recVars, RecTypeOK
<1>3. ne \in NodeEvent /\ ne.ver \in Version
  BY UntransformableAssumption DEF PurgeInv, WorkerPanics
<1>4. ne.op # "Delete"
  BY <1>3, VersionAssumption DEF NodeEvent
<1>5. ASSUME NEW x PROVE Deleting(x)' <=> Deleting(x)
  BY <1>1, <1>4 DEF Deleting
<1>6. TimesPast' /\ DeleteIsLast' /\ HeldAfterPurge'
  BY <1>1, <1>2 DEF PurgeInv, TimesPast, DeleteIsLast, HeldAfterPurge
<1>7. LateEventsOld'
  <2> SUFFICES ASSUME NEW e \in inflight',
                      e.uid \in gone', ~Deleting(e.uid)', purgedNodes'[e.uid].rank > 0
               PROVE  e.time <= purgedNodes'[e.uid].time
    BY DEF LateEventsOld
  <2>1. ~Deleting(e.uid)
    BY <1>5
  <2> QED BY <1>1, <1>2, <2>1 DEF PurgeInv, LateEventsOld
<1>8. RememberedStaysDeleted'
  BY <1>1, <1>2, <1>5 DEF PurgeInv, RememberedStaysDeleted
<1> QED BY <1>1, <1>2, <1>6, <1>7, <1>8 DEF PurgeInv

\* The reconciler takes a deletion.  It drops it only when the deletion before
\* is remembered as no older, and then the node is not held.
LEMMA DeliverDeleteInv ==
    ASSUME NEW ne \in inflight, ne.op = "Delete", PurgeInv, Deliver(ne)
    PROVE  PurgeInv'
<1> DEFINE u == ne.uid
<1>0. /\ ne \in NodeEvent /\ u \in UID
      /\ ne.time \in Time /\ ne.time \in Nat
  BY TimeAssumption DEF PurgeInv, NodeEvent
<1>1. inflight' = inflight \ {ne} /\ UNCHANGED <<clock, gone>>
  BY DEF Deliver
<1>2. \A e \in inflight' : e.uid = u => e.op # "Delete" /\ e.time <= ne.time
  BY <1>1 DEF PurgeInv, DeleteIsLast
<1>3. /\ ~Deleting(u)'
      /\ \A x \in UID : x # u => (Deleting(x)' <=> Deleting(x))
  BY <1>1, <1>2 DEF Deleting
<1>4. RecTypeOK'
  BY <1>0, ReconcileType DEF PurgeInv, Deliver, ReconcileNode
<1>5. purgedNodes \in [UID -> PurgeEntry]
  BY DEF PurgeInv, RecTypeOK
<1>6. ~NewerInDiff(ne)
  <2>1. diffNodes[u] # NoEvent => diffNodes[u] \in NodeEvent
    BY <1>0 DEF PurgeInv, RecTypeOK
  <2>2. diffNodes[u] # NoEvent => diffNodes[u].time \in Nat
    BY <2>1, TimeAssumption DEF NodeEvent
  <2>3. diffNodes[u] # NoEvent => diffNodes[u].time <= ne.time
    BY DEF PurgeInv, DeleteIsLast
  <2> QED BY <1>0, <2>2, <2>3 DEF NewerInDiff
<1>7. CASE IgnoreEvent(ne) /\ UNCHANGED heldTime
  <2>1. PurgedSince(ne)
    BY <1>6, <1>7 DEF IgnoreEvent
  <2>2. /\ purgedNodes' = PurgeGet(purgedNodes, u)
        /\ UNCHANGED <<currentNodes, diffNodes, heldTime>>
    BY <1>7 DEF IgnoreEvent
  <2>3. \A x \in UID : /\ purgedNodes'[x].rank > 0 <=> purgedNodes[x].rank > 0
                       /\ purgedNodes'[x].time = purgedNodes[x].time
    BY <1>0, <1>5, <2>2, PurgeGetKeeps
  <2>4. purgedNodes[u].time \in Nat /\ heldTime[u] \in Nat
    <3>1. purgedNodes[u] \in PurgeEntry /\ heldTime[u] \in Time \cup {0}
      BY <1>0, <1>5 DEF PurgeInv
    <3>2. purgedNodes[u].time \in Time \cup {0}
      BY <3>1 DEF PurgeEntry
    <3> QED BY <3>1, <3>2, TimeNat
  <2>5. currentNodes[u] = Absent
    BY <1>0, <2>1, <2>4 DEF PurgeInv, HeldAfterPurge, DeleteIsLast, PurgedSince
  <2>6. TimesPast' /\ DeleteIsLast'
    BY <1>1, <2>2 DEF PurgeInv, TimesPast, DeleteIsLast
  <2>7. HeldAfterPurge'
    BY <2>2, <2>3 DEF PurgeInv, HeldAfterPurge
  <2>8. LateEventsOld'
    <3> SUFFICES ASSUME NEW e \in inflight',
                        e.uid \in gone', ~Deleting(e.uid)', purgedNodes'[e.uid].rank > 0
                 PROVE  e.time <= purgedNodes'[e.uid].time
      BY DEF LateEventsOld
    <3>1. e \in inflight /\ e.uid \in UID /\ e.time \in Nat
      BY <1>1, TimeAssumption DEF PurgeInv, NodeEvent
    <3>2. CASE e.uid = u
      BY <1>0, <1>2, <2>1, <2>3, <2>4, <3>1, <3>2 DEF PurgedSince
    <3>3. CASE e.uid # u
      <4>1. ~Deleting(e.uid)
        BY <1>3, <3>1, <3>3
      <4> QED BY <1>1, <2>3, <3>1, <4>1 DEF PurgeInv, LateEventsOld
    <3> QED BY <3>2, <3>3
  <2>9. RememberedStaysDeleted'
    <3> SUFFICES ASSUME NEW x \in gone', purgedNodes'[x].rank > 0, ~Deleting(x)'
                 PROVE  currentNodes'[x] = Absent
      BY DEF RememberedStaysDeleted
    <3>1. x \in gone /\ x \in UID
      BY <1>1 DEF PurgeInv
    <3>2. CASE x = u
      BY <2>2, <2>5, <3>2
    <3>3. CASE x # u
      <4>1. ~Deleting(x) /\ purgedNodes[x].rank > 0
        BY <1>3, <2>3, <3>1, <3>3
      <4> QED BY <2>2, <3>1, <4>1 DEF PurgeInv, RememberedStaysDeleted
    <3> QED BY <3>2, <3>3
  <2> QED BY <1>1, <1>4, <2>2, <2>6, <2>7, <2>8, <2>9 DEF PurgeInv
<1>8. CASE DeleteNode(ne) /\ heldTime' = [heldTime EXCEPT ![u] = ne.time]
  <2>1. /\ purgedNodes' = PurgeAdd(purgedNodes, u, ne.time)
        /\ currentNodes' = [currentNodes EXCEPT ![u] = Absent]
        /\ diffNodes' = [diffNodes EXCEPT ![u] =
                            IF previousNodes[u] # Absent THEN ne ELSE NoEvent]
    BY <1>8 DEF DeleteNode, PendingDelete
  <2>2. /\ purgedNodes'[u].rank > 0 /\ purgedNodes'[u].time = ne.time
        /\ \A x \in UID : x # u /\ purgedNodes'[x].rank > 0 =>
              /\ purgedNodes[x].rank > 0
              /\ purgedNodes'[x].time = purgedNodes[x].time
    BY <1>0, <1>5, <2>1, PurgeAddKeeps
  <2>3. /\ currentNodes'[u] = Absent
        /\ \A x \in UID : x # u => /\ currentNodes'[x] = currentNodes[x]
                                    /\ diffNodes'[x] = diffNodes[x]
                                    /\ heldTime'[x] = heldTime[x]
        /\ heldTime'[u] = ne.time
        /\ diffNodes'[u] \in {ne, NoEvent}
    BY <1>0, <1>8, <2>1 DEF PurgeInv, RecTypeOK
  <2>4. TimesPast'
    BY <1>0, <1>1, <2>3 DEF PurgeInv, TimesPast
  <2>5. DeleteIsLast'
    <3> SUFFICES ASSUME NEW c \in inflight', c.op = "Delete"
                 PROVE  /\ c.uid \in gone'
                        /\ \A e \in inflight' : e.uid = c.uid => e.time <= c.time
                        /\ \A e \in inflight' : e.uid = c.uid /\ e.op = "Delete" => e = c
                        /\ heldTime'[c.uid] <= c.time
                        /\ diffNodes'[c.uid] # NoEvent => diffNodes'[c.uid].time <= c.time
      BY DEF DeleteIsLast
    <3>1. c \in inflight /\ c.uid \in UID /\ c.uid # u
      BY <1>1, <1>2 DEF PurgeInv, NodeEvent
    <3> QED BY <1>1, <2>3, <3>1 DEF PurgeInv, DeleteIsLast
  <2>6. HeldAfterPurge'
    BY <2>2, <2>3 DEF PurgeInv, HeldAfterPurge
  <2>7. LateEventsOld'
    <3> SUFFICES ASSUME NEW e \in inflight',
                        e.uid \in gone', ~Deleting(e.uid)', purgedNodes'[e.uid].rank > 0
                 PROVE  e.time <= purgedNodes'[e.uid].time
      BY DEF LateEventsOld
    <3>1. e \in inflight /\ e.uid \in UID
      BY <1>0, <1>1 DEF PurgeInv, NodeEvent
    <3>2. CASE e.uid = u
      BY <1>2, <2>2, <3>1, <3>2
    <3>3. CASE e.uid # u
      <4>1. ~Deleting(e.uid)
        BY <1>3, <3>1, <3>3
      <4> QED BY <1>1, <2>2, <3>1, <3>3, <4>1 DEF PurgeInv, LateEventsOld
    <3> QED BY <3>2, <3>3
  <2>8. RememberedStaysDeleted'
    <3> SUFFICES ASSUME NEW x \in gone', purgedNodes'[x].rank > 0, ~Deleting(x)'
                 PROVE  currentNodes'[x] = Absent
      BY DEF RememberedStaysDeleted
    <3>1. x \in gone /\ x \in UID
      BY <1>1 DEF PurgeInv
    <3>2. CASE x = u
      BY <2>3, <3>2
    <3>3. CASE x # u
      <4>1. ~Deleting(x) /\ purgedNodes[x].rank > 0
        BY <1>3, <2>2, <3>1, <3>3
      <4> QED BY <2>3, <3>1, <3>3, <4>1 DEF PurgeInv, RememberedStaysDeleted
    <3> QED BY <3>2, <3>3
  <2>9. heldTime' \in [UID -> Time \cup {0}]
    BY <1>0, <1>8 DEF PurgeInv
  <2> QED BY <1>1, <1>4, <2>4, <2>5, <2>6, <2>7, <2>8, <2>9 DEF PurgeInv
<1> QED BY <1>7, <1>8 DEF Deliver, UpsertNode
\* The reconciler takes a creation or an update.  Of a resource whose deletion
\* is remembered it takes none that is not newer.
LEMMA DeliverUpsertInv ==
    ASSUME NEW ne \in inflight, ne.op # "Delete", PurgeInv, Deliver(ne)
    PROVE  PurgeInv'
<1> DEFINE u == ne.uid
<1>0. /\ ne \in NodeEvent /\ u \in UID
      /\ ne.time \in Time /\ ne.time \in Nat
  BY TimeAssumption DEF PurgeInv, NodeEvent
<1>1. inflight' = inflight \ {ne} /\ UNCHANGED <<clock, gone>>
  BY DEF Deliver
<1>2. \A x \in UID : Deleting(x)' <=> Deleting(x)
  BY <1>1 DEF Deleting
<1>3. RecTypeOK'
  BY <1>0, ReconcileType DEF PurgeInv, Deliver, ReconcileNode
<1>4. purgedNodes \in [UID -> PurgeEntry]
  BY DEF PurgeInv, RecTypeOK
<1>5. purgedNodes' = PurgeGet(purgedNodes, u)
  BY DEF Deliver, IgnoreEvent, UpsertNode, DeleteNode
<1>6. \A x \in UID : /\ purgedNodes'[x].rank > 0 <=> purgedNodes[x].rank > 0
                     /\ purgedNodes'[x].time = purgedNodes[x].time
  BY <1>0, <1>4, <1>5, PurgeGetKeeps
<1>7. LateEventsOld'
  <2> SUFFICES ASSUME NEW e \in inflight',
                      e.uid \in gone', ~Deleting(e.uid)', purgedNodes'[e.uid].rank > 0
               PROVE  e.time <= purgedNodes'[e.uid].time
    BY DEF LateEventsOld
  <2>1. e \in inflight /\ e.uid \in UID /\ ~Deleting(e.uid)
    BY <1>1, <1>2 DEF PurgeInv, NodeEvent
  <2> QED BY <1>1, <1>6, <2>1 DEF PurgeInv, LateEventsOld
<1>8. CASE IgnoreEvent(ne) /\ UNCHANGED heldTime
  <2>1. UNCHANGED <<currentNodes, diffNodes, heldTime>>
    BY <1>8 DEF IgnoreEvent
  <2>2. TimesPast' /\ DeleteIsLast'
    BY <1>1, <2>1 DEF PurgeInv, TimesPast, DeleteIsLast
  <2>3. HeldAfterPurge'
    BY <1>6, <2>1 DEF PurgeInv, HeldAfterPurge
  <2>4. RememberedStaysDeleted'
    BY <1>1, <1>2, <1>6, <2>1 DEF PurgeInv, RememberedStaysDeleted
  <2> QED BY <1>1, <1>3, <1>7, <2>1, <2>2, <2>3, <2>4 DEF PurgeInv
<1>9. CASE UpsertNode(ne) /\ heldTime' = [heldTime EXCEPT ![u] = ne.time]
  <2> DEFINE op == IF previousNodes[u] # Absent THEN "Update" ELSE "Create"
  <2>1. /\ \A x \in UID : x # u => /\ currentNodes'[x] = currentNodes[x]
                                    /\ diffNodes'[x] = diffNodes[x]
                                    /\ heldTime'[x] = heldTime[x]
        /\ heldTime'[u] = ne.time
        /\ diffNodes'[u] = [ne EXCEPT !.op = op]
    BY <1>0, <1>9 DEF PurgeInv, RecTypeOK, UpsertNode, PendingUpsert
  <2>2. diffNodes'[u].time = ne.time
    BY <1>0, <2>1 DEF NodeEvent
  <2>3. TimesPast'
    BY <1>0, <1>1, <2>1, <2>2 DEF PurgeInv, TimesPast
  <2>4. DeleteIsLast'
    <3> SUFFICES ASSUME NEW c \in inflight', c.op = "Delete"
                 PROVE  /\ c.uid \in gone'
                        /\ \A e \in inflight' : e.uid = c.uid => e.time <= c.time
                        /\ \A e \in inflight' : e.uid = c.uid /\ e.op = "Delete" => e = c
                        /\ heldTime'[c.uid] <= c.time
                        /\ diffNodes'[c.uid] # NoEvent => diffNodes'[c.uid].time <= c.time
      BY DEF DeleteIsLast
    <3>1. c \in inflight /\ c.uid \in UID
      BY <1>1 DEF PurgeInv, NodeEvent
    <3>2. CASE c.uid = u
      BY <1>1, <2>1, <2>2, <3>1, <3>2 DEF PurgeInv, DeleteIsLast
    <3>3. CASE c.uid # u
      BY <1>1, <2>1, <3>1, <3>3 DEF PurgeInv, DeleteIsLast
    <3> QED BY <3>2, <3>3
  <2>5. purgedNodes[u].rank > 0 => ne.time > purgedNodes[u].time
    <3>1. purgedNodes[u].time \in Time \cup {0}
      BY <1>0, <1>4 DEF PurgeEntry
    <3>2. purgedNodes[u].time \in Nat
      BY <3>1, TimeNat
    <3> QED BY <1>0, <1>9, <3>2 DEF UpsertNode, PurgedSince
  <2>6. HeldAfterPurge'
    <3> SUFFICES ASSUME NEW x \in UID,
                        purgedNodes'[x].rank > 0, currentNodes'[x] # Absent
                 PROVE  heldTime'[x] > purgedNodes'[x].time
      BY DEF HeldAfterPurge
    <3>1. CASE x = u
      BY <1>6, <2>1, <2>5, <3>1
    <3>2. CASE x # u
      BY <1>6, <2>1, <3>2 DEF PurgeInv, HeldAfterPurge
    <3> QED BY <3>1, <3>2
  <2>7. RememberedStaysDeleted'
    <3> SUFFICES ASSUME NEW x \in gone', purgedNodes'[x].rank > 0, ~Deleting(x)'
                 PROVE  currentNodes'[x] = Absent
      BY DEF RememberedStaysDeleted
    <3>1. /\ x \in gone /\ x \in UID
          /\ ~Deleting(x) /\ purgedNodes[x].rank > 0
      BY <1>1, <1>2, <1>6 DEF PurgeInv
    <3>2. x # u
      <4> SUFFICES ASSUME x = u PROVE FALSE
        OBVIOUS
      <4>1. ne.time <= purgedNodes[u].time
        BY <3>1 DEF PurgeInv, LateEventsOld
      <4>2. purgedNodes[u].time \in Time \cup {0}
        BY <1>0, <1>4 DEF PurgeEntry
      <4>3. purgedNodes[u].time \in Nat
        BY <4>2, TimeNat
      <4> QED BY <1>0, <2>5, <3>1, <4>1, <4>3
    <3> QED BY <2>1, <3>1, <3>2 DEF PurgeInv, RememberedStaysDeleted
  <2>8. heldTime' \in [UID -> Time \cup {0}]
    BY <1>0, <1>9 DEF PurgeInv
  <2> QED BY <1>1, <1>3, <1>7, <2>3, <2>4, <2>6, <2>7, <2>8 DEF PurgeInv
<1> QED BY <1>8, <1>9 DEF Deliver, DeleteNode

\* Handing out drops pending differences and leaves the rest alone.
LEMMA HandOutPurgeInv ==
    ASSUME PurgeInv, HandOut, UNCHANGED pipeVars
    PROVE  PurgeInv'
<1>1. RecTypeOK'
  BY HandOutType DEF PurgeInv
<1>2. /\ UNCHANGED <<clock, gone, inflight, heldTime, currentNodes, purgedNodes>>
      /\ \A u \in UID : diffNodes'[u] = NoEvent
  BY DEF HandOut, pipeVars
<1>3. \A ne \in inflight : ne.uid \in UID
  BY DEF PurgeInv, NodeEvent
<1> QED BY <1>1, <1>2, <1>3 DEF PurgeInv, TimesPast, DeleteIsLast, HeldAfterPurge,
          LateEventsOld, RememberedStaysDeleted, Deleting

\* Time passes.
LEMMA TickInv ==
    ASSUME PurgeInv, Tick
    PROVE  PurgeInv'
<1>1. /\ UNCHANGED <<currentNodes, diffNodes, purgedNodes, gone, inflight, heldTime>>
      /\ RecTypeOK'
  BY DEF Tick, recVars, PurgeInv, RecTypeOK
<1>2. clock \in Nat /\ clock' = clock + 1 /\ clock' \in Time
  BY TimeAssumption DEF PurgeInv, Tick
<1>3. TimesPast'
  <2>1. \A ne \in inflight : ne.time \in Nat
    BY TimeAssumption DEF PurgeInv, NodeEvent
  <2>2. \A u \in UID : heldTime[u] \in Nat
    BY TimeNat DEF PurgeInv
  <2>3. \A u \in UID : diffNodes[u] # NoEvent => diffNodes[u] \in NodeEvent
    BY DEF PurgeInv, RecTypeOK
  <2>4. \A u \in UID : diffNodes[u] # NoEvent => diffNodes[u].time \in Nat
    BY <2>3, TimeAssumption DEF NodeEvent
  <2> QED BY <1>1, <1>2, <2>1, <2>2, <2>4 DEF PurgeInv, TimesPast
<1> QED BY <1>1, <1>2, <1>3 DEF PurgeInv, DeleteIsLast, HeldAfterPurge,
          LateEventsOld, RememberedStaysDeleted, Deleting

-----------------------------------------------------------------------------
(* The theorem.                                                            *)

\* Nothing is under way and nothing is remembered initially.
LEMMA PurgeInvInit == PipeInit => PurgeInv
<1> SUFFICES ASSUME PipeInit PROVE PurgeInv
  OBVIOUS
<1>1. RecTypeOK
  BY RecInvInit DEF PipeInit, RecInv
<1>2. clock \in Time /\ clock \in Nat
  BY TimeAssumption DEF PipeInit
<1> QED BY <1>1, <1>2 DEF PipeInit, RecInit, PurgeInv, TimesPast, DeleteIsLast,
          HeldAfterPurge, LateEventsOld, RememberedStaysDeleted

\* Every step keeps the invariant behind the theorem.
LEMMA PurgeInvNext == PurgeInv /\ [PipeNext]_vars => PurgeInv'
<1> SUFFICES ASSUME PurgeInv, [PipeNext]_vars PROVE PurgeInv'
  OBVIOUS
<1>1. ASSUME NEW u \in UID, NEW v \in Version, ObserveUpsert(u, v) PROVE PurgeInv'
  BY <1>1, ObserveUpsertInv
<1>2. ASSUME NEW u \in UID, ObserveDelete(u) PROVE PurgeInv'
  BY <1>2, ObserveDeleteInv
<1>3. ASSUME NEW ne \in inflight, WorkerPanics(ne) PROVE PurgeInv'
  BY <1>3, WorkerPanicsInv
<1>4. ASSUME NEW ne \in inflight, Deliver(ne) PROVE PurgeInv'
  BY <1>4, DeliverDeleteInv, DeliverUpsertInv
<1>5. CASE HandOut /\ UNCHANGED pipeVars
  BY <1>5, HandOutPurgeInv
<1>6. CASE Tick
  BY <1>6, TickInv
<1>7. CASE UNCHANGED vars
  BY <1>7 DEF vars, recVars, pipeVars, PurgeInv, RecTypeOK, TimesPast, DeleteIsLast,
              HeldAfterPurge, LateEventsOld, RememberedStaysDeleted, Deleting
<1> QED BY <1>1, <1>2, <1>3, <1>4, <1>5, <1>6, <1>7
        DEF PipeNext, HandOutDiff, HandOutComplete, Diff, Complete, vars

\* No resurrection: as long as purgedNodes remembers the deletion of a resource,
\* no event that was under way brings the resource back.  It is the property
\* TestReconcilerOutOfOrderDelete shows for one order of two events.
THEOREM NoResurrection == PipeSpec => []RememberedStaysDeleted
<1>1. PurgeInv => RememberedStaysDeleted
  BY DEF PurgeInv
<1> QED BY <1>1, PurgeInvInit, PurgeInvNext, PTL DEF PipeSpec

-----------------------------------------------------------------------------
(* A cache with room for all resources forgets nothing.                    *)

\* The number of remembered deletions is a number, at most that of the resources.
LEMMA RememberedCount ==
    ASSUME NEW cache
    PROVE  /\ IsFiniteSet(Remembered(cache))
           /\ Cardinality(Remembered(cache)) \in Nat
           /\ Cardinality(UID) \in Nat
           /\ Cardinality(Remembered(cache)) <= Cardinality(UID)
<1>1. Remembered(cache) \subseteq UID
  BY DEF Remembered
<1> QED BY <1>1, UIDAssumption, FS_Subset, FS_CardinalityType

\* Moving an entry to the front moves none further back than there are entries,
\* the new one included.
LEMMA ToFrontWithin ==
    ASSUME NEW cache \in [UID -> PurgeEntry], NEW u \in UID,
           \A x \in UID : cache[x].rank <= Cardinality(Remembered(cache))
    PROVE  \A x \in UID : ToFront(cache, u)[x] <= Cardinality(Remembered(cache) \cup {u})
<1> DEFINE n == Cardinality(Remembered(cache))
           m == Cardinality(Remembered(cache) \cup {u})
<1>1. \A x \in UID : cache[x].rank \in Nat
  BY DEF PurgeEntry
<1>2. n \in Nat /\ IsFiniteSet(Remembered(cache))
  BY RememberedCount
<1>3. m = IF cache[u].rank > 0 THEN n ELSE n + 1
  BY <1>2, FS_AddElement DEF Remembered
<1> HIDE DEF n, m
<1>4. \A x \in UID : cache[x].rank <= n
  BY DEF n
<1>5. ASSUME NEW x \in UID PROVE ToFront(cache, u)[x] <= m
  <2>1. m \in Nat /\ m >= n /\ (cache[u].rank = 0 => m = n + 1)
    BY <1>1, <1>2, <1>3
  <2>2. CASE x = u
    <3>1. ToFront(cache, u)[x] = 1
      BY <2>2 DEF ToFront
    <3>2. m >= 1
      BY <1>1, <1>2, <1>3, <1>4
    <3> QED BY <3>1, <3>2, <2>1
  <2>3. CASE x # u
    <3>1. cache[x].rank \in Nat /\ cache[u].rank \in Nat /\ cache[x].rank <= n
          /\ cache[u].rank <= n
      BY <1>1, <1>4
    <3>2. ToFront(cache, u)[x] =
            IF cache[x].rank > 0 /\ (cache[u].rank = 0 \/ cache[x].rank < cache[u].rank)
            THEN cache[x].rank + 1 ELSE cache[x].rank
      BY <2>3 DEF ToFront
    <3> QED BY <1>2, <2>1, <3>1, <3>2
  <2> QED BY <2>2, <2>3
<1> QED BY <1>5 DEF m

\* A lookup remembers what was remembered, no further back than there are entries.
LEMMA PurgeGetWithin ==
    ASSUME NEW cache \in [UID -> PurgeEntry], NEW u \in UID,
           \A x \in UID : cache[x].rank <= Cardinality(Remembered(cache))
    PROVE  \A x \in UID :
              PurgeGet(cache, u)[x].rank <= Cardinality(Remembered(PurgeGet(cache, u)))
<1>1. Remembered(PurgeGet(cache, u)) = Remembered(cache)
  BY PurgeGetKeeps DEF Remembered
<1>2. CASE cache[u].rank = 0
  BY <1>1, <1>2 DEF PurgeGet
<1>3. CASE cache[u].rank # 0
  <2>1. Remembered(cache) \cup {u} = Remembered(cache)
    BY <1>3 DEF Remembered, PurgeEntry
  <2>2. ASSUME NEW x \in UID PROVE PurgeGet(cache, u)[x].rank = ToFront(cache, u)[x]
    <3>1. PurgeGet(cache, u)[x] = [cache[x] EXCEPT !.rank = ToFront(cache, u)[x]]
      BY <1>3 DEF PurgeGet
    <3>2. cache[x] \in PurgeEntry
      OBVIOUS
    <3> QED BY <3>1, <3>2 DEF PurgeEntry
  <2> QED BY <1>1, <2>1, <2>2, ToFrontWithin
<1> QED BY <1>2, <1>3

\* An addition to a cache with room for all resources pushes nothing out.
LEMMA PurgeAddWithin ==
    ASSUME NEW cache \in [UID -> PurgeEntry], NEW u \in UID, NEW t \in Time,
           Cardinality(UID) <= PurgeLimit,
           \A x \in UID : cache[x].rank <= Cardinality(Remembered(cache))
    PROVE  /\ Remembered(PurgeAdd(cache, u, t)) = Remembered(cache) \cup {u}
           /\ \A x \in UID :
                 PurgeAdd(cache, u, t)[x].rank
                 <= Cardinality(Remembered(PurgeAdd(cache, u, t)))
<1>1. Remembered(cache) \cup {u} \subseteq UID
  BY DEF Remembered
<1>2. /\ Cardinality(Remembered(cache) \cup {u}) \in Nat
      /\ Cardinality(UID) \in Nat
      /\ Cardinality(Remembered(cache) \cup {u}) <= Cardinality(UID)
  BY <1>1, UIDAssumption, FS_Subset, FS_CardinalityType
<1>3. ASSUME NEW x \in UID
      PROVE  /\ ToFront(cache, u)[x] \in Nat
             /\ ToFront(cache, u)[x] <= Cardinality(Remembered(cache) \cup {u})
             /\ PurgeAdd(cache, u, t)[x].rank = ToFront(cache, u)[x]
  <2>1. ToFront(cache, u)[x] \in Nat
    BY ToFrontType
  <2>2. ToFront(cache, u)[x] <= Cardinality(Remembered(cache) \cup {u})
    BY ToFrontWithin
  <2>3. ~(ToFront(cache, u)[x] > PurgeLimit)
    BY <1>2, <2>1, <2>2, PurgeLimitAssumption
  <2> QED BY <2>1, <2>2, <2>3 DEF PurgeAdd
<1>4. ASSUME NEW x \in UID
      PROVE  ToFront(cache, u)[x] > 0 <=> cache[x].rank > 0 \/ x = u
  <2>1. cache[x].rank \in Nat
    BY DEF PurgeEntry
  <2> QED BY <2>1 DEF ToFront
<1>5. Remembered(PurgeAdd(cache, u, t)) = Remembered(cache) \cup {u}
  BY <1>3, <1>4 DEF Remembered
<1> QED BY <1>3, <1>5

-----------------------------------------------------------------------------
(* No more events are in transformation than there are workers.            *)

\* A free worker takes one event.
LEMMA UpsertTaken ==
    ASSUME NEW ne, ne.op # "Delete", IsFiniteSet(inflight), FreeWorker,
           inflight' = inflight \cup {ne}
    PROVE  IsFiniteSet(inflight') /\ Cardinality(Upserts)' <= Workers
<1>1. IsFiniteSet(inflight')
  BY FS_AddElement
<1>2. IsFiniteSet(Upserts)
  BY FS_Subset DEF Upserts
<1>3. Upserts' = Upserts \cup {ne}
  BY DEF Upserts
<1>4. /\ Cardinality(Upserts) \in Nat
      /\ Cardinality(Upserts \cup {ne}) \in {Cardinality(Upserts), Cardinality(Upserts) + 1}
  BY <1>2, FS_AddElement, FS_CardinalityType
<1> QED BY <1>1, <1>3, <1>4, WorkersAssumption DEF FreeWorker

\* Events that leave, and deletions that come, take no worker.
LEMMA UpsertsFewer ==
    ASSUME IsFiniteSet(inflight), IsFiniteSet(inflight'), Cardinality(Upserts) <= Workers,
           Upserts' \subseteq Upserts
    PROVE  Cardinality(Upserts)' <= Workers
<1>1. IsFiniteSet(Upserts)
  BY FS_Subset DEF Upserts
<1>2. /\ Cardinality(Upserts') \in Nat /\ Cardinality(Upserts) \in Nat
      /\ Cardinality(Upserts') <= Cardinality(Upserts)
  BY <1>1, FS_Subset, FS_CardinalityType
<1> QED BY <1>2, WorkersAssumption

-----------------------------------------------------------------------------
(* The theorem about PipeInv.                                              *)

\* What an event does to the cache: it keeps the ranks, and the deletion of the
\* event, or the one that made the reconciler drop it, is remembered.
LEMMA DeliverRemembers ==
    ASSUME NEW ne \in inflight, PipeIInv, Deliver(ne)
    PROVE  /\ RanksWithin'
           /\ PurgeRemembers'
<1>1. /\ ne \in NodeEvent /\ ne.uid \in UID /\ ne.time \in Time
      /\ purgedNodes \in [UID -> PurgeEntry]
      /\ gone' = gone /\ gone \subseteq UID
      /\ inflight' = inflight \ {ne}
  BY DEF PipeIInv, PurgeInv, RecTypeOK, NodeEvent, Deliver
<1>2. SUFFICES ASSUME Cardinality(UID) <= PurgeLimit
               PROVE  /\ \A x \in UID : purgedNodes'[x].rank
                                         <= Cardinality(Remembered(purgedNodes'))
                      /\ \A x \in gone : ~Deleting(x)' => purgedNodes'[x].rank > 0
  BY <1>1 DEF RanksWithin, PurgeRemembers
<1>3. /\ \A x \in UID : purgedNodes[x].rank <= Cardinality(Remembered(purgedNodes))
      /\ \A x \in gone : ~Deleting(x) => purgedNodes[x].rank > 0
  BY <1>2 DEF PipeIInv, PipeInv, RanksWithin, PurgeRemembers
<1>4. ASSUME NEW x \in UID, Deleting(x), ~Deleting(x)'
      PROVE  x = ne.uid /\ ne.op = "Delete"
  BY <1>1, <1>4 DEF Deleting
<1>5. CASE DeleteNode(ne)
  <2>1. purgedNodes' = PurgeAdd(purgedNodes, ne.uid, ne.time)
    BY <1>5 DEF DeleteNode
  <2>2. /\ Remembered(purgedNodes') = Remembered(purgedNodes) \cup {ne.uid}
        /\ \A x \in UID : purgedNodes'[x].rank <= Cardinality(Remembered(purgedNodes'))
    BY <1>1, <1>2, <1>3, <2>1, PurgeAddWithin
  <2>3. \A x \in UID : purgedNodes'[x].rank > 0 <=> purgedNodes[x].rank > 0 \/ x = ne.uid
    BY <2>2 DEF Remembered
  <2> QED BY <1>1, <1>3, <1>4, <2>2, <2>3
<1>6. CASE IgnoreEvent(ne) \/ UpsertNode(ne)
  <2>1. purgedNodes' = PurgeGet(purgedNodes, ne.uid)
    BY <1>6 DEF IgnoreEvent, UpsertNode
  <2>2. \A x \in UID : purgedNodes'[x].rank <= Cardinality(Remembered(purgedNodes'))
    BY <1>1, <1>3, <2>1, PurgeGetWithin
  <2>3. \A x \in UID : purgedNodes'[x].rank > 0 <=> purgedNodes[x].rank > 0
    BY <1>1, <2>1, PurgeGetKeeps
  <2>4. ne.op = "Delete" => purgedNodes[ne.uid].rank > 0
    <3> SUFFICES ASSUME ne.op = "Delete" PROVE PurgedSince(ne)
      BY DEF PurgedSince
    <3>1. diffNodes[ne.uid] # NoEvent => /\ diffNodes[ne.uid] \in NodeEvent
                                         /\ diffNodes[ne.uid].time <= ne.time
      BY <1>1 DEF PipeIInv, PurgeInv, RecTypeOK, DeleteIsLast
    <3>2. diffNodes[ne.uid] # NoEvent => diffNodes[ne.uid].time \in Nat
      BY <3>1, TimeAssumption DEF NodeEvent
    <3>3. ~NewerInDiff(ne)
      <4>1. ne.time \in Nat
        BY <1>1, TimeAssumption
      <4> QED BY <3>1, <3>2, <4>1 DEF NewerInDiff
    <3> QED BY <1>6, <3>3 DEF IgnoreEvent, UpsertNode
  <2> QED BY <1>1, <1>3, <1>4, <2>2, <2>3, <2>4
<1> QED BY <1>5, <1>6 DEF Deliver

\* Nothing is under way initially.
LEMMA PipeIInvInit == PipeInit => PipeIInv
<1> SUFFICES ASSUME PipeInit PROVE PipeIInv
  OBVIOUS
<1>1. PurgeInv
  BY PurgeInvInit
<1>2. IsFiniteSet(inflight) /\ Upserts = {}
  BY FS_EmptySet DEF PipeInit, Upserts
<1>3. PipeTypeOK
  BY <1>1, <1>2, FS_EmptySet, WorkersAssumption
     DEF PipeInit, PipeTypeOK, PurgeInv, MaybeVersion
<1>4. PurgeRemembers
  BY DEF PipeInit, PurgeRemembers
<1>5. RanksWithin
  BY RememberedCount DEF PipeInit, RecInit, RanksWithin
<1> QED BY <1>1, <1>2, <1>3, <1>4, <1>5 DEF PipeIInv, PipeInv

\* Every step keeps the invariant.
LEMMA PipeIInvNext == PipeIInv /\ [PipeNext]_vars => PipeIInv'
<1> SUFFICES ASSUME PipeIInv, [PipeNext]_vars PROVE PipeIInv'
  OBVIOUS
<1>0. PurgeInv'
  BY PurgeInvNext DEF PipeIInv
<1> DEFINE Kept ==
              /\ observed' \in [UID -> MaybeVersion] /\ latest' \in [UID -> MaybeVersion]
              /\ unordered' \subseteq UID
              /\ IsFiniteSet(inflight') /\ Cardinality(Upserts)' <= Workers
              /\ RanksWithin' /\ PurgeRemembers'
<1>1. SUFFICES Kept
  BY <1>0 DEF PipeIInv, PipeInv, PipeTypeOK, PurgeInv
<1>2. /\ observed \in [UID -> MaybeVersion] /\ latest \in [UID -> MaybeVersion]
      /\ unordered \subseteq UID
      /\ IsFiniteSet(inflight) /\ Cardinality(Upserts) <= Workers
      /\ inflight \subseteq NodeEvent /\ gone \subseteq UID
  BY DEF PipeIInv, PipeInv, PipeTypeOK
<1>3. ASSUME UNCHANGED <<purgedNodes, gone, inflight>>
      PROVE  RanksWithin' /\ PurgeRemembers'
  BY <1>3 DEF PipeIInv, PipeInv, RanksWithin, PurgeRemembers, Deleting
<1>4. ASSUME NEW u \in UID, NEW v \in Version, ObserveUpsert(u, v)
      PROVE  Kept
  <2> DEFINE op == IF v = observed[u] \/ observed[u] = Absent THEN "Create" ELSE "Update"
             ne == [uid |-> u, op |-> op, ver |-> v, time |-> clock]
  <2>1. /\ FreeWorker
        /\ inflight' = inflight \cup {ne}
        /\ observed' = [observed EXCEPT ![u] = v]
        /\ latest' = IF <<u, v>> \in Untransformable THEN latest
                     ELSE [latest EXCEPT ![u] = v]
        /\ gone' = gone \ {u}
        /\ UNCHANGED <<purgedNodes, unordered>>
    BY <1>4 DEF ObserveUpsert, recVars
  <2>2. ne.op # "Delete" /\ ne.uid = u
    OBVIOUS
  <2> HIDE DEF ne
  <2>3. IsFiniteSet(inflight') /\ Cardinality(Upserts)' <= Workers
    BY <1>2, <2>1, <2>2, UpsertTaken
  <2>4. observed' \in [UID -> MaybeVersion] /\ latest' \in [UID -> MaybeVersion]
    BY <1>2, <2>1 DEF MaybeVersion
  <2>5. \A x \in UID : Deleting(x)' <=> Deleting(x)
    BY <2>1, <2>2 DEF Deleting
  <2>6. RanksWithin' /\ PurgeRemembers'
    BY <1>2, <2>1, <2>5 DEF PipeIInv, PipeInv, RanksWithin, PurgeRemembers
  <2> QED BY <1>2, <2>1, <2>3, <2>4, <2>6
<1>5. ASSUME NEW u \in UID, ObserveDelete(u)
      PROVE  Kept
  <2> DEFINE d == [uid |-> u, op |-> "Delete", ver |-> Absent, time |-> clock]
  <2>1. /\ inflight' = inflight \cup {d}
        /\ latest' = [latest EXCEPT ![u] = Absent]
        /\ gone' = gone \cup {u}
        /\ UNCHANGED <<purgedNodes, observed, unordered>>
    BY <1>5 DEF ObserveDelete, recVars
  <2>2. d.op = "Delete" /\ d.uid = u
    OBVIOUS
  <2> HIDE DEF d
  <2>3. IsFiniteSet(inflight')
    BY <1>2, <2>1, FS_AddElement
  <2>4. Upserts' \subseteq Upserts
    BY <2>1, <2>2 DEF Upserts
  <2>5. Deleting(u)' /\ \A x \in UID : Deleting(x) => Deleting(x)'
    BY <2>1, <2>2 DEF Deleting
  <2>6. RanksWithin' /\ PurgeRemembers'
    BY <1>2, <2>1, <2>5 DEF PipeIInv, PipeInv, RanksWithin, PurgeRemembers
  <2>7. latest' \in [UID -> MaybeVersion]
    BY <1>2, <2>1 DEF MaybeVersion
  <2> QED BY <1>2, <2>1, <2>3, <2>4, <2>6, <2>7, UpsertsFewer
<1>6. ASSUME NEW ne \in inflight, inflight' = inflight \ {ne}
      PROVE  IsFiniteSet(inflight') /\ Cardinality(Upserts)' <= Workers
  <2>1. IsFiniteSet(inflight')
    BY <1>2, <1>6, FS_RemoveElement
  <2>2. Upserts' \subseteq Upserts
    BY <1>6 DEF Upserts
  <2> QED BY <1>2, <2>1, <2>2, UpsertsFewer
<1>7. ASSUME NEW ne \in inflight, WorkerPanics(ne)
      PROVE  Kept
  <2>1. /\ inflight' = inflight \ {ne}
        /\ UNCHANGED <<purgedNodes, gone, observed, latest, unordered>>
    BY <1>7 DEF WorkerPanics, recVars
  <2>2. ne \in NodeEvent /\ ne.ver \in Version
    BY <1>2, <1>7, UntransformableAssumption DEF WorkerPanics
  <2>3. ne.op # "Delete"
    BY <2>2, VersionAssumption DEF NodeEvent
  <2>4. \A x \in UID : Deleting(x)' <=> Deleting(x)
    BY <2>1, <2>3 DEF Deleting
  <2>5. RanksWithin' /\ PurgeRemembers'
    BY <1>2, <2>1, <2>4 DEF PipeIInv, PipeInv, RanksWithin, PurgeRemembers
  <2> QED BY <1>2, <1>6, <2>1, <2>5
<1>8. ASSUME NEW ne \in inflight, Deliver(ne)
      PROVE  Kept
  <2>1. /\ inflight' = inflight \ {ne}
        /\ UNCHANGED <<observed, latest>>
        /\ unordered' \subseteq unordered \cup {ne.uid}
    BY <1>8 DEF Deliver
  <2>2. ne.uid \in UID
    BY <1>2 DEF NodeEvent
  <2> QED BY <1>2, <1>6, <1>8, <2>1, <2>2, DeliverRemembers
<1>9. CASE HandOut /\ UNCHANGED pipeVars
  BY <1>2, <1>3, <1>9 DEF HandOut, pipeVars, Upserts
<1>10. CASE Tick
  BY <1>2, <1>3, <1>10 DEF Tick, recVars, Upserts
<1>11. CASE UNCHANGED vars
  BY <1>2, <1>3, <1>11 DEF vars, recVars, pipeVars, Upserts
<1> QED BY <1>4, <1>5, <1>7, <1>8, <1>9, <1>10, <1>11
        DEF PipeNext, HandOutDiff, HandOutComplete, Diff, Complete, vars

\* The pipeline keeps its types, never has more events in transformation than
\* workers, and a purgedNodes cache with room for all resources remembers every
\* deletion that reached the reconciler: with NoResurrection, the deletion of such a
\* resource is final.
THEOREM PipelineInvariant == PipeSpec => []PipeInv
<1>1. PipeIInv => PipeInv
  BY DEF PipeIInv
<1> QED BY <1>1, PipeIInvInit, PipeIInvNext, PTL DEF PipeSpec

-----------------------------------------------------------------------------
(* The reconciler settles on what was last observed.                       *)

\* Versions are numbers, and times are.
LEMMA Numbers ==
    ASSUME PipeIInv
    PROVE  /\ \A u \in UID : /\ currentNodes[u] \in MaybeVersion /\ currentNodes[u] \in Nat
                             /\ previousNodes[u] \in MaybeVersion /\ previousNodes[u] \in Nat
                             /\ observed[u] \in Nat /\ latest[u] \in MaybeVersion
                             /\ latest[u] \in Nat /\ heldTime[u] \in Nat
           /\ \A m \in inflight : m \in NodeEvent /\ m.uid \in UID /\ m.time \in Nat
           /\ \A m \in Upserts : m.ver \in Version /\ m.ver \in Nat \ {0}
<1>1. \A v \in MaybeVersion : v \in Nat
  BY VersionAssumption DEF MaybeVersion, Absent
<1>2. \A t \in Time \cup {0} : t \in Nat
  BY TimeNat
<1>3. /\ currentNodes \in [UID -> MaybeVersion] /\ previousNodes \in [UID -> MaybeVersion]
      /\ observed \in [UID -> MaybeVersion] /\ latest \in [UID -> MaybeVersion]
      /\ heldTime \in [UID -> Time \cup {0}]
      /\ inflight \subseteq NodeEvent
  BY DEF PipeIInv, PipeInv, PipeTypeOK, PurgeInv, RecTypeOK
<1>4. \A m \in inflight : m.uid \in UID /\ m.time \in Time
                         /\ (m.op # "Delete" => m.ver \in Version)
  BY <1>3 DEF NodeEvent
<1> QED BY <1>1, <1>2, <1>3, <1>4, VersionAssumption, TimeAssumption DEF Upserts, Absent

\* A step that does not touch what is known of a resource keeps it, if it takes
\* none of its events away.
LEMMA UntouchedSettles ==
    ASSUME NEW u \in UID,
           UNCHANGED <<observed[u], latest[u], currentNodes[u], heldTime[u]>>,
           purgedNodes'[u].rank > 0 => purgedNodes[u].rank > 0,
           purgedNodes'[u].rank \in Nat,
           previousNodes'[u] \in {previousNodes[u], currentNodes[u]},
           currentNodes[u] \in Nat,
           diffNodes'[u] \in {diffNodes[u], NoEvent},
           \A m : m.uid = u => (m \in Upserts' <=> m \in Upserts)
    PROVE  /\ Known(u) => Known(u)'
           /\ InOrder(u) => InOrder(u)'
           /\ SettlesOn(u) => SettlesOn(u)'
<1>1. Known(u) => Known(u)'
  BY DEF Known
<1>2. InOrder(u) => InOrder(u)'
  BY DEF InOrder
<1>3. SettlesOn(u) => SettlesOn(u)'
  BY DEF SettlesOn, HoldsLatestOf
<1> QED BY <1>1, <1>2, <1>3

\* An observation: the new event is of the latest version and of the latest time.
LEMMA ObserveUpsertSettles ==
    ASSUME EventsTellAll, SettleInv, PipeIInv', NEW u \in UID, NEW v \in Version,
           ObserveUpsert(u, v)
    PROVE  SettleInv'
<1> DEFINE op == IF v = observed[u] \/ observed[u] = Absent THEN "Create" ELSE "Update"
           ne == [uid |-> u, op |-> op, ver |-> v, time |-> clock]
<1>1. /\ u \notin gone
      /\ v >= observed[u]
      /\ inflight' = inflight \cup {ne}
      /\ observed' = [observed EXCEPT ![u] = v]
      /\ latest' = IF <<u, v>> \in Untransformable THEN latest
                   ELSE [latest EXCEPT ![u] = v]
      /\ gone' = gone \ {u}
      /\ UNCHANGED <<currentNodes, previousNodes, diffNodes, purgedNodes, heldTime, unordered>>
  BY DEF ObserveUpsert, recVars, EventsTellAll
<1>2. ne.op # "Delete" /\ ne.uid = u /\ ne.ver = v /\ ne.time = clock
  OBVIOUS
<1> HIDE DEF ne
<1>3. gone' = gone
  BY <1>1
<1>4. Upserts' = Upserts \cup {ne}
  BY <1>1, <1>2 DEF Upserts
<1>5. PipeIInv
  BY DEF SettleInv
<1>6. /\ clock \in Nat /\ heldTime[u] <= clock
      /\ \A m \in inflight : m.time <= clock
  BY <1>5, TimeAssumption DEF PipeIInv, PurgeInv, TimesPast
<1>7. v \in Nat \ {0}
  BY VersionAssumption DEF Absent
<1>8. /\ observed' [u] = v
      /\ latest'[u] = IF <<u, v>> \in Untransformable THEN latest[u] ELSE v
      /\ \A x \in UID : x # u => observed'[x] = observed[x] /\ latest'[x] = latest[x]
  BY <1>1, <1>5 DEF PipeIInv, PipeInv, PipeTypeOK
<1>9. \A x \in gone' : latest'[x] = Absent
  <2>1. gone \subseteq UID
    BY <1>5 DEF PipeIInv, PurgeInv
  <2> QED BY <1>1, <1>3, <1>8, <2>1 DEF SettleInv
<1>10. Known(u)'
  <2>1. Known(u)
    BY <1>1 DEF SettleInv
  <2>2. /\ currentNodes'[u] <= latest'[u] /\ latest'[u] <= observed'[u]
        /\ \A m \in Upserts : m.uid = u =>
             /\ m.ver <= observed'[u]
             /\ <<u, m.ver>> \notin Untransformable => m.ver <= latest'[u]
    BY <1>1, <1>5, <1>7, <1>8, <2>1, Numbers DEF Known
  <2> QED BY <1>1, <1>2, <1>4, <1>7, <1>8, <2>1, <2>2 DEF Known
<1>11. ASSUME u \notin unordered PROVE InOrder(u)' /\ SettlesOn(u)'
  <2>1. Known(u) /\ InOrder(u) /\ SettlesOn(u)
    BY <1>1, <1>11 DEF SettleInv
  <2>2. \A m \in Upserts : m.uid = u => m.time <= clock /\ m.ver <= v
    <3>1. \A m \in Upserts : m.time <= clock
      BY <1>6 DEF Upserts
    <3>2. observed[u] \in Nat /\ \A m \in Upserts : m.ver \in Nat
      BY <1>5, Numbers
    <3>3. \A m \in Upserts : m.uid = u => m.ver <= observed[u]
      BY <2>1 DEF Known
    <3> QED BY <1>1, <1>7, <3>1, <3>2, <3>3
  <2>3. currentNodes[u] <= v
    BY <1>1, <1>5, <1>7, <2>1, Numbers DEF Known
  <2>4. ASSUME NEW m \in Upserts', m.uid = u
        PROVE  /\ currentNodes'[u] <= m.ver
               /\ heldTime'[u] > m.time => m.ver <= currentNodes'[u]
    <3>1. CASE m \in Upserts
      BY <1>1, <2>1, <2>4, <3>1 DEF InOrder
    <3>2. CASE m = ne
      BY <1>1, <1>2, <1>5, <1>6, <2>3, <3>2, Numbers
    <3> QED BY <1>4, <3>1, <3>2
  <2>5. ASSUME NEW m \in Upserts', NEW n \in Upserts', m.uid = u, n.uid = u, m.time < n.time
        PROVE  m.ver <= n.ver
    <3>1. CASE m \in Upserts /\ n \in Upserts
      BY <2>1, <2>5, <3>1 DEF InOrder
    <3>2. CASE n = ne
      <4>1. m # ne
        BY <1>2, <1>6, <2>5, <3>2
      <4> QED BY <1>2, <1>4, <2>2, <2>5, <3>2, <4>1
    <3>3. CASE m = ne /\ n \in Upserts
      <4>1. n.time \in Nat /\ n.time <= clock
        BY <1>5, <2>2, <2>5, <3>3, Numbers DEF Upserts
      <4> QED BY <1>2, <1>6, <2>5, <3>3, <4>1
    <3> QED BY <1>4, <3>1, <3>2, <3>3
  <2>6. InOrder(u)'
    BY <1>1, <2>1, <2>4, <2>5 DEF InOrder
  <2>7. SettlesOn(u)'
    <3>1. CASE <<u, v>> \in Untransformable
      <4>1. HoldsLatestOf(u) => HoldsLatestOf(u)'
        BY <1>1, <1>8, <3>1 DEF HoldsLatestOf
      <4> QED BY <1>4, <1>8, <2>1, <3>1, <4>1 DEF SettlesOn
    <3>2. CASE <<u, v>> \notin Untransformable
      BY <1>2, <1>4, <1>8, <3>2 DEF SettlesOn
    <3> QED BY <3>1, <3>2
  <2> QED BY <2>6, <2>7
<1>12. ASSUME NEW x \in UID, x # u
       PROVE  /\ Known(x) => Known(x)'
              /\ InOrder(x) => InOrder(x)'
              /\ SettlesOn(x) => SettlesOn(x)'
  <2>1. \A m : m.uid = x => (m \in Upserts' <=> m \in Upserts)
    BY <1>2, <1>4, <1>12
  <2>2. purgedNodes'[x].rank \in Nat
    BY <1>1, <1>5 DEF PipeIInv, PurgeInv, RecTypeOK, PurgeEntry
  <2> QED BY <1>1, <1>5, <1>8, <1>12, <2>1, <2>2, Numbers, UntouchedSettles
<1>13. \A x \in UID \ gone' : Known(x)'
  BY <1>3, <1>10, <1>12 DEF SettleInv
<1>14. \A x \in UID \ (gone' \cup unordered') : InOrder(x)' /\ SettlesOn(x)'
  BY <1>1, <1>3, <1>11, <1>12 DEF SettleInv
<1> QED BY <1>9, <1>13, <1>14 DEF SettleInv

\* A deletion is observed: of the resource nothing more needs to be known.
LEMMA ObserveDeleteSettles ==
    ASSUME SettleInv, PipeIInv', NEW u \in UID, ObserveDelete(u)
    PROVE  SettleInv'
<1> DEFINE d == [uid |-> u, op |-> "Delete", ver |-> Absent, time |-> clock]
<1>1. /\ inflight' = inflight \cup {d}
      /\ latest' = [latest EXCEPT ![u] = Absent]
      /\ gone' = gone \cup {u}
      /\ UNCHANGED <<currentNodes, previousNodes, diffNodes, purgedNodes, heldTime,
                     unordered, observed>>
  BY DEF ObserveDelete, recVars
<1>2. d.op = "Delete"
  OBVIOUS
<1> HIDE DEF d
<1>3. Upserts' = Upserts
  BY <1>1, <1>2 DEF Upserts
<1>4. PipeIInv
  BY DEF SettleInv
<1>5. /\ latest'[u] = Absent
      /\ \A x \in UID : x # u => latest'[x] = latest[x]
      /\ gone \subseteq UID
  BY <1>1, <1>4 DEF PipeIInv, PipeInv, PipeTypeOK
<1>6. \A x \in gone' : latest'[x] = Absent
  BY <1>1, <1>5 DEF SettleInv
<1>7. ASSUME NEW x \in UID, x # u
      PROVE  /\ Known(x) => Known(x)'
             /\ InOrder(x) => InOrder(x)'
             /\ SettlesOn(x) => SettlesOn(x)'
  <2>1. purgedNodes'[x].rank \in Nat
    BY <1>1, <1>4 DEF PipeIInv, PurgeInv, RecTypeOK, PurgeEntry
  <2> QED BY <1>1, <1>3, <1>4, <1>5, <1>7, <2>1, Numbers, UntouchedSettles
<1>8. \A x \in UID \ gone' : Known(x)'
  BY <1>1, <1>7 DEF SettleInv
<1>9. \A x \in UID \ (gone' \cup unordered') : InOrder(x)' /\ SettlesOn(x)'
  BY <1>1, <1>7 DEF SettleInv
<1> QED BY <1>6, <1>8, <1>9 DEF SettleInv

\* A transformation panics: its version is not the latest that transforms.
LEMMA WorkerPanicsSettles ==
    ASSUME SettleInv, PipeIInv', NEW ne \in inflight, WorkerPanics(ne)
    PROVE  SettleInv'
<1>1. /\ <<ne.uid, ne.ver>> \in Untransformable
      /\ inflight' = inflight \ {ne}
      /\ UNCHANGED <<currentNodes, previousNodes, diffNodes, purgedNodes, heldTime,
                     unordered, observed, latest, gone>>
  BY DEF WorkerPanics, recVars
<1>2. Upserts' = Upserts \ {ne}
  BY <1>1 DEF Upserts
<1>3. ASSUME NEW x \in UID, Known(x) PROVE Known(x)'
  BY <1>1, <1>2, <1>3 DEF Known
<1>4. ASSUME NEW x \in UID, InOrder(x) PROVE InOrder(x)'
  BY <1>1, <1>2, <1>4 DEF InOrder
<1>5. ASSUME NEW x \in UID, Known(x), SettlesOn(x) PROVE SettlesOn(x)'
  <2>1. HoldsLatestOf(x) => HoldsLatestOf(x)'
    BY <1>1 DEF HoldsLatestOf
  <2>2. \A m \in Upserts : m.uid = x /\ m.ver = latest[x] => m # ne
    BY <1>1, <1>5 DEF Known
  <2> QED BY <1>1, <1>2, <1>5, <2>1, <2>2 DEF SettlesOn
<1>6. \A x \in UID \ gone' : Known(x)'
  BY <1>1, <1>3 DEF SettleInv
<1>7. \A x \in UID \ (gone' \cup unordered') : InOrder(x)' /\ SettlesOn(x)'
  BY <1>1, <1>4, <1>5 DEF SettleInv
<1> QED BY <1>1, <1>6, <1>7 DEF SettleInv

\* An event of a resource that was not deleted, that is dropped although it may be
\* the latest: what is held has the same properties.
LEMMA IgnoredIsHeld ==
    ASSUME EventsTellAll, SettleInv, NEW ne \in Upserts, IgnoreEvent(ne),
           ne.uid \notin gone, ne.uid \notin unordered
    PROVE  /\ currentNodes[ne.uid] # Absent
           /\ PropsOf[ne.uid][currentNodes[ne.uid]] = PropsOf[ne.uid][ne.ver]
<1> DEFINE u == ne.uid
<1>0. ne \in inflight /\ ne.op # "Delete"
  BY DEF Upserts
<1>1. /\ u \in UID /\ ne.ver \in Version /\ ne.ver \in Nat \ {0} /\ ne.time \in Nat
      /\ currentNodes[u] \in MaybeVersion /\ currentNodes[u] \in Nat
      /\ previousNodes[u] \in MaybeVersion /\ previousNodes[u] \in Nat
      /\ heldTime[u] \in Nat
  BY <1>0, Numbers DEF SettleInv
<1>2. Known(u) /\ InOrder(u)
  BY <1>1 DEF SettleInv
<1>3. currentNodes[u] <= ne.ver /\ previousNodes[u] <= currentNodes[u]
  BY <1>2 DEF InOrder
<1>4. CASE NewerInDiff(ne)
  <2>1. heldTime[u] > ne.time
    BY <1>2, <1>4 DEF NewerInDiff, Known
  <2>2. ne.ver <= currentNodes[u]
    BY <1>2, <2>1 DEF InOrder
  <2>3. currentNodes[u] = ne.ver
    BY <1>1, <1>3, <2>2
  <2> QED BY <1>1, <2>3 DEF Absent
<1>5. CASE PurgedSince(ne)
  BY <1>2, <1>5 DEF PurgedSince, Known
<1>6. CASE Redundant(u, ne.ver)
  <2>1. previousNodes[u] # Absent /\ PropsOf[u][ne.ver] = PropsOf[u][previousNodes[u]]
    BY <1>6 DEF Redundant, SameProperties
  <2>2. currentNodes[u] # Absent
    BY <1>1, <1>3, <2>1 DEF Absent
  <2>3. previousNodes[u] \in Version /\ currentNodes[u] \in Version
    BY <1>1, <2>1, <2>2 DEF MaybeVersion
  <2>4. PropsOf[u][currentNodes[u]] = PropsOf[u][ne.ver]
    BY <1>1, <1>3, <2>1, <2>3 DEF EventsTellAll
  <2> QED BY <2>2, <2>4
<1>7. CASE OldRevision(u, ne.ver)
  <2>1. PICK nodes \in {previousNodes, currentNodes} :
           nodes[u] # Absent /\ RevisionOf[u][nodes[u]] > RevisionOf[u][ne.ver]
    BY <1>7 DEF OldRevision
  <2>2. nodes[u] \in Version /\ nodes[u] <= ne.ver
    BY <1>1, <1>3, <2>1 DEF MaybeVersion
  <2>3. RevisionOf[u][nodes[u]] <= RevisionOf[u][ne.ver]
    BY <1>1, <2>2 DEF EventsTellAll
  <2>4. RevisionOf[u][nodes[u]] \in Nat /\ RevisionOf[u][ne.ver] \in Nat
    BY <1>1, <2>2, ContentAssumption
  <2> QED BY <2>1, <2>3, <2>4
<1> QED BY <1>0, <1>4, <1>5, <1>6, <1>7 DEF IgnoreEvent

\* The reconciler takes an event.
LEMMA DeliverSettles ==
    ASSUME EventsTellAll, SettleInv, PipeIInv', NEW ne \in inflight, Deliver(ne)
    PROVE  SettleInv'
<1> DEFINE u == ne.uid
<1>0. PipeIInv /\ ne \in NodeEvent /\ u \in UID /\ ne.time \in Time
  BY DEF SettleInv, PipeIInv, PurgeInv, NodeEvent
<1>1. /\ <<u, ne.ver>> \notin Untransformable
      /\ inflight' = inflight \ {ne}
      /\ UNCHANGED <<observed, latest, gone>>
      /\ unordered' = IF Overtaken(ne) THEN unordered \cup {u} ELSE unordered
      /\ UNCHANGED previousNodes
      /\ heldTime' = heldTime \/ heldTime' = [heldTime EXCEPT ![u] = ne.time]
  BY DEF Deliver, IgnoreEvent, DeleteNode, UpsertNode
<1>2. /\ Upserts' = Upserts \ {ne}
      /\ ne.op = "Delete" => u \in gone
      /\ ne.op # "Delete" => ne \in Upserts
  BY <1>1 DEF Upserts, SettleInv, PipeIInv, PurgeInv, DeleteIsLast
<1>3. /\ purgedNodes \in [UID -> PurgeEntry] /\ purgedNodes' \in [UID -> PurgeEntry]
      /\ currentNodes \in [UID -> MaybeVersion] /\ heldTime \in [UID -> Time \cup {0}]
      /\ diffNodes \in [UID -> NodeEvent \cup {NoEvent}]
  BY <1>0 DEF PipeIInv, PurgeInv, RecTypeOK
<1>4. ASSUME NEW x \in UID, x # u
      PROVE  /\ Known(x) => Known(x)'
             /\ InOrder(x) => InOrder(x)'
             /\ SettlesOn(x) => SettlesOn(x)'
  <2>1. /\ currentNodes'[x] = currentNodes[x] /\ diffNodes'[x] = diffNodes[x]
        /\ heldTime'[x] = heldTime[x]
    BY <1>1, <1>3, <1>4 DEF Deliver, IgnoreEvent, DeleteNode, UpsertNode
  <2>2. purgedNodes'[x].rank > 0 => purgedNodes[x].rank > 0
    <3>1. \/ purgedNodes' = PurgeGet(purgedNodes, u)
          \/ purgedNodes' = PurgeAdd(purgedNodes, u, ne.time)
      BY DEF Deliver, IgnoreEvent, DeleteNode, UpsertNode
    <3> QED BY <1>0, <1>3, <1>4, <3>1, PurgeGetKeeps, PurgeAddKeeps
  <2>3. purgedNodes'[x].rank \in Nat
    BY <1>3 DEF PurgeEntry
  <2>4. \A m : m.uid = x => (m \in Upserts' <=> m \in Upserts)
    BY <1>2, <1>4
  <2> QED BY <1>0, <1>1, <2>1, <2>2, <2>3, <2>4, Numbers, UntouchedSettles
<1>5. ASSUME u \notin gone PROVE Known(u)' /\ (u \notin unordered' => InOrder(u)' /\ SettlesOn(u)')
  <2>1. /\ ne \in Upserts /\ Known(u)
        /\ u \notin unordered' => u \notin unordered /\ ~Overtaken(ne)
        /\ u \notin unordered' => InOrder(u) /\ SettlesOn(u)
    BY <1>0, <1>1, <1>2, <1>5 DEF SettleInv
  <2>2. purgedNodes'[u].rank = 0
    <3>1. purgedNodes' = PurgeGet(purgedNodes, u)
      BY <1>2, <1>5 DEF Deliver, IgnoreEvent, DeleteNode, UpsertNode
    <3> QED BY <2>1, <3>1 DEF PurgeGet, Known
  <2>3. ne.ver \in Version /\ ne.ver \in Nat \ {0}
    BY <1>0, <2>1, Numbers
  <2>4. CASE IgnoreEvent(ne) /\ UNCHANGED heldTime
    <3>1. UNCHANGED <<currentNodes, diffNodes, heldTime>>
      BY <2>4 DEF IgnoreEvent
    <3>2. Known(u)'
      BY <1>1, <1>2, <2>1, <2>2, <3>1 DEF Known
    <3>3. ASSUME u \notin unordered' PROVE InOrder(u)'
      BY <1>1, <1>2, <2>1, <3>1, <3>3 DEF InOrder
    <3>4. ASSUME u \notin unordered' PROVE SettlesOn(u)'
      <4>1. HoldsLatestOf(u) => HoldsLatestOf(u)'
        BY <1>1, <3>1 DEF HoldsLatestOf
      <4>2. CASE ne.ver = latest[u]
        <5>1. HoldsLatestOf(u)
          BY <1>5, <2>1, <2>3, <2>4, <3>4, <4>2, IgnoredIsHeld DEF HoldsLatestOf, Absent
        <5> QED BY <4>1, <5>1 DEF SettlesOn
      <4>3. CASE ne.ver # latest[u]
        BY <1>1, <1>2, <2>1, <3>4, <4>1, <4>3 DEF SettlesOn
      <4> QED BY <4>2, <4>3
    <3> QED BY <3>2, <3>3, <3>4
  <2>5. CASE UpsertNode(ne) /\ heldTime' = [heldTime EXCEPT ![u] = ne.time]
    <3>1. /\ currentNodes'[u] = ne.ver /\ heldTime'[u] = ne.time
          /\ diffNodes'[u].time = ne.time
      BY <1>0, <1>3, <2>5 DEF UpsertNode, PendingUpsert, NodeEvent
    <3>2. ne.ver <= latest[u]
      BY <1>1, <2>1 DEF Known
    <3>3. Known(u)'
      BY <1>1, <1>2, <2>1, <2>2, <3>1, <3>2 DEF Known
    <3>4. ASSUME u \notin unordered' PROVE InOrder(u)'
      <4>1. \A m \in Upserts : m.uid = u => ~(m.ver < ne.ver)
        BY <1>2, <1>5, <2>1, <3>4 DEF Overtaken
      <4>2. \A m \in Upserts : m.uid = u => ne.ver <= m.ver
        BY <1>0, <2>3, <4>1, Numbers
      <4>3. \A m \in Upserts : m.uid = u /\ ne.time > m.time => m.ver <= ne.ver
        <5>1. \A m \in Upserts : m.time \in Nat
          BY <1>0, Numbers DEF Upserts
        <5>2. ne.time \in Nat
          BY <1>0, TimeAssumption
        <5> QED BY <2>1, <3>4, <5>1, <5>2 DEF InOrder
      <4>4. previousNodes[u] <= ne.ver
        BY <1>0, <2>1, <2>3, <3>4, Numbers DEF InOrder
      <4> QED BY <1>1, <1>2, <2>1, <3>1, <3>4, <4>2, <4>3, <4>4 DEF InOrder
    <3>5. ASSUME u \notin unordered' PROVE SettlesOn(u)'
      <4>1. CASE \E m \in Upserts : m # ne /\ m.uid = u /\ m.ver = latest[u]
        BY <1>1, <1>2, <4>1 DEF SettlesOn
      <4>2. CASE ne.ver = latest[u]
        BY <1>1, <2>3, <3>1, <4>2 DEF SettlesOn, HoldsLatestOf, Absent
      <4>3. CASE HoldsLatestOf(u)
        <5>1. /\ currentNodes[u] <= ne.ver /\ currentNodes[u] \in MaybeVersion
              /\ latest[u] \in MaybeVersion /\ latest[u] \in Nat
          BY <1>0, <2>1, <3>5, Numbers DEF InOrder
        <5>2. latest[u] \in Version
          BY <2>3, <3>2, <5>1 DEF MaybeVersion, Absent
        <5>3. currentNodes[u] \in Version
              /\ PropsOf[u][currentNodes[u]] = PropsOf[u][latest[u]]
          BY <4>3, <5>1, <5>2, VersionAssumption DEF HoldsLatestOf, MaybeVersion, Absent
        <5>4. PropsOf[u][ne.ver] = PropsOf[u][latest[u]]
          BY <1>0, <2>3, <3>2, <5>1, <5>2, <5>3 DEF EventsTellAll
        <5> QED BY <1>1, <2>3, <3>1, <3>2, <5>4 DEF SettlesOn, HoldsLatestOf, Absent
      <4>4. latest[u] # Absent
        BY <1>0, <2>3, <3>2, Numbers DEF Absent
      <4> QED BY <2>1, <3>5, <4>1, <4>2, <4>3, <4>4 DEF SettlesOn
    <3> QED BY <3>3, <3>4, <3>5
  <2> QED BY <1>2, <1>5, <2>4, <2>5 DEF Deliver, DeleteNode
<1>6. \A x \in UID \ gone' : Known(x)'
  BY <1>1, <1>4, <1>5 DEF SettleInv
<1>7. \A x \in UID \ (gone' \cup unordered') : InOrder(x)' /\ SettlesOn(x)'
  BY <1>1, <1>4, <1>5 DEF SettleInv
<1> QED BY <1>1, <1>6, <1>7 DEF SettleInv

\* What the sender takes and the passing of time do not matter to what is held.
LEMMA HandOutSettles ==
    ASSUME SettleInv, PipeIInv',
           UNCHANGED <<observed, latest, gone, inflight, heldTime, unordered, currentNodes,
                       purgedNodes>>,
           \A u \in UID : /\ previousNodes'[u] \in {previousNodes[u], currentNodes[u]}
                          /\ diffNodes'[u] \in {diffNodes[u], NoEvent}
    PROVE  SettleInv'
<1>1. PipeIInv /\ Upserts' = Upserts
  BY DEF SettleInv, Upserts
<1>2. ASSUME NEW x \in UID
      PROVE  /\ Known(x) => Known(x)'
             /\ InOrder(x) => InOrder(x)'
             /\ SettlesOn(x) => SettlesOn(x)'
  <2>1. purgedNodes'[x].rank \in Nat
    BY <1>1 DEF PipeIInv, PurgeInv, RecTypeOK, PurgeEntry
  <2> QED BY <1>1, <2>1, Numbers, UntouchedSettles
<1> QED BY <1>2 DEF SettleInv

\* Where events tell all, the reconciler settles: when nothing is under way it holds
\* for every resource what the informers last saw of it, unless an update of the
\* resource overtook another.  Deletions that overtake updates, events of one
\* second, repeated lists, redundant updates and panics do no harm.
THEOREM SettlesOnLatest ==
    ASSUME EventsTellAll
    PROVE  PipeSpec => []HoldsLatest
<1>1. PipeInit => SettleInv
  <2> SUFFICES ASSUME PipeInit PROVE SettleInv
    OBVIOUS
  <2>1. PipeIInv
    BY PipeIInvInit
  <2>2. Upserts = {} /\ gone = {}
    BY DEF PipeInit, Upserts
  <2>3. ASSUME NEW u \in UID PROVE Known(u) /\ InOrder(u) /\ SettlesOn(u)
    <3>1. /\ purgedNodes[u].rank = 0 /\ diffNodes[u] = NoEvent
          /\ currentNodes[u] = Absent /\ previousNodes[u] = Absent
          /\ latest[u] = Absent /\ observed[u] = Absent
      BY DEF PipeInit, RecInit
    <3>2. <<u, Absent>> \notin Untransformable
      BY UntransformableAssumption, VersionAssumption
    <3> QED BY <2>2, <3>1, <3>2 DEF Known, InOrder, SettlesOn, Absent
  <2> QED BY <2>1, <2>2, <2>3 DEF SettleInv
<1>2. SettleInv /\ [PipeNext]_vars => SettleInv'
  <2> SUFFICES ASSUME SettleInv, [PipeNext]_vars PROVE SettleInv'
    OBVIOUS
  <2>0. PipeIInv'
    BY PipeIInvNext DEF SettleInv
  <2>1. ASSUME NEW u \in UID, NEW v \in Version, ObserveUpsert(u, v) PROVE SettleInv'
    BY <2>0, <2>1, ObserveUpsertSettles
  <2>2. ASSUME NEW u \in UID, ObserveDelete(u) PROVE SettleInv'
    BY <2>0, <2>2, ObserveDeleteSettles
  <2>3. ASSUME NEW ne \in inflight, WorkerPanics(ne) PROVE SettleInv'
    BY <2>0, <2>3, WorkerPanicsSettles
  <2>4. ASSUME NEW ne \in inflight, Deliver(ne) PROVE SettleInv'
    BY <2>0, <2>4, DeliverSettles
  <2>5. CASE HandOut /\ UNCHANGED pipeVars
    BY <2>0, <2>5, HandOutSettles DEF HandOut, pipeVars
  <2>6. CASE Tick
    BY <2>0, <2>6, HandOutSettles DEF Tick, recVars
  <2>7. CASE UNCHANGED vars
    BY <2>0, <2>7, HandOutSettles DEF vars, recVars, pipeVars
  <2> QED BY <2>1, <2>2, <2>3, <2>4, <2>5, <2>6, <2>7
          DEF PipeNext, HandOutDiff, HandOutComplete, Diff, Complete, vars
<1>3. SettleInv => HoldsLatest
  <2> SUFFICES ASSUME SettleInv, inflight = {}, NEW u \in UID \ unordered
               PROVE  HoldsLatestOf(u)
    BY DEF HoldsLatest
  <2>1. Upserts = {} /\ ~Deleting(u)
    BY DEF Upserts, Deleting
  <2>2. CASE u \in gone
    <3>1. purgedNodes[u].rank > 0
      BY <2>1, <2>2 DEF SettleInv, PipeIInv, PipeInv, PurgeRemembers, EventsTellAll
    <3>2. currentNodes[u] = Absent
      BY <2>1, <2>2, <3>1 DEF SettleInv, PipeIInv, PurgeInv, RememberedStaysDeleted
    <3> QED BY <2>2, <3>2 DEF SettleInv, HoldsLatestOf
  <2>3. CASE u \notin gone
    <3>1. Known(u) /\ SettlesOn(u) /\ currentNodes[u] \in Nat
      BY <2>3, Numbers DEF SettleInv
    <3>2. CASE latest[u] = Absent
      BY <3>1, <3>2 DEF Known, HoldsLatestOf, Absent
    <3>3. CASE latest[u] # Absent
      BY <2>1, <3>1, <3>3 DEF SettlesOn
    <3> QED BY <3>2, <3>3
  <2> QED BY <2>2, <2>3
<1> QED BY <1>1, <1>2, <1>3, PTL DEF PipeSpec
=============================================================================
