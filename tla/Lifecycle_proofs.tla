-------------------------- MODULE Lifecycle_proofs --------------------------
(***************************************************************************)
(* Proofs about the process from its start to its end (Lifecycle), and     *)
(* about the loop of RunInformers that its start leads to                  *)
(* (InformerManager), for any sets of types, resources and workers and any *)
(* number of faults.  The two are proved about apart from each other.      *)
(***************************************************************************)
EXTENDS Lifecycle, InformerManager, FiniteSetTheorems, TLAPS

-----------------------------------------------------------------------------
(* The inductive invariant of the process.                                 *)

\* Where RunInformers is: before discovery there is nothing, the channel is closed once it
\* has started all informers or failed, and it no longer waits for one then.
RunOrder ==
    /\ running \in {"crds", "discover"} => supported = {}
    /\ closes = IF running \in {"crds", "discover", "sync"} THEN 0 ELSE 1
    /\ running = "failed" => cancelled
    /\ running \in {"select", "returned"} =>
          waitingFor = None /\ \A t \in supported : informer[t] # "none"

\* Only supported types have an informer, and one that watches has listed before.
Started ==
    \A t \in Type :
        /\ informer[t] # "none" => t \in supported
        /\ informer[t] = "watching" => t \in initialized

\* The sender runs once the channel is closed, and a payload comes from the sender.
SenderOrder ==
    /\ sender # "none" => closes > 0
    /\ initial # None => sender # "none"

\* A worker holds only resources of the supported types.
InHandSupported == \A w \in Worker : work[w] # None => work[w] \in Items(supported)

\* What an informer handed over has been applied, or the reconciler or a worker has it.
Arrived(i) ==
    \/ i \in held
    \/ received # None /\ received.item = i
    \/ \E w \in Worker : work[w] = i

\* Until the signal, nothing is deleted, and what was listed has been applied or is in flight.
ListedArrived ==
    ~cancelled =>
        /\ removed = {}
        /\ received # None => ~received.deleted
        /\ \A t \in Type : informer[t] # "stopped" /\ \A i \in listed[t] : Arrived(i)
        /\ \A i \in Items(initialized) : Arrived(i)

\* Where no list was slow, RunInformers has waited for each informer that it started.
Waited ==
    ~cancelled /\ timeouts = 0 =>
        \A t \in Type : informer[t] # "none" => t \in initialized \/ t = waitingFor

\* After a signal outside of a cycle there is no further one.
NoCycleAfterSignal == cancelled /\ quiet => sender # "cycle"

\* The first payload lacks at most one resource for each worker, and one that the reconciler
\* had received.
PayloadBounded ==
    initial # None /\ timeouts = 0 /\ ~cancelled =>
        Cardinality(Items(supported) \ initial) <= Cardinality(Worker) + 1

LifecycleIInv ==
    /\ TypeOK
    /\ RunOrder
    /\ Started
    /\ SenderOrder
    /\ InHandSupported
    /\ ListedArrived
    /\ Waited
    /\ NoCycleAfterSignal
    /\ PayloadBounded

-----------------------------------------------------------------------------
(* The process.                                                            *)

\* A resource is of some types if it is among the resources of one of them.
LEMMA ItemsDef == \A S, i : i \in Items(S) <=> \E t \in S : i \in ItemsOf[t]
BY DEF Items

\* None is no event of the reconciler.
LEMMA NoneIsNoEvent == \A d \in BOOLEAN, i \in Items(Type) : [deleted |-> d, item |-> i] # None
<1> SUFFICES ASSUME NEW d \in BOOLEAN, NEW i \in Items(Type)
             PROVE  [deleted |-> d, item |-> i] # None
  OBVIOUS
<1>1. [deleted |-> d, item |-> i] \in [deleted : BOOLEAN, item : Items(Type)]
  OBVIOUS
<1> QED BY <1>1, LifecycleAssumption

\* There is an event in flight for each worker at most, and the one received.
LEMMA InFlightBounded ==
    ASSUME TypeOK, NEW S, S \subseteq InFlight
    PROVE  IsFiniteSet(S) /\ Cardinality(S) <= Cardinality(Worker) + 1
<1> DEFINE T == {work[w] : w \in Worker}
<1>1. IsFiniteSet(Worker) /\ Cardinality(Worker) \in Nat
  BY LifecycleAssumption, FS_CardinalityType
<1>2. work \in Surjection(Worker, T)
  BY DEF TypeOK, Surjection
<1>3. IsFiniteSet(T) /\ Cardinality(T) <= Cardinality(Worker)
  BY <1>1, <1>2, FS_Surjection
<1>4. PICK i : InFlight \subseteq T \cup {i}
  <2>1. received = None => InFlight \subseteq T \cup {None}
    BY DEF InFlight
  <2>2. received # None => InFlight \subseteq T \cup {received.item}
    BY DEF InFlight
  <2> QED BY <2>1, <2>2
<1> HIDE DEF T
<1>5. /\ IsFiniteSet(T \cup {i})
      /\ Cardinality(T \cup {i}) <= Cardinality(T) + 1
  BY <1>3, FS_AddElement, FS_CardinalityType
<1>6. IsFiniteSet(S) /\ Cardinality(S) <= Cardinality(T \cup {i})
  BY <1>4, <1>5, FS_Subset
<1>7. Cardinality(S) \in Nat /\ Cardinality(T) \in Nat /\ Cardinality(T \cup {i}) \in Nat
  BY <1>3, <1>5, <1>6, FS_CardinalityType
<1> QED BY <1>1, <1>3, <1>5, <1>6, <1>7

\* When the sender makes the first payload, RunInformers has waited for every informer.
LEMMA MissesInFlight == LifecycleIInv => InitialMissesInFlight
<1> SUFFICES ASSUME LifecycleIInv, sender = "cycle", timeouts = 0, ~cancelled
             PROVE  Items(supported) \ held \subseteq InFlight
  BY DEF InitialMissesInFlight
<1>1. running \in {"select", "returned"}
  BY DEF LifecycleIInv, TypeOK, RunOrder, SenderOrder
<1>2. supported \subseteq initialized
  BY <1>1, LifecycleAssumption DEF LifecycleIInv, TypeOK, RunOrder, Waited
<1>3. \A i \in Items(supported) : Arrived(i)
  BY <1>2, ItemsDef DEF LifecycleIInv, ListedArrived
<1> QED BY <1>3 DEF Arrived, InFlight

\* The process starts in the invariant.
LEMMA LifecycleStart == Init => LifecycleIInv
<1> SUFFICES ASSUME Init PROVE LifecycleIInv
  OBVIOUS
<1>1. TypeOK
  <2>1. /\ informer \in [Type -> {"none", "loop", "listing", "watching", "stopped"}]
        /\ listed \in [Type -> SUBSET Items(Type)]
        /\ work \in [Worker -> Items(Type) \cup {None}]
    BY DEF Init
  <2>2. timeouts \in 0..TimeoutLimit /\ faults \in 0..FaultLimit /\ closes \in 0..1
    BY LifecycleAssumption DEF Init
  <2> QED BY <2>1, <2>2 DEF Init, TypeOK
<1>2. PayloadBounded /\ RunOrder /\ SenderOrder /\ NoCycleAfterSignal
  BY DEF Init, PayloadBounded, RunOrder, SenderOrder, NoCycleAfterSignal
<1>3. Started /\ InHandSupported /\ ListedArrived /\ Waited
  BY ItemsDef DEF Init, Started, InHandSupported, ListedArrived, Waited
<1> QED BY <1>1, <1>2, <1>3 DEF LifecycleIInv

\* Every step of main, RunInformers, the informers, the workers and the sender keeps it.
LEMMA LifecycleStep ==
    ASSUME LifecycleIInv, [Next]_vars
    PROVE  LifecycleIInv'
<1> USE LifecycleAssumption, ItemsDef
<1> USE DEF LifecycleIInv, TypeOK, RunOrder, Started,
            SenderOrder, InHandSupported, Arrived, ListedArrived, Waited, NoCycleAfterSignal,
            PayloadBounded, Up, mainVars, runVars, informerVars, pipeVars, sendVars
<1>1. CASE Signal
  BY <1>1 DEF Signal
<1>2. CASE SecondSignal
  BY <1>2 DEF SecondSignal
<1>3. CASE StartSender
  BY <1>3 DEF StartSender
<1>4. CASE Exit
  BY <1>4 DEF Exit
<1>5. CASE CRDInformerSynced
  BY <1>5 DEF CRDInformerSynced
<1>6. CASE CRDInformerFails
  BY <1>6 DEF CRDInformerFails
<1>7. CASE Discover
  BY <1>7 DEF Discover, Fault
<1>8. ASSUME NEW t \in Type, StartInformer(t)
      PROVE  LifecycleIInv'
  BY <1>8 DEF StartInformer
<1>9. CASE WaitUntilInitialized
  BY <1>9 DEF WaitUntilInitialized
<1>10. CASE TimesOut
  BY <1>10 DEF TimesOut
<1>11. CASE CloseInitialized
  BY <1>11 DEF CloseInitialized
<1>12. CASE Return
  BY <1>12 DEF Return
<1>13. ASSUME NEW t \in Type, StartList(t)
      PROVE  LifecycleIInv'
  BY <1>13 DEF StartList
<1>14. ASSUME NEW t \in Type, NEW i \in ItemsOf[t], NEW w \in Worker, AddListed(t, i, w)
      PROVE  LifecycleIInv'
  BY <1>14 DEF AddListed, Take
<1>15. ASSUME NEW t \in Type, ListFails(t)
      PROVE  LifecycleIInv'
  BY <1>15 DEF ListFails, Fault
<1>16. ASSUME NEW t \in Type, EndList(t)
      PROVE  LifecycleIInv'
  BY <1>16 DEF EndList
<1>17. ASSUME NEW t \in Type, NEW i \in ItemsOf[t], NEW w \in Worker, WatchAdds(t, i, w)
      PROVE  LifecycleIInv'
  BY <1>17 DEF WatchAdds, Take
<1>18. ASSUME NEW t \in Type, StopWatch(t)
      PROVE  LifecycleIInv'
  BY <1>18 DEF StopWatch
<1>19. ASSUME NEW t \in Type, StopInformer(t)
      PROVE  LifecycleIInv'
  BY <1>19 DEF StopInformer
<1>20. ASSUME NEW w \in Worker, Deliver(w)
      PROVE  LifecycleIInv'
  <2>1. work[w] \in Items(supported)
    BY <1>20 DEF Deliver
  <2>2. /\ received = None /\ received' = [deleted |-> FALSE, item |-> work[w]]
        /\ received' # None
    BY <1>20, <2>1, NoneIsNoEvent DEF Deliver, Receive
  <2>3. \A i : Arrived(i) => Arrived(i)'
    BY <1>20, <2>1, <2>2 DEF Deliver
  <2>4. ListedArrived'
    BY <1>20, <2>2, <2>3 DEF Deliver
  <2>5. (/\ TypeOK /\ RunOrder /\ Started /\ SenderOrder /\ InHandSupported
         /\ Waited /\ NoCycleAfterSignal /\ PayloadBounded)'
    BY <1>20, <2>1, <2>2 DEF Deliver
  <2> QED BY <2>4, <2>5
<1>21. CASE StartCycle
  BY <1>21 DEF StartCycle
<1>22. CASE Sync
  <2>1. PayloadBounded'
    <3> SUFFICES ASSUME initial = None, initial' = held, timeouts = 0, ~cancelled
                 PROVE  Cardinality(Items(supported) \ held) <= Cardinality(Worker) + 1
      BY <1>22 DEF Sync
    <3>1. Items(supported) \ held \subseteq InFlight
      BY <1>22, MissesInFlight DEF Sync, InitialMissesInFlight
    <3> QED BY <3>1, InFlightBounded
  <2>2. (/\ TypeOK /\ RunOrder /\ Started /\ SenderOrder /\ InHandSupported
         /\ ListedArrived /\ Waited /\ NoCycleAfterSignal)'
    BY <1>22 DEF Sync, Fault
  <2> QED BY <2>1, <2>2
<1>23. CASE LoopReturns
  BY <1>23 DEF LoopReturns
<1>24. CASE UNCHANGED vars
  BY <1>24 DEF vars
<1>25. ASSUME NEW t \in Type, NEW i \in ItemsOf[t], DeleteIndexed(t, i)
      PROVE  LifecycleIInv'
  BY <1>25 DEF DeleteIndexed, Receive
<1>26. CASE ReconcileNode
  BY <1>26 DEF ReconcileNode
<1> HIDE LifecycleAssumption, ItemsDef
<1> HIDE DEF LifecycleIInv
<1> QED BY <1>1, <1>2, <1>3, <1>4, <1>5, <1>6, <1>7, <1>8, <1>9, <1>10, <1>11, <1>12, <1>13,
           <1>14, <1>15, <1>16, <1>17, <1>18, <1>19, <1>20, <1>21, <1>22, <1>23, <1>24,
           <1>25, <1>26
        DEF Next, RunStep, InformerStep, SenderStep

\* The inductive invariant holds of the process.
LEMMA LifecycleInductive == Spec => []LifecycleIInv
BY LifecycleStart, LifecycleStep, PTL DEF Spec

\* What the run checks of the start: the channel informersInitialized is closed at most
\* once, and unless a list was slow the first payload, which the sender makes once the
\* channel is closed, lacks only what the transformer workers have in hand or the reconciler
\* has received and not applied.
THEOREM LifecycleInvariant == Spec => []LifecycleInv
<1>1. LifecycleIInv => LifecycleInv
  BY MissesInFlight DEF LifecycleIInv, LifecycleInv
<1> QED BY <1>1, LifecycleInductive, PTL

\* So the first payload lacks at most one resource more than there are workers.
THEOREM FirstPayloadBounded == Spec => []PayloadBounded
<1>1. LifecycleIInv => PayloadBounded
  BY DEF LifecycleIInv
<1> QED BY <1>1, LifecycleInductive, PTL

\* What the informers delete when a signal stops them stays in the indexer, unless the
\* signal came during a send cycle: the send loop starts no other one.
THEOREM DeletionsStay == Spec => DeletionsNotSent
<1>1. LifecycleIInv /\ [Next]_vars => [cancelled /\ quiet => rows \subseteq rows']_vars
  <2> SUFFICES ASSUME LifecycleIInv, [Next]_vars, cancelled, quiet PROVE rows \subseteq rows'
    OBVIOUS
  <2>1. CASE Sync
    BY <2>1 DEF Sync, LifecycleIInv, NoCycleAfterSignal
  <2>2. CASE Signal \/ SecondSignal \/ StartSender \/ Exit \/ RunStep
    BY <2>2 DEF Signal, SecondSignal, StartSender, Exit, RunStep, CRDInformerSynced, CRDInformerFails,
                Discover, StartInformer, WaitUntilInitialized, TimesOut, CloseInitialized, Return, sendVars
  <2>3. ASSUME NEW t \in Type, InformerStep(t) \/ ListFails(t) PROVE rows \subseteq rows'
    BY <2>3 DEF InformerStep, StartList, AddListed, WatchAdds, EndList, StopWatch, StopInformer,
                DeleteIndexed, ListFails, sendVars
  <2>4. ASSUME NEW w \in Worker, Deliver(w) PROVE rows \subseteq rows'
    BY <2>4 DEF Deliver, sendVars
  <2>5. CASE ReconcileNode \/ StartCycle \/ LoopReturns \/ UNCHANGED vars
    BY <2>5 DEF ReconcileNode, StartCycle, LoopReturns, vars, sendVars
  <2> QED BY <2>1, <2>2, <2>3, <2>4, <2>5 DEF Next, SenderStep
<1> QED BY <1>1, LifecycleInductive, PTL DEF Spec, DeletionsNotSent

-----------------------------------------------------------------------------
(* The loop of RunInformers.                                               *)

\* The reload handler records what is pending before it signals, and the main
\* loop drains what is pending after it has taken the signal; so a change is
\* never left pending without a signal that will make the main loop see it.
THEOREM NoLostWakeUp == ManagerSpec => []PendingIsSignalled
<1>1. ManagerInit => PendingIsSignalled
  BY DEF ManagerInit, PendingIsSignalled
<1>2. PendingIsSignalled /\ [ManagerNext]_managerVars => PendingIsSignalled'
  <2> SUFFICES ASSUME PendingIsSignalled, [ManagerNext]_managerVars PROVE PendingIsSignalled'
    OBVIOUS
  <2> USE DEF PendingIsSignalled, pendingVars, configVars
  <2>1. CASE MarkPending
    BY <2>1 DEF MarkPending
  <2>2. CASE SendSignal
    BY <2>2 DEF SendSignal
  <2>3. ASSUME NEW exclude, NEW changed, Reload(exclude, changed)
        PROVE  PendingIsSignalled'
    BY <2>3 DEF Reload
  <2>4. CASE TakeSignal
    BY <2>4 DEF TakeSignal
  <2>5. CASE Drain
    BY <2>5 DEF Drain
  <2>6. CASE Throttle \/ DiscoverAll \/ Apply \/ Dispatch
    BY <2>6 DEF Throttle, DiscoverAll, Apply, Dispatch
  <2>7. CASE DiscoverPartly \/ DiscoverNothing
    BY <2>7 DEF DiscoverPartly, DiscoverNothing, DiscoveryFault
  <2>8. CASE BridgeStep
    BY <2>8 DEF BridgeStep, BridgeGet, BridgeSend, BridgeDrop
  <2>9. ASSUME NEW g \in GVR, CRDChanges(g) \/ InformerLists(g) \/ InformerStops(g)
        PROVE  PendingIsSignalled'
    BY <2>9 DEF CRDChanges, InformerLists, InformerStops
  <2>10. CASE UNCHANGED managerVars
    BY <2>10 DEF managerVars
  <2> QED BY <2>1, <2>2, <2>3, <2>4, <2>5, <2>6, <2>7, <2>8, <2>9, <2>10
          DEF ManagerNext, MainStep, HandlerStep
<1> QED BY <1>1, <1>2, PTL DEF ManagerSpec

\* Every field of the manager keeps its type, and only a registered informer has
\* a list to make: syncInformers forgets the lists of the informers it cancels.
THEOREM ManagerTypeCorrect == ManagerSpec => []ManagerTypeOK
<1>1. ManagerInit => ManagerTypeOK
  <2> SUFFICES ASSUME ManagerInit PROVE ManagerTypeOK
    OBVIOUS
  <2>1. rules \in [GVR -> Nat] /\ listedWith \in [GVR -> Nat]
    BY DEF ManagerInit
  <2>2. result \in [sync : BOOLEAN, keys : SUBSET Key]
    <3>1. [sync |-> FALSE, keys |-> {}] \in [sync : BOOLEAN, keys : SUBSET Key]
      OBVIOUS
    <3> QED BY <3>1 DEF ManagerInit, NoResult
  <2> QED BY <2>1, <2>2 DEF ManagerInit, ManagerTypeOK
<1>2. ManagerTypeOK /\ [ManagerNext]_managerVars => ManagerTypeOK'
  <2> SUFFICES ASSUME ManagerTypeOK, [ManagerNext]_managerVars PROVE ManagerTypeOK'
    OBVIOUS
  <2> USE DEF ManagerTypeOK, clusterVars, configVars, pendingVars, registryVars
  <2>1. CASE MarkPending
    BY <2>1 DEF MarkPending
  <2>2. CASE SendSignal
    BY <2>2 DEF SendSignal
  <2>3. ASSUME NEW exclude \in SUBSET GVR, NEW changed \in SUBSET Key,
               Reload(exclude, changed)
        PROVE  ManagerTypeOK'
    <3>1. rules' \in [GVR -> Nat]
      BY <2>3 DEF Reload
    <3>2. result' \in [sync : BOOLEAN, keys : SUBSET Key]
      BY <2>3 DEF Reload
    <3> QED BY <2>3, <3>1, <3>2 DEF Reload
  <2>4. CASE TakeSignal \/ Throttle
    BY <2>4 DEF TakeSignal, Throttle
  <2>5. CASE Drain
    BY <2>5 DEF Drain
  <2>6. CASE DiscoverAll
    BY <2>6 DEF DiscoverAll
  <2>7. CASE Apply
    BY <2>7 DEF Apply
  <2>8. CASE Dispatch
    BY <2>8 DEF Dispatch
  <2>9. CASE DiscoverPartly
    BY <2>9 DEF DiscoverPartly, DiscoveryFault
  <2>10. CASE DiscoverNothing
    BY <2>10 DEF DiscoverNothing, DiscoveryFault
  <2>11. CASE BridgeStep
    BY <2>11 DEF BridgeStep, BridgeGet, BridgeSend, BridgeDrop
  <2>12. ASSUME NEW g \in GVR, CRDChanges(g)
         PROVE  ManagerTypeOK'
    BY <2>12 DEF CRDChanges
  <2>13. ASSUME NEW g \in GVR, InformerLists(g)
         PROVE  ManagerTypeOK'
    <3>1. listedWith' \in [GVR -> Nat]
      BY <2>13 DEF InformerLists
    <3> QED BY <2>13, <3>1 DEF InformerLists
  <2>14. ASSUME NEW g \in GVR, InformerStops(g)
         PROVE  ManagerTypeOK'
    BY <2>14 DEF InformerStops
  <2>15. CASE UNCHANGED managerVars
    BY <2>15 DEF managerVars
  <2> QED BY <2>1, <2>2, <2>3, <2>4, <2>5, <2>6, <2>7, <2>8, <2>9, <2>10, <2>11,
             <2>12, <2>13, <2>14, <2>15
          DEF ManagerNext, MainStep, HandlerStep
<1> QED BY <1>1, <1>2, PTL DEF ManagerSpec

\* Both parts of the invariant that the run checks: the types, and that nothing
\* the reload handler has recorded is left without a signal.
THEOREM ManagerInvariant == ManagerSpec => []ManagerInv
BY NoLostWakeUp, ManagerTypeCorrect, PTL DEF ManagerInv
=============================================================================
