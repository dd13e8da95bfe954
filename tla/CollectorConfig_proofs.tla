------------------------ MODULE CollectorConfig_proofs ------------------------
(***************************************************************************)
(* Proofs about the reload of the collector config, for any types, rules   *)
(* and specs of the CR, and any number of changes, faults and ended        *)
(* watches; and that a list of rules merges to what the rules mean.  The   *)
(* folds of the merge are unfolded into turns, and what holds after each   *)
(* turn is shown by induction on their number: NatSetInduction, which      *)
(* follows from the order of the numbers being well founded.               *)
(***************************************************************************)
EXTENDS CollectorConfig, SequenceTheorems, WellFoundedInduction, TLAPS

-----------------------------------------------------------------------------
(* The parts of the inductive invariant ReloadInv.                         *)

Generation == 0..(ChangeLimit + 1)

Event == {Deletion} \cup {Upsert(g) : g \in 1..(ChangeLimit + 1)}

\* What the handler may have left to do.
Agendas == {<<>>, <<"get">>, <<"swap", "diff">>, <<"report", "swap", "diff">>,
            <<"swap", "report", "diff">>, <<"report", "diff">>, <<"diff">>}

ToSwap == steps \in {<<"swap", "diff">>, <<"report", "swap", "diff">>, <<"swap", "report", "diff">>}
ToReport == steps \in {<<"report", "swap", "diff">>, <<"swap", "report", "diff">>, <<"report", "diff">>}

Statuses == {NoStatus} \cup {Load[s].status : s \in DOMAIN Load}

ReloadTypes ==
    /\ cr \in [gen : Generation, spec : DOMAIN Load, status : Statuses]
    /\ cr.gen = 0 => cr.spec = EmptySpec
    /\ changes \in 0..ChangeLimit /\ cr.gen <= changes + 1
    /\ faults \in Nat
    /\ lastSeenGeneration \in Generation
    /\ events \in Seq(Event)
    /\ steps \in Agendas
    /\ loaded \in {Defaults} \cup {Load[s] : s \in DOMAIN Load}
    /\ excludeRules \in DOMAIN Collected
    /\ Reloading => watching
    /\ ToReport /\ fresh => cr.gen # 0

\* What the reload of the CR as it is now would load.
LoadCR == IF cr.gen = 0 THEN Defaults ELSE Load[cr.spec]

\* No event is ahead of a generation, unless a deletion comes after it.
Behind(es, gen) ==
    \A i \in DOMAIN es : es[i].gen <= gen \/ \E j \in DOMAIN es : j > i /\ es[j] = Deletion

\* Nothing that is known or under way of the CR is ahead of it.
NothingAhead ==
    ~missed =>
        /\ lastSeenGeneration <= cr.gen \/ Lost(events)
        /\ Behind(events, cr.gen)

\* The last event of the watch is the last change of the CR.
LastIsCurrent ==
    ~missed /\ watching =>
        IF events = <<>> THEN lastSeenGeneration = cr.gen
        ELSE events[Len(events)].gen = cr.gen

\* A reload is under way that has read, or will read, the CR as it is, or it is done.
UpToDate ==
    \/ steps = <<"get">>
    \/ /\ Reloading => fresh /\ loaded = LoadCR
       /\ ~ToSwap => \E l \in {LoadCR, Load[cr.spec]} : config = l.config /\ excludeRules = l.rules
       /\ ~ToReport /\ cr.gen # 0 => cr.status = Load[cr.spec].status

\* So it is unless an event that matters is yet to come.
UpToDateWhenSeen ==
    faults = 0 /\ ~missed /\ lastSeenGeneration = cr.gen /\ ~Lost(events) => UpToDate

-----------------------------------------------------------------------------
(* Events under way.                                                       *)

\* A deletion has generation zero, and no other event has.
LEMMA EventFacts ==
    /\ Deletion \in Event /\ Deletion.gen = 0
    /\ \A e \in Event : e.gen \in Generation /\ (e.gen = 0 <=> e = Deletion)
    /\ \A g \in Generation \ {0} : Upsert(g) \in Event /\ Upsert(g).gen = g /\ Upsert(g) # Deletion
<1>1. ChangeLimit \in Nat
  BY ConfigAssumption
<1>3. /\ Deletion \in Event /\ Deletion.gen = 0
      /\ \A g : Upsert(g).gen = g /\ Upsert(g).type = "upsert" /\ Deletion.type = "delete"
  BY DEF Event, Deletion, Upsert
<1>4. ASSUME NEW e \in Event PROVE e.gen \in Generation /\ (e.gen = 0 <=> e = Deletion)
  <2>1. CASE e = Deletion
    BY <1>1, <1>3, <2>1 DEF Generation
  <2>2. CASE \E g \in 1..(ChangeLimit + 1) : e = Upsert(g)
    <3>1. PICK g \in 1..(ChangeLimit + 1) : e = Upsert(g)
      BY <2>2
    <3> QED BY <1>1, <1>3, <3>1 DEF Generation
  <2> QED BY <2>1, <2>2 DEF Event
<1>5. ASSUME NEW g \in Generation \ {0}
      PROVE  Upsert(g) \in Event /\ Upsert(g).gen = g /\ Upsert(g) # Deletion
  <2>1. g \in 1..(ChangeLimit + 1)
    BY <1>1 DEF Generation
  <2> QED BY <1>3, <2>1 DEF Event
<1> QED BY <1>3, <1>4, <1>5

\* An event is added at the end.
LEMMA AppendEvent ==
    ASSUME NEW es \in Seq(Event), NEW e \in Event, NEW g \in Nat, NEW h \in Nat,
           e.gen <= h, e = Deletion \/ (Behind(es, g) /\ g <= h)
    PROVE  /\ Append(es, e) \in Seq(Event) /\ Append(es, e) # <<>>
           /\ Append(es, e)[Len(Append(es, e))] = e
           /\ Lost(Append(es, e)) <=> Lost(es) \/ e = Deletion
           /\ Behind(Append(es, e), h)
<1> DEFINE new == Append(es, e)
<1>1. /\ new \in Seq(Event) /\ Len(new) = Len(es) + 1 /\ Len(es) \in Nat
      /\ new[Len(es) + 1] = e /\ \A i \in 1..Len(es) : new[i] = es[i]
      /\ DOMAIN es = 1..Len(es) /\ DOMAIN new = 1..(Len(es) + 1)
  OBVIOUS
<1> HIDE DEF new
<1>2. new # <<>> /\ new[Len(new)] = e
  BY <1>1
<1>3. Lost(new) <=> Lost(es) \/ e = Deletion
  <2>1. ASSUME Lost(new) PROVE Lost(es) \/ e = Deletion
    BY <1>1, <2>1 DEF Lost
  <2>2. ASSUME Lost(es) PROVE Lost(new)
    BY <1>1, <2>2 DEF Lost
  <2>3. ASSUME e = Deletion PROVE Lost(new)
    BY <1>1, <2>3 DEF Lost
  <2> QED BY <2>1, <2>2, <2>3
<1>4. Behind(new, h)
  <2> SUFFICES ASSUME NEW i \in 1..(Len(es) + 1)
               PROVE  new[i].gen <= h \/ \E j \in 1..(Len(es) + 1) : j > i /\ new[j] = Deletion
    BY <1>1 DEF Behind
  <2>1. CASE i = Len(es) + 1
    BY <1>1, <2>1
  <2>2. CASE i # Len(es) + 1 /\ e = Deletion
    BY <1>1, <2>2
  <2>3. CASE i # Len(es) + 1 /\ e # Deletion
    <3>1. i \in 1..Len(es) /\ new[i] = es[i] /\ es[i] \in Event
      BY <1>1, <2>3
    <3>2. es[i].gen \in Nat
      BY <3>1, EventFacts, ConfigAssumption DEF Generation
    <3>3. es[i].gen <= g \/ \E j \in 1..Len(es) : j > i /\ es[j] = Deletion
      BY <1>1, <2>3, <3>1 DEF Behind
    <3>4. ASSUME NEW j \in 1..Len(es), j > i, es[j] = Deletion
          PROVE  \E k \in 1..(Len(es) + 1) : k > i /\ new[k] = Deletion
      BY <1>1, <3>4
    <3> QED BY <2>3, <3>1, <3>2, <3>3, <3>4
  <2> QED BY <2>1, <2>2, <2>3
<1> QED BY <1>1, <1>2, <1>3, <1>4 DEF new

\* An event is taken from the front.
LEMMA TakeEvent ==
    ASSUME NEW es \in Seq(Event), es # <<>>, NEW g \in Nat
    PROVE  /\ Tail(es) \in Seq(Event) /\ Head(es) \in Event
           /\ Lost(es) <=> Head(es) = Deletion \/ Lost(Tail(es))
           /\ Tail(es) = <<>> => Head(es) = es[Len(es)]
           /\ Tail(es) # <<>> => Tail(es)[Len(Tail(es))] = es[Len(es)]
           /\ Behind(es, g) => Behind(Tail(es), g) /\ (Head(es).gen <= g \/ Lost(Tail(es)))
<1> DEFINE rest == Tail(es)
<1>1. /\ rest \in Seq(Event) /\ Len(es) \in Nat /\ Len(es) >= 1 /\ Len(rest) = Len(es) - 1
      /\ Head(es) = es[1] /\ \A i \in 1..(Len(es) - 1) : rest[i] = es[i + 1]
      /\ DOMAIN es = 1..Len(es) /\ DOMAIN rest = 1..(Len(es) - 1)
      /\ es[1] \in Event
      /\ rest = <<>> <=> Len(es) = 1
  <2>1. Len(es) \in Nat /\ Len(es) >= 1 /\ DOMAIN es = 1..Len(es) /\ Head(es) = es[1]
    OBVIOUS
  <2>2. /\ rest \in Seq(Event) /\ Len(rest) = Len(es) - 1
        /\ \A i \in 1..Len(rest) : rest[i] = es[i + 1]
    BY HeadTailProperties
  <2> HIDE DEF rest
  <2>3. DOMAIN rest = 1..Len(rest) /\ (rest = <<>> <=> Len(rest) = 0)
    BY <2>2
  <2>4. es[1] \in Event
    BY <2>1
  <2> QED BY <2>1, <2>2, <2>3, <2>4
<1> HIDE DEF rest
<1>2. Lost(es) <=> es[1] = Deletion \/ Lost(rest)
  <2>1. ASSUME NEW i \in 1..Len(es), es[i] = Deletion PROVE es[1] = Deletion \/ Lost(rest)
    <3>1. CASE i = 1
      BY <2>1, <3>1
    <3>2. CASE i # 1
      <4>1. i - 1 \in 1..(Len(es) - 1) /\ rest[i - 1] = es[(i - 1) + 1] /\ (i - 1) + 1 = i
        BY <1>1, <3>2
      <4> QED BY <1>1, <2>1, <4>1 DEF Lost
    <3> QED BY <3>1, <3>2
  <2>2. ASSUME NEW i \in 1..(Len(es) - 1), rest[i] = Deletion PROVE Lost(es)
    BY <1>1, <2>2 DEF Lost
  <2>3. ASSUME es[1] = Deletion PROVE Lost(es)
    BY <1>1, <2>3 DEF Lost
  <2> QED BY <1>1, <2>1, <2>2, <2>3 DEF Lost
<1>3. /\ rest = <<>> => es[1] = es[Len(es)]
      /\ rest # <<>> => rest[Len(rest)] = es[Len(es)]
  BY <1>1
<1>4. ASSUME Behind(es, g) PROVE Behind(rest, g) /\ (es[1].gen <= g \/ Lost(rest))
  <2>1. ASSUME NEW i \in 1..Len(es), NEW j \in 1..Len(es), j > i, es[j] = Deletion
        PROVE  j - 1 \in 1..(Len(es) - 1) /\ j - 1 > i - 1 /\ rest[j - 1] = Deletion
    <3>1. j - 1 \in 1..(Len(es) - 1) /\ rest[j - 1] = es[(j - 1) + 1] /\ (j - 1) + 1 = j
      BY <1>1, <2>1
    <3> QED BY <2>1, <3>1
  <2>2. es[1].gen <= g \/ Lost(rest)
    BY <1>1, <1>4, <2>1 DEF Behind, Lost
  <2>3. ASSUME NEW i \in 1..(Len(es) - 1)
        PROVE  rest[i].gen <= g \/ \E j \in 1..(Len(es) - 1) : j > i /\ rest[j] = Deletion
    <3>1. i + 1 \in 1..Len(es) /\ rest[i] = es[i + 1]
      BY <1>1
    <3>2. CASE es[i + 1].gen <= g
      BY <3>1, <3>2
    <3>3. CASE \E j \in 1..Len(es) : j > i + 1 /\ es[j] = Deletion
      BY <1>1, <2>1, <3>1, <3>3
    <3> QED BY <1>1, <1>4, <3>1, <3>2, <3>3 DEF Behind
  <2> QED BY <1>1, <2>2, <2>3 DEF Behind
<1> QED BY <1>1, <1>2, <1>3, <1>4 DEF rest

-----------------------------------------------------------------------------
(* The informers and the flags.                                            *)

InformerTypes ==
    /\ fresh \in BOOLEAN /\ watching \in BOOLEAN /\ ownAllowed \in BOOLEAN
    /\ pendingSyncInformers \in BOOLEAN /\ missed \in BOOLEAN
    /\ running \subseteq Type
    /\ toList \subseteq running
    /\ ~watching => events = <<>>

\* The types of the module are those of its informers and those of its reload.
LEMMA TypesAgree == TypeOK /\ ReloadTypes <=> InformerTypes /\ ReloadTypes
<1>1. ReloadTypes => /\ cr.gen \in 0..(ChangeLimit + 1)
                     /\ lastSeenGeneration \in 0..(ChangeLimit + 1)
                     /\ Len(steps) <= 3
  <2> SUFFICES ASSUME ReloadTypes PROVE Len(steps) <= 3
    BY DEF ReloadTypes, Generation
  <2>1. \A a, b, c : Len(<<>>) = 0 /\ Len(<<a>>) = 1 /\ Len(<<a, b>>) = 2 /\ Len(<<a, b, c>>) = 3
    OBVIOUS
  <2>2. Len(steps) \in {0, 1, 2, 3}
    BY <2>1 DEF ReloadTypes, Agendas
  <2>3. \A n \in {0, 1, 2, 3} : n <= 3
    OBVIOUS
  <2> QED BY <2>2, <2>3, Zenon
<1> QED BY <1>1 DEF TypeOK, InformerTypes

\* What a list of exclude rules leaves are types.
LEMMA CollectedTypes == \A rs \in DOMAIN Collected : Collected[rs] \subseteq Type
BY DEF Collected

\* Every step keeps the types of the informers.
LEMMA InformerTypesInv ==
    ASSUME InformerTypes, ReloadTypes, [Next]_vars
    PROVE  InformerTypes'
<1>1. CASE UNCHANGED vars
  BY <1>1 DEF vars, crVars, informerVars, pendingVars, InformerTypes
<1>2. ASSUME NEW new, NEW event, WriteCR(new, event)
      PROVE  InformerTypes'
  <2>1. fresh' \in BOOLEAN /\ missed' \in BOOLEAN
    BY <1>2, Zenon DEF WriteCR, InformerTypes
  <2> QED BY <1>2, <2>1 DEF WriteCR, informerVars, pendingVars, InformerTypes
<1>3. CASE \/ \E s \in CRSpec : CreateCR(s) \/ EditSpec(s)
           \/ DeleteCR
  BY <1>2, <1>3 DEF CreateCR, EditSpec, DeleteCR
<1>4. CASE DropEvent
  <2>1. missed' \in BOOLEAN
    BY <1>4, Zenon DEF DropEvent, InformerTypes
  <2> QED BY <1>4, <2>1 DEF DropEvent, informerVars, pendingVars, InformerTypes
<1>5. CASE HandleEvent
  BY <1>5 DEF HandleEvent, informerVars, pendingVars, InformerTypes
<1>6. CASE Get
  <2>1. fresh' \in BOOLEAN
    BY <1>6, Zenon DEF Get
  <2> QED BY <1>6, <2>1 DEF Get, informerVars, pendingVars, InformerTypes
<1>7. CASE GetFails \/ Swap \/ ReportFails
  BY <1>7 DEF GetFails, Swap, ReportFails, crVars, informerVars, pendingVars, InformerTypes
<1>8. CASE Report
  BY <1>8 DEF Report, informerVars, pendingVars, InformerTypes, ReloadTypes
<1>9. CASE DiffAndTrigger
  <2>1. pendingSyncInformers' \in BOOLEAN
    BY <1>9, Zenon DEF DiffAndTrigger, InformerTypes
  <2> QED BY <1>9, <2>1 DEF DiffAndTrigger, crVars, informerVars, InformerTypes
<1>10. CASE MainLoop
  <2>1. pendingSyncInformers' \in BOOLEAN
    BY <1>10, Zenon DEF MainLoop
  <2>2. running' \subseteq Type /\ toList' \subseteq running'
    BY <1>10, CollectedTypes DEF MainLoop, InformerTypes, ReloadTypes
  <2> QED BY <1>10, <2>1, <2>2 DEF MainLoop, crVars, InformerTypes
<1>11. ASSUME ListCR PROVE missed' \in BOOLEAN /\ fresh' = fresh
  BY <1>11, Zenon DEF ListCR, InformerTypes
<1>12. ASSUME NEW t \in Type, List(t) PROVE InformerTypes'
  <2>1. CASE t = ConfigType
    <3>1. watching' \in BOOLEAN /\ watching'
      BY <1>12, <2>1, Zenon DEF List
    <3> QED BY <1>11, <1>12, <2>1, <3>1 DEF List, pendingVars, InformerTypes
  <2>2. CASE t # ConfigType
    BY <1>12, <2>2 DEF List, crVars, pendingVars, InformerTypes
  <2> QED BY <2>1, <2>2
<1>13. CASE WatchBreaks
  BY <1>11, <1>13 DEF WatchBreaks, informerVars, pendingVars, InformerTypes
<1>14. CASE StopWatch
  <2>1. watching' \in BOOLEAN /\ missed' \in BOOLEAN
    BY <1>14, Zenon DEF StopWatch, InformerTypes
  <2> QED BY <1>14, <2>1 DEF StopWatch, pendingVars, InformerTypes
<1>15. CASE RefreshNamespaces \/ NamespacesUnknown
  <2>1. ownAllowed' \in BOOLEAN
    BY <1>15, Zenon DEF RefreshNamespaces, NamespacesUnknown, AdmitsOwn
  <2> QED BY <1>15, <2>1 DEF RefreshNamespaces, NamespacesUnknown, crVars, informerVars,
                              pendingVars, InformerTypes
<1> QED BY <1>1, <1>3, <1>4, <1>5, <1>6, <1>7, <1>8, <1>9, <1>10, <1>12, <1>13, <1>14, <1>15
        DEF Next, HandlerStep

-----------------------------------------------------------------------------
(* The reload.                                                             *)

\* The inductive invariant.
ReloadInv ==
    /\ InformerTypes
    /\ ReloadTypes
    /\ NothingAhead
    /\ LastIsCurrent
    /\ UpToDateWhenSeen

\* What is left to show of a step.
ReloadInvNext ==
    /\ ReloadTypes'
    /\ NothingAhead'
    /\ LastIsCurrent'
    /\ UpToDateWhenSeen'

reloadVars == <<cr, fresh, events, missed, lastSeenGeneration, steps, loaded, config, excludeRules,
                watching, changes>>

\* A step that touches none of this, but for a fault.
LEMMA OtherStep ==
    ASSUME ReloadInv, UNCHANGED reloadVars, faults' = faults \/ faults' = faults + 1
    PROVE  ReloadInvNext
<1>1. faults \in Nat /\ faults' \in Nat /\ (faults' = 0 => faults = 0)
  BY DEF ReloadInv, ReloadTypes
<1>2. ReloadTypes'
  BY <1>1 DEF ReloadInv, ReloadTypes, reloadVars, Reloading, ToReport
<1>3. NothingAhead' /\ LastIsCurrent'
  BY DEF ReloadInv, NothingAhead, LastIsCurrent, reloadVars
<1>4. UpToDateWhenSeen'
  BY <1>1 DEF ReloadInv, UpToDateWhenSeen, UpToDate, LoadCR, Reloading, ToSwap, ToReport, reloadVars
<1> QED BY <1>2, <1>3, <1>4 DEF ReloadInvNext

\* The CR is written: what comes of it is a later generation, or a deletion.
LEMMA WriteStep ==
    ASSUME ReloadInv, NEW new \in [gen : Generation, spec : DOMAIN Load, status : Statuses],
           NEW event \in Event, WriteCR(new, event), event.gen = new.gen,
           new.gen = 0 => new.spec = EmptySpec,
           new.gen > cr.gen \/ event = Deletion,
           new.gen <= cr.gen + 1
    PROVE  ReloadInvNext
<1>1. /\ cr' = new /\ changes < ChangeLimit /\ changes' = changes + 1
      /\ events' = (IF watching THEN Append(events, event) ELSE events)
      /\ missed' = (missed \/ (event = Deletion /\ ~watching))
      /\ UNCHANGED <<lastSeenGeneration, steps, loaded, old, config, excludeRules, watching, faults>>
  BY DEF WriteCR, handlerVars, configVars, informerVars
<1>2. ~fresh'
  BY Zenon DEF WriteCR
<1>3. /\ cr.gen \in Nat /\ new.gen \in Nat /\ changes \in Nat /\ changes + 1 \in 0..ChangeLimit
      /\ new.gen <= (changes + 1) + 1 /\ lastSeenGeneration \in Nat
  BY <1>1, ConfigAssumption DEF ReloadInv, ReloadTypes, Generation
<1>4. events \in Seq(Event) /\ (~watching => events = <<>>)
  BY DEF ReloadInv, ReloadTypes, InformerTypes
<1>5. events' \in Seq(Event)
  BY <1>1, <1>4, AppendProperties
<1>6. ReloadTypes'
  BY <1>1, <1>2, <1>3, <1>5 DEF ReloadInv, ReloadTypes, Reloading, ToReport
<1>7. ASSUME ~missed'
      PROVE  /\ ~missed /\ (watching \/ event # Deletion)
             /\ lastSeenGeneration <= cr.gen \/ Lost(events)
             /\ Behind(events, cr.gen)
  <2>1. ~missed /\ (watching \/ event # Deletion)
    BY <1>1, <1>7, Zenon
  <2> QED BY <2>1 DEF ReloadInv, NothingAhead
<1>8. CASE watching
  <2>1. ASSUME ~missed'
        PROVE  /\ events' # <<>> /\ events'[Len(events')] = event
               /\ Lost(events') <=> Lost(events) \/ event = Deletion
               /\ Behind(events', new.gen)
    <3>1. event = Deletion \/ (Behind(events, cr.gen) /\ cr.gen <= new.gen)
      BY <1>3, <1>7, <2>1
    <3>2. event.gen <= new.gen
      BY <1>3
    <3> QED BY <1>1, <1>3, <1>4, <1>8, <3>1, <3>2, AppendEvent
  <2>2. NothingAhead' /\ LastIsCurrent'
    BY <1>1, <1>3, <1>7, <2>1 DEF NothingAhead, LastIsCurrent
  <2>3. UpToDateWhenSeen'
    BY <1>1, <1>3, <1>7, <2>1 DEF UpToDateWhenSeen
  <2> QED BY <1>6, <2>2, <2>3 DEF ReloadInvNext
<1>9. CASE ~watching
  <2>1. events = <<>> /\ events' = <<>> /\ ~Lost(<<>>)
    BY <1>1, <1>4, <1>9 DEF Lost
  <2>2. ASSUME ~missed' PROVE lastSeenGeneration < new.gen
    BY <1>3, <1>7, <1>9, <2>1, <2>2
  <2>3. Behind(<<>>, new.gen)
    BY DEF Behind
  <2>4. NothingAhead' /\ LastIsCurrent'
    BY <1>1, <1>3, <1>9, <2>1, <2>2, <2>3 DEF NothingAhead, LastIsCurrent
  <2>5. UpToDateWhenSeen'
    BY <1>1, <1>3, <2>2 DEF UpToDateWhenSeen
  <2> QED BY <1>6, <2>4, <2>5 DEF ReloadInvNext
<1> QED BY <1>8, <1>9

\* The next event is taken from the queue and either starts a reload, or is dropped or
\* ignored as one that has been seen.
LEMMA TakeStep ==
    ASSUME ReloadInv, DropEvent \/ HandleEvent
    PROVE  ReloadInvNext
<1> DEFINE e == Head(events)
<1>1. /\ watching /\ steps = <<>> /\ events # <<>> /\ events' = Tail(events)
      /\ UNCHANGED <<cr, fresh, loaded, config, excludeRules, watching, changes, faults>>
      /\ \/ Matters(e) /\ missed' /\ UNCHANGED <<lastSeenGeneration, steps>>
         \/ Matters(e) /\ lastSeenGeneration' = e.gen /\ steps' = <<"get">> /\ missed' = missed
         \/ ~Matters(e) /\ lastSeenGeneration' = lastSeenGeneration /\ steps' = steps /\ missed' = missed
  <2>1. CASE DropEvent
    <3>1. /\ watching /\ steps = <<>> /\ events # <<>> /\ events' = Tail(events)
          /\ UNCHANGED <<cr, fresh, loaded, config, excludeRules, watching, changes, faults,
                         lastSeenGeneration, steps>>
      BY <2>1 DEF DropEvent, Reloading, handlerVars, configVars, informerVars
    <3>2. missed \in BOOLEAN /\ missed' = (missed \/ Matters(e))
      BY <2>1 DEF DropEvent, ReloadInv, InformerTypes
    <3>3. Matters(e) => missed'
      BY <3>2
    <3>4. ~Matters(e) => missed' = missed
      BY <3>2
    <3> QED BY <3>1, <3>3, <3>4
  <2>2. CASE HandleEvent
    <3>1. /\ watching /\ steps = <<>> /\ events # <<>> /\ events' = Tail(events)
          /\ UNCHANGED <<cr, fresh, missed, loaded, config, excludeRules, watching, changes, faults>>
          /\ lastSeenGeneration' = e.gen
          /\ Matters(e) => steps' = <<"get">>
          /\ ~Matters(e) => steps' = steps
      BY <2>2 DEF HandleEvent, Reloading, configVars, informerVars
    <3>2. ~Matters(e) => e.gen = lastSeenGeneration
      BY DEF Matters
    <3> QED BY <3>1, <3>2
  <2> QED BY <2>1, <2>2
<1>2. events \in Seq(Event) /\ cr.gen \in Nat
  BY ConfigAssumption DEF ReloadInv, ReloadTypes, Generation
<1>3. /\ Tail(events) \in Seq(Event) /\ e \in Event
      /\ Lost(events) <=> e = Deletion \/ Lost(Tail(events))
      /\ Tail(events) = <<>> => e = events[Len(events)]
      /\ Tail(events) # <<>> => Tail(events)[Len(Tail(events))] = events[Len(events)]
      /\ Behind(events, cr.gen) => /\ Behind(Tail(events), cr.gen)
                                   /\ e.gen <= cr.gen \/ Lost(Tail(events))
  BY <1>1, <1>2, TakeEvent
<1>4. e.gen \in Generation /\ (~Matters(e) => e # Deletion /\ e.gen = lastSeenGeneration)
  BY <1>3, EventFacts DEF Matters
<1> HIDE DEF e
<1>5. ReloadTypes'
  <2>1. steps' \in Agendas /\ ~ToReport'
    <3>1. steps' \in {<<>>, <<"get">>}
      BY <1>1
    <3> QED BY <3>1 DEF Agendas, ToReport
  <2>2. lastSeenGeneration' \in Generation
    BY <1>1, <1>4 DEF ReloadInv, ReloadTypes
  <2> QED BY <1>1, <1>3, <2>1, <2>2 DEF ReloadInv, ReloadTypes, Reloading
<1>6. NothingAhead'
  BY <1>1, <1>3, <1>4 DEF ReloadInv, NothingAhead
<1>7. LastIsCurrent'
  BY <1>1, <1>3, <1>4 DEF ReloadInv, LastIsCurrent
<1>8. UpToDateWhenSeen'
  <2>1. CASE Matters(e)
    BY <1>1, <2>1 DEF UpToDateWhenSeen, UpToDate
  <2>2. CASE ~Matters(e)
    <3>1. UNCHANGED <<cr, fresh, missed, steps, loaded, config, excludeRules, faults, lastSeenGeneration>>
      BY <1>1, <2>2
    <3>2. Lost(events') <=> Lost(events)
      BY <1>1, <1>3, <1>4, <2>2
    <3> QED BY <3>1, <3>2 DEF ReloadInv, UpToDateWhenSeen, UpToDate, LoadCR, Reloading, ToSwap, ToReport
  <2> QED BY <2>1, <2>2
<1> QED BY <1>5, <1>6, <1>7, <1>8 DEF ReloadInvNext

\* The agendas one by one.
LEMMA AgendaFacts ==
    /\ steps = <<"get">> => ~ToSwap /\ ~ToReport /\ Reloading
    /\ steps = <<"diff">> => ~ToSwap /\ ~ToReport /\ Reloading
    /\ steps = <<>> => ~ToSwap /\ ~ToReport /\ ~Reloading
    /\ ToSwap => Reloading
    /\ ToReport => Reloading
BY DEF ToSwap, ToReport, Reloading

\* An agenda that begins with the swap, or with the report, and what is left of it.
LEMMA AgendaTails ==
    ASSUME steps \in Agendas, Reloading
    PROVE  /\ Head(steps) = "swap" =>
                 \/ steps = <<"swap", "diff">> /\ Tail(steps) = <<"diff">>
                 \/ steps = <<"swap", "report", "diff">> /\ Tail(steps) = <<"report", "diff">>
           /\ Head(steps) = "report" =>
                 \/ steps = <<"report", "swap", "diff">> /\ Tail(steps) = <<"swap", "diff">>
                 \/ steps = <<"report", "diff">> /\ Tail(steps) = <<"diff">>
<1>1. /\ Head(<<"get">>) = "get" /\ Head(<<"diff">>) = "diff"
      /\ Head(<<"swap", "diff">>) = "swap" /\ Head(<<"swap", "report", "diff">>) = "swap"
      /\ Head(<<"report", "swap", "diff">>) = "report" /\ Head(<<"report", "diff">>) = "report"
  OBVIOUS
<1>2. /\ Tail(<<"swap", "diff">>) = <<"diff">>
      /\ Tail(<<"swap", "report", "diff">>) = <<"report", "diff">>
      /\ Tail(<<"report", "swap", "diff">>) = <<"swap", "diff">>
      /\ Tail(<<"report", "diff">>) = <<"diff">>
  OBVIOUS
<1> QED BY <1>1, <1>2 DEF Agendas, Reloading

\* The reload reads the CR: from now on it is loaded from what the CR is at this moment.
LEMMA GetStep ==
    ASSUME ReloadInv, Get
    PROVE  ReloadInvNext
<1>1. /\ steps = <<"get">> /\ loaded' = LoadCR
      /\ UNCHANGED <<cr, events, missed, lastSeenGeneration, config, excludeRules, watching, changes, faults>>
  BY DEF Get, LoadCR, configVars, informerVars
<1>2. fresh'
  BY Zenon DEF Get
<1>3. /\ steps' \in {<<"swap", "diff">>, <<"report", "swap", "diff">>, <<"swap", "report", "diff">>}
      /\ steps' = <<"swap", "diff">> <=> cr.gen = 0
  BY DEF Get
<1>4. ToSwap' /\ (ToReport' <=> cr.gen # 0) /\ Reloading' /\ steps' \in Agendas
  BY <1>3 DEF ToSwap, ToReport, Reloading, Agendas
<1>5. ReloadTypes'
  <2>1. loaded' \in {Defaults} \cup {Load[s] : s \in DOMAIN Load}
    BY <1>1 DEF LoadCR, ReloadInv, ReloadTypes
  <2>2. watching
    BY <1>1, AgendaFacts DEF ReloadInv, ReloadTypes
  <2> QED BY <1>1, <1>4, <2>1, <2>2 DEF ReloadInv, ReloadTypes
<1>6. NothingAhead' /\ LastIsCurrent'
  BY <1>1 DEF ReloadInv, NothingAhead, LastIsCurrent
<1>7. UpToDateWhenSeen'
  <2>1. LoadCR' = LoadCR
    BY <1>1 DEF LoadCR
  <2> QED BY <1>1, <1>2, <1>4, <2>1 DEF UpToDateWhenSeen, UpToDate
<1> QED BY <1>5, <1>6, <1>7 DEF ReloadInvNext

\* A step of the handler that fails: the reload goes on without it.
LEMMA FaultStep ==
    ASSUME ReloadInv, GetFails \/ ReportFails
    PROVE  ReloadInvNext
<1>1. /\ Reloading /\ faults' = faults + 1 /\ faults \in Nat
      /\ UNCHANGED <<cr, fresh, events, missed, lastSeenGeneration, config, excludeRules, watching, changes>>
  BY AgendaFacts DEF GetFails, ReportFails, crVars, configVars, informerVars, ReloadInv, ReloadTypes
<1>2. loaded' \in {Defaults} \cup {Load[s] : s \in DOMAIN Load}
  BY DEF GetFails, ReportFails, ReloadInv, ReloadTypes
<1>3. steps' \in Agendas /\ (ToReport' => ToReport)
  <2>1. CASE GetFails
    BY <2>1 DEF GetFails, Agendas, ToReport
  <2>2. CASE ReportFails
    <3>1. ToReport /\ steps' \in {<<"swap", "diff">>, <<"diff">>}
      BY <2>2, AgendaTails DEF ReportFails, ReloadInv, ReloadTypes, ToReport
    <3> QED BY <3>1 DEF Agendas, ToReport
  <2> QED BY <2>1, <2>2
<1>4. ReloadTypes'
  BY <1>1, <1>2, <1>3 DEF ReloadInv, ReloadTypes
<1>5. NothingAhead' /\ LastIsCurrent'
  BY <1>1 DEF ReloadInv, NothingAhead, LastIsCurrent
<1>6. UpToDateWhenSeen'
  BY <1>1 DEF UpToDateWhenSeen
<1> QED BY <1>4, <1>5, <1>6 DEF ReloadInvNext

\* The config is swapped for the one that was loaded.
LEMMA SwapStep ==
    ASSUME ReloadInv, Swap
    PROVE  ReloadInvNext
<1>1. /\ Reloading /\ config' = loaded.config /\ excludeRules' = loaded.rules
      /\ UNCHANGED <<cr, fresh, events, missed, lastSeenGeneration, loaded, watching, changes, faults>>
  BY DEF Swap, crVars, informerVars
<1>2. /\ ToSwap /\ ~ToSwap' /\ Reloading' /\ (ToReport' <=> ToReport)
      /\ steps' \in Agendas /\ steps # <<"get">> /\ steps' # <<"get">>
  <2>1. \/ steps = <<"swap", "diff">> /\ steps' = <<"diff">>
        \/ steps = <<"swap", "report", "diff">> /\ steps' = <<"report", "diff">>
    BY AgendaTails DEF Swap, ReloadInv, ReloadTypes
  <2> QED BY <2>1 DEF ToSwap, ToReport, Reloading, Agendas
<1>3. excludeRules' \in DOMAIN Collected
  <2>1. DOMAIN Collected = {<<>>} \cup {Load[s].rules : s \in DOMAIN Load}
    BY DEF Collected
  <2>2. Defaults.rules = <<>>
    BY DEF Defaults
  <2> QED BY <1>1, <2>1, <2>2 DEF ReloadInv, ReloadTypes
<1>4. ReloadTypes'
  BY <1>1, <1>2, <1>3 DEF ReloadInv, ReloadTypes
<1>5. NothingAhead' /\ LastIsCurrent'
  BY <1>1 DEF ReloadInv, NothingAhead, LastIsCurrent
<1>6. UpToDateWhenSeen'
  <2>1. LoadCR' = LoadCR
    BY <1>1 DEF LoadCR
  <2> SUFFICES ASSUME faults = 0, ~missed, lastSeenGeneration = cr.gen, ~Lost(events)
               PROVE  UpToDate'
    BY <1>1 DEF UpToDateWhenSeen
  <2>2. /\ fresh /\ loaded = LoadCR
        /\ ~ToReport /\ cr.gen # 0 => cr.status = Load[cr.spec].status
    BY <1>1, <1>2 DEF ReloadInv, UpToDateWhenSeen, UpToDate
  <2> QED BY <1>1, <1>2, <2>1, <2>2 DEF UpToDate
<1> QED BY <1>4, <1>5, <1>6 DEF ReloadInvNext

\* The status is reported, unless the CR was written since it was read.
LEMMA ReportStep ==
    ASSUME ReloadInv, Report
    PROVE  ReloadInvNext
<1>1. /\ Reloading
      /\ UNCHANGED <<fresh, missed, lastSeenGeneration, loaded, config, excludeRules, watching,
            changes, faults>>
  BY DEF Report, configVars, informerVars
<1>2. /\ ToReport /\ ~ToReport' /\ Reloading' /\ (ToSwap' <=> ToSwap)
      /\ steps' \in Agendas /\ steps # <<"get">> /\ steps' # <<"get">>
  <2>1. \/ steps = <<"report", "swap", "diff">> /\ steps' = <<"swap", "diff">>
        \/ steps = <<"report", "diff">> /\ steps' = <<"diff">>
    BY AgendaTails DEF Report, ReloadInv, ReloadTypes
  <2> QED BY <2>1 DEF ToSwap, ToReport, Reloading, Agendas
<1>3. cr \in [gen : Generation, spec : DOMAIN Load, status : Statuses] /\ cr.gen \in Nat
  BY ConfigAssumption DEF ReloadInv, ReloadTypes, Generation
<1>4. /\ cr' \in [gen : Generation, spec : DOMAIN Load, status : Statuses]
      /\ cr'.gen = cr.gen /\ cr'.spec = cr.spec
      /\ fresh => cr'.status = loaded.status
  <2>1. loaded.status \in Statuses
    <3>1. Defaults.status = NoStatus
      BY DEF Defaults
    <3> QED BY <3>1 DEF ReloadInv, ReloadTypes, Statuses
  <2>2. cr' = cr \/ cr' = [cr EXCEPT !.status = loaded.status]
    BY DEF Report
  <2>3. fresh /\ cr.status # loaded.status => cr' = [cr EXCEPT !.status = loaded.status]
    BY DEF Report
  <2>4. cr' = [cr EXCEPT !.status = loaded.status] => cr'.status = loaded.status
    BY <1>3
  <2>5. cr.status = loaded.status => cr' = cr
    BY DEF Report
  <2> QED BY <1>3, <2>1, <2>2, <2>3, <2>4, <2>5
<1>5. \/ events' = events
      \/ events' = Append(events, Upsert(cr.gen)) /\ cr.gen # 0
  BY <1>2 DEF Report, ReloadInv, ReloadTypes
<1>6. /\ events' \in Seq(Event)
      /\ Lost(events') <=> Lost(events)
      /\ Behind(events, cr.gen) => Behind(events', cr.gen)
      /\ events' = events \/ (events' # <<>> /\ events'[Len(events')].gen = cr.gen)
  <2>1. CASE events' = events
    BY <2>1 DEF ReloadInv, ReloadTypes
  <2>2. CASE events' = Append(events, Upsert(cr.gen)) /\ cr.gen # 0
    <3>1. Upsert(cr.gen) \in Event /\ Upsert(cr.gen).gen = cr.gen /\ Upsert(cr.gen) # Deletion
      BY <1>3, <2>2, EventFacts
    <3>2. events \in Seq(Event)
      BY DEF ReloadInv, ReloadTypes
    <3>3. /\ events' \in Seq(Event) /\ events' # <<>> /\ events'[Len(events')] = Upsert(cr.gen)
      BY <2>2, <3>1, <3>2, AppendProperties
    <3>4. Lost(events') <=> Lost(events)
      <4>1. /\ DOMAIN events = 1..Len(events) /\ DOMAIN events' = 1..(Len(events) + 1)
            /\ Len(events) \in Nat /\ events'[Len(events) + 1] = Upsert(cr.gen)
            /\ \A i \in 1..Len(events) : events'[i] = events[i]
        BY <2>2, <3>1, <3>2
      <4> QED BY <3>1, <4>1 DEF Lost
    <3>5. Behind(events, cr.gen) => Behind(events', cr.gen)
      BY <1>3, <2>2, <3>1, <3>2, AppendEvent
    <3> QED BY <3>1, <3>3, <3>4, <3>5
  <2> QED BY <1>5, <2>1, <2>2
<1>7. ReloadTypes'
  BY <1>1, <1>2, <1>4, <1>6 DEF ReloadInv, ReloadTypes
<1>8. NothingAhead' /\ LastIsCurrent'
  BY <1>1, <1>4, <1>6 DEF ReloadInv, NothingAhead, LastIsCurrent
<1>9. UpToDateWhenSeen'
  <2>1. LoadCR' = LoadCR
    BY <1>4 DEF LoadCR
  <2> SUFFICES ASSUME faults = 0, ~missed, lastSeenGeneration = cr.gen, ~Lost(events)
               PROVE  UpToDate'
    BY <1>1, <1>4, <1>6 DEF UpToDateWhenSeen
  <2>2. /\ fresh /\ loaded = LoadCR
        /\ ~ToSwap => \E l \in {LoadCR, Load[cr.spec]} : config = l.config /\ excludeRules = l.rules
    BY <1>1, <1>2 DEF ReloadInv, UpToDateWhenSeen, UpToDate
  <2>3. cr.gen # 0 => cr'.status = Load[cr.spec].status
    BY <1>4, <2>2 DEF LoadCR
  <2> QED BY <1>1, <1>2, <1>4, <2>1, <2>2, <2>3 DEF UpToDate
<1> QED BY <1>7, <1>8, <1>9 DEF ReloadInvNext

\* The reload compares the configs and ends.
LEMMA DiffStep ==
    ASSUME ReloadInv, DiffAndTrigger
    PROVE  ReloadInvNext
<1>1. /\ steps = <<"diff">> /\ steps' = <<>> /\ loaded' = Defaults
      /\ UNCHANGED <<cr, fresh, events, missed, lastSeenGeneration, config, excludeRules, watching,
                     changes, faults>>
  BY DEF DiffAndTrigger, crVars, configVars, informerVars
<1>2. /\ ~ToSwap /\ ~ToReport /\ Reloading /\ steps # <<"get">>
      /\ ~ToSwap' /\ ~ToReport' /\ ~Reloading' /\ steps' \in Agendas
  BY <1>1 DEF ToSwap, ToReport, Reloading, Agendas
<1>3. ReloadTypes'
  BY <1>1, <1>2 DEF ReloadInv, ReloadTypes
<1>4. NothingAhead' /\ LastIsCurrent'
  BY <1>1 DEF ReloadInv, NothingAhead, LastIsCurrent
<1>5. UpToDateWhenSeen'
  <2>1. LoadCR' = LoadCR
    BY <1>1 DEF LoadCR
  <2> QED BY <1>1, <1>2, <2>1 DEF ReloadInv, UpToDateWhenSeen, UpToDate
<1> QED BY <1>3, <1>4, <1>5 DEF ReloadInvNext

\* A list or a stop of the informer: what the watch had yet to deliver is lost, and what
\* matters of it comes again with the list, but for a deletion.
LEMMA ListStep ==
    ASSUME ReloadInv, ~Reloading, missed' = (missed \/ Lost(events)),
           \/ watching' /\ events' = IF cr.gen = 0 THEN <<>> ELSE <<Upsert(cr.gen)>>
           \/ ~watching' /\ events' = <<>>,
           UNCHANGED <<cr, fresh, lastSeenGeneration, steps, loaded, config, excludeRules, changes, faults>>
    PROVE  ReloadInvNext
<1>1. /\ cr.gen \in Generation /\ cr.gen \in Nat /\ lastSeenGeneration \in Nat
  BY ConfigAssumption DEF ReloadInv, ReloadTypes, Generation
<1>2. ~missed' => /\ ~missed /\ ~Lost(events) /\ lastSeenGeneration <= cr.gen
  BY DEF ReloadInv, NothingAhead
<1>3. \/ events' = <<>>
      \/ events' = <<Upsert(cr.gen)>> /\ cr.gen # 0 /\ watching'
  OBVIOUS
<1>4. /\ events' \in Seq(Event) /\ ~Lost(events') /\ Behind(events', cr.gen)
      /\ events' # <<>> => events'[Len(events')].gen = cr.gen
  <2>1. CASE events' = <<>>
    BY <2>1, EmptySeq DEF Lost, Behind
  <2>2. CASE events' = <<Upsert(cr.gen)>> /\ cr.gen # 0
    <3>1. Upsert(cr.gen) \in Event /\ Upsert(cr.gen).gen = cr.gen /\ Upsert(cr.gen) # Deletion
      BY <1>1, <2>2, EventFacts
    <3>2. /\ events' \in Seq(Event) /\ Len(events') = 1 /\ DOMAIN events' = {1}
          /\ events'[1] = Upsert(cr.gen)
      BY <2>2, <3>1
    <3> QED BY <1>1, <3>1, <3>2 DEF Lost, Behind
  <2> QED BY <1>3, <2>1, <2>2
<1>5. ReloadTypes'
  BY <1>4 DEF ReloadInv, ReloadTypes, Reloading, ToReport
<1>6. NothingAhead'
  BY <1>2, <1>4 DEF NothingAhead
<1>7. LastIsCurrent'
  BY <1>1, <1>2, <1>3, <1>4 DEF LastIsCurrent
<1>8. UpToDateWhenSeen'
  BY <1>2 DEF ReloadInv, UpToDateWhenSeen, UpToDate, LoadCR, Reloading, ToSwap, ToReport
<1> QED BY <1>5, <1>6, <1>7, <1>8 DEF ReloadInvNext

-----------------------------------------------------------------------------
(* The invariant is inductive.                                             *)

\* Every spec has been given its merge.
LEMMA LoadDomain == DOMAIN Load = CRSpec \cup {EmptySpec}
BY DEF Load

\* There is no CR and no reload initially.
LEMMA ReloadInit == Init => ReloadInv
<1> SUFFICES ASSUME Init PROVE ReloadInv
  OBVIOUS
<1>1. /\ cr \in [gen : {0, 1}, spec : DOMAIN Load, status : Statuses]
      /\ cr.gen = 0 => cr.spec = EmptySpec
  BY LoadDomain DEF Init, NoCR, Statuses
<1>2. fresh \in BOOLEAN /\ watching \in BOOLEAN /\ pendingSyncInformers \in BOOLEAN /\ missed \in BOOLEAN
  BY Zenon DEF Init
<1>3. ownAllowed \in BOOLEAN
  BY Zenon DEF Init, AdmitsOwn
<1>4. events = <<>> /\ steps = <<>> /\ lastSeenGeneration = 0 /\ changes = 0 /\ faults = 0 /\ ~watching
  <2>1. ~watching
    BY Zenon DEF Init
  <2> QED BY <2>1 DEF Init
<1>5. excludeRules \in DOMAIN Collected
  BY <1>1 DEF Init, Collected
<1>6. InformerTypes
  BY <1>2, <1>3, <1>4, <1>5, CollectedTypes DEF Init, InformerTypes
<1>7. ~Reloading /\ ~ToReport /\ ~ToSwap /\ steps \in Agendas
  BY <1>4 DEF Reloading, ToReport, ToSwap, Agendas
<1>8. ReloadTypes
  <2>1. /\ 0 \in Generation /\ 1 \in Generation /\ 0 \in 0..ChangeLimit
        /\ \A g \in {0, 1} : g \in Generation /\ g <= 0 + 1
    BY ConfigAssumption DEF Generation
  <2>2. events \in Seq(Event)
    BY <1>4, EmptySeq
  <2>3. loaded = Defaults
    BY DEF Init
  <2> QED BY <1>1, <1>4, <1>5, <1>7, <2>1, <2>2, <2>3 DEF ReloadTypes
<1>9. NothingAhead /\ LastIsCurrent
  BY <1>1, <1>4 DEF NothingAhead, LastIsCurrent, Behind
<1>10. UpToDateWhenSeen
  BY <1>4, <1>7 DEF Init, UpToDateWhenSeen, UpToDate
<1> QED BY <1>6, <1>8, <1>9, <1>10 DEF ReloadInv

\* Every step keeps the invariant of the reload.
LEMMA ReloadNext ==
    ASSUME ReloadInv, [Next]_vars
    PROVE  ReloadInv'
<1>1. InformerTypes'
  BY InformerTypesInv DEF ReloadInv
<1> SUFFICES ReloadInvNext
  BY <1>1 DEF ReloadInv, ReloadInvNext
<1>2. /\ cr \in [gen : Generation, spec : DOMAIN Load, status : Statuses] /\ cr.gen \in Nat
      /\ changes \in Nat /\ ChangeLimit \in Nat /\ cr.gen <= changes + 1
      /\ cr.gen = 0 => cr.spec = EmptySpec
  BY ConfigAssumption DEF ReloadInv, ReloadTypes, Generation
<1>3. ASSUME NEW s \in CRSpec, CreateCR(s) PROVE ReloadInvNext
  <2> DEFINE new == [gen |-> 1, spec |-> s, status |-> NoStatus]
  <2>1. 1 \in Generation \ {0} /\ cr.gen = 0
    BY <1>2, <1>3 DEF Generation, CreateCR
  <2>2. new \in [gen : Generation, spec : DOMAIN Load, status : Statuses] /\ new.gen = 1
    BY <2>1, LoadDomain DEF Statuses
  <2>3. Upsert(1) \in Event /\ Upsert(1).gen = 1 /\ WriteCR(new, Upsert(1))
    BY <1>3, <2>1, EventFacts DEF CreateCR
  <2> HIDE DEF new
  <2> QED BY <2>1, <2>2, <2>3, WriteStep
<1>4. ASSUME NEW s \in CRSpec, EditSpec(s) PROVE ReloadInvNext
  <2> DEFINE new == [cr EXCEPT !.gen = @ + 1, !.spec = s]
  <2>1. changes < ChangeLimit /\ WriteCR(new, Upsert(cr.gen + 1))
    BY <1>4 DEF EditSpec, WriteCR
  <2>2. cr.gen + 1 \in Generation \ {0}
    BY <1>2, <2>1 DEF Generation
  <2>3. new \in [gen : Generation, spec : DOMAIN Load, status : Statuses] /\ new.gen = cr.gen + 1
    BY <1>2, <2>2, LoadDomain
  <2>4. Upsert(cr.gen + 1) \in Event /\ Upsert(cr.gen + 1).gen = cr.gen + 1
    BY <2>2, EventFacts
  <2> HIDE DEF new
  <2> QED BY <1>2, <2>1, <2>2, <2>3, <2>4, WriteStep
<1>5. CASE DeleteCR
  <2>1. WriteCR(NoCR, Deletion) /\ Deletion \in Event /\ Deletion.gen = 0
    BY <1>5, EventFacts DEF DeleteCR
  <2>2. /\ NoCR \in [gen : Generation, spec : DOMAIN Load, status : Statuses]
        /\ NoCR.gen = 0 /\ NoCR.spec = EmptySpec
    BY <1>2, LoadDomain DEF NoCR, Statuses, Generation
  <2> QED BY <1>2, <2>1, <2>2, WriteStep
<1>6. CASE HandlerStep
  BY <1>6, TakeStep, GetStep, FaultStep, SwapStep, ReportStep, DiffStep DEF HandlerStep
<1>7. CASE MainLoop
  BY <1>7, OtherStep DEF MainLoop, reloadVars, crVars, handlerVars, configVars
<1>8. ASSUME NEW t \in Type, List(t) PROVE ReloadInvNext
  <2>1. CASE t = ConfigType
    <3>1. watching'
      BY <1>8, <2>1, Zenon DEF List
    <3> QED BY <1>8, <2>1, <3>1, ListStep DEF List, ListCR, handlerVars, configVars
  <2>2. CASE t # ConfigType
    BY <1>8, <2>2, OtherStep DEF List, reloadVars, crVars, handlerVars, configVars
  <2> QED BY <2>1, <2>2
<1>9. CASE WatchBreaks
  BY <1>9, ListStep DEF WatchBreaks, ListCR, handlerVars, configVars, informerVars
<1>10. CASE StopWatch
  <2>1. ~watching'
    BY <1>10, Zenon DEF StopWatch
  <2> QED BY <1>10, <2>1, ListStep DEF StopWatch, handlerVars, configVars
<1>11. CASE RefreshNamespaces \/ NamespacesUnknown
  BY <1>11, OtherStep DEF RefreshNamespaces, NamespacesUnknown, reloadVars, crVars, handlerVars,
                          configVars, informerVars
<1>12. CASE UNCHANGED vars
  BY <1>12, OtherStep DEF vars, reloadVars, crVars, handlerVars, configVars, informerVars
<1> QED BY <1>3, <1>4, <1>5, <1>6, <1>7, <1>8, <1>9, <1>10, <1>11, <1>12 DEF Next

\* The inductive invariant holds always.
LEMMA ReloadAlways == Spec => []ReloadInv
<1>1. ReloadInv /\ [Next]_vars => ReloadInv'
  BY ReloadNext
<1> QED BY ReloadInit, <1>1, PTL DEF Spec

-----------------------------------------------------------------------------
(* The theorems.                                                           *)

\* The types of the reload; and once every event of the CR has been handled, without a
\* failed request, a dropped event or a lost deletion, the Applied condition of the CR is
\* that of its own spec (ReloadAndDiff, updateCollectorConfigStatus).
THEOREM ConfigInvariant == Spec => []ConfigInv
<1>1. ReloadInv => ConfigInv
  <2> SUFFICES ASSUME ReloadInv PROVE ConfigInv
    OBVIOUS
  <2>1. TypeOK
    BY TypesAgree DEF ReloadInv
  <2>2. StatusOfSpec
    <3> SUFFICES ASSUME watching, events = <<>>, ~Reloading, faults = 0, ~missed, cr.gen # 0
                 PROVE  cr.status = Load[cr.spec].status
      BY DEF StatusOfSpec
    <3>1. lastSeenGeneration = cr.gen /\ ~Lost(events)
      BY DEF ReloadInv, LastIsCurrent, Lost
    <3>2. UpToDate
      BY <3>1 DEF ReloadInv, UpToDateWhenSeen
    <3> QED BY <3>2, AgendaFacts DEF UpToDate
  <2> QED BY <2>1, <2>2 DEF ConfigInv
<1> QED BY <1>1, ReloadAlways, PTL

-----------------------------------------------------------------------------
(* The folds of the merge, turn by turn.                                   *)

\* What holds of zero, and of the successor of each number it holds of, holds of
\* every number: the least number that is not in the set would be a successor.
LEMMA NatSetInduction ==
  ASSUME NEW S, 0 \in S, \A n \in Nat : n \in S => n + 1 \in S
  PROVE  Nat \subseteq S
<1> DEFINE T == Nat \ S
           R == OpToRel(<, Nat)
<1> SUFFICES ASSUME T # {} PROVE FALSE
  OBVIOUS
<1>1. \E x \in T : \A y \in T : ~(<<y, x>> \in R)
  <2>1. T \subseteq Nat
    OBVIOUS
  <2>2. IsWellFoundedOn(R, Nat)
    BY NatLessThanWellFounded
  <2> HIDE DEF T, R
  <2> QED BY <2>1, <2>2, WFMin
<1>2. PICK x \in T : \A y \in T : ~(<<y, x>> \in R)
  BY <1>1
<1>3. x # 0 /\ x - 1 \in Nat /\ x - 1 \in T
  OBVIOUS
<1>4. <<x - 1, x>> \in R
  BY <1>3 DEF OpToRel
<1> QED BY <1>2, <1>3, <1>4

\* The greatest element of a set of indices that holds its upper bound.
LEMMA MaxOfBound ==
  ASSUME NEW k \in Nat, NEW x \in SUBSET (1..k), k \in x
  PROVE  Max(x) = k
<1>1. \A y \in x : y \in Int /\ k >= y
  OBVIOUS
<1>2. \A m \in x : (\A y \in x : m >= y) => m = k
  BY <1>1
<1> QED BY <1>1, <1>2 DEF Max

\* The loop over the rules of a spec: f[k] is what the first k rules made.
Unmerged == [config |-> DefaultConfig, rules |-> <<>>, warnings |-> 0]
MergeTurns(f, N, rules) ==
    /\ f[0] = Unmerged
    /\ \A k \in 1..N : f[k] = MergeRule(f[k - 1], rules[k])

LEMMA RulesInTurn ==
  ASSUME NEW rules, NEW N \in Nat, DOMAIN rules = 1..N
  PROVE  \E f : MergeTurns(f, N, rules) /\ FoldLeft(MergeRule, Unmerged, rules) = f[N]
<1> DEFINE Start == Unmerged
           Turn(k, a) == MergeRule(a, rules[k])
           Step(it, x) == IF x = {} THEN Start ELSE Turn(Max(x), it[x \ {Max(x)}])
           Iter(k, it) == it = [x \in SUBSET (1..k) |-> Step(it, x)]
           K == {k \in Nat : \E it : Iter(k, it)}
<1>0. FoldLeft(MergeRule, Unmerged, rules) = (CHOOSE it : Iter(N, it))[1..N]
  BY DEF FoldLeft, MapThenFoldSet
<1> HIDE DEF Start, Turn
<1>1. 0 \in K
  <2> DEFINE it == [x \in SUBSET (1..0) |-> Start]
  <2>1. SUBSET (1..0) = {{}}
    OBVIOUS
  <2>2. Iter(0, it)
    BY <2>1
  <2> QED BY <2>2
<1>2. ASSUME NEW k \in Nat, k \in K
      PROVE  k + 1 \in K
  <2>1. PICK it : Iter(k, it)
    BY <1>2
  <2> DEFINE jt == [x \in SUBSET (1..(k + 1)) |-> IF k + 1 \in x THEN Turn(k + 1, it[x \ {k + 1}]) ELSE it[x]]
  <2>2. ASSUME NEW x \in SUBSET (1..(k + 1))
        PROVE  jt[x] = Step(jt, x)
    <3>1. CASE k + 1 \in x
      <4>1. Max(x) = k + 1
        BY <3>1, MaxOfBound
      <4>2. x \ {k + 1} \in SUBSET (1..(k + 1)) /\ k + 1 \notin x \ {k + 1}
        OBVIOUS
      <4>3. jt[x \ {k + 1}] = it[x \ {k + 1}]
        BY <4>2
      <4>4. x # {} /\ jt[x] = Turn(k + 1, it[x \ {k + 1}])
        BY <3>1
      <4> QED BY <4>1, <4>3, <4>4
    <3>2. CASE k + 1 \notin x
      <4>1. x \in SUBSET (1..k)
        BY <3>2
      <4>2. jt[x] = it[x] /\ it[x] = Step(it, x)
        BY <2>1, <3>2, <4>1
      <4>3. \A m : x \ {m} \in SUBSET (1..(k + 1)) /\ k + 1 \notin x \ {m}
        BY <3>2
      <4>4. \A m : jt[x \ {m}] = it[x \ {m}]
        BY <4>3
      <4>5. Step(jt, x) = Step(it, x)
        BY <4>4
      <4> QED BY <4>2, <4>5
    <3> QED BY <3>1, <3>2
  <2>3. Iter(k + 1, jt)
    BY <2>2
  <2> HIDE DEF jt, Iter
  <2> QED BY <2>3
<1>3. N \in K
  <2> HIDE DEF K
  <2> QED BY <1>1, <1>2, NatSetInduction
<1> DEFINE iter == CHOOSE it : Iter(N, it)
           f == [k \in 0..N |-> iter[1..k]]
<1>4. Iter(N, iter)
  BY <1>3
<1>5. \A x \in SUBSET (1..N) : iter[x] = Step(iter, x)
  BY <1>4
<1> HIDE DEF iter
<1>6. f[0] = Start
  <2>1. 1..0 = {} /\ 1..0 \in SUBSET (1..N)
    OBVIOUS
  <2>2. iter[1..0] = Start
    BY <1>5, <2>1
  <2> QED BY <2>2
<1>7. ASSUME NEW k \in 1..N
      PROVE  f[k] = Turn(k, f[k - 1])
  <2>1. 1..k \in SUBSET (1..N) /\ k \in 1..k /\ k - 1 \in 0..N
    OBVIOUS
  <2>2. Max(1..k) = k
    BY <2>1, MaxOfBound
  <2>3. (1..k) \ {k} = 1..(k - 1)
    OBVIOUS
  <2>4. iter[1..k] = Turn(k, iter[1..(k - 1)])
    BY <1>5, <2>1, <2>2, <2>3
  <2> QED BY <2>1, <2>4
<1>8. FoldLeft(MergeRule, Unmerged, rules) = f[N]
  BY <1>0 DEF iter
<1> HIDE DEF f
<1>9. MergeTurns(f, N, rules)
  BY <1>6, <1>7 DEF Start, Turn, MergeTurns
<1> QED BY <1>8, <1>9

\* The loop over the fields of a rule.
Present(cfg, key) == [k \in (DOMAIN cfg) \cup {key} |-> EntryOf(cfg, k)]
FieldTurns(f, N, acc, rule) ==
    /\ f[0] = [acc EXCEPT !.config = Present(acc.config, FieldKey(rule))]
    /\ \A k \in 1..N : f[k] = AddField(f[k - 1], FieldKey(rule), rule.fields[k])

LEMMA FieldsInTurn ==
  ASSUME NEW acc, NEW rule, NEW N \in Nat, DOMAIN rule.fields = 1..N
  PROVE  \E f : FieldTurns(f, N, acc, rule) /\ AddFields(acc, rule) = f[N]
<1> DEFINE Start == [acc EXCEPT !.config = Present(acc.config, FieldKey(rule))]
           Turn(k, a) == AddField(a, FieldKey(rule), rule.fields[k])
           Step(it, x) == IF x = {} THEN Start ELSE Turn(Max(x), it[x \ {Max(x)}])
           Iter(k, it) == it = [x \in SUBSET (1..k) |-> Step(it, x)]
           K == {k \in Nat : \E it : Iter(k, it)}
<1>0. AddFields(acc, rule) = (CHOOSE it : Iter(N, it))[1..N]
  BY DEF AddFields, Present, FoldLeft, MapThenFoldSet
<1> HIDE DEF Start, Turn
<1>1. 0 \in K
  <2> DEFINE it == [x \in SUBSET (1..0) |-> Start]
  <2>1. SUBSET (1..0) = {{}}
    OBVIOUS
  <2>2. Iter(0, it)
    BY <2>1
  <2> QED BY <2>2
<1>2. ASSUME NEW k \in Nat, k \in K
      PROVE  k + 1 \in K
  <2>1. PICK it : Iter(k, it)
    BY <1>2
  <2> DEFINE jt == [x \in SUBSET (1..(k + 1)) |-> IF k + 1 \in x THEN Turn(k + 1, it[x \ {k + 1}]) ELSE it[x]]
  <2>2. ASSUME NEW x \in SUBSET (1..(k + 1))
        PROVE  jt[x] = Step(jt, x)
    <3>1. CASE k + 1 \in x
      <4>1. Max(x) = k + 1
        BY <3>1, MaxOfBound
      <4>2. x \ {k + 1} \in SUBSET (1..(k + 1)) /\ k + 1 \notin x \ {k + 1}
        OBVIOUS
      <4>3. jt[x \ {k + 1}] = it[x \ {k + 1}]
        BY <4>2
      <4>4. x # {} /\ jt[x] = Turn(k + 1, it[x \ {k + 1}])
        BY <3>1
      <4> QED BY <4>1, <4>3, <4>4
    <3>2. CASE k + 1 \notin x
      <4>1. x \in SUBSET (1..k)
        BY <3>2
      <4>2. jt[x] = it[x] /\ it[x] = Step(it, x)
        BY <2>1, <3>2, <4>1
      <4>3. \A m : x \ {m} \in SUBSET (1..(k + 1)) /\ k + 1 \notin x \ {m}
        BY <3>2
      <4>4. \A m : jt[x \ {m}] = it[x \ {m}]
        BY <4>3
      <4>5. Step(jt, x) = Step(it, x)
        BY <4>4
      <4> QED BY <4>2, <4>5
    <3> QED BY <3>1, <3>2
  <2>3. Iter(k + 1, jt)
    BY <2>2
  <2> HIDE DEF jt, Iter
  <2> QED BY <2>3
<1>3. N \in K
  <2> HIDE DEF K
  <2> QED BY <1>1, <1>2, NatSetInduction
<1> DEFINE iter == CHOOSE it : Iter(N, it)
           f == [k \in 0..N |-> iter[1..k]]
<1>4. Iter(N, iter)
  BY <1>3
<1>5. \A x \in SUBSET (1..N) : iter[x] = Step(iter, x)
  BY <1>4
<1> HIDE DEF iter
<1>6. f[0] = Start
  <2>1. 1..0 = {} /\ 1..0 \in SUBSET (1..N)
    OBVIOUS
  <2>2. iter[1..0] = Start
    BY <1>5, <2>1
  <2> QED BY <2>2
<1>7. ASSUME NEW k \in 1..N
      PROVE  f[k] = Turn(k, f[k - 1])
  <2>1. 1..k \in SUBSET (1..N) /\ k \in 1..k /\ k - 1 \in 0..N
    OBVIOUS
  <2>2. Max(1..k) = k
    BY <2>1, MaxOfBound
  <2>3. (1..k) \ {k} = 1..(k - 1)
    OBVIOUS
  <2>4. iter[1..k] = Turn(k, iter[1..(k - 1)])
    BY <1>5, <2>1, <2>2, <2>3
  <2> QED BY <2>1, <2>4
<1>8. AddFields(acc, rule) = f[N]
  BY <1>0 DEF iter
<1> HIDE DEF f
<1>9. FieldTurns(f, N, acc, rule)
  BY <1>6, <1>7 DEF Start, Turn, FieldTurns
<1> QED BY <1>8, <1>9

\* The walk over the exclude rules.
ExcludeTurns(f, N, rs, t) ==
    /\ f[0] = FALSE
    /\ \A k \in 1..N : f[k] = IF MatchesExcludeRule(t, rs[k]) THEN rs[k].action = "exclude" ELSE f[k - 1]

LEMMA ExcludeInTurn ==
  ASSUME NEW rs, NEW t, NEW N \in Nat, DOMAIN rs = 1..N
  PROVE  \E f : ExcludeTurns(f, N, rs, t) /\ IsResourceExcluded(rs, t) = f[N]
<1> DEFINE Start == FALSE
           Turn(k, a) == IF MatchesExcludeRule(t, rs[k]) THEN rs[k].action = "exclude" ELSE a
           Step(it, x) == IF x = {} THEN Start ELSE Turn(Max(x), it[x \ {Max(x)}])
           Iter(k, it) == it = [x \in SUBSET (1..k) |-> Step(it, x)]
           K == {k \in Nat : \E it : Iter(k, it)}
<1>0. IsResourceExcluded(rs, t) = (CHOOSE it : Iter(N, it))[1..N]
  BY DEF IsResourceExcluded, FoldLeft, MapThenFoldSet
<1> HIDE DEF Start, Turn
<1>1. 0 \in K
  <2> DEFINE it == [x \in SUBSET (1..0) |-> Start]
  <2>1. SUBSET (1..0) = {{}}
    OBVIOUS
  <2>2. Iter(0, it)
    BY <2>1
  <2> QED BY <2>2
<1>2. ASSUME NEW k \in Nat, k \in K
      PROVE  k + 1 \in K
  <2>1. PICK it : Iter(k, it)
    BY <1>2
  <2> DEFINE jt == [x \in SUBSET (1..(k + 1)) |-> IF k + 1 \in x THEN Turn(k + 1, it[x \ {k + 1}]) ELSE it[x]]
  <2>2. ASSUME NEW x \in SUBSET (1..(k + 1))
        PROVE  jt[x] = Step(jt, x)
    <3>1. CASE k + 1 \in x
      <4>1. Max(x) = k + 1
        BY <3>1, MaxOfBound
      <4>2. x \ {k + 1} \in SUBSET (1..(k + 1)) /\ k + 1 \notin x \ {k + 1}
        OBVIOUS
      <4>3. jt[x \ {k + 1}] = it[x \ {k + 1}]
        BY <4>2
      <4>4. x # {} /\ jt[x] = Turn(k + 1, it[x \ {k + 1}])
        BY <3>1
      <4> QED BY <4>1, <4>3, <4>4
    <3>2. CASE k + 1 \notin x
      <4>1. x \in SUBSET (1..k)
        BY <3>2
      <4>2. jt[x] = it[x] /\ it[x] = Step(it, x)
        BY <2>1, <3>2, <4>1
      <4>3. \A m : x \ {m} \in SUBSET (1..(k + 1)) /\ k + 1 \notin x \ {m}
        BY <3>2
      <4>4. \A m : jt[x \ {m}] = it[x \ {m}]
        BY <4>3
      <4>5. Step(jt, x) = Step(it, x)
        BY <4>4
      <4> QED BY <4>2, <4>5
    <3> QED BY <3>1, <3>2
  <2>3. Iter(k + 1, jt)
    BY <2>2
  <2> HIDE DEF jt, Iter
  <2> QED BY <2>3
<1>3. N \in K
  <2> HIDE DEF K
  <2> QED BY <1>1, <1>2, NatSetInduction
<1> DEFINE iter == CHOOSE it : Iter(N, it)
           f == [k \in 0..N |-> iter[1..k]]
<1>4. Iter(N, iter)
  BY <1>3
<1>5. \A x \in SUBSET (1..N) : iter[x] = Step(iter, x)
  BY <1>4
<1> HIDE DEF iter
<1>6. f[0] = Start
  <2>1. 1..0 = {} /\ 1..0 \in SUBSET (1..N)
    OBVIOUS
  <2>2. iter[1..0] = Start
    BY <1>5, <2>1
  <2> QED BY <2>2
<1>7. ASSUME NEW k \in 1..N
      PROVE  f[k] = Turn(k, f[k - 1])
  <2>1. 1..k \in SUBSET (1..N) /\ k \in 1..k /\ k - 1 \in 0..N
    OBVIOUS
  <2>2. Max(1..k) = k
    BY <2>1, MaxOfBound
  <2>3. (1..k) \ {k} = 1..(k - 1)
    OBVIOUS
  <2>4. iter[1..k] = Turn(k, iter[1..(k - 1)])
    BY <1>5, <2>1, <2>2, <2>3
  <2> QED BY <2>1, <2>4
<1>8. IsResourceExcluded(rs, t) = f[N]
  BY <1>0 DEF iter
<1> HIDE DEF f
<1>9. ExcludeTurns(f, N, rs, t)
  BY <1>6, <1>7 DEF Start, Turn, ExcludeTurns
<1> QED BY <1>8, <1>9

-----------------------------------------------------------------------------
(* Exclusion: the walk over the rules is the last rule that matches.       *)

LastWord(rs, t) ==
    \E i \in DOMAIN rs :
        /\ rs[i].action = "exclude" /\ MatchesExcludeRule(t, rs[i])
        /\ \A j \in DOMAIN rs : j > i /\ MatchesExcludeRule(t, rs[j]) => rs[j].action = "exclude"

LEMMA ExcludedByLast ==
  ASSUME NEW rs, NEW t, rs \in Seq(Range(rs))
  PROVE  IsResourceExcluded(rs, t) <=> LastWord(rs, t)
<1> DEFINE N == Len(rs)
           Matches(i) == MatchesExcludeRule(t, rs[i])
           Excludes(i) == rs[i].action = "exclude"
           Word(k) == \E i \in 1..k : Excludes(i) /\ Matches(i)
                        /\ \A j \in 1..k : j > i /\ Matches(j) => Excludes(j)
<1>1. N \in Nat /\ DOMAIN rs = 1..N
  OBVIOUS
<1> HIDE DEF N
<1>2. PICK f : ExcludeTurns(f, N, rs, t) /\ IsResourceExcluded(rs, t) = f[N]
  BY <1>1, ExcludeInTurn
<1>3. f[0] = FALSE /\ \A k \in 1..N : f[k] = IF Matches(k) THEN Excludes(k) ELSE f[k - 1]
  BY <1>2 DEF ExcludeTurns
<1> HIDE DEF Matches, Excludes
<1>4. ~Word(0)
  OBVIOUS
<1>5. ASSUME NEW k \in Nat
      PROVE  Word(k + 1) <=> IF Matches(k + 1) THEN Excludes(k + 1) ELSE Word(k)
  <2>1. \A i : i \in 1..(k + 1) <=> i \in 1..k \/ i = k + 1
    OBVIOUS
  <2>2. \A i \in 1..k : k + 1 > i /\ ~(i > k + 1)
    OBVIOUS
  <2>3. ~(k + 1 > k + 1)
    OBVIOUS
  <2>4. CASE Matches(k + 1) /\ Excludes(k + 1)
    <3>1. Word(k + 1)
      BY <2>1, <2>2, <2>3, <2>4
    <3> HIDE DEF Word
    <3> QED BY <2>4, <3>1
  <2>5. CASE Matches(k + 1) /\ ~Excludes(k + 1)
    <3>1. ~Word(k + 1)
      BY <2>1, <2>2, <2>5
    <3> HIDE DEF Word
    <3> QED BY <2>5, <3>1
  <2>6. CASE ~Matches(k + 1)
    <3>1. Word(k + 1) <=> Word(k)
      BY <2>1, <2>6
    <3> HIDE DEF Word
    <3> QED BY <2>6, <3>1
  <2> QED BY <2>4, <2>5, <2>6
<1>6. Word(N) <=> LastWord(rs, t)
  BY <1>1 DEF LastWord, Matches, Excludes
<1> HIDE DEF Word
<1> DEFINE K == {k \in Nat : k <= N => (f[k] <=> Word(k))}
<1>7. 0 \in K
  <2>1. f[0] <=> Word(0)
    BY <1>3, <1>4
  <2> QED BY <2>1
<1>8. ASSUME NEW k \in Nat, k \in K
      PROVE  k + 1 \in K
  <2>1. ASSUME k + 1 <= N PROVE f[k + 1] <=> Word(k + 1)
    <3>1. k + 1 \in 1..N /\ (k + 1) - 1 = k /\ k <= N
      BY <1>1, <2>1
    <3>2. f[k] <=> Word(k)
      BY <1>8, <3>1
    <3>3. f[k + 1] = IF Matches(k + 1) THEN Excludes(k + 1) ELSE f[k]
      BY <1>3, <3>1
    <3>4. CASE Matches(k + 1)
      BY <1>5, <3>3, <3>4
    <3>5. CASE ~Matches(k + 1)
      BY <1>5, <3>2, <3>3, <3>5
    <3> QED BY <3>4, <3>5
  <2>2. k + 1 \in Nat
    OBVIOUS
  <2> QED BY <2>1, <2>2
<1>9. Nat \subseteq K
  <2> HIDE DEF K
  <2> QED BY <1>7, <1>8, NatSetInduction
<1>10. f[N] <=> Word(N)
  <2>1. N \in K /\ N <= N
    BY <1>1, <1>9
  <2> QED BY <2>1
<1> QED BY <1>2, <1>6, <1>10

\* Of the first n - 1 rules of a spec, one excludes the type and no later one includes it.
ExcludedUpTo(s, n, t) ==
    \E i \in 1..(n - 1) :
        /\ s.rules[i].action = "exclude" /\ MatchesExcludeRule(t, s.rules[i])
        /\ \A j \in 1..(n - 1) : j > i /\ MatchesExcludeRule(t, s.rules[j]) => s.rules[j].action = "exclude"

\* The exclude rules after n - 1 rules of a spec.
ExcludeRule(r) == [groups |-> r.groups, kinds |-> r.kinds, action |-> r.action]
Listed(s, n, rs) ==
    /\ rs \in Seq({ExcludeRule(s.rules[i]) : i \in DOMAIN s.rules})
    /\ \A t : LastWord(rs, t) <=> ExcludedUpTo(s, n, t)

LEMMA WordOfLonger ==
  ASSUME NEW E, NEW rs \in Seq(E), NEW x \in E, NEW t
  PROVE  LastWord(Append(rs, x), t) <=>
            IF MatchesExcludeRule(t, x) THEN x.action = "exclude" ELSE LastWord(rs, t)
<1> DEFINE N == Len(rs)
           ext == Append(rs, x)
           Matches(r) == MatchesExcludeRule(t, r)
           Excludes(r) == r.action = "exclude"
<1>1. N \in Nat /\ DOMAIN rs = 1..N /\ DOMAIN ext = 1..(N + 1) /\ ext[N + 1] = x
      /\ \A i \in 1..N : ext[i] = rs[i]
  OBVIOUS
<1> HIDE DEF N, ext
<1>2. \A i : i \in 1..(N + 1) <=> i \in 1..N \/ i = N + 1
  BY <1>1
<1>3. \A i \in 1..N : N + 1 > i /\ ~(i > N + 1)
  BY <1>1
<1>4. ~(N + 1 > N + 1)
  BY <1>1
<1>5. LastWord(ext, t) <=> \E i \in 1..(N + 1) : Excludes(ext[i]) /\ Matches(ext[i])
                              /\ \A j \in 1..(N + 1) : j > i /\ Matches(ext[j]) => Excludes(ext[j])
  BY <1>1 DEF LastWord
<1>6. LastWord(rs, t) <=> \E i \in 1..N : Excludes(rs[i]) /\ Matches(rs[i])
                              /\ \A j \in 1..N : j > i /\ Matches(rs[j]) => Excludes(rs[j])
  BY <1>1 DEF LastWord
<1>7. (IF Matches(x) THEN Excludes(x) ELSE LastWord(rs, t)) <=> LastWord(ext, t)
  <2> HIDE DEF Matches, Excludes
  <2>1. CASE Matches(x) /\ Excludes(x)
    <3>1. LastWord(ext, t)
      BY <1>1, <1>2, <1>3, <1>4, <1>5, <2>1
    <3> QED BY <2>1, <3>1
  <2>2. CASE Matches(x) /\ ~Excludes(x)
    <3>1. ~LastWord(ext, t)
      BY <1>1, <1>2, <1>3, <1>5, <2>2
    <3> QED BY <2>2, <3>1
  <2>3. CASE ~Matches(x)
    <3>1. LastWord(ext, t) <=> LastWord(rs, t)
      BY <1>1, <1>2, <1>3, <1>5, <1>6, <2>3
    <3> QED BY <2>3, <3>1
  <2> QED BY <2>1, <2>2, <2>3
<1> QED BY <1>7 DEF ext

\* The rule that is appended matches what the rule of the spec matches; one that is not
\* appended matches nothing.
LEMMA ListedStep ==
  ASSUME NEW s, NEW n \in DOMAIN s.rules, IsSpec(s), NEW rs, Listed(s, n, rs)
  PROVE  Listed(s, n + 1, AppendExcludeRule(rs, s.rules[n]))
<1> DEFINE E == {ExcludeRule(s.rules[i]) : i \in DOMAIN s.rules}
           r == s.rules[n]
           new == AppendExcludeRule(rs, r)
<1>1. rs \in Seq(E) /\ ExcludeRule(r) \in E
  BY DEF Listed
<1>2. DOMAIN s.rules = 1..Len(s.rules) /\ Len(s.rules) \in Nat
  BY DEF IsSpec
<1>3. n \in Nat /\ (n + 1) - 1 = n /\ \A i : i \in 1..n <=> i \in 1..(n - 1) \/ i = n
  BY <1>2
<1>4. \A i \in 1..(n - 1) : n > i /\ ~(i > n)
  BY <1>3
<1>5. ~(n > n)
  BY <1>3
<1>6. ASSUME NEW t
      PROVE  ExcludedUpTo(s, n + 1, t) <=>
                IF MatchesExcludeRule(t, r) THEN r.action = "exclude" ELSE ExcludedUpTo(s, n, t)
  <2> DEFINE Matches(i) == MatchesExcludeRule(t, s.rules[i])
             Excludes(i) == s.rules[i].action = "exclude"
             Word(k) == \E i \in 1..k : Excludes(i) /\ Matches(i)
                          /\ \A j \in 1..k : j > i /\ Matches(j) => Excludes(j)
  <2>1. (ExcludedUpTo(s, n + 1, t) <=> Word(n)) /\ (ExcludedUpTo(s, n, t) <=> Word(n - 1))
    BY <1>3 DEF ExcludedUpTo
  <2> HIDE DEF Matches, Excludes
  <2>2. Word(n) <=> IF Matches(n) THEN Excludes(n) ELSE Word(n - 1)
    <3>1. CASE Matches(n) /\ Excludes(n)
      <4>1. Word(n)
        BY <1>3, <1>4, <1>5, <3>1
      <4> HIDE DEF Word
      <4> QED BY <3>1, <4>1
    <3>2. CASE Matches(n) /\ ~Excludes(n)
      <4>1. ~Word(n)
        BY <1>3, <1>4, <3>2
      <4> HIDE DEF Word
      <4> QED BY <3>2, <4>1
    <3>3. CASE ~Matches(n)
      <4>1. Word(n) <=> Word(n - 1)
        BY <1>3, <3>3
      <4> HIDE DEF Word
      <4> QED BY <3>3, <4>1
    <3> QED BY <3>1, <3>2, <3>3
  <2> HIDE DEF Word
  <2> QED BY <2>1, <2>2 DEF Matches, Excludes
<1>7. \A t : LastWord(rs, t) <=> ExcludedUpTo(s, n, t)
  BY DEF Listed
<1>8. CASE r.groups = {} \/ r.kinds = {}
  <2>1. new = rs
    BY <1>8 DEF AppendExcludeRule
  <2>2. \A t : ~MatchesExcludeRule(t, r)
    BY <1>8 DEF MatchesExcludeRule
  <2> QED BY <1>1, <1>6, <1>7, <2>1, <2>2 DEF Listed
<1>9. CASE ~(r.groups = {} \/ r.kinds = {})
  <2>1. new = Append(rs, ExcludeRule(r))
    BY <1>9 DEF AppendExcludeRule, ExcludeRule
  <2>2. new \in Seq(E)
    BY <1>1, <2>1, AppendProperties
  <2>3. ASSUME NEW t PROVE LastWord(new, t) <=> ExcludedUpTo(s, n + 1, t)
    <3> HIDE DEF E
    <3>1. LastWord(Append(rs, ExcludeRule(r)), t) <=>
            IF MatchesExcludeRule(t, ExcludeRule(r)) THEN ExcludeRule(r).action = "exclude"
            ELSE LastWord(rs, t)
      BY <1>1, WordOfLonger
    <3>2. ExcludeRule(r).action = r.action
            /\ (MatchesExcludeRule(t, ExcludeRule(r)) <=> MatchesExcludeRule(t, r))
      BY DEF ExcludeRule, MatchesExcludeRule
    <3> HIDE DEF r, new
    <3> QED BY <1>6, <1>7, <2>1, <3>1, <3>2
  <2> QED BY <2>2, <2>3 DEF Listed
<1> QED BY <1>8, <1>9

\* After all the rules the types that are not excluded are those the spec means.
LEMMA ListedMeans ==
  ASSUME NEW s, IsSpec(s), s.readable, NEW rs, Listed(s, Len(s.rules) + 1, rs)
  PROVE  {t \in Type : ~IsResourceExcluded(rs, t)} = MeantTypes(s)
<1> DEFINE N == Len(s.rules)
<1>1. N \in Nat /\ DOMAIN s.rules = 1..N /\ (N + 1) - 1 = N
  BY DEF IsSpec
<1> HIDE DEF N
<1>2. rs \in Seq(Range(rs))
  BY DEF Listed, Range
<1>3. \A i \in 1..N : s.rules[i].action = "include" <=> s.rules[i].action # "exclude"
  BY <1>1 DEF IsSpec, IsRule
<1>4. ASSUME NEW t \in Type PROVE ~IsResourceExcluded(rs, t) <=> t \in MeantTypes(s)
  <2>1. IsResourceExcluded(rs, t) <=> ExcludedUpTo(s, N + 1, t)
    BY <1>2, ExcludedByLast DEF Listed, N
  <2>2. t \in MeantTypes(s) <=>
          \A i \in 1..N : s.rules[i].action = "exclude" /\ MatchesExcludeRule(t, s.rules[i]) =>
             \E j \in 1..N : s.rules[j].action = "include" /\ j > i /\ MatchesExcludeRule(t, s.rules[j])
    BY <1>1 DEF MeantTypes, Including
  <2>3. ExcludedUpTo(s, N + 1, t) <=>
          \E i \in 1..N : s.rules[i].action = "exclude" /\ MatchesExcludeRule(t, s.rules[i])
             /\ \A j \in 1..N : j > i /\ MatchesExcludeRule(t, s.rules[j]) => s.rules[j].action = "exclude"
    BY <1>1 DEF ExcludedUpTo
  <2> QED BY <1>3, <2>1, <2>2, <2>3
<1> QED BY <1>4 DEF MeantTypes

-----------------------------------------------------------------------------
(* The fields of a key.                                                    *)

\* The position is before field m of rule n, or is that field.
UpTo(p, n, m) == p[1] < n \/ (p[1] = n /\ p[2] <= m)
Builtin(k) == EntryOf(DefaultConfig, k).fields

\* The positions whose field the key gets: the first of each name that is not built in.
Granted(s, k) ==
    {q \in FieldsFor(s, k) :
        /\ \A f \in Builtin(k) : f.name # FieldAt(s, q).name
        /\ \A e \in FieldsFor(s, k) : Earlier(e, q) => FieldAt(s, e).name # FieldAt(s, q).name}

\* F holds the fields of the key up to field m of rule n, and the names of those that were
\* skipped on the way are taken.
Filled(s, k, n, m, F) ==
    /\ F = Builtin(k) \cup {FieldAt(s, p) : p \in {q \in Granted(s, k) : UpTo(q, n, m)}}
    /\ \A e \in FieldsFor(s, k) : UpTo(e, n, m) => \E g \in F : g.name = FieldAt(s, e).name

LEMMA PositionFacts ==
  ASSUME NEW s, IsSpec(s), NEW k, NEW i, NEW j
  PROVE  <<i, j>> \in FieldsFor(s, k) <=>
            /\ i \in DOMAIN s.rules /\ s.rules[i].action = "include" /\ j \in DOMAIN s.rules[i].fields
            /\ NamesOneResource(s.rules[i]) /\ FieldKey(s.rules[i]) = k
            /\ s.rules[i].fields[j].name # "" /\ s.rules[i].fields[j].path # ""
<1>1. <<i, j>>[1] = i /\ <<i, j>>[2] = j
  OBVIOUS
<1>2. <<i, j>> \in UNION {{h} \X DOMAIN s.rules[h].fields : h \in Including(s)}
        <=> i \in Including(s) /\ j \in DOMAIN s.rules[i].fields
  OBVIOUS
<1>3. i \in Including(s) <=> i \in DOMAIN s.rules /\ s.rules[i].action = "include"
  BY DEF Including
<1> QED BY <1>1, <1>2, <1>3 DEF FieldsFor

LEMMA PositionsArePairs ==
  ASSUME NEW s, IsSpec(s), NEW k, NEW p \in FieldsFor(s, k)
  PROVE  /\ p = <<p[1], p[2]>>
         /\ p[1] \in Nat \ {0} /\ p[1] \in DOMAIN s.rules
         /\ p[2] \in Nat \ {0} /\ p[2] \in DOMAIN s.rules[p[1]].fields
<1>1. PICK i \in Including(s) : p \in {i} \X DOMAIN s.rules[i].fields
  BY DEF FieldsFor
<1>2. PICK j \in DOMAIN s.rules[i].fields : p = <<i, j>>
  BY <1>1
<1>3. i \in DOMAIN s.rules /\ DOMAIN s.rules = 1..Len(s.rules) /\ Len(s.rules) \in Nat
  BY DEF Including, IsSpec
<1>4. s.rules[i].fields \in Seq(Range(s.rules[i].fields))
  BY <1>3 DEF IsSpec, IsRule
<1>5. DOMAIN s.rules[i].fields = 1..Len(s.rules[i].fields) /\ Len(s.rules[i].fields) \in Nat
  BY <1>4
<1> QED BY <1>2, <1>3, <1>5

LEMMA NothingFilled ==
  ASSUME NEW s, IsSpec(s), NEW k
  PROVE  Filled(s, k, 1, 0, Builtin(k))
<1>1. ASSUME NEW p \in FieldsFor(s, k) PROVE ~UpTo(p, 1, 0)
  BY PositionsArePairs DEF UpTo
<1>2. {q \in Granted(s, k) : UpTo(q, 1, 0)} = {}
  BY <1>1 DEF Granted
<1> QED BY <1>1, <1>2 DEF Filled

\* A position that is skipped, or a rule that has no more fields for the key.
LEMMA FilledSame ==
  ASSUME NEW s, NEW k, NEW n, NEW m, NEW a, NEW b, NEW F, Filled(s, k, n, m, F),
         \A p \in FieldsFor(s, k) : UpTo(p, a, b) <=> UpTo(p, n, m)
  PROVE  Filled(s, k, a, b, F)
<1>1. {q \in Granted(s, k) : UpTo(q, a, b)} = {q \in Granted(s, k) : UpTo(q, n, m)}
  BY DEF Granted
<1> QED BY <1>1 DEF Filled

LEMMA FilledRule ==
  ASSUME NEW s, IsSpec(s), NEW k, NEW n \in Nat, NEW m \in Nat, NEW F, Filled(s, k, n, m, F),
         \A p \in FieldsFor(s, k) : p[1] = n => p[2] <= m
  PROVE  Filled(s, k, n + 1, 0, F)
<1>1. ASSUME NEW p \in FieldsFor(s, k) PROVE UpTo(p, n + 1, 0) <=> UpTo(p, n, m)
  <2>1. p[1] \in Nat \ {0} /\ p[2] \in Nat \ {0}
    BY PositionsArePairs
  <2>2. p[1] = n => p[2] <= m
    OBVIOUS
  <2> HIDE DEF FieldsFor
  <2> DEFINE i == p[1]
             j == p[2]
  <2>3. i \in Nat \ {0} /\ j \in Nat \ {0} /\ (i = n => j <= m)
    BY <2>1, <2>2
  <2>4. (UpTo(p, n + 1, 0) <=> i < n + 1 \/ (i = n + 1 /\ j <= 0))
          /\ (UpTo(p, n, m) <=> i < n \/ (i = n /\ j <= m))
    BY DEF UpTo
  <2> HIDE DEF i, j
  <2> QED BY <2>3, <2>4
<1> QED BY <1>1, FilledSame

LEMMA FilledSkip ==
  ASSUME NEW s, IsSpec(s), NEW k, NEW n \in Nat, NEW m \in Nat, NEW F, Filled(s, k, n, m, F),
         <<n, m + 1>> \notin FieldsFor(s, k)
  PROVE  Filled(s, k, n, m + 1, F)
<1>1. ASSUME NEW p \in FieldsFor(s, k) PROVE UpTo(p, n, m + 1) <=> UpTo(p, n, m)
  <2> DEFINE i == p[1]
             j == p[2]
  <2>1. i \in Nat \ {0} /\ j \in Nat \ {0} /\ p = <<i, j>>
    BY PositionsArePairs
  <2>2. ~(i = n /\ j = m + 1)
    BY <2>1
  <2>3. (UpTo(p, n, m + 1) <=> i < n \/ (i = n /\ j <= m + 1))
          /\ (UpTo(p, n, m) <=> i < n \/ (i = n /\ j <= m))
    BY DEF UpTo
  <2> HIDE DEF i, j
  <2> QED BY <2>1, <2>2, <2>3
<1> QED BY <1>1, FilledSame

\* A position that counts: its field is added unless its name is taken.
LEMMA FilledNext ==
  ASSUME NEW s, IsSpec(s), NEW k, NEW n \in Nat, NEW m \in Nat, NEW F, Filled(s, k, n, m, F),
         <<n, m + 1>> \in FieldsFor(s, k), NEW G,
         G = IF \E g \in F : g.name = FieldAt(s, <<n, m + 1>>).name THEN F
             ELSE F \cup {FieldAt(s, <<n, m + 1>>)}
  PROVE  Filled(s, k, n, m + 1, G)
<1> DEFINE q == <<n, m + 1>>
           f == FieldAt(s, q)
<1>1. UpTo(q, n, m + 1) /\ ~UpTo(q, n, m)
  BY DEF UpTo
<1>2. ASSUME NEW p \in FieldsFor(s, k)
      PROVE  (UpTo(p, n, m + 1) <=> UpTo(p, n, m) \/ p = q) /\ (Earlier(p, q) <=> UpTo(p, n, m))
  <2> DEFINE i == p[1]
             j == p[2]
  <2>1. i \in Nat \ {0} /\ j \in Nat \ {0} /\ p = <<i, j>>
    BY PositionsArePairs
  <2>2. p = q <=> i = n /\ j = m + 1
    BY <2>1
  <2>3. /\ UpTo(p, n, m + 1) <=> i < n \/ (i = n /\ j <= m + 1)
        /\ UpTo(p, n, m) <=> i < n \/ (i = n /\ j <= m)
        /\ Earlier(p, q) <=> i < n \/ (i = n /\ j < m + 1)
    BY DEF UpTo, Earlier
  <2> HIDE DEF i, j, q
  <2> QED BY <2>1, <2>2, <2>3
<1>3. q \in FieldsFor(s, k)
  OBVIOUS
<1> HIDE DEF q
<1>4. F = Builtin(k) \cup {FieldAt(s, p) : p \in {e \in Granted(s, k) : UpTo(e, n, m)}}
  BY DEF Filled
<1>5. \A e \in FieldsFor(s, k) : UpTo(e, n, m) => \E g \in F : g.name = FieldAt(s, e).name
  BY DEF Filled
<1>6. q \in Granted(s, k) <=> /\ \A b \in Builtin(k) : b.name # f.name
                              /\ \A e \in FieldsFor(s, k) : UpTo(e, n, m) => FieldAt(s, e).name # f.name
  BY <1>2, <1>3 DEF Granted
<1>7. \A e \in Granted(s, k) : e \in FieldsFor(s, k)
  BY DEF Granted
<1>8. G = IF \E g \in F : g.name = f.name THEN F ELSE F \cup {f}
  BY DEF q
<1> HIDE DEF f
<1>9. q \in Granted(s, k) <=> ~\E g \in F : g.name = f.name
  BY <1>4, <1>5, <1>6, <1>7
<1>10. f = FieldAt(s, q)
  BY DEF f
<1>11. G = Builtin(k) \cup {FieldAt(s, p) : p \in {e \in Granted(s, k) : UpTo(e, n, m + 1)}}
  <2>1. CASE q \in Granted(s, k)
    <3>1. {e \in Granted(s, k) : UpTo(e, n, m + 1)} = {e \in Granted(s, k) : UpTo(e, n, m)} \cup {q}
      BY <1>2, <1>7, <2>1
    <3>2. G = F \cup {f}
      BY <1>8, <1>9, <2>1
    <3> QED BY <1>4, <1>10, <3>1, <3>2
  <2>2. CASE q \notin Granted(s, k)
    <3>1. {e \in Granted(s, k) : UpTo(e, n, m + 1)} = {e \in Granted(s, k) : UpTo(e, n, m)}
      BY <1>2, <1>7, <2>2
    <3>2. G = F
      BY <1>8, <1>9, <2>2
    <3> QED BY <1>4, <3>1, <3>2
  <2> QED BY <2>1, <2>2
<1>12. ASSUME NEW e \in FieldsFor(s, k), UpTo(e, n, m + 1) PROVE \E g \in G : g.name = FieldAt(s, e).name
  <2>1. F \subseteq G /\ \E g \in G : g.name = f.name
    BY <1>8
  <2>2. UpTo(e, n, m) \/ e = q
    BY <1>2, <1>12
  <2> QED BY <1>5, <1>10, <2>1, <2>2
<1> QED BY <1>11, <1>12 DEF Filled

\* After all the rules the fields of the key are those the spec means.
LEMMA FilledMeans ==
  ASSUME NEW s, IsSpec(s), NEW k, NEW F, Filled(s, k, Len(s.rules) + 1, 0, F)
  PROVE  F = MeantFields(s, k)
<1>1. DOMAIN s.rules = 1..Len(s.rules) /\ Len(s.rules) \in Nat
  BY DEF IsSpec
<1>2. ASSUME NEW p \in Granted(s, k) PROVE UpTo(p, Len(s.rules) + 1, 0)
  <2>1. p \in FieldsFor(s, k)
    BY DEF Granted
  <2>2. p[1] \in 1..Len(s.rules)
    BY <1>1, <2>1, PositionsArePairs
  <2> QED BY <1>1, <2>2 DEF UpTo
<1>3. {q \in Granted(s, k) : UpTo(q, Len(s.rules) + 1, 0)} = Granted(s, k)
  BY <1>2
<1> QED BY <1>3 DEF Filled, MeantFields, Granted, Builtin

-----------------------------------------------------------------------------
(* What a rule does to the entries.                                        *)

IsMerge(a) == a = [config |-> a.config, rules |-> a.rules, warnings |-> a.warnings]

\* Two entries that differ in their fields at most.
SameSwitches(d, e) ==
    (d.conditions <=> e.conditions) /\ (d.annotations <=> e.annotations) /\ d.priority = e.priority

LEMMA EntryIsEntry ==
  ASSUME NEW cfg, IsConfig(cfg), NEW k
  PROVE  IsEntry(EntryOf(cfg, k))
<1>1. IsEntry(EmptyEntry)
  BY DEF IsEntry, EmptyEntry, Priority, NoPriority
<1> QED BY <1>1 DEF IsConfig, EntryOf

\* b is a with the field added to the key, unless the field lacks something or its name is
\* taken.
Added(a, b, key, f) ==
    /\ IsMerge(b) /\ b.rules = a.rules
    /\ IsConfig(b.config) /\ DOMAIN b.config = DOMAIN a.config
    /\ \A k : k # key => EntryOf(b.config, k) = EntryOf(a.config, k)
    /\ SameSwitches(EntryOf(b.config, key), EntryOf(a.config, key))
    /\ EntryOf(b.config, key).fields =
          IF f.name = "" \/ f.path = "" \/ \E g \in EntryOf(a.config, key).fields : g.name = f.name
          THEN EntryOf(a.config, key).fields ELSE EntryOf(a.config, key).fields \cup {f}

LEMMA AddFieldStep ==
  ASSUME NEW acc, IsMerge(acc), IsConfig(acc.config), NEW key \in DOMAIN acc.config, NEW f
  PROVE  Added(acc, AddField(acc, key, f), key, f)
<1> DEFINE F == EntryOf(acc.config, key).fields
           b == AddField(acc, key, f)
           taken == f.name = "" \/ f.path = "" \/ \E g \in F : g.name = f.name
<1> SUFFICES Added(acc, b, key, f)
  OBVIOUS
<1>1. CASE taken
  <2>1. b = [acc EXCEPT !.warnings = @ + 1]
    BY <1>1 DEF AddField
  <2> HIDE DEF b
  <2>2. IsMerge(b) /\ b.rules = acc.rules /\ b.config = acc.config
    BY <2>1 DEF IsMerge
  <2> QED BY <1>1, <2>2 DEF SameSwitches, Added
<1>2. CASE ~taken
  <2> DEFINE cfg == acc.config
             e == cfg[key]
             d == [fields |-> F \cup {f}, conditions |-> e.conditions, annotations |-> e.annotations,
                   priority |-> e.priority]
  <2>1. IsEntry(e) /\ e = EntryOf(cfg, key) /\ cfg = [k \in DOMAIN cfg |-> cfg[k]]
    BY DEF IsConfig, EntryOf
  <2>2. b = [acc EXCEPT !.config[key].fields = @ \cup {f}]
    BY <1>2 DEF AddField
  <2> HIDE DEF b
  <2>3. b = [acc EXCEPT !.config = [cfg EXCEPT ![key] = [e EXCEPT !.fields = @ \cup {f}]]]
    BY <2>2
  <2>4. [e EXCEPT !.fields = @ \cup {f}] = d
    BY <2>1 DEF IsEntry
  <2>5. b = [acc EXCEPT !.config = [cfg EXCEPT ![key] = d]]
    BY <2>3, <2>4
  <2>6. IsMerge(b) /\ b.rules = acc.rules /\ b.config = [cfg EXCEPT ![key] = d]
    BY <2>5 DEF IsMerge
  <2>7. IsEntry(d) /\ SameSwitches(d, e)
    BY <2>1 DEF IsEntry, SameSwitches
  <2> HIDE DEF d
  <2>8. b.config = [k \in DOMAIN cfg |-> IF k = key THEN d ELSE cfg[k]]
    BY <2>1, <2>6
  <2>9. IsConfig(b.config) /\ DOMAIN b.config = DOMAIN cfg
    BY <2>7, <2>8 DEF IsConfig
  <2>10. EntryOf(b.config, key) = d /\ \A k : k # key => EntryOf(b.config, k) = EntryOf(cfg, k)
    BY <2>8 DEF EntryOf
  <2>11. d.fields = F \cup {f}
    BY DEF d
  <2> QED BY <1>2, <2>1, <2>6, <2>7, <2>9, <2>10, <2>11 DEF Added
<1> QED BY <1>1, <1>2

\* b is a with the fields of rule n of the spec, whose key is given.
FieldsAdded(s, n, key, a, b) ==
    /\ IsMerge(b) /\ b.rules = a.rules
    /\ IsConfig(b.config) /\ DOMAIN b.config = (DOMAIN a.config) \cup {key}
    /\ \A k : SameSwitches(EntryOf(b.config, k), EntryOf(a.config, k))
    /\ \A k : Filled(s, k, n + 1, 0, EntryOf(b.config, k).fields)

LEMMA AddFieldsStep ==
  ASSUME NEW s, IsSpec(s), NEW n \in DOMAIN s.rules, NEW r, r = s.rules[n],
         r.action = "include", NamesOneResource(r),
         NEW acc, IsMerge(acc), IsConfig(acc.config),
         \A k : Filled(s, k, n, 0, EntryOf(acc.config, k).fields),
         NEW b, b = AddFields(acc, r)
  PROVE  FieldsAdded(s, n, FieldKey(r), acc, b)
<1> DEFINE N == Len(r.fields)
           key == FieldKey(r)
           cfg == acc.config
           F(a) == EntryOf(a.config, key).fields
<1>1. N \in Nat /\ DOMAIN r.fields = 1..N
  BY DEF IsSpec, IsRule
<1>2. n \in Nat
  BY DEF IsSpec
<1> HIDE DEF N
<1>3. PICK f : FieldTurns(f, N, acc, r) /\ b = f[N]
  BY <1>1, FieldsInTurn
<1>4. f[0] = [acc EXCEPT !.config = Present(cfg, key)]
  BY <1>3 DEF FieldTurns
<1>5. \A k \in 1..N : f[k] = AddField(f[k - 1], key, r.fields[k])
  BY <1>3 DEF FieldTurns
<1> HIDE DEF key
<1> DEFINE Good(a, m) ==
             /\ IsMerge(a) /\ a.rules = acc.rules
             /\ IsConfig(a.config) /\ DOMAIN a.config = (DOMAIN cfg) \cup {key}
             /\ \A k : k # key => EntryOf(a.config, k) = EntryOf(cfg, k)
             /\ SameSwitches(EntryOf(a.config, key), EntryOf(cfg, key))
             /\ Filled(s, key, n, m, F(a))
           K == {m \in Nat : m <= N => Good(f[m], m)}
<1>6. 0 \in K
  <2>1. IsMerge(f[0]) /\ f[0].rules = acc.rules /\ f[0].config = Present(cfg, key)
    BY <1>4 DEF IsMerge
  <2>2. DOMAIN f[0].config = (DOMAIN cfg) \cup {key} /\ IsConfig(f[0].config)
    BY <2>1, EntryIsEntry DEF Present, IsConfig
  <2>3. \A k : EntryOf(f[0].config, k) = EntryOf(cfg, k)
    BY <2>1 DEF Present, EntryOf
  <2>4. Filled(s, key, n, 0, F(f[0])) /\ SameSwitches(EntryOf(f[0].config, key), EntryOf(cfg, key))
    BY <2>3 DEF SameSwitches
  <2>5. Good(f[0], 0)
    BY <2>1, <2>2, <2>3, <2>4
  <2> HIDE DEF Good
  <2> QED BY <2>5
<1>7. ASSUME NEW m \in Nat, m \in K
      PROVE  m + 1 \in K
  <2>1. ASSUME m + 1 <= N PROVE Good(f[m + 1], m + 1)
    <3> DEFINE a == f[m]
               c == f[m + 1]
               q == r.fields[m + 1]
    <3>1. m + 1 \in 1..N /\ (m + 1) - 1 = m /\ m <= N
      BY <1>1, <2>1
    <3>2. Good(a, m)
      BY <1>7, <3>1
    <3>3. c = AddField(a, key, q)
      BY <1>5, <3>1
    <3> HIDE DEF a, c, q
    <3>4. key \in DOMAIN a.config /\ IsMerge(a) /\ IsConfig(a.config)
      BY <3>2
    <3> DEFINE Fa == EntryOf(a.config, key).fields
               Fc == EntryOf(c.config, key).fields
    <3>5. /\ IsMerge(c) /\ c.rules = a.rules
          /\ IsConfig(c.config) /\ DOMAIN c.config = DOMAIN a.config
          /\ \A k : k # key => EntryOf(c.config, k) = EntryOf(a.config, k)
          /\ SameSwitches(EntryOf(c.config, key), EntryOf(a.config, key))
          /\ Fc = IF q.name = "" \/ q.path = "" \/ \E g \in Fa : g.name = q.name THEN Fa ELSE Fa \cup {q}
      <4> HIDE DEF K, Good
      <4>1. Added(a, AddField(a, key, q), key, q)
        BY <3>4, AddFieldStep
      <4> QED BY <3>3, <4>1 DEF Added
    <3>6. <<n, m + 1>> \in FieldsFor(s, key) <=> q.name # "" /\ q.path # ""
      <4> HIDE DEF K, Good
      <4>1. <<n, m + 1>> \in FieldsFor(s, key) <=>
              /\ n \in DOMAIN s.rules /\ s.rules[n].action = "include" /\ m + 1 \in DOMAIN s.rules[n].fields
              /\ NamesOneResource(s.rules[n]) /\ FieldKey(s.rules[n]) = key
              /\ s.rules[n].fields[m + 1].name # "" /\ s.rules[n].fields[m + 1].path # ""
        BY PositionFacts
      <4>2. m + 1 \in DOMAIN r.fields
        BY <1>1, <3>1
      <4> QED BY <4>1, <4>2 DEF q, key
    <3>7. FieldAt(s, <<n, m + 1>>) = q
      BY DEF FieldAt, q
    <3>8. Filled(s, key, n, m, Fa)
      BY <3>2
    <3>9. Filled(s, key, n, m + 1, Fc)
      <4>1. Fc = IF q.name = "" \/ q.path = "" \/ \E g \in Fa : g.name = q.name THEN Fa ELSE Fa \cup {q}
        BY <3>5
      <4> HIDE DEF Fa, Fc, K, Good
      <4>3. CASE q.name = "" \/ q.path = ""
        <5>1. Fc = Fa
          BY <4>1, <4>3
        <5>2. Filled(s, key, n, m + 1, Fa)
          BY <1>2, <3>6, <3>8, <4>3, FilledSkip
        <5> QED BY <5>1, <5>2
      <4>4. CASE q.name # "" /\ q.path # ""
        <5>1. Fc = IF \E g \in Fa : g.name = FieldAt(s, <<n, m + 1>>).name THEN Fa
                   ELSE Fa \cup {FieldAt(s, <<n, m + 1>>)}
          BY <3>7, <4>1, <4>4
        <5> QED BY <1>2, <3>6, <3>8, <4>4, <5>1, FilledNext
      <4> QED BY <4>3, <4>4
    <3>10. SameSwitches(EntryOf(c.config, key), EntryOf(cfg, key))
      BY <3>2, <3>5 DEF SameSwitches
    <3>11. Good(c, m + 1)
      BY <3>2, <3>5, <3>9, <3>10
    <3> QED BY <3>11 DEF c
  <2>2. m + 1 \in Nat
    OBVIOUS
  <2> HIDE DEF Good
  <2> QED BY <2>1, <2>2
<1>8. Nat \subseteq K
  <2> HIDE DEF K
  <2> QED BY <1>6, <1>7, NatSetInduction
<1>9. Good(b, N)
  <2> HIDE DEF Good
  <2>1. N \in K /\ N <= N
    BY <1>1, <1>8
  <2> QED BY <1>3, <2>1
<1>10. ASSUME NEW k PROVE SameSwitches(EntryOf(b.config, k), EntryOf(cfg, k))
  <2>1. CASE k = key
    BY <1>9, <2>1
  <2>2. CASE k # key
    BY <1>9, <2>2 DEF SameSwitches
  <2> QED BY <2>1, <2>2
<1>11. ASSUME NEW k PROVE Filled(s, k, n + 1, 0, EntryOf(b.config, k).fields)
  <2> DEFINE G == EntryOf(b.config, k).fields
  <2>1. ASSUME NEW p \in FieldsFor(s, k), p[1] = n PROVE k = key /\ p[2] \in 1..N
    <3>1. <<p[1], p[2]>> \in FieldsFor(s, k)
      BY PositionsArePairs
    <3>2. k = FieldKey(s.rules[p[1]]) /\ p[2] \in DOMAIN s.rules[p[1]].fields
      BY <3>1, PositionFacts
    <3> QED BY <1>1, <2>1, <3>2 DEF key
  <2>2. CASE k = key
    <3>1. Filled(s, k, n, N, G)
      BY <1>9, <2>2
    <3>2. \A p \in FieldsFor(s, k) : p[1] = n => p[2] <= N
      BY <1>1, <2>1
    <3> HIDE DEF G
    <3>3. Filled(s, k, n + 1, 0, G)
      BY <1>1, <1>2, <3>1, <3>2, FilledRule
    <3> QED BY <3>3 DEF G
  <2>3. CASE k # key
    <3>1. Filled(s, k, n, 0, G)
      BY <1>9, <2>3
    <3>2. \A p \in FieldsFor(s, k) : p[1] = n => p[2] <= 0
      BY <2>1, <2>3
    <3> HIDE DEF G
    <3>3. Filled(s, k, n + 1, 0, G)
      BY <1>2, <3>1, <3>2, FilledRule
    <3> QED BY <3>3 DEF G
  <2> QED BY <2>2, <2>3
<1> QED BY <1>9, <1>10, <1>11 DEF key, FieldsAdded

\* c is cfg with the switches of the rule.
Enriched(cfg, r, c) ==
    /\ IsConfig(c) /\ DOMAIN c = (DOMAIN cfg) \cup (IF Enriches(r) THEN KeysOf(r) ELSE {})
    /\ \A k : EntryOf(c, k).fields = EntryOf(cfg, k).fields
    /\ \A k : k \notin KeysOf(r) => EntryOf(c, k) = EntryOf(cfg, k)
    /\ \A k \in KeysOf(r) :
          /\ EntryOf(c, k).conditions <=> EntryOf(cfg, k).conditions \/ r.conditions
          /\ EntryOf(c, k).annotations <=> EntryOf(cfg, k).annotations \/ r.annotations
          /\ EntryOf(c, k).priority = Larger(EntryOf(cfg, k).priority, r.priority)

LEMMA EnrichStep ==
  ASSUME NEW cfg, IsConfig(cfg), NEW r, IsRule(r), NEW c, c = Enrich(cfg, r)
  PROVE  Enriched(cfg, r, c)
<1>1. CASE ~Enriches(r)
  <2>1. c = cfg /\ r.conditions = FALSE /\ r.annotations = FALSE /\ r.priority = NoPriority
    BY <1>1 DEF Enrich, Enriches, IsRule
  <2>2. ASSUME NEW k PROVE Larger(EntryOf(cfg, k).priority, NoPriority) = EntryOf(cfg, k).priority
    <3> DEFINE p == EntryOf(cfg, k).priority
    <3>1. p \in Priority
      BY EntryIsEntry DEF IsEntry
    <3> HIDE DEF p
    <3>2. Larger(p, NoPriority) = p
      BY <3>1 DEF Larger, Priority, NoPriority
    <3> QED BY <3>2 DEF p
  <2> QED BY <1>1, <2>1, <2>2 DEF Enriched
<1>2. CASE Enriches(r)
  <2> DEFINE Switched(e) == [fields |-> e.fields, conditions |-> e.conditions \/ r.conditions,
                             annotations |-> e.annotations \/ r.annotations,
                             priority |-> Larger(e.priority, r.priority)]
  <2>1. ASSUME NEW e, IsEntry(e)
        PROVE  /\ [e EXCEPT !.conditions = @ \/ r.conditions, !.annotations = @ \/ r.annotations,
                            !.priority = Larger(@, r.priority)] = Switched(e)
               /\ IsEntry(Switched(e))
    <3>1. Larger(e.priority, r.priority) \in Priority
      BY <2>1 DEF Larger, IsEntry, IsRule
    <3> DEFINE f == e.fields
               c1 == e.conditions
               a1 == e.annotations
               p1 == e.priority
               p2 == Larger(e.priority, r.priority)
               cr1 == r.conditions
               ar1 == r.annotations
    <3>2. e = [fields |-> f, conditions |-> c1, annotations |-> a1, priority |-> p1]
      BY <2>1 DEF IsEntry
    <3>3. {c1, a1, cr1, ar1} \subseteq BOOLEAN /\ p2 \in Priority
      BY <2>1, <3>1 DEF IsEntry, IsRule
    <3> HIDE DEF f, c1, a1, p1, p2, cr1, ar1
    <3> DEFINE c2 == c1 \/ cr1
               a2 == a1 \/ ar1
    <3>4. {c2, a2} \subseteq BOOLEAN
      BY <3>3
    <3>5. [fields |-> f, conditions |-> c2, annotations |-> a2, priority |-> p2] = Switched(e)
      BY DEF f, c1, a1, p2, cr1, ar1
    <3>6. [e EXCEPT !.conditions = c2, !.annotations = a2, !.priority = p2]
            = [e EXCEPT !.conditions = @ \/ r.conditions, !.annotations = @ \/ r.annotations,
                        !.priority = Larger(@, r.priority)]
      BY DEF c1, a1, p2, cr1, ar1
    <3> HIDE DEF c2, a2, p2
    <3>7. [e EXCEPT !.conditions = c2, !.annotations = a2, !.priority = p2]
            = [fields |-> f, conditions |-> c2, annotations |-> a2, priority |-> p2]
      <4>1. PICK e1 : e1 = [e EXCEPT !.conditions = c2]
        OBVIOUS
      <4>2. e1 = [fields |-> f, conditions |-> c2, annotations |-> a1, priority |-> p1]
        BY <3>2, <4>1
      <4>3. PICK e2 : e2 = [e1 EXCEPT !.annotations = a2]
        OBVIOUS
      <4>4. e2 = [fields |-> f, conditions |-> c2, annotations |-> a2, priority |-> p1]
        BY <4>2, <4>3
      <4>5. [e2 EXCEPT !.priority = p2]
              = [fields |-> f, conditions |-> c2, annotations |-> a2, priority |-> p2]
        BY <4>4
      <4> QED BY <4>1, <4>3, <4>5
    <3>8. IsEntry([fields |-> f, conditions |-> c2, annotations |-> a2, priority |-> p2])
      BY <3>3, <3>4 DEF IsEntry
    <3> HIDE DEF Switched
    <3> QED BY <3>5, <3>6, <3>7, <3>8
  <2>2. \A k : IsEntry(EntryOf(cfg, k))
    BY EntryIsEntry
  <2> HIDE DEF Switched
  <2>3. c = [k \in (DOMAIN cfg) \cup KeysOf(r) |->
               IF k \notin KeysOf(r) THEN cfg[k] ELSE Switched(EntryOf(cfg, k))]
    BY <1>2, <2>1, <2>2 DEF Enrich
  <2>4. IsConfig(c) /\ DOMAIN c = (DOMAIN cfg) \cup KeysOf(r)
    <3>1. DOMAIN c = (DOMAIN cfg) \cup KeysOf(r) /\ c = [k \in DOMAIN c |-> c[k]]
      BY <2>3
    <3>2. ASSUME NEW k \in DOMAIN c PROVE IsEntry(c[k])
      <4>1. CASE k \in KeysOf(r)
        <5>1. IsEntry(EntryOf(cfg, k)) /\ c[k] = Switched(EntryOf(cfg, k))
          BY <2>2, <2>3, <4>1
        <5>2. IsEntry(Switched(EntryOf(cfg, k)))
          BY <2>1, <2>2
        <5> QED BY <5>1, <5>2
      <4>2. CASE k \notin KeysOf(r)
        <5>1. k \in DOMAIN cfg /\ c[k] = cfg[k]
          BY <2>3, <3>1, <4>2
        <5>2. EntryOf(cfg, k) = c[k]
          BY <5>1 DEF EntryOf
        <5> QED BY <2>2, <5>2
      <4> QED BY <4>1, <4>2
    <3> QED BY <3>1, <3>2 DEF IsConfig
  <2>5. \A k : EntryOf(c, k) = IF k \in KeysOf(r) THEN Switched(EntryOf(cfg, k)) ELSE EntryOf(cfg, k)
    BY <2>3 DEF EntryOf
  <2>6. ASSUME NEW e
        PROVE  /\ Switched(e).fields = e.fields
               /\ Switched(e).conditions <=> e.conditions \/ r.conditions
               /\ Switched(e).annotations <=> e.annotations \/ r.annotations
               /\ Switched(e).priority = Larger(e.priority, r.priority)
    BY DEF Switched
  <2> QED BY <1>2, <2>4, <2>5, <2>6 DEF Enriched
<1> QED BY <1>1, <1>2

-----------------------------------------------------------------------------
(* The merge, rule by rule.                                                *)

\* The rules before rule n that include the key.
RulesFor(s, k, n) == {i \in Including(s) : i < n /\ k \in KeysOf(s.rules[i])}

\* e has the switches that the key has after the rules before rule n.
Switched(s, k, n, e) ==
    /\ e.conditions <=> EntryOf(DefaultConfig, k).conditions
                          \/ \E i \in RulesFor(s, k, n) : s.rules[i].conditions
    /\ e.annotations <=> EntryOf(DefaultConfig, k).annotations
                           \/ \E i \in RulesFor(s, k, n) : s.rules[i].annotations
    /\ e.priority = EntryOf(DefaultConfig, k).priority
       \/ \E i \in RulesFor(s, k, n) : e.priority = s.rules[i].priority
    /\ EntryOf(DefaultConfig, k).priority <= e.priority
    /\ \A i \in RulesFor(s, k, n) : s.rules[i].priority <= e.priority

KeysUpTo(s, n) ==
    (DOMAIN DefaultConfig)
    \cup (UNION {KeysOf(s.rules[i]) : i \in {j \in Including(s) : j < n /\ Enriches(s.rules[j])}})
    \cup {FieldKey(s.rules[i]) : i \in {j \in Including(s) :
            j < n /\ s.rules[j].fields # <<>> /\ NamesOneResource(s.rules[j])}}

\* What the rules before rule n are merged to.
Merged(s, n, a) ==
    /\ IsMerge(a)
    /\ Listed(s, n, a.rules)
    /\ IsConfig(a.config) /\ DOMAIN a.config = KeysUpTo(s, n)
    /\ \A k : Switched(s, k, n, EntryOf(a.config, k))
    /\ \A k : Filled(s, k, n, 0, EntryOf(a.config, k).fields)

LEMMA NothingMerged ==
  ASSUME NEW s, IsSpec(s)
  PROVE  Merged(s, 1, Unmerged)
<1>1. \A i \in Including(s) : ~(i < 1)
  BY DEF Including, IsSpec
<1>2. IsMerge(Unmerged) /\ Unmerged.config = DefaultConfig /\ Unmerged.rules = <<>>
  BY DEF IsMerge, Unmerged
<1>3. Listed(s, 1, <<>>)
  BY DEF Listed, LastWord, ExcludedUpTo
<1>4. IsConfig(DefaultConfig)
  BY SpecAssumption
<1>5. DOMAIN DefaultConfig = KeysUpTo(s, 1)
  BY <1>1 DEF KeysUpTo
<1>6. ASSUME NEW k PROVE Switched(s, k, 1, EntryOf(DefaultConfig, k))
  <2>1. RulesFor(s, k, 1) = {}
    BY <1>1 DEF RulesFor
  <2> DEFINE e == EntryOf(DefaultConfig, k)
  <2>2. e.priority \in Int
    BY <1>4, EntryIsEntry DEF IsEntry, Priority, NoPriority
  <2>3. e.priority <= e.priority
    <3> DEFINE p == e.priority
    <3>1. p \in Int
      BY <2>2
    <3> HIDE DEF p
    <3>2. p <= p
      BY <3>1
    <3> QED BY <3>2 DEF p
  <2> QED BY <2>1, <2>3 DEF Switched
<1>7. \A k : Filled(s, k, 1, 0, EntryOf(DefaultConfig, k).fields)
  BY NothingFilled DEF Builtin
<1> QED BY <1>2, <1>3, <1>4, <1>5, <1>6, <1>7 DEF Merged

LEMMA RulesForNext ==
  ASSUME NEW s, IsSpec(s), NEW n \in DOMAIN s.rules, NEW k
  PROVE  RulesFor(s, k, n + 1) =
            IF n \in Including(s) /\ k \in KeysOf(s.rules[n]) THEN RulesFor(s, k, n) \cup {n}
            ELSE RulesFor(s, k, n)
<1>1. n \in Nat /\ \A i \in Including(s) : i \in Nat
  BY DEF IsSpec, Including
<1>2. \A i \in Including(s) : i < n + 1 <=> i < n \/ i = n
  BY <1>1
<1> QED BY <1>2 DEF RulesFor

LEMMA SwitchedNext ==
  ASSUME NEW s, IsSpec(s), NEW n \in DOMAIN s.rules, NEW r, r = s.rules[n], r.action = "include",
         NEW k, NEW d, NEW e, IsEntry(d), IsEntry(e), Switched(s, k, n, d),
         k \notin KeysOf(r) => e = d,
         k \in KeysOf(r) => /\ e.conditions <=> d.conditions \/ r.conditions
                            /\ e.annotations <=> d.annotations \/ r.annotations
                            /\ e.priority = Larger(d.priority, r.priority)
  PROVE  Switched(s, k, n + 1, e)
<1>1. n \in Including(s)
  BY DEF Including
<1>2. CASE k \notin KeysOf(r)
  <2>1. RulesFor(s, k, n + 1) = RulesFor(s, k, n) /\ e = d
    BY <1>2, RulesForNext
  <2> QED BY <2>1 DEF Switched
<1>3. CASE k \in KeysOf(r)
  <2>1. RulesFor(s, k, n + 1) = RulesFor(s, k, n) \cup {n}
    BY <1>1, <1>3, RulesForNext
  <2> DEFINE base == EntryOf(DefaultConfig, k)
             p == e.priority
             q == d.priority
             b == base.priority
             P(i) == s.rules[i].priority
             is == RulesFor(s, k, n)
  <2>2. \A i \in is : i \in DOMAIN s.rules
    BY DEF RulesFor, Including
  <2>3. IsEntry(base)
    BY SpecAssumption, EntryIsEntry
  <2>4. p \in Int /\ q \in Int /\ b \in Int /\ \A i \in is \cup {n} : P(i) \in Int
    BY <2>2, <2>3 DEF IsSpec, IsRule, IsEntry, Priority, NoPriority
  <2>5. (q = b \/ \E i \in is : q = P(i)) /\ b <= q /\ \A i \in is : P(i) <= q
    BY DEF Switched
  <2>6. p = IF P(n) > q THEN P(n) ELSE q
    BY <1>3 DEF Larger
  <2>7. (e.conditions <=> d.conditions \/ s.rules[n].conditions)
          /\ (e.annotations <=> d.annotations \/ s.rules[n].annotations)
    BY <1>3
  <2>8. (e.conditions <=> base.conditions \/ \E i \in is \cup {n} : s.rules[i].conditions)
        /\ (e.annotations <=> base.annotations \/ \E i \in is \cup {n} : s.rules[i].annotations)
    BY <2>7 DEF Switched
  <2>9. (p = b \/ \E i \in is \cup {n} : p = P(i)) /\ b <= p /\ \A i \in is \cup {n} : P(i) <= p
    <3> HIDE DEF p, q, b, P, is
    <3> QED BY <2>4, <2>5, <2>6
  <2> QED BY <2>1, <2>8, <2>9 DEF Switched
<1> QED BY <1>2, <1>3

LEMMA KeysUpToNext ==
  ASSUME NEW s, IsSpec(s), NEW n \in DOMAIN s.rules, NEW r, r = s.rules[n]
  PROVE  KeysUpTo(s, n + 1) =
            KeysUpTo(s, n) \cup (IF r.action = "include" /\ Enriches(r) THEN KeysOf(r) ELSE {})
               \cup (IF r.action = "include" /\ r.fields # <<>> /\ NamesOneResource(r)
                     THEN {FieldKey(r)} ELSE {})
<1> DEFINE Enriching(m) == {j \in Including(s) : j < m /\ Enriches(s.rules[j])}
           Naming(m) == {j \in Including(s) : j < m /\ s.rules[j].fields # <<>>
                 /\ NamesOneResource(s.rules[j])}
<1>1. n \in Nat /\ \A i \in Including(s) : i \in Nat
  BY DEF IsSpec, Including
<1>2. \A i \in Including(s) : i < n + 1 <=> i < n \/ i = n
  BY <1>1
<1>3. n \in Including(s) <=> r.action = "include"
  BY DEF Including
<1>4. ~(n < n)
  BY <1>1
<1>5. Enriching(n + 1) = Enriching(n) \cup (IF r.action = "include" /\ Enriches(r) THEN {n} ELSE {})
  BY <1>2, <1>3
<1>6. Naming(n + 1) = Naming(n)
        \cup (IF r.action = "include" /\ r.fields # <<>> /\ NamesOneResource(r) THEN {n} ELSE {})
  BY <1>2, <1>3
<1>7. \A m : KeysUpTo(s, m) = (DOMAIN DefaultConfig) \cup (UNION {KeysOf(s.rules[i]) : i \in Enriching(m)})
                                \cup {FieldKey(s.rules[i]) : i \in Naming(m)}
  BY DEF KeysUpTo
<1> HIDE DEF Enriching, Naming
<1>8. UNION {KeysOf(s.rules[i]) : i \in Enriching(n + 1)} = (UNION {KeysOf(s.rules[i]) : i \in Enriching(n)})
         \cup (IF r.action = "include" /\ Enriches(r) THEN KeysOf(r) ELSE {})
  BY <1>5
<1>9. {FieldKey(s.rules[i]) : i \in Naming(n + 1)} = {FieldKey(s.rules[i]) : i \in Naming(n)}
         \cup (IF r.action = "include" /\ r.fields # <<>> /\ NamesOneResource(r) THEN {FieldKey(r)} ELSE {})
  BY <1>6
<1> QED BY <1>7, <1>8, <1>9

\* Each rule takes the merge to what the rules up to it are merged to.
LEMMA MergeStep ==
  ASSUME NEW s, IsSpec(s), NEW n \in DOMAIN s.rules, NEW a, Merged(s, n, a)
  PROVE  Merged(s, n + 1, MergeRule(a, s.rules[n]))
<1> DEFINE r == s.rules[n]
           listed == [a EXCEPT !.rules = AppendExcludeRule(@, r)]
           enriched == [listed EXCEPT !.config = Enrich(@, r)]
           b == MergeRule(a, r)
<1>1. n \in Nat /\ IsRule(r)
  BY DEF IsSpec
<1>2. IsMerge(listed) /\ listed.config = a.config /\ listed.rules = AppendExcludeRule(a.rules, r)
  BY DEF Merged, IsMerge
<1>3. Listed(s, n + 1, listed.rules)
  BY <1>2, ListedStep DEF Merged
<1>4. KeysUpTo(s, n + 1) =
            KeysUpTo(s, n) \cup (IF r.action = "include" /\ Enriches(r) THEN KeysOf(r) ELSE {})
               \cup (IF r.action = "include" /\ r.fields # <<>> /\ NamesOneResource(r)
                     THEN {FieldKey(r)} ELSE {})
  BY KeysUpToNext
<1>5. \A k : IsEntry(EntryOf(a.config, k))
  BY EntryIsEntry DEF Merged
<1>6. ASSUME NEW k, \A p \in FieldsFor(s, k) : p[1] = n => p[2] <= 0,
             NEW F, Filled(s, k, n, 0, F)
      PROVE  Filled(s, k, n + 1, 0, F)
  BY <1>1, <1>6, FilledRule
<1>7. CASE r.action = "exclude"
  <2>1. b = listed
    BY <1>7 DEF MergeRule
  <2>2. n \notin Including(s)
    BY <1>7 DEF Including
  <2>3. ASSUME NEW k PROVE Switched(s, k, n + 1, EntryOf(a.config, k))
    <3>1. RulesFor(s, k, n + 1) = RulesFor(s, k, n)
      BY <2>2, RulesForNext
    <3> QED BY <3>1 DEF Merged, Switched
  <2>4. ASSUME NEW k PROVE Filled(s, k, n + 1, 0, EntryOf(a.config, k).fields)
    <3>1. \A p \in FieldsFor(s, k) : p[1] # n
      <4>1. ASSUME NEW p \in FieldsFor(s, k) PROVE p[1] \in Including(s)
        <5>1. <<p[1], p[2]>> \in FieldsFor(s, k)
          BY PositionsArePairs
        <5> QED BY <5>1, PositionFacts DEF Including
      <4> QED BY <2>2, <4>1
    <3> QED BY <1>6, <3>1 DEF Merged
  <2>5. KeysUpTo(s, n + 1) = KeysUpTo(s, n)
    BY <1>4, <1>7
  <2> HIDE DEF r, listed
  <2>6. Merged(s, n + 1, listed)
    BY <1>2, <1>3, <2>3, <2>4, <2>5 DEF Merged
  <2> QED BY <2>1, <2>6 DEF r
<1>8. CASE r.action = "include"
  <2> DEFINE c == Enrich(a.config, r)
  <2>1. IsMerge(enriched) /\ enriched.rules = listed.rules /\ enriched.config = c
    <3> HIDE DEF listed
    <3>1. enriched.config = Enrich(listed.config, r)
      BY <1>2 DEF IsMerge
    <3> QED BY <1>2, <3>1 DEF IsMerge
  <2>2. IsConfig(a.config) /\ DOMAIN a.config = KeysUpTo(s, n)
    BY DEF Merged
  <2>3. Enriched(a.config, r, c)
    BY <1>1, <2>2, EnrichStep
  <2> HIDE DEF c
  <2>4. ASSUME NEW k PROVE Switched(s, k, n + 1, EntryOf(c, k))
    <3> DEFINE d == EntryOf(a.config, k)
               e == EntryOf(c, k)
    <3>1. IsEntry(d) /\ IsEntry(e) /\ Switched(s, k, n, d)
      BY <1>5, <2>3, EntryIsEntry DEF Merged, Enriched
    <3>2. /\ k \notin KeysOf(r) => e = d
          /\ k \in KeysOf(r) => /\ e.conditions <=> d.conditions \/ r.conditions
                                /\ e.annotations <=> d.annotations \/ r.annotations
                                /\ e.priority = Larger(d.priority, r.priority)
      BY <2>3 DEF Enriched
    <3> HIDE DEF d, e
    <3>3. Switched(s, k, n + 1, e)
      BY <1>8, <3>1, <3>2, SwitchedNext
    <3> QED BY <3>3 DEF e
  <2>5. \A k : Filled(s, k, n, 0, EntryOf(c, k).fields)
    BY <2>3 DEF Merged, Enriched
  <2>6. CASE r.fields # <<>> /\ NamesOneResource(r)
    <3>1. b = AddFields(enriched, r)
      BY <1>8, <2>6 DEF MergeRule
    <3> DEFINE en == enriched
    <3>2. IsMerge(en) /\ en.config = c /\ en.rules = listed.rules
      BY <2>1
    <3> HIDE DEF en, listed
    <3>3. b = AddFields(en, r)
      BY <3>1 DEF en
    <3> HIDE DEF b
    <3>4. FieldsAdded(s, n, FieldKey(r), en, b)
      <4>1. IsConfig(en.config) /\ \A k : Filled(s, k, n, 0, EntryOf(en.config, k).fields)
        BY <2>3, <2>5, <3>2 DEF Enriched
      <4> QED BY <1>8, <2>6, <3>2, <3>3, <4>1, AddFieldsStep
    <3>5. DOMAIN b.config = KeysUpTo(s, n + 1)
      BY <1>4, <1>8, <2>2, <2>3, <2>6, <3>2, <3>4 DEF Enriched, FieldsAdded
    <3>6. \A k : Switched(s, k, n + 1, EntryOf(b.config, k))
      BY <2>4, <3>2, <3>4 DEF Switched, SameSwitches, FieldsAdded
    <3>7. Merged(s, n + 1, b)
      BY <1>3, <3>2, <3>4, <3>5, <3>6 DEF Merged, FieldsAdded
    <3> QED BY <3>7 DEF b
  <2>7. CASE ~(r.fields # <<>> /\ NamesOneResource(r))
    <3>1. b = enriched \/ b = [enriched EXCEPT !.warnings = @ + 1]
      BY <1>8, <2>7 DEF MergeRule
    <3> DEFINE en == enriched
    <3>2. IsMerge(en) /\ en.config = c /\ en.rules = listed.rules
      BY <2>1
    <3> HIDE DEF en, listed
    <3>3. b = en \/ b = [en EXCEPT !.warnings = @ + 1]
      BY <3>1 DEF en
    <3> HIDE DEF b
    <3>4. IsMerge(b) /\ b.config = c /\ b.rules = listed.rules
      BY <3>2, <3>3 DEF IsMerge
    <3>5. ASSUME NEW k PROVE Filled(s, k, n + 1, 0, EntryOf(c, k).fields)
      <4>1. ASSUME NEW p \in FieldsFor(s, k), p[1] = n PROVE FALSE
        <5>1. <<p[1], p[2]>> \in FieldsFor(s, k)
          BY PositionsArePairs
        <5>2. NamesOneResource(r) /\ p[2] \in DOMAIN r.fields
          BY <4>1, <5>1, PositionFacts
        <5>3. r.fields # <<>>
          BY <5>2
        <5> QED BY <2>7, <5>2, <5>3
      <4> DEFINE F == EntryOf(c, k).fields
      <4>2. Filled(s, k, n, 0, F)
        BY <2>5
      <4> HIDE DEF F
      <4>3. Filled(s, k, n + 1, 0, F)
        BY <1>6, <4>1, <4>2
      <4> QED BY <4>3 DEF F
    <3>6. DOMAIN c = KeysUpTo(s, n + 1)
      BY <1>4, <1>8, <2>2, <2>3, <2>7 DEF Enriched
    <3>7. Merged(s, n + 1, b)
      BY <1>3, <2>3, <2>4, <3>4, <3>5, <3>6 DEF Merged, Enriched
    <3> QED BY <3>7 DEF b
  <2> QED BY <2>6, <2>7
<1> QED BY <1>1, <1>7, <1>8 DEF IsRule

\* What all the rules are merged to is what the spec means.
LEMMA MergedMeans ==
  ASSUME NEW s, IsSpec(s), s.readable, NEW a, Merged(s, Len(s.rules) + 1, a)
  PROVE  /\ a.config = MeantConfig(s)
         /\ {t \in Type : ~IsResourceExcluded(a.rules, t)} = MeantTypes(s)
<1> DEFINE N == Len(s.rules)
<1>1. N \in Nat /\ DOMAIN s.rules = 1..N /\ \A i \in Including(s) : i < N + 1 /\ i \in DOMAIN s.rules
  BY DEF IsSpec, Including
<1> HIDE DEF N
<1>2. DOMAIN a.config = MeantKeys(s)
  <2>1. {j \in Including(s) : j < N + 1 /\ Enriches(s.rules[j])} = {j \in Including(s) : Enriches(s.rules[j])}
    BY <1>1
  <2>2. {j \in Including(s) : j < N + 1 /\ s.rules[j].fields # <<>> /\ NamesOneResource(s.rules[j])}
          = {j \in Including(s) : s.rules[j].fields # <<>> /\ NamesOneResource(s.rules[j])}
    BY <1>1
  <2>3. KeysUpTo(s, N + 1) = MeantKeys(s)
    BY <2>1, <2>2 DEF KeysUpTo, MeantKeys
  <2> QED BY <2>3 DEF Merged, N
<1>3. ASSUME NEW k \in DOMAIN a.config PROVE a.config[k] = MeantEntry(s, k)
  <2> DEFINE e == a.config[k]
             base == EntryOf(DefaultConfig, k)
             rs == {s.rules[i] : i \in {j \in Including(s) : k \in KeysOf(s.rules[j])}}
             ps == {r.priority : r \in rs} \cup {base.priority}
  <2>1. e = EntryOf(a.config, k) /\ IsEntry(e)
    BY DEF Merged, IsConfig, EntryOf
  <2>2. IsEntry(base)
    BY SpecAssumption, EntryIsEntry
  <2>3. e.fields = MeantFields(s, k)
    BY <2>1, FilledMeans DEF Merged
  <2>4. RulesFor(s, k, N + 1) = {j \in Including(s) : k \in KeysOf(s.rules[j])}
    BY <1>1 DEF RulesFor
  <2>5. Switched(s, k, N + 1, e)
    BY <2>1 DEF Merged, N
  <2>6. e.conditions = (base.conditions \/ \E r \in rs : r.conditions)
    <3>1. e.conditions <=> base.conditions \/ \E r \in rs : r.conditions
      BY <2>4, <2>5 DEF Switched
    <3>2. e.conditions \in BOOLEAN
      BY <2>1 DEF IsEntry
    <3> QED BY <3>1, <3>2
  <2>7. e.annotations = (base.annotations \/ \E r \in rs : r.annotations)
    <3>1. e.annotations <=> base.annotations \/ \E r \in rs : r.annotations
      BY <2>4, <2>5 DEF Switched
    <3>2. e.annotations \in BOOLEAN
      BY <2>1 DEF IsEntry
    <3> QED BY <3>1, <3>2
  <2>8. e.priority \in ps /\ \A q \in ps : q <= e.priority
    BY <2>4, <2>5 DEF Switched
  <2>9. \A r \in rs : r.priority \in Int
    BY <1>1 DEF IsSpec, IsRule, Priority, NoPriority
  <2>10. \A q \in ps : q \in Int
    BY <2>2, <2>9 DEF IsEntry, Priority, NoPriority
  <2>11. e.priority = CHOOSE p \in ps : \A q \in ps : q <= p
    <3> DEFINE x == e.priority
    <3>1. x \in ps /\ \A q \in ps : q <= x
      BY <2>8
    <3> HIDE DEF x, ps
    <3>2. \A p \in ps : (\A q \in ps : q <= p) => p = x
      BY <2>10, <3>1
    <3>3. x = CHOOSE p \in ps : \A q \in ps : q <= p
      BY <3>1, <3>2
    <3> QED BY <3>3 DEF x
  <2>12. MeantEntry(s, k) = [fields |-> MeantFields(s, k),
             conditions |-> base.conditions \/ \E r \in rs : r.conditions,
             annotations |-> base.annotations \/ \E r \in rs : r.annotations,
             priority |-> CHOOSE p \in ps : \A q \in ps : q <= p]
    BY DEF MeantEntry
  <2>13. e = [fields |-> e.fields, conditions |-> e.conditions, annotations |-> e.annotations,
           priority |-> e.priority]
    BY <2>1 DEF IsEntry
  <2>14. MeantEntry(s, k) = [fields |-> e.fields, conditions |-> e.conditions,
           annotations |-> e.annotations, priority |-> e.priority]
    BY <2>3, <2>6, <2>7, <2>11, <2>12
  <2> QED BY <2>13, <2>14
<1>4. a.config = [k \in MeantKeys(s) |-> MeantEntry(s, k)]
  <2>1. a.config = [k \in DOMAIN a.config |-> a.config[k]]
    BY DEF Merged, IsConfig
  <2> QED BY <1>2, <1>3, <2>1
<1>5. a.config = MeantConfig(s)
  BY <1>4 DEF MeantConfig
<1>6. {t \in Type : ~IsResourceExcluded(a.rules, t)} = MeantTypes(s)
  BY ListedMeans DEF Merged
<1> QED BY <1>5, <1>6

LEMMA AllMerged ==
  ASSUME NEW s, IsSpec(s)
  PROVE  Merged(s, Len(s.rules) + 1, FoldLeft(MergeRule, Unmerged, s.rules))
<1> DEFINE N == Len(s.rules)
<1>1. N \in Nat /\ DOMAIN s.rules = 1..N
  BY DEF IsSpec
<1> HIDE DEF N
<1>2. PICK f : MergeTurns(f, N, s.rules) /\ FoldLeft(MergeRule, Unmerged, s.rules) = f[N]
  BY <1>1, RulesInTurn
<1>3. f[0] = Unmerged /\ \A k \in 1..N : f[k] = MergeRule(f[k - 1], s.rules[k])
  BY <1>2 DEF MergeTurns
<1> DEFINE K == {k \in Nat : k <= N => Merged(s, k + 1, f[k])}
<1>4. 0 \in K
  <2>1. Merged(s, 0 + 1, f[0])
    BY <1>3, NothingMerged
  <2> QED BY <2>1
<1>5. ASSUME NEW k \in Nat, k \in K PROVE k + 1 \in K
  <2>1. ASSUME k + 1 <= N PROVE Merged(s, (k + 1) + 1, f[k + 1])
    <3>1. k + 1 \in 1..N /\ (k + 1) - 1 = k /\ k <= N
      BY <1>1, <2>1
    <3>2. Merged(s, k + 1, f[k])
      BY <1>5, <3>1
    <3>3. f[k + 1] = MergeRule(f[k], s.rules[k + 1])
      BY <1>3, <3>1
    <3> QED BY <1>1, <3>1, <3>2, <3>3, MergeStep
  <2> QED BY <2>1
<1>6. Nat \subseteq K
  <2> HIDE DEF K
  <2> QED BY <1>4, <1>5, NatSetInduction
<1>7. Merged(s, N + 1, f[N])
  <2>1. N \in K /\ N <= N
    BY <1>1, <1>6
  <2> QED BY <2>1
<1> QED BY <1>2, <1>7 DEF N

LEMMA SpecsAreSpecs ==
  ASSUME NEW s \in DOMAIN Load
  PROVE  IsSpec(s)
<1>1. DOMAIN Load = CRSpec \cup {EmptySpec}
  BY DEF Load
<1>2. EmptySpec.readable = TRUE /\ EmptySpec.rules = <<>>
  BY DEF EmptySpec
<1>3. <<>> \in Seq(Range(<<>>))
  OBVIOUS
<1>4. IsSpec(EmptySpec)
  <2>1. DOMAIN <<>> = {}
    OBVIOUS
  <2> DEFINE e == EmptySpec
  <2>2. e.readable = TRUE /\ e.rules = <<>>
    BY <1>2
  <2> HIDE DEF e
  <2>3. e.readable \in BOOLEAN /\ e.rules \in Seq(Range(e.rules))
    BY <1>3, <2>2
  <2>4. \A i \in DOMAIN e.rules : IsRule(e.rules[i])
    BY <2>1, <2>2
  <2>5. IsSpec(e)
    BY <2>3, <2>4 DEF IsSpec
  <2> QED BY <2>5 DEF e
<1> QED BY <1>1, <1>4, SpecAssumption

\* The merge gives every spec its meaning, whatever its rules: the fields, switches and
\* types that the rules, taken one after the other, come to are those that the spec asks
\* for (loadAndMergeConfigurableCollectionWithClient, appendExcludeRule, mergeCollect*,
\* IsResourceExcluded).
THEOREM MergeIsMeant == MergeMeansSpec
<1>1. ASSUME NEW s \in DOMAIN Load PROVE Means(s, Load[s].config, Load[s].rules)
  <2> DEFINE merged == FoldLeft(MergeRule, Unmerged, s.rules)
  <2>1. IsSpec(s)
    BY SpecsAreSpecs
  <2>2. Load[s].rules \in DOMAIN Collected
    BY DEF Collected
  <2>3. Collected[Load[s].rules] = {t \in Type : ~IsResourceExcluded(Load[s].rules, t)}
    BY <2>2 DEF Collected
  <2>4. Meaning[s] = [config |-> MeantConfig(s), types |-> MeantTypes(s)]
    BY DEF Meaning
  <2>5. CASE ~s.readable
    <3>1. Load[s] = [Defaults EXCEPT !.status = [reason |-> "LoadError", warnings |-> 1]]
      BY <2>5 DEF Load
    <3>2. Load[s].config = DefaultConfig /\ Load[s].rules = <<>>
      BY <3>1 DEF Defaults
    <3>3. \A t : ~IsResourceExcluded(<<>>, t)
      <4>1. <<>> \in Seq(Range(<<>>))
        OBVIOUS
      <4>2. DOMAIN <<>> = {}
        OBVIOUS
      <4> DEFINE e == <<>>
      <4>3. e \in Seq(Range(e)) /\ DOMAIN e = {}
        BY <4>1, <4>2
      <4> HIDE DEF e
      <4>4. \A t : ~LastWord(e, t)
        BY <4>3 DEF LastWord
      <4>5. \A t : IsResourceExcluded(e, t) <=> LastWord(e, t)
        BY <4>3, ExcludedByLast
      <4>6. \A t : ~IsResourceExcluded(e, t)
        BY <4>4, <4>5
      <4> QED BY <4>6 DEF e
    <3>4. MeantConfig(s) = DefaultConfig /\ MeantTypes(s) = Type
      BY <2>5 DEF MeantConfig, MeantTypes
    <3> QED BY <2>3, <2>4, <3>2, <3>3, <3>4 DEF Means
  <2>6. CASE s.readable
    <3>1. Load[s] = [config |-> merged.config, rules |-> merged.rules,
                     status |-> [reason |-> IF merged.warnings > 0 THEN "RulesSkipped" ELSE "Applied",
                                 warnings |-> merged.warnings]]
      BY <2>6 DEF Load, Unmerged
    <3>2. Load[s].config = merged.config /\ Load[s].rules = merged.rules
      BY <3>1
    <3>3. Merged(s, Len(s.rules) + 1, merged)
      BY <2>1, AllMerged
    <3> HIDE DEF merged
    <3>4. merged.config = MeantConfig(s) /\ {t \in Type : ~IsResourceExcluded(merged.rules, t)}
            = MeantTypes(s)
      BY <2>1, <2>6, <3>3, MergedMeans
    <3> QED BY <2>3, <2>4, <3>2, <3>4 DEF Means
  <2> QED BY <2>5, <2>6
<1>2. Means(EmptySpec, DefaultConfig, <<>>)
  <2>1. EmptySpec \in DOMAIN Load
    BY DEF Load
  <2>2. IsSpec(EmptySpec) /\ EmptySpec.readable /\ EmptySpec.rules = <<>>
    BY <2>1, SpecsAreSpecs DEF EmptySpec
  <2>3. Merged(EmptySpec, 1, Unmerged)
    BY <2>2, NothingMerged
  <2>4. Len(EmptySpec.rules) + 1 = 1
    BY <2>2
  <2>5. Unmerged.config = DefaultConfig /\ Unmerged.rules = <<>>
    BY DEF Unmerged
  <2>6. DefaultConfig = MeantConfig(EmptySpec) /\ {t \in Type : ~IsResourceExcluded(<<>>, t)}
          = MeantTypes(EmptySpec)
    BY <2>2, <2>3, <2>4, <2>5, MergedMeans
  <2>7. Collected[<<>>] = {t \in Type : ~IsResourceExcluded(<<>>, t)}
    BY DEF Collected
  <2> QED BY <2>1, <2>6, <2>7 DEF Means, Meaning
<1> QED BY <1>1, <1>2 DEF MergeMeansSpec

-----------------------------------------------------------------------------
(* The reload, with what the merge means.                                  *)

\* Under the same conditions the config and the exclude rules in force are what the CR's
\* rules mean, however its changes fell into the reloads (OnAdd, OnUpdate, OnDelete,
\* ReloadAndDiff, loadAndMergeConfigurableCollectionWithClient).
THEOREM ConfigFollows == Spec => []ConfigFollowsCR
<1>1. ReloadInv => ConfigFollowsCR
  <2> SUFFICES ASSUME ReloadInv, watching, events = <<>>, ~Reloading, faults = 0, ~missed
               PROVE  InForce
    BY DEF ConfigFollowsCR
  <2>1. lastSeenGeneration = cr.gen /\ ~Lost(events)
    BY DEF ReloadInv, LastIsCurrent, Lost
  <2>2. PICK l \in {LoadCR, Load[cr.spec]} : config = l.config /\ excludeRules = l.rules
    BY <2>1, AgendaFacts DEF ReloadInv, UpToDateWhenSeen, UpToDate
  <2>3. cr.spec \in DOMAIN Load /\ (cr.gen = 0 => cr.spec = EmptySpec)
    BY DEF ReloadInv, ReloadTypes
  <2>4. CASE l = Load[cr.spec]
    BY <2>2, <2>3, <2>4, MergeIsMeant DEF MergeMeansSpec, InForce
  <2>5. CASE cr.gen = 0 /\ l = Defaults
    <3>1. config = DefaultConfig /\ excludeRules = <<>> /\ cr.spec = EmptySpec
      BY <2>2, <2>3, <2>5 DEF Defaults
    <3> QED BY <3>1, MergeIsMeant DEF MergeMeansSpec, InForce
  <2> QED BY <2>4, <2>5 DEF LoadCR
<1> QED BY <1>1, ReloadAlways, PTL
=============================================================================
