--------------------------- MODULE NamespaceFilter ---------------------------
(***************************************************************************)
(* The cached selection of namespaces (namespaceFilter.go), which every    *)
(* informer asks for each resource.  It is resolved again when it has      *)
(* expired, by whichever informer asks first, and whenever the informer of *)
(* namespaces sees one added or modified; a lock orders the two.           *)
(*                                                                         *)
(* A glob pattern is the set of names it matches.                          *)
(***************************************************************************)
EXTENDS Integers, FiniteSets

CONSTANTS
    NamespaceName, Label,
    Selectors,     \* the selectors a CollectorConfig may have
    Informer,      \* the informers that ask
    Namespaces,    \* the informer of namespaces
    Nothing,       \* no selector, nobody, a namespace that does not exist
    Everywhere,    \* the nil map
    Unparsable,    \* labels and expressions to match that are no label selector
    TTL,
    ChangeLimit,   \* bound on changes of namespaces and selector
    FilterFaultLimit  \* bound on failed requests

Routine == Informer \cup {Namespaces}

ASSUME NamespaceFilterAssumption ==
    /\ IsFiniteSet(NamespaceName) /\ Namespaces \notin Informer /\ Nothing \notin Routine
    /\ TTL \in Nat \ {0} /\ ChangeLimit \in Nat /\ FilterFaultLimit \in Nat

VARIABLES
    labels,      \* of each namespace that exists
    selector,    \* of the CollectorConfig
    version,     \* counts the changes of both
    allowed,     \* the cached selection
    age,         \* the time since it was stored; TTL once it has expired
    asOf,        \* the version that it was resolved from
    writer,      \* who holds the lock for writing
    step,        \* where each routine is
    read,        \* the selector that the writer has read, and of which version, or Nothing
    resolved,    \* what it resolved, and from which version
    event,       \* the version of the namespace event being handled
    handled,     \* that of the last one handled
    filterFaults

cacheVars == <<allowed, age, asOf>>
filterVars == <<labels, selector, version, cacheVars, writer, step, read, resolved, event, handled,
                filterFaults>>

FilterFault == filterFaults < FilterFaultLimit /\ filterFaults' = filterFaults + 1

-----------------------------------------------------------------------------
(* resolveCollectNamespaces.                                               *)

Existing == {n \in NamespaceName : labels[n] # Nothing}

\* What is no label selector matches every namespace.
filterBySelectors(s) ==
    IF s.match = Unparsable THEN Existing ELSE {n \in Existing : s.match \subseteq labels[n]}

\* A name is included by some pattern, if there are any, and excluded by none.
filterByGlobs(list, s) ==
    {n \in list : (s.include = {} \/ n \in UNION s.include) /\ n \notin UNION s.exclude}

resolveCollectNamespaces(s) ==
    IF s = Nothing THEN Everywhere
    ELSE IF s.match = {} /\ s.include = {} /\ s.exclude = {} THEN Everywhere
    ELSE filterByGlobs(filterBySelectors(s), s)

-----------------------------------------------------------------------------
(* The cluster.                                                            *)

Change == version < ChangeLimit /\ version' = version + 1

ChangeNamespace(n) ==
    /\ Change
    /\ \E L \in (SUBSET Label) \cup {Nothing} :
        /\ L # labels[n]
        /\ labels' = [labels EXCEPT ![n] = L]
    /\ UNCHANGED <<selector, cacheVars, writer, step, read, resolved, event, handled, filterFaults>>

EditSelector ==
    /\ Change
    /\ selector' \in (Selectors \cup {Nothing}) \ {selector}
    /\ UNCHANGED <<labels, cacheVars, writer, step, read, resolved, event, handled, filterFaults>>

Tick ==
    /\ age < TTL
    /\ age' = age + 1
    /\ UNCHANGED <<labels, selector, version, allowed, asOf, writer, step, read, resolved, event,
                   handled, filterFaults>>

-----------------------------------------------------------------------------
(* The cache.                                                              *)

At(i, s) == step[i] = s

Go(i, s) == step' = [step EXCEPT ![i] = s]

Expired == age = TTL

\* get, with the lock for reading; what has not expired is returned at once.
Ask(i) ==
    /\ At(i, "idle") /\ writer = Nothing
    /\ Expired
    /\ Go(i, "lock")
    /\ UNCHANGED <<labels, selector, version, cacheVars, writer, read, resolved, event, handled, filterFaults>>

\* regenerate, for an event of a namespace.
StartRegenerate ==
    /\ At(Namespaces, "idle")
    /\ handled < version
    /\ event' = version
    /\ Go(Namespaces, "lock to regenerate")
    /\ UNCHANGED <<labels, selector, version, cacheVars, writer, read, resolved, handled, filterFaults>>

\* Mutation: a namespace event leaves it to the refresh that is already running.
LockOrSkip(i) ==
    /\ \/ writer = Nothing /\ writer' = i /\ UNCHANGED handled
          /\ \/ At(i, "lock") /\ Go(i, "check")
             \/ At(i, "lock to regenerate") /\ Go(i, "resolve")
       \/ writer # Nothing /\ At(i, "lock to regenerate") /\ Go(i, "idle")
          /\ handled' = event /\ UNCHANGED writer
    /\ UNCHANGED <<labels, selector, version, cacheVars, read, resolved, event, filterFaults>>

Lock(i) ==
    /\ writer = Nothing
    /\ \/ At(i, "lock") /\ Go(i, "check")
       \/ At(i, "lock to regenerate") /\ Go(i, "resolve")
    /\ writer' = i
    /\ UNCHANGED <<labels, selector, version, cacheVars, read, resolved, event, handled, filterFaults>>

\* Mutation: what another routine stored meanwhile is not used.
CheckNothing(i) ==
    /\ At(i, "check") /\ Go(i, "resolve")
    /\ UNCHANGED <<labels, selector, version, cacheVars, writer, read, resolved, event, handled, filterFaults>>

\* Mutation: the second check is the wrong way round.
CheckInverted(i) ==
    /\ At(i, "check")
    /\ IF Expired THEN Go(i, "idle") /\ writer' = Nothing
                  ELSE Go(i, "resolve") /\ UNCHANGED writer
    /\ UNCHANGED <<labels, selector, version, cacheVars, read, resolved, event, handled, filterFaults>>

\* Another routine may have refreshed while this one waited for the lock.
CheckAgain(i) ==
    /\ At(i, "check")
    /\ IF Expired THEN Go(i, "resolve") /\ UNCHANGED writer
                  ELSE Go(i, "idle") /\ writer' = Nothing
    /\ UNCHANGED <<labels, selector, version, cacheVars, read, resolved, event, handled, filterFaults>>

\* The CollectorConfig is read; if that fails every namespace is collected.
ReadSelector(i) ==
    /\ At(i, "resolve")
    /\ \/ /\ read' = [selector |-> selector, from |-> version]
          /\ Go(i, "list")
          /\ UNCHANGED <<resolved, filterFaults>>
       \/ /\ resolved' = [value |-> Everywhere, from |-> version]
          /\ Go(i, "store")
          /\ FilterFault /\ UNCHANGED read
    /\ UNCHANGED <<labels, selector, version, cacheVars, writer, event, handled>>

\* Then the namespaces are listed, which may have changed in between, and so may the
\* selector.  If that fails every namespace is collected, too.
ListNamespaces(i) ==
    /\ At(i, "list") /\ Go(i, "store")
    /\ \/ /\ resolved' = [value |-> resolveCollectNamespaces(read.selector), from |-> read.from]
          /\ UNCHANGED filterFaults
       \/ /\ resolved' = [value |-> Everywhere, from |-> read.from]
          /\ FilterFault
    /\ read' = Nothing
    /\ UNCHANGED <<labels, selector, version, cacheVars, writer, event, handled>>

Store(i) ==
    /\ At(i, "store") /\ Go(i, "idle")
    /\ allowed' = resolved.value
    /\ asOf' = resolved.from
    /\ age' = 0
    /\ writer' = Nothing
    /\ handled' = IF i = Namespaces THEN event ELSE handled
    /\ UNCHANGED <<labels, selector, version, read, resolved, event, filterFaults>>

FilterInit ==
    /\ labels \in [NamespaceName -> {{}, Nothing}]
    /\ selector = Nothing
    /\ version = 0
    /\ allowed = Everywhere /\ age = TTL /\ asOf = 0
    /\ writer = Nothing
    /\ step = [i \in Routine |-> "idle"]
    /\ read = Nothing /\ resolved = Nothing
    /\ event = 0 /\ handled = 0
    /\ filterFaults = 0

RoutineStep(i) == Lock(i) \/ CheckAgain(i) \/ ReadSelector(i) \/ ListNamespaces(i) \/ Store(i)

FilterNext ==
    \/ \E n \in NamespaceName : ChangeNamespace(n)
    \/ EditSelector
    \/ Tick
    \/ \E i \in Informer : Ask(i)
    \/ StartRegenerate
    \/ \E i \in Routine : RoutineStep(i)

\* Time passes, the informers have resources to ask for, and the lock is fair.
Fairness ==
    /\ WF_filterVars(Tick)
    /\ \A i \in Routine : WF_filterVars(RoutineStep(i)) /\ SF_filterVars(Lock(i))
    /\ \A i \in Informer : SF_filterVars(Ask(i))

FilterSpec == FilterInit /\ [][FilterNext]_filterVars /\ Fairness

-----------------------------------------------------------------------------
(* Properties.                                                             *)

\* The type invariant.
FilterTypeOK ==
    /\ labels \in [NamespaceName -> (SUBSET Label) \cup {Nothing}]
    /\ selector \in Selectors \cup {Nothing}
    /\ allowed = Everywhere \/ allowed \subseteq NamespaceName
    /\ age \in 0..TTL /\ asOf \in 0..version /\ version \in 0..ChangeLimit
    /\ writer \in Routine \cup {Nothing}
    /\ step \in [Routine -> {"idle", "lock", "lock to regenerate", "check", "resolve", "list", "store"}]
    /\ \A i \in Routine : step[i] \in {"check", "resolve", "list", "store"} <=> writer = i
    /\ event \in 0..version /\ handled \in 0..event
    /\ filterFaults \in 0..FilterFaultLimit

\* Once a namespace event has been handled, no selection that is older than the event is
\* used, even if an informer was refreshing an expired one at the time.
NamespaceEventSeen == asOf >= handled

\* A name that matches an exclude pattern is never selected by what was resolved.
ExcludedNeverSelected ==
    resolved # Nothing /\ resolved.value # Everywhere /\ resolved.from = version =>
        \A n \in NamespaceName : n \in UNION selector.exclude => n \notin resolved.value

\* The types and the lock of the cache, and what its selection may be.
FilterInv ==
    /\ FilterTypeOK
    /\ NamespaceEventSeen
    /\ ExcludedNeverSelected

\* However many informers ask, an expired selection is resolved once.
OneRefreshPerTTL ==
    [][\A i \in Informer : (At(i, "store") /\ age' # age) => Expired]_filterVars

\* A change of the selector or of the namespaces comes to be applied.
SelectionApplied == <>[](allowed = resolveCollectNamespaces(selector))
=============================================================================
