--------------------------- MODULE CollectorConfig ---------------------------
(***************************************************************************)
(* The merged-collector-config resource (the CR) and what the collector    *)
(* makes of it: the merge of its collection rules with the built-in        *)
(* transform config (pkg/transforms/configurableCollection.go), the reload *)
(* handler (both collectorConfigReload.go), and what the transforms        *)
(* extract under the merged config (pkg/transforms/common.go).             *)
(*                                                                         *)
(* The handler runs in the goroutine of the informer of CollectorConfigs,  *)
(* so an event is taken only when the reload of the one before it is over. *)
(* A reload reads the CR, swaps the config, reports in the CR's status and *)
(* compares, one step each, while the CR keeps changing.  The main loop,   *)
(* which InformerManager.tla models in detail, is one step here.           *)
(*                                                                         *)
(* A type and a config key are both pairs <<group, kind>>; the core group  *)
(* is "".  The environment switches that collect conditions, annotations   *)
(* or printer columns of every resource are off, as they are by default,   *)
(* and no group is one of the few whose annotations are always collected.  *)
(***************************************************************************)
EXTENDS Integers, FiniteSets, Sequences, SequencesExt

CONSTANTS
    Type,           \* the resource types discovery reports
    ConfigType,     \* the type of the CR
    DefaultConfig,  \* defaultTransformConfig, [keys -> entries]
    HubOnly,        \* hubOnlyFields: pairs <<key, path>>
    DeployedInHub,  \* whether this collector runs on the hub
    CRSpec,         \* the specs the CR may have: [readable, rules, ownNamespace]
    ChangeLimit, FaultLimit, BreakLimit  \* bounds on changes of the CR,
                                         \* failed requests and ended watches

ASSUME ConfigAssumption ==
    /\ ConfigType \in Type
    /\ DeployedInHub \in BOOLEAN
    /\ ChangeLimit \in Nat /\ FaultLimit \in Nat /\ BreakLimit \in Nat

VARIABLES
    cr,             \* [gen, spec, status]; generation 0 means there is none
    fresh,          \* the CR has not been written since the handler read it
    events,         \* events of the CR its watch has yet to deliver
    watching,       \* whether the informer of CollectorConfigs runs
    ownAllowed,     \* nsFilterCache: is the collector's own namespace allowed
    lastSeenGeneration,
    config,         \* mergedTransformConfig
    excludeRules,
    steps,          \* what the handler has left to do, <<>> when it waits
    loaded,         \* what the reload under way has built
    old,            \* the snapshots taken at its start
    pendingResync, pendingSyncInformers,
    running,        \* the types that have an informer
    toList,         \* running types whose informer has a list to make
    listedWith,     \* [Type -> what was extracted at its last list]
    missed,         \* history: an event that mattered never got to the handler
    changes, faults, breaks   \* counters for the bounds

crVars == <<cr, fresh, events, missed>>
handlerVars == <<lastSeenGeneration, steps, loaded, old>>
configVars == <<config, excludeRules>>
informerVars == <<running, toList, listedWith, watching>>
pendingVars == <<pendingResync, pendingSyncInformers>>
vars == <<crVars, handlerVars, configVars, informerVars, pendingVars,
          ownAllowed, changes, faults, breaks>>

-----------------------------------------------------------------------------
(* The merge of collection rules.                                          *)

Wildcard == "*"
NoPriority == -1
EmptyEntry == [fields |-> {}, conditions |-> FALSE, annotations |-> FALSE,
               priority |-> NoPriority]
\* getTransformConfig; a key that is not found has nothing to extract.
EntryOf(cfg, k) == IF k \in DOMAIN cfg THEN cfg[k] ELSE EmptyEntry
Larger(a, b) == IF b > a THEN b ELSE a

\* The keys a rule names; a kind without a name is passed over.
KeysOf(rule) == rule.groups \X (rule.kinds \ {""})

Enriches(rule) == rule.conditions \/ rule.annotations \/ rule.priority # NoPriority

\* mergeCollectConditions, -Annotations and -PrinterColumns, which keep the
\* largest priority.
Enrich(cfg, rule) ==
    IF ~Enriches(rule) THEN cfg
    ELSE [k \in (DOMAIN cfg) \cup KeysOf(rule) |->
            IF k \notin KeysOf(rule) THEN cfg[k]
            ELSE [EntryOf(cfg, k) EXCEPT
                    !.conditions = @ \/ rule.conditions,
                    !.annotations = @ \/ rule.annotations,
                    !.priority = Larger(@, rule.priority)]]

\* A rule with fields names one kind, not counting "*", and one group.
FieldKinds(rule) == rule.kinds \ {Wildcard}
NamesOneResource(rule) ==
    /\ Cardinality(FieldKinds(rule)) = 1 /\ "" \notin FieldKinds(rule)
    /\ Cardinality(rule.groups) = 1
FieldKey(rule) ==
    <<CHOOSE g \in rule.groups : TRUE, CHOOSE k \in FieldKinds(rule) : TRUE>>

\* One field of a rule: skipped when it lacks a name or a path or when the
\* name is taken.  The name carries the rule's suffix.
AddField(acc, key, f) ==
    IF f.name = "" \/ f.path = "" \/ \E g \in EntryOf(acc.config, key).fields : g.name = f.name
    THEN [acc EXCEPT !.warnings = @ + 1]
    ELSE [acc EXCEPT !.config[key].fields = @ \cup {f}]

AddFields(acc, rule) ==
    LET key == FieldKey(rule)
        cfg == acc.config
        present == [k \in (DOMAIN cfg) \cup {key} |-> EntryOf(cfg, k)]
    IN  FoldLeft(LAMBDA a, f : AddField(a, key, f), [acc EXCEPT !.config = present], rule.fields)

AppendExcludeRule(rs, rule) ==
    IF rule.groups = {} \/ rule.kinds = {} THEN rs
    ELSE Append(rs, [groups |-> rule.groups, kinds |-> rule.kinds, action |-> rule.action])

MergeRule(acc, rule) ==
    LET listed == [acc EXCEPT !.rules = AppendExcludeRule(@, rule)]
        enriched == [listed EXCEPT !.config = Enrich(@, rule)]
    IN  CASE rule.action = "exclude" -> listed
          [] rule.action = "include" /\ rule.fields = <<>> -> enriched
          [] rule.action = "include" /\ rule.fields # <<>> ->
                IF NamesOneResource(rule) THEN AddFields(enriched, rule)
                ELSE [enriched EXCEPT !.warnings = @ + 1]

NoStatus == [reason |-> "None", warnings |-> 0]
Defaults == [config |-> DefaultConfig, rules |-> <<>>, status |-> NoStatus]

EmptySpec == [readable |-> TRUE, rules |-> <<>>, ownNamespace |-> TRUE]

\* Entries and rules as the code's types have them.  The priority of a rule is NoPriority
\* or more: columns have none that is negative, so a smaller bound selects nothing either.
Priority == Nat \cup {NoPriority}
IsEntry(e) ==
    /\ e = [fields |-> e.fields, conditions |-> e.conditions, annotations |-> e.annotations,
            priority |-> e.priority]
    /\ e.conditions \in BOOLEAN /\ e.annotations \in BOOLEAN /\ e.priority \in Priority
IsRule(r) ==
    /\ r.action \in {"include", "exclude"} /\ r.fields \in Seq(Range(r.fields))
    /\ r.conditions \in BOOLEAN /\ r.annotations \in BOOLEAN /\ r.priority \in Priority
IsConfig(cfg) == cfg = [k \in DOMAIN cfg |-> cfg[k]] /\ \A k \in DOMAIN cfg : IsEntry(cfg[k])
IsSpec(s) ==
    /\ s.readable \in BOOLEAN
    /\ s.rules \in Seq(Range(s.rules)) /\ \A i \in DOMAIN s.rules : IsRule(s.rules[i])

ASSUME SpecAssumption == IsConfig(DefaultConfig) /\ \A s \in CRSpec : IsSpec(s)

\* loadAndMergeConfigurableCollectionWithClient, given a CR it could read.  (A
\* function, so that TLC folds the rules of each spec once.)
Load == [spec \in CRSpec \cup {EmptySpec} |->
    LET merged == FoldLeft(MergeRule, [config |-> DefaultConfig, rules |-> <<>>, warnings |-> 0], spec.rules)
        reason == IF merged.warnings > 0 THEN "RulesSkipped" ELSE "Applied"
    IN  IF ~spec.readable
        THEN [Defaults EXCEPT !.status = [reason |-> "LoadError", warnings |-> 1]]
        ELSE [config |-> merged.config, rules |-> merged.rules,
              status |-> [reason |-> reason, warnings |-> merged.warnings]]]

-----------------------------------------------------------------------------
(* What the collector does under a config.                                 *)

MatchesExcludeRule(t, r) ==
    {Wildcard, t[1]} \cap r.groups # {} /\ {Wildcard, t[2]} \cap r.kinds # {}

\* The last rule that matches decides.
IsResourceExcluded(rs, t) ==
    FoldLeft(LAMBDA ex, r : IF MatchesExcludeRule(t, r) THEN r.action = "exclude" ELSE ex, FALSE, rs)

\* The types that are collected under the rules that may be in force.
Collected == [rs \in {<<>>} \cup {Load[s].rules : s \in DOMAIN Load} |->
    {t \in Type : ~IsResourceExcluded(rs, t)}]

IsHubOnlyField(key, path) == <<key, path>> \in HubOnly

\* commonAnnotations looks at the type's own entry only.
Annotated(cfg, t) == EntryOf(cfg, t).annotations

\* applyDefaultTransformConfig: conditions come from the type's own entry or the
\* entry of its group; the columns of the group count only for a type without an
\* entry of its own.
Extract(cfg, t) ==
    LET own == EntryOf(cfg, t)
        group == EntryOf(cfg, <<t[1], Wildcard>>)
    IN  [conditions |-> own.conditions \/ group.conditions,
         annotations |-> Annotated(cfg, t),
         fields |-> {f \in own.fields : DeployedInHub \/ ~IsHubOnlyField(t, f.path)},
         columns |-> IF t \in DOMAIN cfg THEN own.priority ELSE group.priority]

\* diffConfigs
DiffConfigs(o, n) ==
    {k \in (DOMAIN o) \cup (DOMAIN n) : k \notin (DOMAIN o) \cap (DOMAIN n) \/ o[k] # n[k]}

\* Mutant: wildcard keys find no informer.
DispatchesExact(k, t) == k = t

\* dispatchResyncForKey: does the key make the informer of the type list again.
Dispatches(k, t) == IF k[2] = Wildcard THEN k[1] \in {Wildcard, t[1]} ELSE k = t

-----------------------------------------------------------------------------
(* The CR, written by users and the operator.                              *)

NoCR == [gen |-> 0, spec |-> EmptySpec, status |-> NoStatus]
Upsert(gen) == [type |-> "upsert", gen |-> gen]
Deletion == [type |-> "delete", gen |-> 0]

\* resolveCollectNamespaces: without a CR that can be read, every namespace.
AdmitsOwn == cr.gen # 0 /\ cr.spec.readable => cr.spec.ownNamespace

Init ==
    /\ cr \in {NoCR} \cup {[gen |-> 1, spec |-> s, status |-> Load[s].status] : s \in CRSpec}
    /\ fresh = FALSE
    /\ events = <<>>
    /\ watching = FALSE
    /\ ownAllowed = AdmitsOwn
    /\ lastSeenGeneration = 0
    /\ config = Load[cr.spec].config
    /\ excludeRules = Load[cr.spec].rules
    /\ steps = <<>>
    /\ loaded = Defaults
    /\ old = Defaults
    /\ pendingResync = {}
    /\ pendingSyncInformers = FALSE
    /\ running = Collected[excludeRules]
    /\ toList = running
    /\ listedWith = [t \in Type |-> Extract(config, t)]
    /\ missed = FALSE
    /\ changes = 0 /\ faults = 0 /\ breaks = 0

WriteCR(new, event) ==
    /\ changes < ChangeLimit
    /\ changes' = changes + 1
    /\ cr' = new
    /\ fresh' = FALSE
    /\ events' = IF watching THEN Append(events, event) ELSE events
    /\ missed' = (missed \/ (event = Deletion /\ ~watching))
    /\ UNCHANGED <<handlerVars, configVars, informerVars, pendingVars, ownAllowed, faults, breaks>>

CreateCR(s) ==
    /\ cr.gen = 0
    /\ WriteCR([gen |-> 1, spec |-> s, status |-> NoStatus], Upsert(1))

EditSpec(s) ==
    /\ cr.gen # 0
    /\ s # cr.spec
    /\ WriteCR([cr EXCEPT !.gen = @ + 1, !.spec = s], Upsert(cr.gen + 1))

DeleteCR ==
    /\ cr.gen # 0
    /\ WriteCR(NoCR, Deletion)

-----------------------------------------------------------------------------
(* The reload handler.                                                     *)

Reloading == steps # <<>>
Lost(es) == \E i \in DOMAIN es : es[i] = Deletion
Matters(e) == e = Deletion \/ e.gen # lastSeenGeneration

\* The informer passes over an event of a namespace that is not allowed.
DropEvent ==
    /\ watching /\ ~Reloading /\ events # <<>>
    /\ ~ownAllowed
    /\ events' = Tail(events)
    /\ missed' = (missed \/ Matters(Head(events)))
    /\ UNCHANGED <<cr, fresh, handlerVars, configVars, informerVars, pendingVars,
                   ownAllowed, changes, faults, breaks>>

\* Mutant: OnDelete does not reset the generation.
HandleEventKeepsGeneration ==
    /\ watching /\ ~Reloading /\ events # <<>>
    /\ ownAllowed
    /\ events' = Tail(events)
    /\ lastSeenGeneration' = IF Head(events) = Deletion THEN lastSeenGeneration ELSE Head(events).gen
    /\ IF Matters(Head(events))
       THEN /\ steps' = <<"get">>
            /\ old' = [Defaults EXCEPT !.config = config, !.rules = excludeRules]
       ELSE UNCHANGED <<steps, old>>
    /\ UNCHANGED <<cr, fresh, missed, loaded, configVars, informerVars, pendingVars,
                   ownAllowed, changes, faults, breaks>>

\* OnAdd, OnUpdate and OnDelete up to the call of ReloadFn.  An event of a
\* generation that has been seen is a change of the status only.
HandleEvent ==
    /\ watching /\ ~Reloading /\ events # <<>>
    /\ ownAllowed
    /\ events' = Tail(events)
    /\ lastSeenGeneration' = Head(events).gen
    /\ IF Matters(Head(events))
       THEN /\ steps' = <<"get">>
            /\ old' = [Defaults EXCEPT !.config = config, !.rules = excludeRules]
       ELSE UNCHANGED <<steps, old>>
    /\ UNCHANGED <<cr, fresh, missed, loaded, configVars, informerVars, pendingVars,
                   ownAllowed, changes, faults, breaks>>

\* Mutant: the early returns of the load report nothing, as if the CR were missing.
GetReportsNothing ==
    /\ steps = <<"get">>
    /\ fresh' = TRUE
    /\ loaded' = IF cr.gen = 0 THEN Defaults ELSE Load[cr.spec]
    /\ steps' = IF cr.gen = 0 \/ ~cr.spec.readable \/ cr.spec.rules = <<>>
                THEN <<"swap", "diff">> ELSE <<"swap", "report", "diff">>
    /\ UNCHANGED <<cr, events, missed, lastSeenGeneration, old, configVars, informerVars,
                   pendingVars, ownAllowed, changes, faults, breaks>>

\* The CR is read.  An unreadable one and one without rules are reported
\* before the defaults are swapped in, any other after the swap.
Get ==
    /\ steps = <<"get">>
    /\ fresh' = TRUE
    /\ loaded' = IF cr.gen = 0 THEN Defaults ELSE Load[cr.spec]
    /\ steps' = CASE cr.gen = 0 -> <<"swap", "diff">>
                  [] cr.gen # 0 /\ (~cr.spec.readable \/ cr.spec.rules = <<>>) -> <<"report", "swap", "diff">>
                  [] OTHER -> <<"swap", "report", "diff">>
    /\ UNCHANGED <<cr, events, missed, lastSeenGeneration, old, configVars, informerVars,
                   pendingVars, ownAllowed, changes, faults, breaks>>

\* The request fails; the defaults are used and nothing tries again.
GetFails ==
    /\ steps = <<"get">>
    /\ faults < FaultLimit
    /\ faults' = faults + 1
    /\ loaded' = Defaults
    /\ steps' = <<"swap", "diff">>
    /\ UNCHANGED <<crVars, lastSeenGeneration, old, configVars, informerVars,
                   pendingVars, ownAllowed, changes, breaks>>

Swap ==
    /\ Reloading /\ Head(steps) = "swap"
    /\ config' = loaded.config
    /\ excludeRules' = loaded.rules
    /\ steps' = Tail(steps)
    /\ UNCHANGED <<crVars, lastSeenGeneration, loaded, old, informerVars, pendingVars,
                   ownAllowed, changes, faults, breaks>>

\* updateCollectorConfigStatus.  The write is refused when the CR has changed
\* since it was read, and one that changes nothing causes no event.
Report ==
    /\ Reloading /\ Head(steps) = "report"
    /\ steps' = Tail(steps)
    /\ IF fresh /\ cr.status # loaded.status
       THEN /\ cr' = [cr EXCEPT !.status = loaded.status]
            /\ events' = Append(events, Upsert(cr.gen))
       ELSE UNCHANGED <<cr, events>>
    /\ UNCHANGED <<fresh, missed, lastSeenGeneration, loaded, old, configVars, informerVars,
                   pendingVars, ownAllowed, changes, faults, breaks>>

ReportFails ==
    /\ Reloading /\ Head(steps) = "report"
    /\ faults < FaultLimit
    /\ faults' = faults + 1
    /\ steps' = Tail(steps)
    /\ UNCHANGED <<crVars, lastSeenGeneration, loaded, old, configVars, informerVars,
                   pendingVars, ownAllowed, changes, breaks>>

\* The end of ReloadAndDiff, and handleReloadResult.
DiffAndTrigger ==
    /\ steps = <<"diff">>
    /\ pendingSyncInformers' = (pendingSyncInformers \/ old.rules # excludeRules)
    /\ pendingResync' = pendingResync \cup DiffConfigs(old.config, config)
    /\ steps' = <<>>
    /\ loaded' = Defaults /\ old' = Defaults
    /\ UNCHANGED <<crVars, lastSeenGeneration, configVars, informerVars, ownAllowed,
                   changes, faults, breaks>>

-----------------------------------------------------------------------------
(* The main loop and the informers.                                        *)

\* The main loop drains what is pending, synchronises the informers if the
\* exclude rules changed, and dispatches the keys.
MainLoop ==
    LET after == IF pendingSyncInformers THEN Collected[excludeRules] ELSE running
        resync == {t \in after : \E k \in pendingResync : Dispatches(k, t)}
    IN  /\ pendingSyncInformers \/ pendingResync # {}
        /\ running' = after
        /\ toList' = (toList \cap after) \cup (after \ running) \cup resync
        /\ pendingSyncInformers' = FALSE
        /\ pendingResync' = {}
        /\ UNCHANGED <<crVars, handlerVars, configVars, listedWith, watching, ownAllowed,
                       changes, faults, breaks>>

\* A list of CollectorConfigs: the CR is added again.  A deletion the watch has
\* not delivered is reported with an object that has no name, which OnDelete
\* ignores.
ListCR ==
    /\ events' = IF cr.gen = 0 THEN <<>> ELSE <<Upsert(cr.gen)>>
    /\ missed' = (missed \/ Lost(events))
    /\ UNCHANGED <<cr, fresh>>

\* The informer lists and the transforms extract under the config in force.
List(t) ==
    /\ t \in toList
    /\ toList' = toList \ {t}
    /\ listedWith' = [listedWith EXCEPT ![t] = Extract(config, t)]
    /\ IF t = ConfigType
       THEN ~Reloading /\ watching' = TRUE /\ ListCR
       ELSE UNCHANGED <<watching, crVars>>
    /\ UNCHANGED <<handlerVars, configVars, running, pendingVars, ownAllowed,
                   changes, faults, breaks>>

\* The watch of CollectorConfigs ends and the informer lists again.
WatchBreaks ==
    /\ breaks < BreakLimit
    /\ breaks' = breaks + 1
    /\ watching /\ ~Reloading
    /\ ConfigType \in running
    /\ ListCR
    /\ UNCHANGED <<handlerVars, configVars, informerVars, pendingVars, ownAllowed, changes, faults>>

\* The informer of CollectorConfigs was cancelled and stops.  Its deletions
\* have no name and reach nothing here.
StopWatch ==
    /\ watching /\ ~Reloading
    /\ ConfigType \notin running
    /\ watching' = FALSE
    /\ events' = <<>>
    /\ missed' = (missed \/ Lost(events))
    /\ UNCHANGED <<cr, fresh, handlerVars, configVars, running, toList, listedWith,
                   pendingVars, ownAllowed, changes, faults, breaks>>

\* The cached selection of namespaces expires and is resolved again, ...
RefreshNamespaces ==
    /\ ownAllowed # AdmitsOwn
    /\ ownAllowed' = AdmitsOwn
    /\ UNCHANGED <<crVars, handlerVars, configVars, informerVars, pendingVars, changes, faults, breaks>>

\* ... or cannot be, and every namespace is allowed.
NamespacesUnknown ==
    /\ faults < FaultLimit
    /\ faults' = faults + 1
    /\ ~ownAllowed
    /\ ownAllowed' = TRUE
    /\ UNCHANGED <<crVars, handlerVars, configVars, informerVars, pendingVars, changes, breaks>>

-----------------------------------------------------------------------------
HandlerStep == DropEvent \/ HandleEvent \/ Get \/ GetFails \/ Swap \/ Report \/ ReportFails
            \/ DiffAndTrigger

Next ==
    \/ \E s \in CRSpec : CreateCR(s) \/ EditSpec(s)
    \/ DeleteCR
    \/ HandlerStep
    \/ MainLoop
    \/ \E t \in Type : List(t)
    \/ WatchBreaks \/ StopWatch
    \/ RefreshNamespaces \/ NamespacesUnknown

\* Goroutines that can go on do: the informers, the handler they call and the
\* main loop.  Nothing is assumed of the CR's writers, of faults, or of when a
\* cached selection of namespaces expires.
Fairness ==
    /\ WF_vars(HandlerStep) /\ WF_vars(MainLoop) /\ WF_vars(StopWatch)
    /\ \A t \in Type : WF_vars(List(t))

Spec == Init /\ [][Next]_vars
FairSpec == Spec /\ Fairness

-----------------------------------------------------------------------------
(* What a spec of the CR means, said without going through its rules in    *)
(* order.                                                                  *)

Including(spec) == {i \in DOMAIN spec.rules : spec.rules[i].action = "include"}

\* The positions <<rule, field>> whose field is meant for a key.
FieldsFor(spec, k) ==
    {p \in UNION {{i} \X DOMAIN spec.rules[i].fields : i \in Including(spec)} :
        LET r == spec.rules[p[1]]
        IN  /\ NamesOneResource(r) /\ FieldKey(r) = k
            /\ r.fields[p[2]].name # "" /\ r.fields[p[2]].path # ""}
FieldAt(spec, p) == spec.rules[p[1]].fields[p[2]]
Earlier(p, q) == p[1] < q[1] \/ (p[1] = q[1] /\ p[2] < q[2])

MeantFields(spec, k) ==
    LET builtin == EntryOf(DefaultConfig, k).fields
        at == FieldsFor(spec, k)
    IN  builtin \cup {FieldAt(spec, p) : p \in {q \in at :
            /\ \A f \in builtin : f.name # FieldAt(spec, q).name
            /\ \A e \in at : Earlier(e, q) => FieldAt(spec, e).name # FieldAt(spec, q).name}}

MeantEntry(spec, k) ==
    LET rs == {spec.rules[i] : i \in {j \in Including(spec) : k \in KeysOf(spec.rules[j])}}
        base == EntryOf(DefaultConfig, k)
        ps == {r.priority : r \in rs} \cup {base.priority}
    IN  [fields |-> MeantFields(spec, k),
         conditions |-> base.conditions \/ \E r \in rs : r.conditions,
         annotations |-> base.annotations \/ \E r \in rs : r.annotations,
         priority |-> CHOOSE p \in ps : \A q \in ps : q <= p]

MeantKeys(spec) ==
    (DOMAIN DefaultConfig)
    \cup (UNION {KeysOf(spec.rules[i]) : i \in {j \in Including(spec) : Enriches(spec.rules[j])}})
    \cup {FieldKey(spec.rules[i]) : i \in {j \in Including(spec) :
            spec.rules[j].fields # <<>> /\ NamesOneResource(spec.rules[j])}}

MeantConfig(spec) ==
    IF spec.readable THEN [k \in MeantKeys(spec) |-> MeantEntry(spec, k)] ELSE DefaultConfig

\* A type is excluded when some rule excludes it and no later one includes it.
MeantTypes(spec) ==
    {t \in Type : spec.readable =>
        \A i \in DOMAIN spec.rules :
            spec.rules[i].action = "exclude" /\ MatchesExcludeRule(t, spec.rules[i]) =>
                \E j \in Including(spec) : j > i /\ MatchesExcludeRule(t, spec.rules[j])}

\* The config and the exclude rules in force are those the CR asks for.
Meaning == [spec \in DOMAIN Load |-> [config |-> MeantConfig(spec), types |-> MeantTypes(spec)]]
Means(spec, cfg, rs) == Meaning[spec] = [config |-> cfg, types |-> Collected[rs]]
InForce == Means(cr.spec, config, excludeRules)

\* The merge gives every spec its meaning, and so do the defaults where there is no CR.
MergeMeansSpec ==
    /\ \A s \in DOMAIN Load : Means(s, Load[s].config, Load[s].rules)
    /\ Means(EmptySpec, DefaultConfig, <<>>)

-----------------------------------------------------------------------------
(* Properties.                                                             *)

\* The variables have their types; only running informers are asked to list
\* and only a running informer of CollectorConfigs has events to deliver.
TypeOK ==
    /\ cr.gen \in 0..(ChangeLimit + 1)
    /\ lastSeenGeneration \in 0..(ChangeLimit + 1)
    /\ Len(steps) <= 3
    /\ {fresh, watching, ownAllowed, pendingSyncInformers, missed} \subseteq BOOLEAN
    /\ running \subseteq Type
    /\ toList \subseteq running
    /\ ~watching => events = <<>>

\* Once every event of the CR has been handled, the config and the exclude
\* rules in force are what the CR's rules mean, however its creations, edits
\* and deletions fell into the reloads, and through ended watches.  It asks
\* that no request failed, that no event was dropped by the namespace filter
\* and no deletion lost with a watch (OnAdd, OnUpdate, OnDelete, ReloadAndDiff).
ConfigFollowsCR ==
    watching /\ events = <<>> /\ ~Reloading /\ faults = 0 /\ ~missed => InForce

\* Under the same conditions the Applied condition of the CR is that of its
\* own spec, although a report is refused whenever the spec has changed since
\* it was read (updateCollectorConfigStatus).
StatusOfSpec ==
    watching /\ events = <<>> /\ ~Reloading /\ faults = 0 /\ ~missed /\ cr.gen # 0
        => cr.status = Load[cr.spec].status

\* The types of the reload, and the status that it leaves.
ConfigInv ==
    /\ TypeOK
    /\ StatusOfSpec

\* In the end every type that is not excluded, and no other, has an informer,
\* and each has listed since the last change to what is extracted from its
\* type, wildcard rules included, also after failed requests and missed events
\* (handleReloadResult, dispatchResyncForKey against applyDefaultTransformConfig).
ListedUnderConfig ==
    <>[](/\ running = Collected[excludeRules]
         /\ \A t \in running : listedWith[t] = Extract(config, t))

\* "When the merged-collector-config CR is added, updated (spec change), or
\* deleted, it reloads the transform config", whatever the rules say: with
\* nothing left to do and no failure, the rules in force are the CR's
\* (ConfigReloadHandler).
CRAlwaysReloaded ==
    (/\ events = <<>> /\ ~Reloading /\ ~pendingSyncInformers /\ toList = {}
     /\ faults = 0 /\ breaks = 0)
        => InForce
=============================================================================
