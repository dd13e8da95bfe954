--------------------------- MODULE InformerManager ---------------------------
(***************************************************************************)
(* RunInformers of pkg/informer/runInformers.go and the reload signals of  *)
(* pkg/informer/collectorConfigReload.go: which informers run, and which   *)
(* of them list again after a change of the collection rules.              *)
(*                                                                         *)
(* Three goroutines take part.  The main loop selects between a config     *)
(* signal and a CRD signal and synchronises the informers with the         *)
(* discovery API.  The bridge moves CRD notifications from a work queue to *)
(* the main loop.  The informer of the CollectorConfig calls the reload    *)
(* handler, which records what to do and then signals the main loop.       *)
(*                                                                         *)
(* An informer is reduced to whether it runs, whether a resync is queued   *)
(* and under which collection rules it listed last; Informer.tla models    *)
(* the rest.                                                               *)
(***************************************************************************)
EXTENDS Integers, FiniteSets

CONSTANTS
    GVR,           \* resource types
    Key,           \* config keys, such as "Pod" or "*.apps"
    KeyTargets,    \* [Key -> SUBSET GVR]: the types a key stands for
    CRDLimit,      \* bound on CRD changes
    ReloadLimit,   \* bound on changes of the CollectorConfig
    DiscoveryFaultLimit  \* bound on failed or partial discoveries

ASSUME ManagerAssumption ==
    /\ KeyTargets \in [Key -> SUBSET GVR]
    /\ CRDLimit \in Nat /\ ReloadLimit \in Nat /\ DiscoveryFaultLimit \in Nat

VARIABLES
    served,      \* the types discovery reports
    excluded,    \* the types the exclude rules in force exclude
    rules,       \* [GVR -> number of changes to its transform rules]
    queue,       \* syncInformersQueue: TRUE when it holds its one item
    bridge,      \* the bridge goroutine: off, get, or have an item
    loop,        \* where the main loop is
    target,      \* what SupportedResources returned
    keys,        \* config keys to dispatch
    pendingResync, pendingSyncInformers,   \* recorded by the reload handler
    resyncSignal,   \* TRUE when the buffered channel holds a signal
    handler,     \* where the reload handler is
    result,      \* ReloadResult: [sync, keys]
    registry,    \* the types with a registered informer
    lingering,   \* types with a cancelled informer that has not stopped yet
    relist,      \* registered informers that have a list to make
    listedWith,  \* [GVR -> the rules the informer listed with last]
    crds, reloads, discoveryFaults   \* counters for the bounds

clusterVars == <<served, crds>>
configVars == <<excluded, rules, handler, result, reloads>>
pendingVars == <<pendingResync, pendingSyncInformers>>
registryVars == <<registry, lingering, relist, listedWith>>
managerVars == <<clusterVars, configVars, queue, bridge, loop, target, keys,
                 pendingVars, resyncSignal, registryVars, discoveryFaults>>

NoResult == [sync |-> FALSE, keys |-> {}]

\* RunInformers has started the CRD informer and is about to synchronise for
\* the first time.
ManagerInit ==
    /\ served = GVR
    /\ excluded = {}
    /\ rules = [g \in GVR |-> 0]
    /\ queue = FALSE
    /\ bridge = "off"
    /\ loop = "discover"
    /\ target = {}
    /\ keys = {}
    /\ pendingResync = {}
    /\ pendingSyncInformers = FALSE
    /\ resyncSignal = FALSE
    /\ handler = "idle"
    /\ result = NoResult
    /\ registry = {}
    /\ lingering = {}
    /\ relist = {}
    /\ listedWith = [g \in GVR |-> 0]
    /\ crds = 0 /\ reloads = 0 /\ discoveryFaults = 0

-----------------------------------------------------------------------------
(* CRD notifications.                                                      *)

\* A CRD is established or deleted; the handler of the CRD informer adds the
\* one item to the queue.
CRDChanges(g) ==
    /\ crds < CRDLimit
    /\ crds' = crds + 1
    /\ served' = IF g \in served THEN served \ {g} ELSE served \cup {g}
    /\ queue' = TRUE
    /\ UNCHANGED <<configVars, bridge, loop, target, keys, pendingVars,
                   resyncSignal, registryVars, discoveryFaults>>

BridgeGet ==
    /\ bridge = "get"
    /\ queue
    /\ queue' = FALSE
    /\ bridge' = "have"
    /\ UNCHANGED <<clusterVars, configVars, loop, target, keys, pendingVars,
                   resyncSignal, registryVars, discoveryFaults>>

\* syncCh is unbuffered: the item is passed on only to a main loop that is
\* waiting in its select.
BridgeSend ==
    /\ bridge = "have"
    /\ loop = "select"
    /\ bridge' = "get"
    /\ loop' = "throttle"
    /\ UNCHANGED <<clusterVars, configVars, queue, target, keys, pendingVars,
                   resyncSignal, registryVars, discoveryFaults>>

\* Otherwise the default branch is taken.
BridgeDrop ==
    /\ bridge = "have"
    /\ loop # "select"
    /\ bridge' = "get"
    /\ UNCHANGED <<clusterVars, configVars, queue, loop, target, keys,
                   pendingVars, resyncSignal, registryVars, discoveryFaults>>

-----------------------------------------------------------------------------
(* The reload handler, called by the informer of the CollectorConfig.      *)

\* ReloadAndDiff: the new rules are in force; the result says what changed.
Reload(exclude, changed) ==
    /\ handler = "idle"
    /\ reloads < ReloadLimit
    /\ reloads' = reloads + 1
    /\ exclude # excluded \/ changed # {}
    /\ excluded' = exclude
    /\ rules' = [g \in GVR |->
                    IF \E k \in changed : g \in KeyTargets[k] THEN rules[g] + 1 ELSE rules[g]]
    /\ result' = [sync |-> exclude # excluded, keys |-> changed]
    /\ handler' = IF exclude # excluded THEN "markSync" ELSE "markKeys"
    /\ UNCHANGED <<clusterVars, queue, bridge, loop, target, keys, pendingVars,
                   resyncSignal, registryVars, discoveryFaults>>

\* TriggerSyncInformers and TriggerResyncForConfigKeys: first record what is
\* needed under resyncMu, ...
MarkPending ==
    /\ \/ /\ handler = "markSync"
          /\ pendingSyncInformers' = TRUE
          /\ handler' = "signalSync"
          /\ UNCHANGED pendingResync
       \/ /\ handler = "markKeys"
          /\ pendingResync' = pendingResync \cup result.keys
          /\ handler' = "signalKeys"
          /\ UNCHANGED pendingSyncInformers
    /\ UNCHANGED <<clusterVars, excluded, rules, result, reloads, queue, bridge,
                   loop, target, keys, resyncSignal, registryVars, discoveryFaults>>

\* Mutation: a channel without a buffer, so that a signal to a busy main loop is
\* dropped.
SignalUnbuffered ==
    /\ handler \in {"signalSync", "signalKeys"}
    /\ resyncSignal' = (resyncSignal \/ loop = "select")
    /\ handler' = IF handler = "signalSync" /\ result.keys # {} THEN "markKeys" ELSE "idle"
    /\ UNCHANGED <<clusterVars, excluded, rules, result, reloads, queue, bridge,
                   loop, target, keys, pendingVars, registryVars, discoveryFaults>>

\* ... then signal, which is coalesced with a signal already there.
SendSignal ==
    /\ handler \in {"signalSync", "signalKeys"}
    /\ resyncSignal' = TRUE
    /\ handler' = IF handler = "signalSync" /\ result.keys # {} THEN "markKeys" ELSE "idle"
    /\ UNCHANGED <<clusterVars, excluded, rules, result, reloads, queue, bridge,
                   loop, target, keys, pendingVars, registryVars, discoveryFaults>>

-----------------------------------------------------------------------------
(* The main loop.                                                          *)

TakeSignal ==
    /\ loop = "select"
    /\ resyncSignal
    /\ resyncSignal' = FALSE
    /\ loop' = "drain"
    /\ UNCHANGED <<clusterVars, configVars, queue, bridge, target, keys,
                   pendingVars, registryVars, discoveryFaults>>

\* Mutation: the request to synchronise is dropped when there are keys as well.
DrainKeysFirst ==
    /\ loop = "drain"
    /\ keys' = pendingResync
    /\ pendingResync' = {}
    /\ pendingSyncInformers' = FALSE
    /\ loop' = IF pendingSyncInformers /\ pendingResync = {} THEN "discover" ELSE "dispatch"
    /\ UNCHANGED <<clusterVars, configVars, queue, bridge, target,
                   resyncSignal, registryVars, discoveryFaults>>

\* drainPendingResync.
Drain ==
    /\ loop = "drain"
    /\ keys' = pendingResync
    /\ pendingResync' = {}
    /\ pendingSyncInformers' = FALSE
    /\ loop' = IF pendingSyncInformers THEN "discover" ELSE "dispatch"
    /\ UNCHANGED <<clusterVars, configVars, queue, bridge, target,
                   resyncSignal, registryVars, discoveryFaults>>

\* The pause between two synchronisations caused by CRD changes.
Throttle ==
    /\ loop = "throttle"
    /\ loop' = "discover"
    /\ UNCHANGED <<clusterVars, configVars, queue, bridge, target, keys,
                   pendingVars, resyncSignal, registryVars, discoveryFaults>>

\* SupportedResources: what discovery reports and the rules do not exclude.
DiscoverAll ==
    /\ loop = "discover"
    /\ target' = served \ excluded
    /\ loop' = "apply"
    /\ UNCHANGED <<clusterVars, configVars, queue, bridge, keys, pendingVars,
                   resyncSignal, registryVars, discoveryFaults>>

DiscoveryFault ==
    /\ loop = "discover"
    /\ discoveryFaults < DiscoveryFaultLimit
    /\ discoveryFaults' = discoveryFaults + 1
    /\ UNCHANGED <<clusterVars, configVars, queue, keys, pendingVars,
                   resyncSignal, registryVars>>

\* Discovery fails for some types: the list without them is used all the same.
DiscoverPartly ==
    /\ DiscoveryFault
    /\ \E S \in SUBSET served : target' = S \ excluded
    /\ loop' = "apply"
    /\ UNCHANGED bridge

\* Mutation: after a failed discovery the drained keys are not dispatched.
DiscoverNothingContinues ==
    /\ DiscoveryFault
    /\ loop' = "select"
    /\ bridge' = IF bridge = "off" THEN "get" ELSE bridge
    /\ UNCHANGED target

\* Discovery fails altogether: the informers are left as they are.
DiscoverNothing ==
    /\ DiscoveryFault
    /\ loop' = "dispatch"
    /\ bridge' = IF bridge = "off" THEN "get" ELSE bridge
    /\ UNCHANGED target

\* syncInformers: cancel the informers of types that are gone, start informers
\* for new types.  The bridge is started after the first synchronisation.
Apply ==
    /\ loop = "apply"
    /\ registry' = target
    /\ lingering' = lingering \cup (registry \ target)
    /\ relist' = (relist \cap target) \cup (target \ registry)
    /\ loop' = "dispatch"
    /\ bridge' = IF bridge = "off" THEN "get" ELSE bridge
    /\ UNCHANGED <<clusterVars, configVars, queue, target, keys, pendingVars,
                   resyncSignal, listedWith, discoveryFaults>>

\* dispatchResyncForKey for every drained key, and back to the select.
Dispatch ==
    /\ loop = "dispatch"
    /\ relist' = relist \cup {g \in registry : \E k \in keys : g \in KeyTargets[k]}
    /\ keys' = {}
    /\ loop' = "select"
    /\ UNCHANGED <<clusterVars, configVars, queue, bridge, target, pendingVars,
                   resyncSignal, registry, lingering, listedWith, discoveryFaults>>

-----------------------------------------------------------------------------
(* The informers.                                                          *)

\* A new informer, or one with a queued resync, lists under the rules in force.
InformerLists(g) ==
    /\ g \in relist
    /\ relist' = relist \ {g}
    /\ listedWith' = [listedWith EXCEPT ![g] = rules[g]]
    /\ UNCHANGED <<clusterVars, configVars, queue, bridge, loop, target, keys,
                   pendingVars, resyncSignal, registry, lingering, discoveryFaults>>

\* A cancelled informer comes to the top of its loop and ends.
InformerStops(g) ==
    /\ g \in lingering
    /\ lingering' = lingering \ {g}
    /\ UNCHANGED <<clusterVars, configVars, queue, bridge, loop, target, keys,
                   pendingVars, resyncSignal, registry, relist, listedWith, discoveryFaults>>

-----------------------------------------------------------------------------
MainStep == TakeSignal \/ Drain \/ Throttle \/ DiscoverAll \/ Apply \/ Dispatch
HandlerStep == MarkPending \/ SendSignal
BridgeStep == BridgeGet \/ BridgeSend \/ BridgeDrop

ManagerNext ==
    \/ MainStep \/ HandlerStep \/ BridgeStep
    \/ DiscoverPartly \/ DiscoverNothing
    \/ \E g \in GVR : CRDChanges(g) \/ InformerLists(g) \/ InformerStops(g)
    \/ \E exclude \in SUBSET GVR, changed \in SUBSET Key : Reload(exclude, changed)

ManagerSpec == ManagerInit /\ [][ManagerNext]_managerVars

\* Every goroutine that can run does run.
FairManagerSpec ==
    /\ ManagerSpec
    /\ WF_managerVars(MainStep)
    /\ WF_managerVars(HandlerStep)
    /\ WF_managerVars(BridgeStep)
    /\ \A g \in GVR : WF_managerVars(InformerLists(g)) /\ WF_managerVars(InformerStops(g))

-----------------------------------------------------------------------------
(* Properties.                                                             *)

\* The type invariant.  Only a registered informer has a list to make.
ManagerTypeOK ==
    /\ served \subseteq GVR /\ excluded \subseteq GVR /\ target \subseteq GVR
    /\ registry \subseteq GVR /\ lingering \subseteq GVR
    /\ relist \subseteq registry
    /\ rules \in [GVR -> Nat] /\ listedWith \in [GVR -> Nat]
    /\ bridge \in {"off", "get", "have"}
    /\ loop \in {"select", "drain", "throttle", "discover", "apply", "dispatch"}
    /\ handler \in {"idle", "markSync", "signalSync", "markKeys", "signalKeys"}
    /\ keys \subseteq Key /\ pendingResync \subseteq Key
    /\ result \in [sync : BOOLEAN, keys : SUBSET Key]
    /\ queue \in BOOLEAN /\ resyncSignal \in BOOLEAN /\ pendingSyncInformers \in BOOLEAN

\* No wake-up of the config path is lost: whenever something is recorded as
\* pending, a signal is there, or the handler is about to send one, or the main
\* loop has taken one and not yet drained what is pending.
PendingIsSignalled ==
    pendingSyncInformers \/ pendingResync # {} =>
        \/ resyncSignal
        \/ loop = "drain"
        \/ handler \in {"signalSync", "signalKeys"}

\* The types of the informer manager, and that no wake-up is lost.
ManagerInv ==
    /\ ManagerTypeOK
    /\ PendingIsSignalled

\* A change of the collection rules reaches every informer it concerns, also when
\* the synchronisation made at the same time fails: in the end each registered
\* informer has listed under the rules in force.
RulesReachInformers == <>[](\A g \in registry : listedWith[g] = rules[g])

\* A change of the exclude rules starts and stops informers: when discovery has
\* never failed and no CRD has changed, the informers come to be those of the
\* types that are served and not excluded, at whatever moment of the main loop
\* the rules change.
ExclusionsReachInformers ==
    <>[](crds = 0 /\ discoveryFaults = 0 => registry = served \ excluded)

\* The comment in getCRDInformer, "when multiple CRD updates occur while
\* syncInformers is running, it'll only trigger one additional syncInformers run
\* after the previous completes": once CRDs and config stop changing, the
\* informers are those of the types that are served and not excluded.
InformersFollowCRDs == <>[](registry = served \ excluded)

=============================================================================
