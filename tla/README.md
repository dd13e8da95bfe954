# A TLA+ model of the search collector

The search collector runs in a Kubernetes cluster, keeps an in-memory copy of
the cluster's resources, and sends changes of it to the search indexer (the
aggregator) on the hub. This directory models the collector's own logic, checks
it with TLC on small instances, and proves its safety properties with TLAPS for
instances of any size.

## The system

    API server --list/watch--> informer (one goroutine per type)
        creations, updates --> transformer workers --> reconciler
        deletions ----------------------------------> reconciler
    reconciler <--Diff, Complete-- sender --HTTP--> indexer
    CRDs --> CRD informer --> work queue --> bridge --> main loop --> informers
    CollectorConfig informer --> reload handler --> pending set, signal --> main loop

| Part | State it keeps | Operations | What makes it hard |
|---|---|---|---|
| informer (`pkg/informer/informer.go`) | resourceIndex, retries, resyncCh | listAndResync, watch, TriggerResync, stop | the cluster changes between list and watch; lists fail in the middle; resync and stop arrive at any time |
| namespace filter (`namespaceFilter.go`) | cached set of namespaces with a TTL | get, regenerate | the cached selection is older than the CR |
| informer manager (`runInformers.go`) | registry of informers, syncCh, work queue | syncInformers, main loop, CRD bridge | three goroutines, coalesced signals, partial discovery |
| collector config reload (both `collectorConfigReload.go`) | last generation, pending keys, pending sync, signal | OnAdd/OnUpdate/OnDelete, ReloadAndDiff, dispatch | the CR changes during a reload; the handler's own status writes come back as events |
| configurable collection (`configurableCollection.go`, `common.go`) | merged config, exclude rules | merge of rules, exclusion, status report | order of rules, wildcard and exact keys |
| transformer workers (`transformer.go`) | events in hand | TransformRoutine, recovery from a panic | several workers, one unbuffered channel, times in whole seconds |
| reconciler (`reconciler.go`) | current and previous nodes, pending differences, edge functions, previous edges, LRU cache of deletions | reconcileNode, Diff, Complete | events out of order; what is pending must collapse to one operation |
| sender (`sender.go`) | last sent time | Sync, send, sendWithRetry | the baseline moves on before the answer is known |
| edges and transforms (`common.go`, `policy.go`, kinds) | metadata left in the node store | edge builders, derived properties | builders read what builders of other nodes wrote, in the order of a Go map |
| extraction (`common.go`, `genericResourceConfig.go`) | printer columns of CRDs | applyDefaultTransformConfig, conversions | the config is read several times while it is swapped; names of four origins share one map |
| supported resources (`supportedResources.go`) | none | discovery, the types that get an informer | discovery that fails or is partial, rules swapped in the middle |
| configuration (`pkg/config/config.go`) | one global without a lock | InitConfig | two routines initialise it again while the hub's credentials rotate |
| lease (`pkg/lease`) | a client of the hub | renewal in the cluster or on the hub | credentials expire |
| TLS poller (`pkg/config/tls*.go`, `httpsClient.go`) | last profile, coalesced signal | poll, rebuild of the client | poller and client read the profile each on their own |
| main (`main.go`) | contexts, the channel that starts the sender | start, signal, shutdown | everything is started and stopped concurrently |
| server, metrics | none | probes, counters | see "Not modelled" |

What makes them correct, in short: the reconciler's pending differences take
the indexer from what it has to what is held; a deleted resource stays deleted;
a diff is only sent to an indexer that has its baseline, and one that does not
is brought back in line; an informer misses nothing that exists and forgets
nothing it must later delete; no wake-up of the main loop is lost; the
collection rules in force are those of the CollectorConfig and every informer
has listed under them; edges connect what is held and depend on nothing else;
a node is what the config in force makes of its resource; retries back off,
rotated credentials and TLS profiles come into use, and the process ends when
told to. `PROJECT.json` lists the hazards behind these, each at
its line, with the properties that cover it.

## Modules

| Module | Models | Used by |
|---|---|---|
| `Reconciler` | the reconciler with owner and policy edges and derived properties | `Sender`, `Pipeline` |
| `ReplicaSync` | abstract: a replica that follows the snapshots of a source, and when it counts as synchronised | `Sender` |
| `Sender` | the sender composed with `Reconciler` and the (external) indexer; implements `ReplicaSync` | |
| `SendLoop` | the send loop's waits, client and end, with the TLS poller | |
| `Pipeline` | handlers, workers and direct deletions composed with `Reconciler` | |
| `Informer` | one informer against a changing cluster | `Handover` |
| `Handover` | two instances of `Informer` for one type, old and new | |
| `InformerManager` | main loop, CRD bridge, reload signals, registry of informers | |
| `CollectorConfig` | the CR, its reload, the merge of rules, which entries count | |
| `Extraction` | generic properties, config properties, printer columns, conversions | |
| `Edges` | the edge builders of all kinds and the metadata they leave | |
| `NamespaceFilter` | the cached selection of namespaces | |
| `HubAccess` | configuration, hub credentials, sender and lease | |
| `Lifecycle` | start, first payload, signal and shutdown of the process | |
| `*_proofs` | theorems about the module of the name; `SendLoop_proofs` also about `HubAccess`, `Informer_proofs` about `Handover` and `NamespaceFilter`, `Lifecycle_proofs` about `InformerManager`, `Extraction_proofs` about `Edges` | |
| `MC*` | constants for TLC | |

**Reconciler.** A resource's contents are a version number; constant functions
give what the transformer extracts from a version (properties, related objects,
owner, release revision). Go maps are total functions with `Absent` for keys
that are not there. Each operation holds the mutex throughout and is one action:
`ReconcileNode(ne)` (ignored events, deletion, upsert, with the rules of each
kind about redundant updates), `Diff`, `Complete`. `purgedNodes` gives each UID
its time and its rank in the LRU list, 0 when it is not in it. `AllEdges` is the
result of running the edge functions on the node store: policy relations, and
`ownedBy` edges along the chain of owners; the other builders are in `Edges`.
`DiffReachesDerived` is about the properties that policy edge functions write
into nodes.

**Sender.** `SyncComplete` and `SyncDiff` take a payload; `Post...` is the one
request with its outcome (accepted, nodes refused, busy, lost before or after
it was applied); `ResendComplete` follows a failed diff. Events are received
between any two of these. `lastSentTime` is `never`, `recent` or `due`. Waiting
times are in `SendLoop`. The refinement maps the source to what the reconciler
holds (its nodes and the pairs of linked nodes), the snapshot to what it handed
out last, the replica to the indexer, `synced` to the sender being between
cycles after a success, and `intact` to the absence of damage at the indexer.
Each step is a step of `ReplicaSync` or a stutter. A request that is applied
brings the nodes and all links of the snapshot at once. It may leave links too
many: a diff does not report an edge whose type alone changed, and when that
edge is removed later the diff deletes it by its new type, which the indexer
does not have. The totals then disagree without any fault, and the complete
state is sent (`TotalsTellTruth`): only then does the sender take the indexer
for synchronised.

**Pipeline.** `ObserveUpsert`/`ObserveDelete` stamp an event with the second of the
clock; an upsert occupies a worker until `Deliver` or `WorkerPanics`; a deletion blocks
its informer until it is delivered. That the reconciler receives an event and that it
applies it are one step: in the code one event more than there are workers may be under
way, received and not applied, which a further worker stands for. The sender is reduced
to calls of Diff and Complete. `latest`, `heldTime` and `unordered` are history
variables used by the properties only.

**Informer.** Steps of `Run`: a list is a snapshot whose items are added one by
one and which may fail after any of them; then resources that are indexed and
not listed are deleted; then a watch is opened, which replays what exists and
then reports changes in order. A UID does not come back after its deletion.

**InformerManager.** The main loop (`select`, drain, throttle, discover, apply,
dispatch), the bridge goroutine with its non-blocking send, and the reload
handler's two steps of recording and signalling. An informer is whether it is
registered, whether it has a list to make, and under which rules it listed last.
The types a config key stands for are a constant.

**CollectorConfig.** The CR has a generation, a spec and a status. A reload is four
steps (get, swap, report, diff; report comes first for an unreadable CR and one without
rules), interleaved with edits, deletions and recreations. `Load` folds the rules as the
code does; `Meaning` says without that order what rules mean, and `MergeIsMeant` proves
that both are the same for all rules. The main loop is one step here because
`InformerManager` covers it. The list and the opening of the watch that follows it are
one step too (`Informer` covers the gap), and a new informer of CollectorConfigs starts
only when the old one is done.

**SendLoop.** One cycle of the loop is a few steps (rebuild of the client after
a signal, sync, busy answers with the waits of `sendWithRetry`, the back-off of
the loop); what is sent is left to `Sender`. Intervals are computed in an int of
`IntLimit`, with wrap-around, from a float that saturates. The poller reads the
profile, compares and signals without blocking; the client reads it again.

**Edges.** A pass of `allEdges` visits the applications first and the other nodes in any
order; one builder runs at a time, reads the node store (by UID and by kind, namespace
and name) and may write metadata that stays from pass to pass. Between passes nodes
come, change and go. An edge is a pair of UIDs. A builder is the lists of names it walks
(`NameLists`), which all go through `edgesByDestinationName`, and the edges it makes
otherwise (`OtherEdges`); the parameters of an admission policy are matched by group,
version and kind (`Matches`). The names in one list of a node are looked up in one
order, the same for the whole visit; contents that differ differ in a property, so that
an update is never redundant. `EdgesFromNodes` compares with a definition that knows the
held nodes only.

**Extraction.** The CRD informer turns columns into properties, the reload swaps the
config and then asks for a list, the type's handler attaches the columns of that moment,
and any of several workers on the one channel takes the event, reads the config once for
the annotations, once for the type's entry and once for the group's, and hands the node
to the reconciler. `node` is the one that the reconciler received last, and the history
variable `newest` says where the last event is: with the handler, with a worker, at the
reconciler, or there and overtaken by the node of an earlier one. `BuildNode` folds the
list of properties; `Skips` has the `continue` statements, `Convert` the data types. A
value is known by what the conversions tell apart (text that is a word, a number or a
quantity; null; arrays and maps of convertible and other things).

**NamespaceFilter.** Informers take the read path, find the selection expired,
take the lock, check again and resolve; the informer of namespaces regenerates.
To resolve takes two requests, one for the CR and one for the namespaces, each of which
may fail. A glob pattern is the set of names it matches; labels and expressions that
are no label selector (`Unparsable`) match every namespace.

**HubAccess.** InitConfig is modelled field by field for the settings that the
properties need (URL, hub flag, a feature, the jitter, the hub's credentials),
as steps of the two routines that call it on the one global. A mismatch that
ends the process is followed by `Restart`.

**Lifecycle.** main, RunInformers up to its select, the first lists with the
timeout on each, the workers, the sender and the cancellation. "listing"
includes the wait of an informer before it tries again. The reconciler's routine
receives an event from its unbuffered channel (`Receive`) and then applies it under the
mutex (`ReconcileNode`); in between the worker is free again, and the sender may take
the mutex. A stopped informer deletes what it indexed one by one, each deletion on the
same channel. A payload makes the indexer's rows what the reconciler holds.

**Handover.** `Informer` extended by a second set of its variables (INSTANCE
with renaming) and by the registry's two actions. A resource that both informers
report is collected once.

## Runs

Every run finishes in well under five minutes on two workers. An invariant named
`...Inv` is the conjunction of a module's named parts; the parts are given in
brackets.

| Run | Result | Shows |
|---|---|---|
| `sender` | pass | the reconciler and the sender together. `RecInv` (`RecTypeOK`, `PendingMatchesState`, `EdgeFuncsOfCurrent`, `PreviousEdgesExact`): the bookkeeping is exact; `DiffReachesCurrent`, `DiffTotalsExact`: previous state plus diff is current state, with the right totals; `SenderInv` (`SenderTypeOK`, `DiffFromBaseline`, `TotalsTellTruth`): a diff is made from what the indexer was last given, and the totals tell whether it arrived as meant; `EventuallyInSync` after rejected nodes, lost data and lost messages; `ImplementsReplicaSync` |
| `pipeline` | pass | `RememberedStaysDeleted`, `HoldsLatest`, `PipeInv` (`PipeTypeOK`, `PurgeRemembers`) with two workers, a panic and an update that changes nothing |
| `informer` | pass | `NothingMissed`, `VersionsInOrder`, `ResyncLists`, `StopStops`, `InformerInv` (`TypeOK`, `IndexCoversCluster`) |
| `informer_manager` | pass | `RulesReachInformers`, `ExclusionsReachInformers`, `ManagerInv` (`ManagerTypeOK`, `PendingIsSignalled`) |
| `collector_config` | pass | `ConfigFollowsCR`, `ListedUnderConfig`, `ConfigInv` (`TypeOK`, `StatusOfSpec`) |
| `send_loop` | pass | `CycleBacksOff`, `HotReloadWhenSynced`, `CancelStops`, `LoopInv` (`TypeOK`, `ChangeIsSignalled`): no wait is negative or shorter than its back-off, no change of the profile to one not seen before is lost between poller and client, a cancelled loop ends |
| `edges` | pass | `EdgesFromNodes`: edges do not depend on the order of visits or on earlier passes; `EdgesInv` (`EdgesTypeOK`, `EdgesBetweenHeld`, `NoSelfEdges`) |
| `extraction` | pass | `UnderConfig`, `ColumnsOnlyAdd`, `StoredAsDeclared`, `ExtractionInv` (`TypeOK`, `NoPanic`): torn reads of the config are repaired unless the node of an earlier event reaches the reconciler after that of the last one, columns replace nothing, a value has the declared type |
| `lifecycle` | pass | `DeletionsNotSent`, `RowsComplete`, `ShutdownCompletes`, `LifecycleInv` (`TypeOK`, `InitialMissesInFlight`): what the first payload lacks (where no list timed out: only what is in flight), what is never sent, and that the process ends |
| `hub_access` | pass | `SenderRecovers`, `LeaseRecovers`, `AccessInv` (`AccessTypeOK`, `EnvironmentWins`) while the hub's credentials rotate |
| `namespace_filter` | pass | `OneRefreshPerTTL`, `SelectionApplied`, `FilterInv` (`FilterTypeOK`, `NamespaceEventSeen`, `ExcludedNeverSelected`) |
| `handover_lost` | violation | the old informer of a type removes what its successor has listed (`NothingLost`) |

Every property of a passing run has a mutant, a plausible bug in one definition,
under which TLC refutes it.

### Divergences met while modelling

Where the code does something other than a comment, a log line, a sample, a test or the
documentation says, the statement is a property of its own, with a configuration that
makes TLC show the disagreement (`tlc -config <cfg> <module>`; the module is the `MC`
module of that name). The run `handover_lost` is one of them. `MCHandover.cfg` shows
what holds all the same: the next list repairs it and the predecessor ends
(`ListRepairs`, `SuccessorCatchesUp`, both proved too, and `PredecessorEnds`). Paths are
under `src/pkg` unless they begin with `src`.

| Configuration | Property | What the code does | What is said |
|---|---|---|---|
| `MCHandoverLost` | `NothingLost` | `informer/runInformers.go:702` forgets a cancelled informer without waiting for it; it may delete its whole index after its successor has listed | `runInformers.go:691`: "so that we don't end up with 2 informers" |
| `MCPipelineRevert` | `HoldsLatest` | `reconciler/reconciler.go:362` compares an update with what was handed out last, so a change taken back before the next diff leaves the intermediate state; a resource that is deselected and comes back unchanged is dropped | `:358`: "skip updates if new event is redundant to our previous state" |
| `MCPipelineReorder` | `NeverOlderTime` | `reconciler.go:328` compares times only with the pending difference; after a hand-out an older event replaces a newer node | `reconciler_test.go:245`: "inserted nodes out of order: found stale data" |
| `MCSenderEdgeTypes` | `DiffReachesEdgeTypes` | `reconciler.go:161` matches edges by source and destination; a change of type alone is in no diff, and when the edge goes later its deletion names a type the indexer does not have, so that the totals disagree and everything is sent again | `:120`: "Returns the diff between the current and previous states" |
| `MCSenderDerived` | `DiffReachesDerived` | `transforms/policy.go:334` writes a property while edges are built, after Diff has chosen its nodes | `reconciler.go:120`, as above |
| `MCInformerGhost` | `NoGhost` | `informer/informer.go:146` never stores the index made from the list; a resource deleted between first list and watch stays collected | `:101`: "delete any resources that are still in our cache, but no longer exist in the cluster" |
| `MCInformerManagerCRD` | `InformersFollowCRDs` | `runInformers.go:600` drops a CRD notification that comes during a synchronisation | `:426`: "it'll only trigger one additional syncInformers run after the previous completes" |
| `MCCollectorConfigDeny` | `CRAlwaysReloaded` | `informer/supportedResources.go:173` applies the exclude rules to the CollectorConfig type too, which ends the reloading of rules | `informer/collectorConfigReload.go:26`: "When the merged-collector-config CR is added, updated (spec change), or deleted, it reloads the transform config" |
| `MCSendLoopRetry` | `RetryBacksOff` | `send/sender.go:365`: attempts are not limited, from the 54th on the interval overflows to the jitter alone | `:331`: "Stops increasing after it passes the max wait time so that we don't overflow int" |
| `MCSendLoopStart` | `HotReload` | `config/tlsPoller.go:47`: client and poller make their first reads on their own; a change between the two is never applied | `src/main.go:102`: "poll the ocm-tls-profile ConfigMap for changes and hot-reload TLS" |
| `MCLifecycleInitial` | `InitialPayloadComplete` | `runInformers.go:722` waits ten seconds for a list and goes on | `src/main.go:128`: "The initial payload must have the complete state" |
| `MCHubAccessMismatch` | `NoFalseMismatch` | `config/config.go:154` reads a value another routine is loading and ends the process | `:87`: "the order of preference is env -> config.json -> default constants" |

Stated as a property of its module, without a configuration of its own:

- `ApplicationsLinked` (`Edges`, `Clusters <- SuffixClusters`): `transforms/common.go:516`
  looks for ns/app as text, and ns/app2 contains it; `transforms/README.md:37` says "an
  edge is added by default from that node(N) to the Application(A)".
- `ReleaseOwnsResources` (`Edges`, `Clusters <- ReleaseClusters`): `common.go:213` keeps
  the UID of a release as an owner, and a release installed again is not connected to
  what it owned; `:234` says "add OwnerUID for resources deployed by HelmRelease".
- `LeaseRecovers` (`HubAccess`, `Locals = {"failing"}`): at `lease/lease.go:38` only
  NotFound leads to the lease on the hub; `:32` says "If it fails, it could mean lease
  resource kind is not supported".
- `SwitchCollectsColumns` (`Extraction`, `Config <- PlainConfig`, `CollectColumns = TRUE`):
  at `common.go:852` the switch sets no threshold and every column has a priority, so
  none is collected; `config.go:52` says "Enable collecting additional printer columns
  in the CRD".

Seen in the code and modelled as it is, without a property:
`common.go:492` (in a list of names, one without a namespace inherits that of a
name before it; `:486` says the node's), `config.go:220` (a feature switched off
in the file is switched on by its default), `config.go:77` (the file given with
`-c` is read only if `./config.json` exists; `src/README.md:61`),
`runInformers.go:259` (the header "Age" keeps its capital and is not skipped;
`genericResourceConfig.go:80`), `common.go:1004` (null does not bring the
default; `genericResourceConfig.go:17`), `tlsPoller.go:66` (a profile changed and
changed back between two polls stays in a client built in between). Seen and not
modelled: `supportedResources.go:141` (a deny list that cannot be parsed denies
nothing; the log at `:37` says it denies all) and `:159` (a deny entry for the
core group denies nothing; `sample-deny.yaml:13`).

### Bounds

- `sender`: a policy that relates compliant, then noncompliant, then not at all to a
  release whose second revision is owned by the policy, so that edge functions of both
  kinds, changes and removals of edges, changes of type, redundant updates and derived
  properties occur. One time: how times order events is the subject of `pipeline`, and
  `RecInvariant` has no bound on them. A cache of one, so that the second deletion
  evicts the first; four events, two network faults and one indexer fault: a diff can
  fail, its complete resend can fail too, and events come before, between and after.
  Time to the heartbeat advances without a bound. The theorems about reconciler and
  sender have no such bounds.
- `pipeline`: two resources with three versions (one of which panics for one of them,
  and changes nothing for the other), two seconds, two workers, so that two updates of
  one resource are under way while the other is deleted, in the same second or not. The
  cache holds both.
- `informer`: two resources in two namespaces, two versions, one fault, one resync, one
  change of the selection, one stop. One fault at any point already separates list,
  index and watch; resync and stop meet it in any order.
- `informer_manager`: two types, one key, two reloads, one CRD change, one discovery
  fault: the second reload meets every stage of handling the first.
- `collector_config`: three types (one of the core group, one of another, and
  CollectorConfig), six specs that between them have wildcard and exact keys, colliding,
  repeated, nameless and hub-only fields, two priorities for one key, a rule with too
  many kinds, exclusions taken back, the exclusion of CollectorConfig itself, a
  selection without the collector's own namespace, an unreadable and an empty spec; two
  changes of the CR (so it can be deleted and recreated during a reload), one fault, one
  ended watch.
- `send_loop`: an int of nine bits with the constants scaled to it (four units to the
  second, a largest back-off of five seconds), six retries, three versions of the
  profile, one fault. Six retries pass the overflow, which a wider int meets after more.
- `edges`: small sets of resources, one for each group of builders (applications and
  subscriptions, helm releases, workloads, policies and their bindings), in
  `MCClusters`; a run starts with one of them and makes seven events, enough for a
  resource to go and come back with two passes in between.
- `extraction`: two workers, so that one can overtake the other; two sets of columns (a
  generic name, label, the name of a config property, the age, a blank header), two
  configs that differ in all three reads (one with a property of every data type and an
  entry of its own, one with an entry for the group only), two contents (values that fit
  the types, values that do not); one reload, three writes of the CRD, one change. The
  reload can fall between any two of the three reads of either worker.
- `lifecycle`: two types with one resource each, one worker, one timeout, one failed
  list; a signal at any moment. One resource with the worker and one received and not
  applied is all that the first payload can lack.
- `hub_access`: environments and files that differ in the settings, two rotations, one
  failed read or write.
- `namespace_filter`: two namespaces, three selectors (globs, labels, labels that are no
  selector), two informers, the informer of namespaces, a lifetime of two ticks, two
  changes, one failed request: an expiry and an event can meet with each informer at
  either end.
- `handover_lost`: two resources of one version; no fault and no resync are needed.

Symmetry is used in `extraction`, for the workers, and nowhere else: resources play
different parts, and most runs check liveness. `CHECK_DEADLOCK FALSE` stands where the
program may come to rest or end: with the bounds on changes and faults used up it waits
(`collector_config`, `informer_manager`, `edges`, `extraction`), and after a
cancellation it has stopped (`send_loop`, `lifecycle`, `hub_access`, `handover_lost`).

### Fairness

Weak fairness is put on goroutines that can run:

- `Sender`: the send loop goes on and time passes (`HeartbeatDue`). Faults are
  bounded, not fair. A busy indexer answers in the end because `sendWithRetry`
  retries for ever and the number of busy answers is bounded.
- `Informer`, `Handover`: the steps of `Run`; of several ready channels Go's
  `select` chooses at random, so a resync or a stop that stays ready is taken
  (strong fairness for the stop); the cached selection expires.
- `InformerManager`: each goroutine.
- `CollectorConfig`: the handler, the main loop, the informers' lists.
- `SendLoop`: loop and poller; strong fairness says that an indexer that is
  asked again and again answers. Without it `sendWithRetry`, which does not look
  at the context, never ends, and neither does a cancelled loop.
- `Lifecycle`: each goroutine. `HubAccess`: the two routines, and the restart
  of the process, which Kubernetes does.
- `NamespaceFilter`: each routine and the clock; strong fairness on obtaining
  the lock, as Go's RWMutex starves nobody, and on asking, as informers keep
  meeting resources.

`Reconciler`, `Pipeline`, `Edges` and `Extraction` state safety only.

## Proofs

| Module | Theorem | States |
|---|---|---|
| `Reconciler_proofs` | `RecTypeCorrect` | `RecSpec => []RecTypeOK` |
| | `RecInvariant` | `RecSpec => []RecInv` |
| | `DiffComplete` | `RecSpec => []DiffReachesCurrent` |
| | `DiffTotals` | `RecSpec => []DiffTotalsExact` |
| `Pipeline_proofs` | `NoResurrection` | `PipeSpec => []RememberedStaysDeleted` |
| | `PipelineInvariant` | `PipeSpec => []PipeInv` |
| | `SettlesOnLatest` | `PipeSpec => []HoldsLatest`, assuming `EventsTellAll` |
| `Sender_proofs` | `SenderInvariant` | `SenderSpec => []SenderInv` |
| | `SenderImplementsReplicaSync` | `SenderSpec => ImplementsReplicaSync` |
| `SendLoop_proofs` | `LoopInvariant` | `Spec => []LoopInv` |
| | `CyclesBackOff` | `Spec => []CycleBacksOff` |
| | `AccessInvariant` | `AccessSpec => []AccessInv`, assuming `SettingsReadable` |
| `Informer_proofs` | `InformerMissesNothing` | `Spec => []NothingMissed` |
| | `InformerInvariant` | `Spec => []InformerInv` |
| | `InformerInOrder` | `Spec => VersionsInOrder` |
| | `HandoverTypeCorrect` | `HandoverSpec => []HandoverTypeOK` |
| | `NextListRepairs` | `HandoverSpec => []ListRepairs` |
| | `SuccessorMissesNothing` | `HandoverSpec => []SuccessorCatchesUp` |
| | `FilterInvariant` | `FilterSpec => []FilterInv` |
| | `OneRefresh` | `FilterSpec => OneRefreshPerTTL` |
| `Lifecycle_proofs` | `LifecycleInvariant` | `Spec => []LifecycleInv` |
| | `FirstPayloadBounded` | `Spec => []PayloadBounded`: it lacks at most one resource more than there are workers |
| | `DeletionsStay` | `Spec => DeletionsNotSent` |
| | `NoLostWakeUp` | `ManagerSpec => []PendingIsSignalled` |
| | `ManagerTypeCorrect` | `ManagerSpec => []ManagerTypeOK` |
| | `ManagerInvariant` | `ManagerSpec => []ManagerInv` |
| `CollectorConfig_proofs` | `MergeIsMeant` | `MergeMeansSpec`: what the merge of any rules gives |
| | `ConfigInvariant` | `Spec => []ConfigInv` |
| | `ConfigFollows` | `Spec => []ConfigFollowsCR` |
| `Extraction_proofs` | `ExtractionInvariant` | `Spec => []ExtractionInv` |
| | `NodeAsDeclared` | `Spec => []StoredAsDeclared` |
| | `ColumnsReplaceNothing` | `Spec => []ColumnsOnlyAdd` |
| | `NodeUnderConfig` | `Spec => []UnderConfig` |
| | `EdgesConnectHeld` | `EdgesSpec => []EdgesBetweenHeld` |
| | `EdgesInvariant` | `EdgesSpec => []EdgesInv`, assuming `NoSelfReference` |

They hold for every value of the constants: any finite set of resources, any
versions, times, contents, references, rules, columns, cache size, number of workers,
informers and namespaces, any bound on changes and faults, under the `ASSUME`s of the
modules, which say what the constants are. Each inductive invariant was checked with
TLC on the instance of its run before it was proved. With these theorems every safety
property that the passing runs check is proved, except `EdgesFromNodes`.

Three theorems have a hypothesis besides, and TLC evaluates each of the three on the
instance of its run: `EventsTellAll`, `SettingsReadable` and `NoSelfReference`.

Several models fold a sequence or a set: the rules of a spec, the properties of a node,
the applications recorded at a subscription. The theorems of the library on induction
have an operator as a parameter and cannot be used. Each of these folds has a lemma of
its own instead (`RulesInTurn`, `FieldsInTurn`, `ExcludeInTurn`, `BuildTurns`,
`CollectTurns`): it is the last value of a function on the number of turns, and an
induction over that number (`NatSetInduction`, from the least element of a set of
numbers) carries a property through them.

*Reconciler.* `DiffReachesCurrent` is not inductive: it speaks of what Diff
would return. `RecInv` adds what Diff relies on: the pending differences are
exactly those between what was handed out and what is held
(`PendingMatchesState`), edge functions are those of the held nodes, and the
edges handed out, with their cached number, are those of the nodes handed out
(`PreviousEdgesExact`). From it follow the nodes (`DiffNodesExact`), the edge
pairs (`DiffPairsExact`, with at most one edge for each pair) and, counting
edges by their pairs (`CountByPairs`), the totals. The totals matter because
`send` takes any other total for a failure and sends everything again.

*Pipeline.* `RememberedStaysDeleted` needs to know where late events stand in
time: times only grow (`TimesPast`), a deletion under way is the last thing seen
of its resource (`DeleteIsLast`), what is still under way of a deleted resource
is not later than the deletion (`LateEventsOld`), and a node that is held
although its deletion is remembered is from after it (`HeldAfterPurge`). The
conjunction `PurgeInv` is inductive; its lemmas treat one action each.
That a cache with room for all resources forgets none (`PurgeRemembers`) needs its
order to have no gaps: no entry is further back than there are entries
(`RanksWithin`). An addition then moves none beyond the limit, and a lookup, which
refreshes an entry, moves none further than that.
`HoldsLatest` needs more: what is held is not newer than the latest version that
transforms, and that version is held or under way (`Known`, `SettlesOn`); and as long
as no update overtakes another, nothing under way is older than what is held, and
times order versions (`InOrder`). Then an event that is dropped as older than the
pending difference is of the version held, one that is dropped as redundant lies
with what is held between two versions of equal properties, and one of an older
revision does not exist. The hypothesis `EventsTellAll` has four parts, and each is
needed: no resource returns after its deletion (the second of the deletion counts as
before it), the cache has room, no change is taken back (`MCPipelineRevert` shows what
happens otherwise), revisions do not fall. TLC evaluates it on the instance of the
run.

*Sender.* `DiffFromBaseline` holds between cycles, so the invariant must carry it
through them: what is under way, applied to what the indexer holds, gives the nodes
handed out and all their links (`ArrivesWhole`), which stays true however often the
payload is applied, because a diff applied twice changes nothing more. Together with
`RecInv` it gives `TotalsTellTruth` (the pairs of the indexer include those handed
out, and two finite sets of which one includes the other are equal if their numbers
are) and every step of the refinement.

*SendLoop.* The back-off is computed in an int of width `IntLimit`. The factor stops
growing once an interval has reached the limit, so the next one is at most twice the
limit (`FactorStops`), which an int has room for. The retries of one payload have no
such stop: there the number of milliseconds saturates and is negative, but as a
millisecond is an even number of nanoseconds the saturated part disappears in the
multiplication (`DurationOverflows`) and the wait is the jitter alone: too short, never
negative. The two assumptions this takes, `Millisecond % 2 = 0` and `RetryJitter <=
MaxBackoff`, are about constants of the code (10^6, and defaults of 5 s and 600 s).
`ChangeIsSignalled` needs that client and poller have read versions that existed
(`ReadBefore`).

*Informer.* For `NothingMissed` the rest of the stream must bring every resource to
its version in the cluster (`StreamCatchesUp`), in order (`StreamInOrder`), starting
from what is collected, which is never ahead of the cluster (`CollectedPast`); what is
left of a list lies between the two (`ListInOrder`).
The replay at the opening of a watch is a sequence made from a finite set, of which
the proof uses only that it has each member.

*Handover.* `NothingLost` is false, as `handover_lost` shows: the predecessor may remove
what its successor has listed. What is proved is how far the damage goes. Once the
predecessor has stopped, what a list of the successor has added stays (`HandoverIInv`),
and the last event of each resource in its watch brings it to its last version (`Ends`), so
that the watch, when it has caught up, has missed nothing. No assumption is made on what
the two did to each other before, and the versions may have gone back then.

*InformerManager.* `PendingIsSignalled` is inductive as it stands: what is pending
is recorded before the signal, and drained after the signal is taken. `ManagerTypeOK`
is inductive too; its part that says something about the code is that a cancelled
informer is left no list to make. `ManagerInv` is their conjunction.

*CollectorConfig.* `ReloadInv` says where a reload stands: the generation seen last
and the events under way are not ahead of the CR, unless a deletion is yet to come
(`NothingAhead`); the last event of the watch is the last change of the CR
(`LastIsCurrent`); and once the CR's generation has been seen, what is in force and
reported is of the CR as it is, or a reload is under way that has read it so or is
about to read it (`UpToDateWhenSeen`). `ConfigInv` needs nothing of the merge;
`ConfigFollowsCR` compares what is in force with what rules mean, by `MergeIsMeant`.

*The merge.* `Merged(s, n, a)` says what the rules before rule n of the spec s have
made: the exclude rules are those listed so far, so that the last one that matches a
type decides (`ExcludedByLast`); the keys are those that an inclusion enriched or filled
(`KeysUpTo`); the switches of a key are set if some rule sets them and its priority is
the largest asked for (`Switched`); its fields are, for each name, the first that asks
for it (`Filled`, which also covers the middle of a rule). `MergeStep` takes it from one
rule to the next, with an induction over the fields of the rule inside. `SpecAssumption`
types the specs; that a priority is `NoPriority` or more loses nothing, since no column
has a negative one.

*Extraction.* A node is good if what each property stores has the type that it declares
(`GoodNode`). One turn of the loop keeps that, panics only at a label that is no
map of strings (`LabelOk`), and never replaces what is set; the columns come last. That
gives `NodeAsDeclared`, `ExtractionInvariant` and `ColumnsReplaceNothing` for any
properties. `ExtractionAssumption` says of the constants what the code says of its
tables: the one default is a number, at properties that are counted
(`genericResourceConfig.go:204`-`283`); only entries of the table match on a label
(ConfigMap and Template) and fields of the CR are appended behind them
(`configurableCollection.go:324`), so none that is named label comes before.
`NodeUnderConfig` is about the three reads of the config between which a reload may
swap it: as long as the node is not what the config in force makes of the resource,
something is under way (`Delivery`): a reload that has yet to tell the informer, a list,
an event that tells the resource as it is, or the worker with the last event, whose reads
are so far those of the config in force. A worker that has read something older is
covered because the reload tells after it swaps. Or else the node was overtaken: with
several workers one may hold what it made under the old config while another hands over
the repaired node, and nothing repairs what comes last. `MCPipelineReorder` shows that
the reconciler does not drop it, and TLC refutes `UnderConfig` without that condition.

*Edges.* An edge ends at a node that some builder found, by UID or by kind, namespace
and name, or that it walked to from owner to owner. The path is proved to exist and
to lie within the store whatever owners refer to, in a circle too. What passes leave
behind (`MetaOK`) may name what is gone; an edge is made only to what the lookup finds
now, and between two passes nothing waits to be visited. That no node is connected to
itself needs `NoSelfReference`: builders of references by name, of generators, of
parameters and of reports do not compare the two ends.

*Lifecycle.* `LifecycleIInv` follows the start: the channel of the sender is closed once
and when every informer that was started has listed or timed out (`RunOrder`,
`Waited`), the sender comes after it (`SenderOrder`), and until the signal what was
listed has arrived or is in flight (`ListedArrived`), with a worker or received by the
reconciler and not applied. So what the first payload lacks is either in flight or of a
type whose list timed out; where none did it is at most |Worker| + 1 resources
(`FirstPayloadBounded`).
`DeletionsNotSent` follows from `NoCycleAfterSignal`: the informers report deletions
only after the signal, and when it comes outside of a send cycle none begins.

*HubAccess.* Sender and lease initialise the one configuration in steps that interleave.
The setting is the preferred one, or some routine has read the file and has the
environment, which has the setting, still before it (`InForce`). `SettingsReadable`
excludes an environment that cannot be parsed and the case of a file given with `-c`
without `./config.json`, both of which end up with another value.

*NamespaceFilter.* What the holder of the lock has resolved is not older than the
selection it replaces, nor than the event for which it regenerates (`ResolvedInOrder`),
nor is the selector it has read (`ReadInOrder`); an informer past the second check holds
the lock, so the selection is still expired (`RefreshOnlyExpired`).

Only model-checked:

- everything under fairness (`EventuallyInSync`, `ResyncLists`, `StopStops`,
  `RulesReachInformers`, `ExclusionsReachInformers`, `ListedUnderConfig`,
  `HotReloadWhenSynced`, `CancelStops`, `RowsComplete`, `ShutdownCompletes`,
  `SenderRecovers`, `LeaseRecovers`, `SelectionApplied`, `PredecessorEnds`), which is
  out of the prover's reach;
- `EdgesFromNodes`. It is true of the clusters of the run and not of all:
  where names contain one another or a release is installed again, TLC finds edges that
  depend on earlier passes or on the order of visits (`SuffixClusters`,
  `ReleaseClusters` in place of `MCClusters`). A
  theorem would need a hypothesis on the names of a cluster that says no less than the
  property.

## Not modelled

- The allow and deny lists of the search-collector ConfigMap and the filter on
  verbs in `SupportedResources`: a choice over data that is made anew in every
  synchronisation. Its result, the failures of discovery and the exclude rules
  are in `InformerManager` and `CollectorConfig`.
- The properties that the builders of single kinds compute from typed resources
  (a pod's status, a node's roles, the counts of a policy report): data that no
  state depends on. The generic builder, which all others share, is `Extraction`.
- JSON paths are names of fields; the interfaces of a VirtualMachineInstance
  have a format of their own that is left out.
- The removal of a CRD's columns (`unset`), which follows the removal of the
  type; `transformCRD` and `gvrFromCRD`, which cut and read the CRD.
- Parsing of TLS versions and cipher suites; construction of Kubernetes and HTTP
  clients; the remaining settings of the configuration, which follow the same
  three functions as those in `HubAccess`.
- Health probes, the HTTP server and metrics: input and output.
- Code that nothing calls: `HelmReleaseResource`, `copyhostingSubProperties`
  (whose recursion along hosting subscriptions may not end) and
  `NonNSResourceMap`.
- Data races on the configuration beyond the interleaving of whole settings: a
  torn string or pointer is not modelled.

## Plan

All modules of the plan are there, and every safety property of the passing runs but one
is proved. Left are a hypothesis on names and releases under which `EdgesFromNodes` could
be proved, and the ConfigMap's allow and deny lists as a module of their own.
