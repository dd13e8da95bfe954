----------------------------- MODULE Extraction -----------------------------
(***************************************************************************)
(* What a worker puts in the node of a resource: the generic properties,   *)
(* the ones of the transform config, and the printer columns of the CRD    *)
(* (applyDefaultTransformConfig in pkg/transforms/common.go), with what    *)
(* each data type makes of a value of the resource.                        *)
(*                                                                         *)
(* One custom type with one resource.  The CRD informer keeps the type's   *)
(* columns, the reload handler swaps the config, the type's informer sends *)
(* the resource with the columns of that moment, and one of the workers    *)
(* reads the config three times, each under a lock of its own.  Another    *)
(* worker may deliver the node of a later event before.  The merge behind  *)
(* a config is in CollectorConfig.tla, what the reconciler does with the   *)
(* nodes it receives, one after the other, in Reconciler.tla and           *)
(* Pipeline.tla, the start and the end of informers in Handover.tla.       *)
(*                                                                         *)
(* A value of the resource is known by what the conversions tell apart.    *)
(* The kind is not VirtualMachineInstance, whose interfaces have a format  *)
(* of their own.                                                           *)
(***************************************************************************)
EXTENDS Integers, Sequences, FiniteSets, SequencesExt

CONSTANTS
    Config,       \* what the config may be: [own, group], entries or NoEntry
    Columns,      \* the additionalPrinterColumns the CRD may have
    Object,       \* what the resource may be: [labels, fields, conditions]
    Worker,       \* the transformer routines
    Generic,      \* names of the properties every node has
    Gatekeeper,   \* is the group of the type constraints.gatekeeper.sh
    CollectConditions, CollectColumns, CollectAnnotations, DeployedInHub,
                  \* config.Cfg
    ReloadLimit, EditLimit, ChangeLimit   \* bounds on reloads, writes of the
                                          \* CRD and changes of the resource

VARIABLES
    crd,          \* [established, columns] or NoCRD
    crdEvents,    \* what the watch of CRDs has yet to deliver
    mapping,      \* gvrToColumns of the type
    syncPending,  \* an item in syncInformersQueue
    running,      \* whether the type has an informer
    config,       \* mergedTransformConfig, the two keys of the type
    reload,       \* what the reload handler has left to do
    resync,       \* a pending resync of the type
    object,       \* the resource
    toSend,       \* the informer has the resource to pass on
    outbox,       \* the event its handler is sending, or NoEvent
    worker,       \* [Worker -> [phase, event, read, built]]
    node,         \* the node the reconciler received last
    newest,       \* history: the worker that has the last event sent, or one of Places
    staleColumns, \* history: the columns changed after the handler read them
    reloads, edits, changes

crdVars == <<crd, crdEvents, edits>>
informerVars == <<mapping, syncPending, running, staleColumns>>
configVars == <<config, reload, reloads>>
sendVars == <<toSend, outbox>>
nodeVars == <<node, newest>>
vars == <<crdVars, informerVars, configVars, resync, object, changes, sendVars, worker, nodeVars>>

\* Where the last event sent may be besides with a worker: none was sent, its handler
\* waits for a worker, its node was received last, or one of an earlier event after it.
Places == {"none", "outbox", "node", "overtaken"}

-----------------------------------------------------------------------------
(* Values and conversions.                                                 *)

NoPriority == -1
Nothing == "nothing"

NoEntry == [found |-> FALSE, props |-> <<>>, annotations |-> FALSE,
            conditions |-> FALSE, priority |-> NoPriority]

\* What a property of the config may leave unsaid.
Unset == [name |-> "", path |-> "", type |-> "", priority |-> NoPriority, matchLabel |-> "",
          metadataOnly |-> FALSE, hubOnly |-> FALSE, default |-> Nothing]
ExtractProperty(name, path) == [Unset EXCEPT !.name = name, !.path = path]
Malformed == "{"    \* a path that does not parse

DataType == {"", "bytes", "slice", "string", "number", "mapString", "boolean", "arrayString", "arrayLen"}

\* Strings: a word, a number and a quantity such as 2Gi.  Arrays of strings and
\* of other things.  Maps with a value that has a string form and without.
Text == {"word", "digits", "quantity"}
Scalar == Text \cup {"bool", "int", "float"}
Array == {"strings", "mixed"}
JSON == Scalar \cup Array \cup {"null", "map", "opaqueMap"}

\* The Go types a property of a node may have.
Stored == {"string", "number", "bool", "slice", "mapString", "map", "nil"}

KnownStringArrays == {"accessMode", "category", "container", "image", "port", "role", "rules", "subject"}
IgnoredFields == {"age"}

\* The value as encoding/json left it.
Raw(v) == CASE v \in Text -> "string" [] v \in {"int", "float"} -> "number" [] v \in Array -> "slice"
            [] v \in {"map", "opaqueMap"} -> "map" [] v = "bool" -> "bool" [] v = "null" -> "nil"

ConvertToString(v) == IF v \in Scalar THEN "string" ELSE Nothing
FindNonString(vs) == \E i \in DOMAIN vs : vs[i] \notin Text
\* A quantity that does not parse is stored as the zero that comes with the error.
MemoryToBytes(v) == IF v \in Text THEN "number" ELSE Nothing

\* The length of an array; of null, the default, which may be nil itself.
Length(p, v) ==
    CASE v \in Array -> "number"
      [] v = "null" -> IF p.default = Nothing THEN "nil" ELSE p.default
      [] OTHER -> Nothing

\* Mutant: a boolean is stored as it is.
ConvertOneKeepsBool(p, v) ==
    CASE p.type = "bytes" -> MemoryToBytes(v)
      [] p.type = "string" -> ConvertToString(v)
      [] p.type \notin {"bytes", "string"} -> Raw(v)

\* The last branches of applyDefaultTransformConfig: what becomes of one value.
ConvertOne(p, v) ==
    CASE p.type = "bytes" -> MemoryToBytes(v)
      [] p.type = "string" -> ConvertToString(v)
      [] p.type = "mapString" -> IF v = "map" THEN "mapString" ELSE Nothing
      [] p.type = "number" -> IF v \in {"int", "float", "digits"} THEN "number" ELSE Nothing
      [] p.type = "boolean" -> IF v \in Text \cup {"bool"} THEN "string" ELSE Nothing
      [] p.type = "arrayLen" -> Length(p, v)
      [] p.type = "" -> IF v = "bool" THEN "string" ELSE Raw(v)

\* What becomes of all that the path found.  The names of KnownStringArrays want
\* a []string, which a decoded resource never holds.
Convert(p, vs) ==
    CASE p.type = "slice" -> "slice"
      [] p.type = "arrayString" -> IF FindNonString(vs) THEN Nothing ELSE "slice"
      [] OTHER -> IF p.name \in KnownStringArrays \/ (p.metadataOnly /\ vs[1] \notin Text) THEN Nothing
                  ELSE IF p.metadataOnly THEN "string" ELSE ConvertOne(p, vs[1])

\* What the data types promise of the property they store.
Promised(type) ==
    CASE type \in {"bytes", "number"} -> {"number"}
      [] type \in {"string", "boolean"} -> {"string"}
      [] type \in {"slice", "arrayString"} -> {"slice"}
      [] type = "mapString" -> {"mapString"}
      [] type = "arrayLen" -> {"number", "nil"}
      [] type = "" -> Stored \ {"bool"}

\* The table of defaults has a default of another type nowhere, and a CR adds
\* fields behind the ones of the table, which alone match on a label: what comes
\* after a field named label does not.
Property == [name : STRING, path : STRING, type : DataType, priority : Int, matchLabel : STRING,
             metadataOnly : BOOLEAN, hubOnly : BOOLEAN, default : Stored \cup {Nothing}]
WellFormed(props) ==
    /\ props \in Seq(Property)
    /\ \A i \in DOMAIN props : props[i].default \in Promised(props[i].type) \cup {Nothing}
    /\ \A i, j \in DOMAIN props : i < j /\ props[i].name = "label" => props[j].matchLabel = ""

\* A column as the CRD has it: its header, the header in lower camel case,
\* whether that differs, the path and the priority.
Header == [header : STRING, lowered : STRING, separated : BOOLEAN, path : STRING, priority : Int \ {NoPriority}]

ASSUME ExtractionAssumption ==
    /\ \A c \in Config : WellFormed(c.own.props)
    /\ Columns \subseteq Seq(Header)
    /\ \A o \in Object : \A path \in DOMAIN o.fields : o.fields[path] \in Seq(JSON)
    /\ "label" \notin Generic
    /\ Worker \cap Places = {}
    /\ Gatekeeper \in BOOLEAN /\ CollectConditions \in BOOLEAN /\ CollectColumns \in BOOLEAN
    /\ CollectAnnotations \in BOOLEAN /\ DeployedInHub \in BOOLEAN
    /\ ReloadLimit \in Nat /\ EditLimit \in Nat /\ ChangeLimit \in Nat

-----------------------------------------------------------------------------
(* applyDefaultTransformConfig.  A node maps names to the type of what is  *)
(* stored and the property that stored it.                                 *)

GenericProperty == ExtractProperty("", "metadata")
Panic == [panic |-> TRUE]

\* The label of a node is taken to be a map[string]string.
Asserts(n, p) ==
    p.matchLabel # "" /\ "label" \in DOMAIN n.props /\ n.props["label"].kind \notin {"mapString", "nil"}

\* Mutant: a property that is set already is set again.
SkipsNothingSet(n, p, o, found, priority) ==
    \/ p.hubOnly /\ ~DeployedInHub
    \/ p.matchLabel # "" /\ ("label" \notin DOMAIN n.props \/ p.matchLabel \notin o.labels)
    \/ ~found /\ p.name \in IgnoredFields
    \/ p.priority # NoPriority /\ (priority = NoPriority \/ p.priority > priority)
    \/ p.path = Malformed

\* The continue statements ahead of the conversion.
Skips(n, p, o, found, priority) ==
    \/ p.hubOnly /\ ~DeployedInHub
    \/ p.matchLabel # "" /\ ("label" \notin DOMAIN n.props \/ p.matchLabel \notin o.labels)
    \/ ~p.metadataOnly /\ p.name \in DOMAIN n.props
    \/ ~found /\ p.name \in IgnoredFields
    \/ p.priority # NoPriority /\ (priority = NoPriority \/ p.priority > priority)
    \/ p.path = Malformed

\* Assignment to a key of a map.
Put(f, key, value) == [k \in DOMAIN f \cup {key} |-> IF k = key THEN value ELSE f[k]]
Store(n, p, kind) == IF kind = Nothing THEN n
                     ELSE [n EXCEPT !.props = Put(n.props, p.name, [kind |-> kind, by |-> p])]
StoreMetadata(n, p, kind) == IF kind = Nothing THEN n
                             ELSE [n EXCEPT !.metadata = Put(n.metadata, p.name, kind)]

\* One turn of the loop.  A path that is not there, or that finds nothing,
\* leaves the default.
ExtractOne(n, p, o, found, priority) ==
    CASE n = Panic -> Panic
      [] n # Panic /\ Asserts(n, p) /\ ~(p.hubOnly /\ ~DeployedInHub) -> Panic
      [] OTHER -> IF Skips(n, p, o, found, priority) THEN n
                  ELSE IF p.path \notin DOMAIN o.fields \/ o.fields[p.path] = <<>> THEN Store(n, p, p.default)
                  ELSE IF p.metadataOnly THEN StoreMetadata(n, p, Convert(p, o.fields[p.path]))
                  ELSE Store(n, p, Convert(p, o.fields[p.path]))

\* genericProperties and commonAnnotations; the resource has annotations.
GenericProperties(o, annotated) ==
    LET maps == {m \in {"label", "annotation"} : m = "label" => o.labels # {}}
        names == Generic \cup {m \in maps : m = "annotation" => annotated}
    IN  [n \in names |-> [kind |-> IF n \in maps THEN "mapString" ELSE "string", by |-> GenericProperty]]

\* commonStatusConditions: conditions that cannot be read are no conditions.
CommonStatusConditions(f, o, wanted) ==
    IF wanted /\ o.conditions = "readable"
    THEN Put(f, "condition", [kind |-> "mapString", by |-> GenericProperty]) ELSE f

UsesColumns(r) == CollectColumns \/ Gatekeeper \/ r.group.priority # NoPriority

\* Mutant: the columns come first.
PropertiesColumnsFirst(r, columns) ==
    IF r.own.found THEN (IF r.own.priority # NoPriority THEN columns ELSE <<>>) \o r.own.props
    ELSE IF UsesColumns(r) THEN columns ELSE <<>>

\* The properties the loop goes through, and the priority up to which columns
\* count.  The entry of the group matters to a type without one of its own.
Properties(r, columns) ==
    IF r.own.found THEN r.own.props \o (IF r.own.priority # NoPriority THEN columns ELSE <<>>)
    ELSE IF UsesColumns(r) THEN columns ELSE <<>>
Threshold(r) ==
    CASE r.own.found -> r.own.priority
      [] ~r.own.found /\ Gatekeeper /\ r.group.priority = NoPriority -> 0
      [] OTHER -> r.group.priority

\* What the node has before the loop.
GenericNode(o, r) ==
    LET wanted == CollectConditions \/ r.own.conditions \/ r.group.conditions
    IN  [props |-> CommonStatusConditions(GenericProperties(o, r.annotated), o, wanted), metadata |-> <<>>]

\* The node a worker builds of an event from what it has read of the config.
BuildNode(e, r) ==
    LET extract(n, p) == ExtractOne(n, p, e.object, r.own.found, Threshold(r))
    IN  FoldLeft(extract, GenericNode(e.object, r), Properties(r, e.columns))

\* commonAnnotations: the groups of Gatekeeper are on its list.
Annotated(own) == CollectAnnotations \/ Gatekeeper \/ own.annotations
Reads(c) == [annotated |-> Annotated(c.own), own |-> c.own, group |-> c.group]

-----------------------------------------------------------------------------
NoCRD == [established |-> FALSE, columns |-> <<>>, exists |-> FALSE]
NoEvent == [object |-> Nothing]
NoRead == Reads([own |-> NoEntry, group |-> NoEntry])
NoNode == [props |-> <<>>, metadata |-> <<>>]
Idle == [phase |-> "idle", event |-> NoEvent, read |-> NoRead, built |-> NoNode]

Init ==
    /\ crd = NoCRD /\ crdEvents = <<>>
    /\ mapping = <<>> /\ syncPending = FALSE /\ running = FALSE /\ staleColumns = FALSE
    /\ config \in Config /\ reload = <<>> /\ resync = FALSE
    /\ object \in Object
    /\ toSend = FALSE /\ outbox = NoEvent
    /\ worker = [w \in Worker |-> Idle]
    /\ node = NoNode /\ newest = "none"
    /\ reloads = 0 /\ edits = 0 /\ changes = 0

-----------------------------------------------------------------------------
(* The CRD and its printer columns.                                        *)

WriteCRD(new) ==
    /\ edits < EditLimit
    /\ edits' = edits + 1
    /\ crd' = new
    /\ crdEvents' = Append(crdEvents, [add |-> ~crd.exists, crd |-> new])
    /\ UNCHANGED <<informerVars, configVars, resync, object, changes, sendVars, worker, nodeVars>>

CreateCRD(cs) == ~crd.exists /\ WriteCRD([established |-> FALSE, columns |-> cs, exists |-> TRUE])
Establish == crd.exists /\ ~crd.established /\ WriteCRD([crd EXCEPT !.established = TRUE])
EditColumns(cs) == crd.exists /\ cs # crd.columns /\ WriteCRD([crd EXCEPT !.columns = cs])

\* A header without a space or a dash is kept as it is.
ToLowerCamelCase(c) == IF c.separated THEN c.lowered ELSE c.header

Column(c) == [ExtractProperty(ToLowerCamelCase(c), c.path) EXCEPT !.priority = c.priority]

\* gvrToPrinterColumns.set: a column without a name is passed over.
PrinterColumns(cs) ==
    LET collect(columns, c) == IF ToLowerCamelCase(c) = "" THEN columns ELSE Append(columns, Column(c))
    IN  FoldLeft(collect, <<>>, cs)

\* AddFunc and UpdateFunc of the CRD informer.  An update of a CRD that is not
\* established is passed over, its columns too.
HandleCRD ==
    /\ crdEvents # <<>>
    /\ crdEvents' = Tail(crdEvents)
    /\ LET e == Head(crdEvents)
       IN  /\ mapping' = IF e.add \/ e.crd.established THEN PrinterColumns(e.crd.columns) ELSE mapping
           /\ syncPending' = (syncPending \/ e.crd.established)
    /\ staleColumns' = (staleColumns \/ (running /\ mapping' # mapping))
    /\ UNCHANGED <<crd, edits, running, configVars, resync, object, changes, sendVars, worker, nodeVars>>

\* Another CRD asks for the same pass over the types.
OtherCRD ==
    /\ ~running /\ ~syncPending
    /\ syncPending' = TRUE
    /\ UNCHANGED <<crdVars, mapping, running, staleColumns, configVars, resync, object, changes, sendVars, worker, nodeVars>>

\* syncInformers: discovery reports the type once it is established.
SyncInformers ==
    /\ syncPending
    /\ syncPending' = FALSE
    /\ running' = (running \/ crd.established)
    /\ toSend' = (toSend \/ (crd.established /\ ~running))
    /\ UNCHANGED <<crdVars, mapping, staleColumns, configVars, resync, object, changes, outbox, worker, nodeVars>>

-----------------------------------------------------------------------------
(* The reload of the config.                                               *)

\* Mutant: the informers are told before the config is there.
StartReloadTellsFirst(c) ==
    /\ reload = <<>> /\ reloads < ReloadLimit /\ c # config
    /\ reloads' = reloads + 1
    /\ reload' = <<[step |-> "tell", config |-> c], [step |-> "swap", config |-> c]>>
    /\ UNCHANGED <<crdVars, informerVars, config, resync, object, changes, sendVars, worker, nodeVars>>

\* ReloadAndDiff, then what the handler does with a difference.
StartReload(c) ==
    /\ reload = <<>> /\ reloads < ReloadLimit /\ c # config
    /\ reloads' = reloads + 1
    /\ reload' = <<[step |-> "swap", config |-> c], [step |-> "tell", config |-> c]>>
    /\ UNCHANGED <<crdVars, informerVars, config, resync, object, changes, sendVars, worker, nodeVars>>

Swap ==
    /\ reload # <<>> /\ Head(reload).step = "swap"
    /\ config' = Head(reload).config
    /\ reload' = Tail(reload)
    /\ UNCHANGED <<crdVars, informerVars, reloads, resync, object, changes, sendVars, worker, nodeVars>>

Tell ==
    /\ reload # <<>> /\ Head(reload).step = "tell"
    /\ resync' = TRUE
    /\ reload' = Tail(reload)
    /\ UNCHANGED <<crdVars, informerVars, config, reloads, object, changes, sendVars, worker, nodeVars>>

\* The main loop tells the informer, if there is one, to list again.
DispatchResync ==
    /\ resync
    /\ resync' = FALSE
    /\ toSend' = (toSend \/ running)
    /\ UNCHANGED <<crdVars, informerVars, configVars, object, changes, outbox, worker, nodeVars>>

-----------------------------------------------------------------------------
(* The resource on its way to the reconciler.                              *)

ChangeObject(o) ==
    /\ changes < ChangeLimit /\ o # object
    /\ changes' = changes + 1
    /\ object' = o
    /\ toSend' = (toSend \/ running)
    /\ UNCHANGED <<crdVars, informerVars, configVars, resync, outbox, worker, nodeVars>>

\* The add or update handler makes the event, then waits for a worker.
MakeEvent ==
    /\ running /\ toSend /\ outbox = NoEvent
    /\ toSend' = FALSE
    /\ outbox' = [object |-> object, columns |-> mapping]
    /\ newest' = "outbox"
    /\ staleColumns' = FALSE
    /\ UNCHANGED <<crdVars, mapping, syncPending, running, configVars, resync, object, changes, worker, node>>

TakeEvent(w) ==
    /\ worker[w].phase = "idle" /\ outbox # NoEvent
    /\ worker' = [worker EXCEPT ![w] = [Idle EXCEPT !.phase = "annotations", !.event = outbox]]
    /\ outbox' = NoEvent
    /\ newest' = w
    /\ UNCHANGED <<crdVars, informerVars, configVars, resync, object, changes, toSend, node>>

ReadForAnnotations(w) ==
    /\ worker[w].phase = "annotations"
    /\ worker' = [worker EXCEPT ![w].phase = "own", ![w].read.annotated = Annotated(config.own)]
    /\ UNCHANGED <<crdVars, informerVars, configVars, resync, object, changes, sendVars, nodeVars>>

\* getTransformConfig
ReadOwn(w) ==
    /\ worker[w].phase = "own"
    /\ worker' = [worker EXCEPT ![w].phase = "group", ![w].read.own = config.own]
    /\ UNCHANGED <<crdVars, informerVars, configVars, resync, object, changes, sendVars, nodeVars>>

\* The third read, and the rest, which reads nothing that is shared.
ReadGroupAndBuild(w) ==
    /\ worker[w].phase = "group"
    /\ LET read == [worker[w].read EXCEPT !.group = config.group]
       IN  worker' = [worker EXCEPT ![w] = [phase |-> "built", event |-> @.event, read |-> read,
                                            built |-> BuildNode(@.event, read)]]
    /\ UNCHANGED <<crdVars, informerVars, configVars, resync, object, changes, sendVars, nodeVars>>

\* The node is handed to the reconciler, which receives one at a time.  A panic costs
\* the event: handleRoutineExit starts the worker again.
Deliver(w) ==
    /\ worker[w].phase = "built"
    /\ \/ worker[w].built = Panic /\ UNCHANGED nodeVars
       \/ /\ worker[w].built # Panic
          /\ node' = worker[w].built
          /\ newest' = CASE newest = w -> "node"
                         [] newest = "node" -> "overtaken"
                         [] OTHER -> newest
    /\ worker' = [worker EXCEPT ![w] = Idle]
    /\ UNCHANGED <<crdVars, informerVars, configVars, resync, object, changes, sendVars>>

WorkerStep(w) == TakeEvent(w) \/ ReadForAnnotations(w) \/ ReadOwn(w) \/ ReadGroupAndBuild(w) \/ Deliver(w)

Next ==
    \/ \E cs \in Columns : CreateCRD(cs) \/ EditColumns(cs)
    \/ Establish
    \/ HandleCRD \/ OtherCRD \/ SyncInformers
    \/ \E c \in Config : StartReload(c)
    \/ Swap \/ Tell \/ DispatchResync
    \/ \E o \in Object : ChangeObject(o)
    \/ MakeEvent
    \/ \E w \in Worker : WorkerStep(w)

Spec == Init /\ [][Next]_vars

-----------------------------------------------------------------------------
(* Properties.                                                             *)

ConfigProperties == UNION {Range(c.own.props) : c \in Config}
ColumnProperties == UNION {Range(PrinterColumns(cs)) : cs \in Columns}
PropertySet == ConfigProperties \cup ColumnProperties \cup {GenericProperty}

\* Every variable has its type: the columns the CRD informer keeps are
\* properties with a name and a priority, whatever the headers of the CRD are,
\* and what a node holds was stored by a property of the config, a column or
\* the generic part.
TypeOK ==
    /\ crd.columns \in Columns \cup {<<>>} /\ crd.established \in BOOLEAN
    /\ \A i \in DOMAIN mapping : mapping[i] \in PropertySet /\ mapping[i].priority # NoPriority /\ mapping[i].name # ""
    /\ config \in Config /\ object \in Object
    /\ syncPending \in BOOLEAN /\ running \in BOOLEAN /\ resync \in BOOLEAN /\ toSend \in BOOLEAN
    /\ \A w \in Worker : worker[w].phase \in {"idle", "annotations", "own", "group", "built"}
    /\ newest \in Worker \cup Places
    /\ \A n \in DOMAIN node.props : node.props[n].kind \in Stored /\ node.props[n].by \in PropertySet

Quiet == /\ running /\ crdEvents = <<>>
         /\ reload = <<>> /\ ~resync
         /\ ~toSend /\ outbox = NoEvent
         /\ \A w \in Worker : worker[w].phase = "idle"

\* Once nothing is under way the node received last is what the config in force
\* makes of the resource, though the workers read the config three times while a
\* reload swaps it: the swap comes before the list the reload asks for.  Unless the
\* node of an earlier event, made under whatever config, came after that of the
\* last one.  Columns that changed after the handler read them are left out too,
\* nothing lists for them.
UnderConfig ==
    Quiet /\ ~staleColumns /\ newest # "overtaken" => node = BuildNode([object |-> object, columns |-> mapping], Reads(config))

\* What a node holds has the Go type its data type promises, whatever the
\* resource holds at the path: no boolean, and no number where text is declared.
StoredAsDeclared ==
    \A n \in DOMAIN node.props :
        LET s == node.props[n]
        IN  s.by # GenericProperty => s.kind \in Promised(s.by.type)

\* The unchecked assertion that the label of a node is a map of strings never
\* panics: a column named label is stored after the properties that match on it.
NoPanic == \A w \in Worker : worker[w].built # Panic

\* The types of columns, config and nodes, and that building a node does not panic.
ExtractionInv ==
    /\ TypeOK
    /\ NoPanic

\* The columns of a CRD add properties and replace none, neither of the generic
\* part nor of the config.
ColumnsOnlyAdd ==
    \A w \in Worker : worker[w].phase = "built" =>
        LET full == worker[w].built
            bare == BuildNode([worker[w].event EXCEPT !.columns = <<>>], worker[w].read)
        IN  \A n \in DOMAIN bare.props : n \in DOMAIN full.props /\ full.props[n] = bare.props[n]

\* config.go: with COLLECT_CRD_PRINTER_COLUMNS the columns of a CRD are
\* collected; at the least those of priority 0 that have a name of their own.
SwitchCollectsColumns ==
    Quiet /\ ~staleColumns /\ newest # "overtaken" /\ CollectColumns /\ ~config.own.found =>
        \A i \in DOMAIN mapping :
            LET c == mapping[i]
            IN  c.priority = 0 /\ c.path \in DOMAIN object.fields /\ c.name \notin IgnoredFields
                    => c.name \in DOMAIN node.props
=============================================================================
