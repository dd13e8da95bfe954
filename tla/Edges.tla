-------------------------------- MODULE Edges --------------------------------
(***************************************************************************)
(* How allEdges of the reconciler builds the edges of the held nodes with  *)
(* the builders of pkg/transforms.  A pass runs under the reconciler's     *)
(* lock, visits the applications first and the other nodes in the order of *)
(* a Go map, and some builders leave metadata in the node store that the   *)
(* nodes visited later, and the passes after this one, read.               *)
(*                                                                         *)
(* Edges are pairs of UIDs here; their types, and which nodes and edges    *)
(* are then sent, are the subject of Reconciler.                           *)
(***************************************************************************)
EXTENDS Integers, FiniteSetsExt, SequencesExt

CONSTANTS
    UID,
    KindOf, GroupOf, NamespaceOf, NameOf,  \* of each UID; they never change
    GroupRank,     \* the position of each group in lexical order
    ContentsOf,    \* what the transforms may extract from each resource
    Clusters,      \* sets of resources that are held together
    Within,        \* <<a, b>>: the text of application a occurs in that of b
    Plain,         \* the namespace of a name that is given without one
    None,
    EventLimit     \* bound on the events of one behaviour

NoNamespace == "_NONE"

AnyGroup == "*"

ASSUME EdgesAssumption ==
    /\ IsFiniteSet(UID) /\ None \notin UID
    /\ EventLimit \in Nat
    /\ \A u \in UID : None \notin ContentsOf[u]
    /\ \A u \in UID : \A c \in ContentsOf[u] : c.owner \in UID \cup {None} /\ IsFiniteSet(c.names)

VARIABLES
    nodes,     \* the content of each held node
    meta,      \* metadata that builders change: OwnerUID, _hostingApplication
    index,     \* the nodes that nodesIndexMap put into the index
    phase,     \* stale, passing or built
    todo,      \* the nodes that the pass has not visited yet
    edges,     \* what the pass has built
    events

edgesVars == <<nodes, meta, index, phase, todo, edges, events>>

-----------------------------------------------------------------------------
(* The node store.                                                         *)

Held == {u \in UID : nodes[u] # None}

Key(u) == <<GroupOf[u], KindOf[u], NamespaceOf[u], NameOf[u]>>

\* nodesIndexMap keeps one node of each key, and not a particular one.
Indexes ==
    {S \in SUBSET Held :
        /\ {Key(u) : u \in S} = {Key(u) : u \in Held}
        /\ \A u, v \in S : Key(u) = Key(v) => u = v}

LookupByGroupKindNamespaceName(g, k, ns, n) == {u \in index : Key(u) = <<g, k, ns, n>>}

\* The first group in lexical order wins.
FirstOf(S) == {u \in S : \A v \in S : GroupRank[GroupOf[u]] <= GroupRank[GroupOf[v]]}

LookupByKindNamespaceName(k, ns, n) ==
    FirstOf({u \in index : KindOf[u] = k /\ NamespaceOf[u] = ns /\ NameOf[u] = n})

Lookup(g, k, ns, n) ==
    IF g = AnyGroup THEN LookupByKindNamespaceName(k, ns, n)
                    ELSE LookupByGroupKindNamespaceName(g, k, ns, n)

NodesByKind(k) ==
    UNION {LookupByKindNamespaceName(k, NamespaceOf[u], NameOf[u]) :
               u \in {v \in index : KindOf[v] = k}}

NamesOf(u, k) == {<<x.ns, x.name>> : x \in {y \in nodes[u].names : y.kind = k}}

-----------------------------------------------------------------------------
(* Owners.                                                                 *)

\* The nodes from u on along the owners, as far as they are held, none of them being
\* followed that is of the kind stop.
Path(md, u, stop) ==
    LET IfHeld(v) == IF v \in Held THEN v ELSE None
        p[n \in 0..Cardinality(Held)] ==
            IF n = 0 THEN IfHeld(u)
            ELSE LET v == p[n - 1]
                 IN  IF v = None THEN None
                     ELSE IF KindOf[v] = stop THEN None ELSE IfHeld(md.owner[v])
    IN  p

\* Mutation: the walk along the owners does not stop at src.
edgesByOwnerPastSource(md, src, first) ==
    LET p == Path(md, first, None)
    IN  {<<src, p[n]>> : n \in {m \in DOMAIN p : p[m] # None}}

\* Edges from src to first and to its owners, up to src itself.
edgesByOwner(md, src, first) ==
    LET p == Path(md, first, None)
    IN  {<<src, p[n]>> : n \in {m \in DOMAIN p : \A i \in 0..m : p[i] \notin {None, src}}}

\* A resource without an owner reference that helm installed is owned by its release.
ReleaseOwner(md, u) ==
    IF md.owner[u] # None \/ nodes[u].release = None THEN md.owner[u]
    ELSE LET r == LookupByKindNamespaceName("HelmRelease", nodes[u].release[1], nodes[u].release[2])
         IN  IF r = {} THEN None ELSE CHOOSE v \in r : TRUE

addReleaseOwnerUID(md, u) == [md EXCEPT !.owner[u] = ReleaseOwner(md, u)]

-----------------------------------------------------------------------------
(* Destinations by name.                                                   *)

\* Kinds whose names may be written namespace/name.
Splits(k) == k \in {"Channel", "Deployable", "Subscription", "Application"}

\* A list of names that a builder walks: the metadata at that moment, and where and as
\* what the names are looked up.
NameList(md, ns, g, k, names) == [md |-> md, ns |-> ns, group |-> g, kind |-> k, names |-> names]

\* The namespace that name x of a list is looked up in.  The loop goes through the names
\* in some order and overwrites the namespace with each one that is qualified; the
\* namespace when the loop is left is that with which the owners are then visited.
InEffect(x, own, l, order) ==
    LET qualified == {i \in DOMAIN order : order[i] \in l.names /\ order[i][1] # Plain}
        before == {i \in qualified : \E j \in DOMAIN order : order[j] = x /\ i < j}
        set == IF own \/ before # {} THEN before ELSE qualified
    IN  IF x[1] # Plain THEN x[1]
        ELSE IF set = {} THEN l.ns
        ELSE order[Max(set)][1]

\* A node and its owners, up to a deployable.
Sources(md, u) == (UNION {{p[n] : n \in DOMAIN p} : p \in {Path(md, u, "Deployable")}}) \ {None}

\* Who is connected to whom by a list of names: src and its owners to every destination
\* found, with the namespace in effect.
Reached(src, l, order) ==
    LET places == {<<s, InEffect(x, s = src, l, order), x[2]>> :
                       s \in Sources(l.md, src), x \in l.names}
    IN  UNION {{[src |-> q[1], dst |-> d, ns |-> q[2]] :
                   d \in Lookup(l.group, l.kind, q[2], q[3]) \ {q[1]}} : q \in places}

Ends(R) == {<<r.src, r.dst>> : r \in R}

\* The applications and the channels of a subscription, looked up from a namespace.
ApplicationList(md, ns, sub) == NameList(md, ns, AnyGroup, "Application", md.hosting[sub])

ChannelList(md, ns, sub) == NameList(md, ns, AnyGroup, "Channel", NamesOf(sub, "Channel"))

\* Edges to the applications of a subscription.
edgesToApplication(md, src, ns, sub, order) ==
    UNION {Ends(Reached(src, l, order)) : l \in {ApplicationList(md, ns, sub)}}

\* Edges to names of any kind but subscriptions, and from what a subscription names to
\* its applications.
edgesByDestinationGroupName(src, l, order) ==
    LET named(R) == {r \in R : KindOf[r.src] = "Subscription"
                               /\ l.kind \in {"Deployable", "PlacementRule", "Channel"}}
    IN  UNION {Ends(R) \cup
               UNION {edgesToApplication(l.md, r.dst, r.ns, r.src, order) : r \in named(R)} :
                   R \in {Reached(src, l, order)}}

\* Edges to the applications and the channels of a subscription.
EdgesPastSubscription(md, src, ns, sub, order) ==
    edgesToApplication(md, src, ns, sub, order) \cup
    UNION {edgesByDestinationGroupName(src, l, order) : l \in {ChannelList(md, ns, sub)}}

\* Edges to the names of a list, and past the subscriptions among them.
edgesByDestinationName(src, l, order) ==
    LET past == {r \in Reached(src, l, order) :
                     l.kind = "Subscription" /\ KindOf[r.src] # "Application"}
    IN  edgesByDestinationGroupName(src, l, order) \cup
        UNION {EdgesPastSubscription(l.md, r.src, r.ns, r.dst, order) : r \in past}

\* The names that u itself gives of some kinds.
Lists(md, u, kinds) ==
    {NameList(md, NamespaceOf[u], AnyGroup, k, NamesOf(u, k)) : k \in kinds}

\* An application is recorded unless its text already occurs in the list.
RecordApplication(refs, a) ==
    IF \E r \in refs : r = a \/ <<a, r>> \in Within THEN refs ELSE refs \cup {a}

\* What the builder of an application leaves in the metadata of its subscriptions: its
\* own name, with the namespace in effect.
HostingApplication(md, u, order) ==
    LET R == {r \in UNION {Reached(u, l, order) : l \in Lists(md, u, {"Subscription"})} :
                  KindOf[r.src] = "Application"}
        refs(s) == {<<r.ns, NameOf[u]>> : r \in {q \in R : q.dst = s}}
    IN  [md EXCEPT !.hosting = [s \in UID |->
            FoldSet(LAMBDA a, acc : RecordApplication(acc, a), @[s], refs(s))]]

-----------------------------------------------------------------------------
(* Edges common to all kinds.                                              *)

\* The first node along the owners that has a hosting subscription or deployable.
Host(md, u) ==
    LET hosted == {v \in Held : {nodes[v].hostSub, nodes[v].hostDep} # {None}}
        reach(p) == {n \in DOMAIN p : p[n] \in hosted}
    IN  UNION {{p[n] : n \in {m \in reach(p) : \A i \in reach(p) : m <= i}} : p \in {Path(md, u, None)}}

HostRef(k, ref) == IF ref = None THEN {} ELSE LookupByKindNamespaceName(k, ref[1], ref[2])

edgesByDeployerSubscriber(md, u, order) ==
    LET subscriptions == (UNION {HostRef("Subscription", nodes[h].hostSub) : h \in Host(md, u)}) \ {u}
        deployables == (UNION {HostRef("Deployable", nodes[h].hostDep) : h \in Host(md, u)}) \ {u}
    IN  {<<u, d>> : d \in subscriptions \cup deployables}
        \cup (UNION {EdgesPastSubscription(md, u, NamespaceOf[u], s, order) :
                         s \in {v \in subscriptions : KindOf[u] # "Application"}})
        \cup (UNION {edgesToApplication(md, d, NamespaceOf[d], u, order) :
                         d \in {v \in deployables : KindOf[u] = "Subscription"}})

\* What u names in one of the ways that involve no owners, and the edges to it.
Refs(u, by) == {r \in nodes[u].refs : r.by = by}

Links(u, by) == {<<u, d>> : d \in UNION {Lookup(r.group, r.kind, r.ns, r.name) : r \in Refs(u, by)}}

\* The kyverno policy that generated a resource, from its labels.
KyvernoPolicy(g) ==
    IF g.legacy
    THEN <<"kyverno.io", IF g.ns = NoNamespace THEN "ClusterPolicy" ELSE "Policy">>
    ELSE <<"policies.kyverno.io",
           IF g.ns = NoNamespace THEN "GeneratingPolicy" ELSE "NamespacedGeneratingPolicy">>

edgesByKyverno(u) ==
    LET g == nodes[u].generator
    IN  IF g = None THEN {}
        ELSE {<<u, d>> : d \in LookupByGroupKindNamespaceName(
                                   KyvernoPolicy(g)[1], KyvernoPolicy(g)[2], g.ns, g.name)}

edgesByGatekeeperMutation(u) == Links(u, "mutation")

edgesByDefaultTransformConfig(u) ==
    {<<u, d>> : d \in UNION {LookupByKindNamespaceName(r.kind, NamespaceOf[u], r.name) :
                                 r \in Refs(u, "config")}}

CommonEdges(md, u, order) ==
    edgesByOwner(md, u, md.owner[u])
    \cup edgesByDeployerSubscriber(md, u, order)
    \cup edgesByKyverno(u)
    \cup edgesByGatekeeperMutation(u)
    \cup edgesByDefaultTransformConfig(u)

-----------------------------------------------------------------------------
(* The builders of the kinds.                                              *)

\* The subscriptions are told of the application before its owners are visited.
ApplicationLists(md, u, order) ==
    Lists(md, u, {"Deployable"}) \cup
    Lists(HostingApplication(md, u, order), u, {"Subscription", "PlacementBinding"})

SubscriptionLists(md, u) == Lists(md, u, {"Channel", "PlacementRule", "Deployable"})

DeployableLists(md, u) == Lists(md, u, {"Channel", "PlacementRule"})

\* A channel of a helm repository deploys the deployables of its namespace, if there are
\* several.
ChannelLists(md, u) ==
    LET deployables == {<<Plain, NameOf[d]>> :
                            d \in {v \in NodesByKind("Deployable") : NamespaceOf[v] = NamespaceOf[u]}}
    IN  Lists(md, u, {"Secret", "ConfigMap"}) \cup
        {NameList(md, NamespaceOf[u], AnyGroup, "Deployable", names) :
            names \in {N \in {deployables} : "HelmRepo" \in nodes[u].labels /\ Cardinality(N) > 1}}

\* A HelmRelease is attached to the release of its own name.
HelmReleaseLists(md, u) ==
    Lists(md, u, {"Secret", "ConfigMap"}) \cup
    {NameList(md, NamespaceOf[u], AnyGroup, "Release", {<<Plain, NameOf[u]>>})}

\* The volumes of a pod are found through the claims it names.
PodLists(md, u) ==
    LET claims == UNION {LookupByKindNamespaceName("PersistentVolumeClaim", NamespaceOf[u], x[2]) :
                             x \in NamesOf(u, "PersistentVolumeClaim")}
        volumes == UNION {NamesOf(c, "PersistentVolume") : c \in claims}
    IN  Lists(md, u, {"Secret", "ConfigMap", "PersistentVolumeClaim"}) \cup
        {NameList(md, NoNamespace, AnyGroup, "PersistentVolume", volumes)}

PodLinks(u) == {e \in Links(u, "runsOn") : e[1] # e[2]}

VolumeClaimLists(md, u) ==
    {NameList(md, NoNamespace, AnyGroup, "PersistentVolume", NamesOf(u, "PersistentVolume"))}

\* A service uses the pods of its namespace that have all labels of its selector, and
\* their owners.
ServiceLinks(md, u) ==
    LET selected == {p \in NodesByKind("Pod") :
                         /\ NamespaceOf[p] = NamespaceOf[u]
                         /\ nodes[p].labels # {}
                         /\ nodes[u].selector \subseteq nodes[p].labels}
    IN  IF nodes[u].selector = None THEN {}
        ELSE UNION {edgesByOwner(md, u, p) : p \in selected}

\* Policies and gatekeeper constraints, with the objects that their status names.
RelatedLinks(u) == Links(u, "related")

ConstraintLinks(u) == Links(u, "related")

ArgoApplicationLinks(u) == {e \in Links(u, "resource") : e[1] # e[2]}

\* A kyverno report connects its policies, itself and the object it is named after.
PolicyReportLinks(u) ==
    LET policies == UNION {LookupByKindNamespaceName(r.kind, r.ns, r.name) :
                               r \in Refs(u, "policy")}
        objects == {v \in Held : v = nodes[u].reportOn}
    IN  IF "kyverno" \notin nodes[u].labels THEN {}
        ELSE {<<p, u>> : p \in policies} \cup (policies \X objects) \cup
             (IF policies = {} THEN {} ELSE {<<u, o>> : o \in objects})

Matches(param, kind, v) ==
    /\ GroupOf[v] = kind[1] /\ KindOf[v] = kind[2] /\ nodes[v].version = kind[3]
    /\ param.ns \in {None, NamespaceOf[v]}
    /\ param.name \in {None, NameOf[v]}
    /\ param.selector = None \/ (nodes[v].labels # {} /\ param.selector \subseteq nodes[v].labels)

AdmissionGroup == "admissionregistration.k8s.io"

AdmissionKind == "ValidatingAdmissionPolicy"

\* A binding refers to its admission policy, and with it to the parameters of the kind
\* that the policy asks for.
VapBindingLists(md, u) ==
    {NameList(md, NoNamespace, AdmissionGroup, AdmissionKind, NamesOf(u, AdmissionKind))}

VapBindingLinks(u) ==
    LET policies == UNION {LookupByGroupKindNamespaceName(
                               AdmissionGroup, AdmissionKind, NoNamespace, x[2]) :
                               x \in NamesOf(u, AdmissionKind)}
        asking == {p \in policies : nodes[u].param # None /\ nodes[p].paramKind # None}
    IN  {<<u, v>> : v \in {w \in index : \E p \in asking :
                                             Matches(nodes[u].param, nodes[p].paramKind, w)}}

\* The lists of names that the builder of u walks, ...
NameLists(md, u, order) ==
    LET k == KindOf[u]
    IN  CASE k = "Application" /\ GroupOf[u] # "argoproj.io" -> ApplicationLists(md, u, order)
          [] k = "Subscription" -> SubscriptionLists(md, u)
          [] k = "Deployable" -> DeployableLists(md, u)
          [] k = "Channel" -> ChannelLists(md, u)
          [] k = "HelmRelease" -> HelmReleaseLists(md, u)
          [] k = "Pod" -> PodLists(md, u)
          [] k = "PersistentVolumeClaim" -> VolumeClaimLists(md, u)
          [] k = "ValidatingAdmissionPolicyBinding" -> VapBindingLists(md, u)
          [] OTHER -> {}

\* ... and the edges it builds in other ways.
OtherEdges(md, u) ==
    LET k == KindOf[u]
    IN  CASE k = "Application" /\ GroupOf[u] = "argoproj.io" -> ArgoApplicationLinks(u)
          [] k = "Pod" -> PodLinks(u)
          [] k = "Service" -> ServiceLinks(md, u)
          [] k = "ConfigurationPolicy" -> RelatedLinks(u)
          [] GroupOf[u] = "constraints.gatekeeper.sh" -> ConstraintLinks(u)
          [] k = "PolicyReport" -> PolicyReportLinks(u)
          [] k = "ValidatingAdmissionPolicyBinding" -> VapBindingLinks(u)
          [] OTHER -> {}

BuildEdges(md, u, order) ==
    OtherEdges(md, u) \cup
    UNION {edgesByDestinationName(u, l, order) : l \in NameLists(md, u, order)}

-----------------------------------------------------------------------------
(* The reconciler.                                                         *)

\* The transforms make a node anew, without what earlier passes left in its metadata.  An
\* update that changes nothing does not replace the held node.
Upsert(u) ==
    /\ phase # "passing"
    /\ events < EventLimit
    /\ \E C \in Clusters : Held \cup {u} \subseteq C
    /\ \E c \in ContentsOf[u] \ {nodes[u]} :
        /\ nodes' = [nodes EXCEPT ![u] = c]
        /\ meta' = [meta EXCEPT !.owner[u] = c.owner, !.hosting[u] = {}]
    /\ events' = events + 1
    /\ phase' = "stale"
    /\ UNCHANGED <<index, todo, edges>>

Delete(u) ==
    /\ phase # "passing"
    /\ events < EventLimit
    /\ u \in Held
    /\ nodes' = [nodes EXCEPT ![u] = None]
    /\ meta' = [meta EXCEPT !.owner[u] = None, !.hosting[u] = {}]
    /\ events' = events + 1
    /\ phase' = "stale"
    /\ UNCHANGED <<index, todo, edges>>

\* The nodes whose edge functions are called.
AllUIDs == Held

\* Diff with something pending, or Complete.
StartPass ==
    /\ phase # "passing"
    /\ index' \in Indexes
    /\ phase' = "passing"
    /\ todo' = AllUIDs
    /\ edges' = {}
    /\ UNCHANGED <<nodes, meta, events>>

\* Mutation: the nodes are visited in the order of the map.
AnyNext(u) == u \in todo

\* The applications come first.
VisitedNext(u) ==
    /\ u \in todo
    /\ \A a \in NodesByKind("Application") \cap todo : u \in NodesByKind("Application")

\* The orders in which the loops over names may go, where it matters: one order for all
\* loops of a visit.
Orders ==
    LET names == {<<x.ns, x.name>> : x \in UNION {{y \in nodes[u].names : Splits(y.kind)} : u \in Held}}
        namespaces == {x[1] : x \in names}
    IN  IF Plain \in namespaces /\ namespaces # {Plain} THEN SetToSeqs(names) ELSE {<<>>}

\* The edge function of a node and then CommonEdges.
Visit(u) ==
    /\ phase = "passing"
    /\ VisitedNext(u)
    /\ \E order \in Orders :
        LET hosted == IF KindOf[u] = "Application" /\ GroupOf[u] # "argoproj.io"
                      THEN HostingApplication(meta, u, order) ELSE meta
        IN  /\ meta' = addReleaseOwnerUID(hosted, u)
            /\ edges' = edges \cup BuildEdges(meta, u, order) \cup CommonEdges(meta', u, order)
    /\ todo' = todo \ {u}
    /\ UNCHANGED <<nodes, index, phase, events>>

EndPass ==
    /\ phase = "passing"
    /\ todo = {}
    /\ phase' = "built"
    /\ UNCHANGED <<nodes, meta, index, todo, edges, events>>

EdgesInit ==
    /\ nodes = [u \in UID |-> None]
    /\ meta = [owner |-> [u \in UID |-> None], hosting |-> [u \in UID |-> {}]]
    /\ index = {}
    /\ phase = "built"
    /\ todo = {}
    /\ edges = {}
    /\ events = 0

EdgesNext ==
    \/ \E u \in UID : Upsert(u) \/ Delete(u) \/ Visit(u)
    \/ StartPass
    \/ EndPass

EdgesSpec == EdgesInit /\ [][EdgesNext]_edgesVars

-----------------------------------------------------------------------------
(* Properties.                                                             *)

\* The type invariant.
EdgesTypeOK ==
    /\ \A u \in UID : nodes[u] \in ContentsOf[u] \cup {None}
    /\ meta.owner \in [UID -> UID \cup {None}]
    /\ \A s \in UID : \A a \in meta.hosting[s] : \E u \in UID : a[2] = NameOf[u]
    /\ phase \in {"stale", "passing", "built"}
    /\ todo \subseteq Held
    /\ events \in 0..EventLimit

\* Every edge of a pass connects two nodes that are held, whatever metadata still refers
\* to nodes that are gone.
EdgesBetweenHeld == phase # "stale" => edges \subseteq Held \X Held

\* No node is connected to itself, even where owners refer to each other in a circle.
NoSelfEdges == \A e \in edges : e[1] # e[2]

Refers(r, ns, v) == KindOf[v] = r.kind /\ NamespaceOf[v] = ns /\ NameOf[v] = r.name

\* No resource refers to itself, and no report to a policy that it is a report on, in the
\* ways in which the builders do not look for it.
NoSelfReference ==
    \A u \in UID : \A c \in ContentsOf[u] :
        /\ \A r \in c.refs :
              /\ ~Refers(r, r.ns, u)
              /\ r.by = "config" => ~Refers(r, NamespaceOf[u], u)
              /\ r.by = "policy" /\ c.reportOn \in UID => ~Refers(r, r.ns, c.reportOn)
        /\ c.reportOn # u
        /\ c.generator # None =>
              Key(u) # <<KyvernoPolicy(c.generator)[1], KyvernoPolicy(c.generator)[2],
                         c.generator.ns, c.generator.name>>
        /\ c.paramKind # None => c.paramKind[2] # "ValidatingAdmissionPolicyBinding"

\* The types, and that an edge connects two different nodes that are held.
EdgesInv ==
    /\ EdgesTypeOK
    /\ EdgesBetweenHeld
    /\ NoSelfEdges

\* The applications of a subscription, as their annotations have it.
ApplicationsOf(s) ==
    {a \in index : /\ KindOf[a] = "Application" /\ GroupOf[a] # "argoproj.io"
                   /\ \E x \in NamesOf(a, "Subscription") :
                          s \in LookupByKindNamespaceName("Subscription",
                                    IF x[1] = Plain THEN NamespaceOf[a] ELSE x[1], x[2])}

\* The metadata that the held nodes themselves give rise to.
MetadataOfNodes ==
    [owner |-> [u \in UID |->
        IF u \notin Held THEN None
        ELSE ReleaseOwner([owner |-> [v \in UID |-> IF v \in Held THEN nodes[v].owner ELSE None]], u)],
     hosting |-> [s \in UID |->
        IF s \notin Held THEN {} ELSE {<<NamespaceOf[a], NameOf[a]>> : a \in ApplicationsOf(s)}]]

\* The edges depend on the held nodes alone: neither the order of the visits nor what
\* earlier passes left in the metadata shows in them, and unqualified names mean the
\* namespace of the node that uses them.
EdgesFromNodes ==
    phase = "built" =>
        edges = UNION {BuildEdges(md, u, <<>>) \cup CommonEdges(md, u, <<>>) :
                           u \in Held, md \in {MetadataOfNodes}}

\* Whenever a node has an edge to a subscription, it has one to each of its applications.
ApplicationsLinked ==
    phase = "built" =>
        \A e \in edges : \A a \in ApplicationsOf(e[2]) \ {e[1]} :
            KindOf[e[2]] = "Subscription" /\ KindOf[e[1]] # "Application" => <<e[1], a>> \in edges

\* A resource that helm installed and that has no owner reference is connected to its
\* release.
ReleaseOwnsResources ==
    phase = "built" =>
        \A u \in Held :
            nodes[u].owner = None /\ nodes[u].release # None =>
                \A r \in LookupByKindNamespaceName("HelmRelease", nodes[u].release[1],
                                                    nodes[u].release[2]) \ {u} : <<u, r>> \in edges
=============================================================================
