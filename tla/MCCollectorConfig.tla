------------------------- MODULE MCCollectorConfig -------------------------
(***************************************************************************)
(* Three types: a built-in one of the core group, one of the apps group    *)
(* and CollectorConfig itself.  The specs of the CR differ in what the     *)
(* handler and the merge tell apart.                                       *)
(***************************************************************************)
EXTENDS CollectorConfig

Pod == <<"", "Pod">>
Deployment == <<"apps", "Deployment">>
Own == <<"search", "CollectorConfig">>

MCType == {Pod, Deployment, Own}

Field(name, path) == [name |-> name, path |-> path]
MCDefaultConfig == [k \in {Pod} |-> [EmptyEntry EXCEPT !.fields = {Field("status", "phase")}]]
MCHubOnly == {<<Deployment, "users">>}

Rule(action, groups, kinds) ==
    [action |-> action, groups |-> groups, kinds |-> kinds, fields |-> <<>>,
     conditions |-> FALSE, annotations |-> FALSE, priority |-> NoPriority]
Rules(rs) == [readable |-> TRUE, rules |-> rs, ownNamespace |-> TRUE]

Include(g, k) == Rule("include", {g}, {k})
Exclude(g, k) == Rule("exclude", {g}, {k})

\* Wildcard conditions and columns, then a smaller priority for the same key
\* and fields, of which one collides with a built-in one and one is hub-only.
Enriching == Rules(<<
    [Rule("include", {"", "apps"}, {Wildcard}) EXCEPT !.conditions = TRUE, !.priority = 1],
    [Include("apps", Wildcard) EXCEPT !.priority = 0],
    [Include("", "Pod") EXCEPT !.annotations = TRUE,
        !.fields = <<Field("status", "other"), Field("node", "nodeName"), Field("node", "again")>>],
    [Include("apps", "Deployment") EXCEPT !.fields = <<Field("members", "users"), Field("", "none")>>]>>)

\* A rule for two kinds that has fields, and an exclusion taken back in part.
Narrowing == Rules(<<
    [Rule("include", {"apps"}, {"Deployment", "Pod"}) EXCEPT !.fields = <<Field("a", "b")>>],
    Exclude("apps", Wildcard), Exclude("", "Pod"), Include("apps", "Deployment")>>)

\* Only one type is collected, which leaves out CollectorConfig.
DenyOthers == Rules(<<Exclude(Wildcard, Wildcard), Include("", "Pod")>>)

Unreadable == [Rules(<<>>) EXCEPT !.readable = FALSE]
Elsewhere == [Rules(<<[Include("apps", Wildcard) EXCEPT !.conditions = TRUE]>>) EXCEPT !.ownNamespace = FALSE]

AllSpecs == {Enriching, Narrowing, DenyOthers, Unreadable, Elsewhere, Rules(<<>>)}
DenySpecs == {DenyOthers}

\* What MergeIsMeant proves of all specs, evaluated for these.
ASSUME MergeAssumption == MergeMeansSpec
=============================================================================
