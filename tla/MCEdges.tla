------------------------------ MODULE MCEdges ------------------------------
(***************************************************************************)
(* Edges on small clusters, of resources that refer to each other.         *)
(***************************************************************************)
EXTENDS Edges, TLC

Nothing ==
    [owner |-> None, release |-> None, hostSub |-> None, hostDep |-> None,
     names |-> {}, refs |-> {}, labels |-> {}, selector |-> None,
     generator |-> None, reportOn |-> None, param |-> None, paramKind |-> None,
     version |-> "v1"]

Named(k, ns, n) == [kind |-> k, ns |-> ns, name |-> n]

Ref(by, g, k, ns, n) == [by |-> by, group |-> g, kind |-> k, ns |-> ns, name |-> n]

\* Each resource: group, kind, namespace, name and what may be extracted from it.
Resources ==
    [app |-> <<"app.k8s.io", "Application", "ns", "app",
               {[Nothing EXCEPT !.names = {Named("Subscription", "ns", "sub")}]}>>,
     app2 |-> <<"app.k8s.io", "Application", "ns", "web",
                {[Nothing EXCEPT !.names = {Named("Subscription", "ns", "sub"),
                                            Named("Deployable", "ns", "dep")},
                                 !.owner = "dpl"]}>>,
     sub |-> <<"apps.open-cluster-management.io", "Subscription", "ns", "sub",
               {[Nothing EXCEPT !.names = {Named("Channel", "ch-ns", "chn")}],
                [Nothing EXCEPT !.names = {Named("Channel", "ch-ns", "chn"),
                                           Named("PlacementRule", Plain, "rule")},
                                !.hostDep = <<"ns", "dep">>]}>>,
     chn |-> <<"apps.open-cluster-management.io", "Channel", "ch-ns", "chn",
               {[Nothing EXCEPT !.names = {Named("Secret", Plain, "pull")}],
                [Nothing EXCEPT !.labels = {"HelmRepo"}]}>>,
     dep |-> <<"apps.open-cluster-management.io", "Deployable", "ns", "dep",
               {[Nothing EXCEPT !.owner = "sub", !.names = {Named("PlacementRule", Plain, "rule")}]}>>,
     rule |-> <<"apps.open-cluster-management.io", "PlacementRule", "ns", "rule", {Nothing}>>,
     dpl |-> <<"apps", "Deployment", "ns", "dpl",
               {[Nothing EXCEPT !.hostSub = <<"ns", "sub">>],
                [Nothing EXCEPT !.hostSub = <<"ns", "sub">>, !.owner = "pod"]}>>,
     pod |-> <<"", "Pod", "ns", "pod",
               {[Nothing EXCEPT !.owner = "dpl", !.labels = {"l"},
                                !.names = {Named("PersistentVolumeClaim", Plain, "pvc"),
                                           Named("Secret", Plain, "pull")},
                                !.refs = {Ref("runsOn", AnyGroup, "Node", NoNamespace, "host")}]}>>,
     pvc |-> <<"", "PersistentVolumeClaim", "ns", "pvc",
               {[Nothing EXCEPT !.names = {Named("PersistentVolume", Plain, "vol")}]}>>,
     vol |-> <<"", "PersistentVolume", NoNamespace, "vol", {Nothing}>>,
     node |-> <<"", "Node", NoNamespace, "host", {Nothing}>>,
     svc |-> <<"", "Service", "ns", "svc", {[Nothing EXCEPT !.selector = {"l"}]}>>,
     helm |-> <<"apps.open-cluster-management.io", "HelmRelease", "ns", "rel", {Nothing}>>,
     helm2 |-> <<"apps.open-cluster-management.io", "HelmRelease", "ns", "rel", {Nothing}>>,
     role |-> <<"rbac.authorization.k8s.io", "ClusterRole", NoNamespace, "role",
                {[Nothing EXCEPT !.release = <<"ns", "rel">>]}>>,
     pol |-> <<"kyverno.io", "ClusterPolicy", NoNamespace, "pol", {Nothing}>>,
     rep |-> <<"wgpolicyk8s.io", "PolicyReport", "ns", "rep",
               {[Nothing EXCEPT !.labels = {"kyverno"}, !.reportOn = "cm",
                                !.refs = {Ref("policy", AnyGroup, "ClusterPolicy", NoNamespace, "pol")}]}>>,
     cm |-> <<"", "ConfigMap", "ns", "cm",
              {[Nothing EXCEPT !.labels = {"l"},
                               !.generator = [legacy |-> TRUE, ns |-> NoNamespace, name |-> "pol"],
                               !.refs = {Ref("mutation", AnyGroup, "Assign", NoNamespace, "asg")}]}>>,
     asg |-> <<"mutations.gatekeeper.sh", "Assign", NoNamespace, "asg", {Nothing}>>,
     cp |-> <<"policy.open-cluster-management.io", "ConfigurationPolicy", "ns", "cp",
              {[Nothing EXCEPT !.refs = {Ref("related", AnyGroup, "ConfigMap", "ns", "cm")}]}>>,
     con |-> <<"constraints.gatekeeper.sh", "K8sLabels", NoNamespace, "con",
               {[Nothing EXCEPT !.refs = {Ref("related", "", "ConfigMap", "ns", "cm"),
                                          Ref("config", AnyGroup, "Assign", NoNamespace, "asg")}]}>>,
     argo |-> <<"argoproj.io", "Application", "ns", "app",
                {[Nothing EXCEPT !.refs = {Ref("resource", "", "ConfigMap", "ns", "cm")}]}>>,
     vap |-> <<"admissionregistration.k8s.io", "ValidatingAdmissionPolicy", NoNamespace, "vap",
               {Nothing, [Nothing EXCEPT !.paramKind = <<"", "ConfigMap", "v1">>],
                [Nothing EXCEPT !.paramKind = <<"", "ConfigMap", "v2">>]}>>,
     bind |-> <<"admissionregistration.k8s.io", "ValidatingAdmissionPolicyBinding", NoNamespace, "bind",
                {[Nothing EXCEPT !.names = {Named("ValidatingAdmissionPolicy", Plain, "vap")},
                                 !.param = [ns |-> "ns", name |-> None, selector |-> {"l"}]]}>>,
     \* An application whose name begins the name of another one.
     sfx |-> <<"app.k8s.io", "Application", "ns", "app2",
               {[Nothing EXCEPT !.names = {Named("Subscription", "ns", "sub")}]}>>]

MCUID == DOMAIN Resources

MCGroup == [u \in UID |-> Resources[u][1]]
MCKind == [u \in UID |-> Resources[u][2]]
MCNamespace == [u \in UID |-> Resources[u][3]]
MCName == [u \in UID |-> Resources[u][4]]
MCContents == [u \in UID |-> Resources[u][5]]

Groups ==
    <<"", "admissionregistration.k8s.io", "app.k8s.io", "apps", "apps.open-cluster-management.io",
      "argoproj.io", "constraints.gatekeeper.sh", "kyverno.io", "mutations.gatekeeper.sh",
      "policy.open-cluster-management.io", "rbac.authorization.k8s.io", "wgpolicyk8s.io">>

MCGroupRank == [g \in Range(Groups) |-> CHOOSE i \in DOMAIN Groups : Groups[i] = g]

MCWithin == {<< <<"ns", "app">>, <<"ns", "app2">> >>}

MCClusters ==
    {{"app", "app2", "sub", "dpl", "pod"}, {"app2", "sub", "chn", "dep", "rule"},
     {"pod", "pvc", "vol", "node", "svc"}, {"pol", "rep", "cm", "asg", "argo"},
     {"cm", "asg", "con", "cp"}, {"vap", "bind", "cm"}, {"app", "argo", "sub"},
     {"helm", "role"}, {"helm", "helm2"}}

ASSUME NoSelfReference

SuffixClusters == {{"app", "sfx", "sub", "dpl"}}

ReleaseClusters == {{"helm", "helm2", "role"}}
=============================================================================
