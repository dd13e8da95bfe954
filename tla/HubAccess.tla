------------------------------ MODULE HubAccess ------------------------------
(***************************************************************************)
(* The configuration of a collector on a managed cluster, and the two      *)
(* routines that use it to reach the hub: the sender, which initialises it *)
(* again when a request fails, and the lease reconciler, which does so     *)
(* when the lease on the hub cannot be updated.  The configuration is one  *)
(* global variable without a lock, and the kubeconfig of the hub is        *)
(* rotated meanwhile.                                                      *)
(***************************************************************************)
EXTENDS Integers, FiniteSets

CONSTANTS
    Envs,           \* the environments the process may have
    Files,          \* the values that the chosen configuration file may hold
    Chosen,         \* whether ./config.json exists, and whether -c names another file
    Locals,         \* how the cluster itself may answer requests for leases
    Unset, Bad,     \* a setting that is not given, and one that cannot be parsed
    RotationLimit, HubFaultLimit

Field == {"url", "inHub", "feature", "jitter"}

Default == [url |-> "default", inHub |-> FALSE, feature |-> TRUE, jitter |-> 5000]

Routine == {"sender", "lease"}

Url == {"default", "file", "hub"}

\* A value of the file that the decoder rejects is one that is not given.
ASSUME HubAccessAssumption ==
    /\ Unset # Bad /\ {Unset, Bad} \cap BOOLEAN = {} /\ {Unset, Bad} \cap Url = {}
    /\ \A e \in Envs \cup Files :
          /\ DOMAIN e = Field
          /\ e["url"] \in Url \cup {Unset}
          /\ {e["inHub"], e["feature"]} \subseteq BOOLEAN \cup {Unset, Bad}
          /\ e["jitter"] \in Int \cup {Unset, Bad}
    /\ \A f \in Files : Bad \notin {f["inHub"], f["feature"], f["jitter"]}
    /\ RotationLimit \in Nat /\ HubFaultLimit \in Nat

VARIABLES
    env, file, chosen,  \* what the process is given
    local,              \* how the cluster answers requests for leases
    kubeconfig,         \* the kubeconfig in the mounted secret
    accepted,           \* the one whose credentials the hub accepts
    cfg,                \* config.Cfg
    step,               \* where each routine is
    hubConfig,          \* the kubeconfig that InitConfig has read, in each routine
    sender,             \* the settings the sender uses
    leaseClient,        \* the credentials of HubKubeClient
    fresh,              \* the lease has been renewed in time
    up,                 \* the process runs
    mismatch,           \* it ended because of a configuration mismatch
    hubFaults

given == <<env, file, chosen, local>>
accessVars == <<given, kubeconfig, accepted, cfg, step, hubConfig, sender, leaseClient, fresh,
                up, mismatch, hubFaults>>

HubFault == hubFaults < HubFaultLimit /\ hubFaults' = hubFaults + 1

-----------------------------------------------------------------------------
(* InitConfig, in the parts between which another routine may come.        *)

\* The file is read only if ./config.json exists, whichever file is chosen.
FileRead == chosen.exists

Load(c) == [f \in DOMAIN c |-> IF f \in Field /\ FileRead /\ file[f] # Unset THEN file[f] ELSE c[f]]

setDefault(value, e, default) ==
    IF e # Unset THEN e ELSE IF value = "" THEN default ELSE value

\* An integer that cannot be parsed becomes zero.
setDefaultInt(value, e, default) ==
    IF e = Bad THEN 0
    ELSE IF e # Unset THEN e
    ELSE IF value = 0 THEN default ELSE value

\* Mutation: the file is preferred to the environment.
setDefaultBoolFileFirst(value, e, default) == value \/ e = TRUE \/ (e = Unset /\ default)

setDefaultBool(value, e, default) ==
    IF e = Bad THEN value
    ELSE IF e # Unset THEN e
    ELSE value \/ default

FromEnvironment(c) ==
    [c EXCEPT !.url = setDefault(@, env.url, Default.url),
              !.inHub = setDefaultBool(@, env.inHub, Default.inHub),
              !.feature = setDefaultBool(@, env.feature, Default.feature),
              !.jitter = setDefaultInt(@, env.jitter, Default.jitter)]

FromHubConfig(c, v) == [c EXCEPT !.url = "hub", !.hub = v]

\* InitConfig when nothing else runs.
InitConfig(v) ==
    FromHubConfig(FromEnvironment(Load(
        [url |-> "", inHub |-> FALSE, feature |-> FALSE, jitter |-> 0, hub |-> 0])), v)

-----------------------------------------------------------------------------
(* The hub and the cluster.                                                *)

\* The secret is replaced, and later the old credentials expire.
Rotate ==
    /\ kubeconfig < RotationLimit
    /\ kubeconfig' = kubeconfig + 1
    /\ UNCHANGED <<given, accepted, cfg, step, hubConfig, sender, leaseClient, fresh, up,
                   mismatch, hubFaults>>

Expire ==
    /\ accepted < kubeconfig
    /\ accepted' = kubeconfig
    /\ UNCHANGED <<given, kubeconfig, cfg, step, hubConfig, sender, leaseClient, fresh, up,
                   mismatch, hubFaults>>

LeaseExpires ==
    /\ fresh
    /\ fresh' = FALSE
    /\ UNCHANGED <<given, kubeconfig, accepted, cfg, step, hubConfig, sender, leaseClient, up,
                   mismatch, hubFaults>>

Works(cred) == cred \in accepted..kubeconfig

-----------------------------------------------------------------------------
(* What both routines do to initialise the configuration again.            *)

At(p, s) == up /\ step[p] = s

Go(p, s) == step' = [step EXCEPT ![p] = s]

LoadFile(p) ==
    /\ At(p, "load") /\ Go(p, "environment")
    /\ cfg' = Load(cfg)
    /\ UNCHANGED <<given, kubeconfig, accepted, hubConfig, sender, leaseClient, fresh, up,
                   mismatch, hubFaults>>

ReadEnvironment(p) ==
    /\ At(p, "environment") /\ Go(p, "check")
    /\ cfg' = FromEnvironment(cfg)
    /\ UNCHANGED <<given, kubeconfig, accepted, hubConfig, sender, leaseClient, fresh, up,
                   mismatch, hubFaults>>

\* HUB_CONFIG is set, on a managed cluster.
CheckMismatch(p) ==
    /\ At(p, "check")
    /\ up' = ~cfg.inHub
    /\ mismatch' = cfg.inHub
    /\ Go(p, "read")
    /\ UNCHANGED <<given, kubeconfig, accepted, cfg, hubConfig, sender, leaseClient, fresh, hubFaults>>

ReadHubConfig(p) ==
    /\ At(p, "read") /\ Go(p, "write")
    /\ hubConfig' = [hubConfig EXCEPT ![p] = kubeconfig]
    /\ UNCHANGED <<given, kubeconfig, accepted, cfg, sender, leaseClient, fresh, up, mismatch,
                   hubFaults>>

\* An unreadable kubeconfig is dereferenced all the same.
HubConfigUnreadable(p) ==
    /\ At(p, "read")
    /\ HubFault
    /\ up' = FALSE
    /\ UNCHANGED <<given, kubeconfig, accepted, cfg, step, hubConfig, sender, leaseClient,
                   fresh, mismatch>>

WriteHubConfig(p) ==
    /\ At(p, "write") /\ Go(p, "use")
    /\ cfg' = FromHubConfig(cfg, hubConfig[p])
    /\ UNCHANGED <<given, kubeconfig, accepted, hubConfig, sender, leaseClient, fresh, up,
                   mismatch, hubFaults>>

InitConfigStep(p) ==
    \/ LoadFile(p) \/ ReadEnvironment(p) \/ CheckMismatch(p)
    \/ ReadHubConfig(p) \/ WriteHubConfig(p)

-----------------------------------------------------------------------------
(* The sender and the lease reconciler.                                    *)

SenderWorks == sender.url = "hub" /\ ~sender.inHub /\ Works(sender.cred)

\* A request that fails; others may fail too.
SendFails ==
    /\ At("sender", "idle") /\ Go("sender", "load")
    /\ \/ ~SenderWorks /\ UNCHANGED hubFaults
       \/ SenderWorks /\ HubFault
    /\ UNCHANGED <<given, kubeconfig, accepted, cfg, hubConfig, sender, leaseClient, fresh,
                   up, mismatch>>

\* reloadSender takes the URL and the path ...
ReloadSettings ==
    /\ At("sender", "use") /\ Go("sender", "client")
    /\ sender' = [sender EXCEPT !.url = cfg.url, !.inHub = cfg.inHub]
    /\ UNCHANGED <<given, kubeconfig, accepted, cfg, hubConfig, leaseClient, fresh, up,
                   mismatch, hubFaults>>

\* Mutation: the client is kept.
ReloadClientOnce ==
    /\ At("sender", "client") /\ Go("sender", "idle")
    /\ UNCHANGED <<given, kubeconfig, accepted, cfg, hubConfig, sender, leaseClient, fresh,
                   up, mismatch, hubFaults>>

\* ... and then builds the client, which has no credentials of the hub if the collector
\* seems to run on the hub itself.
ReloadClient ==
    /\ At("sender", "client") /\ Go("sender", "idle")
    /\ sender' = [sender EXCEPT !.cred = IF cfg.inHub THEN -1 ELSE cfg.hub]
    /\ UNCHANGED <<given, kubeconfig, accepted, cfg, hubConfig, leaseClient, fresh, up,
                   mismatch, hubFaults>>

\* Reconcile: the lease is renewed in the cluster, or where that has no leases on the hub.
RenewLease ==
    /\ At("lease", "idle")
    /\ ~fresh
    /\ local = "ok" \/ (local = "not found" /\ Works(leaseClient))
    /\ fresh' = TRUE
    /\ UNCHANGED <<given, kubeconfig, accepted, cfg, step, hubConfig, sender, leaseClient, up,
                   mismatch, hubFaults>>

\* Mutation: a failure on the hub is logged only.
RenewFailsQuietly ==
    /\ At("lease", "idle")
    /\ local = "not found" /\ HubFault
    /\ UNCHANGED <<given, kubeconfig, accepted, cfg, step, hubConfig, sender, leaseClient,
                   fresh, up, mismatch>>

\* Any other answer of the cluster is only logged; a failure on the hub reloads the
\* clients.
RenewFails ==
    /\ At("lease", "idle") /\ Go("lease", "load")
    /\ local = "not found"
    /\ \/ ~Works(leaseClient) /\ UNCHANGED hubFaults
       \/ Works(leaseClient) /\ HubFault
    /\ UNCHANGED <<given, kubeconfig, accepted, cfg, hubConfig, sender, leaseClient, fresh,
                   up, mismatch>>

ReloadLeaseClient ==
    /\ At("lease", "use") /\ Go("lease", "idle")
    /\ leaseClient' = cfg.hub
    /\ UNCHANGED <<given, kubeconfig, accepted, cfg, hubConfig, sender, fresh, up, mismatch, hubFaults>>

\* The process is started again; main initialises the configuration alone.
Restart ==
    /\ ~up
    /\ up' = TRUE
    /\ cfg' = InitConfig(kubeconfig)
    /\ step' = [p \in Routine |-> "idle"]
    /\ sender' = [url |-> cfg'.url, inHub |-> cfg'.inHub, cred |-> cfg'.hub]
    /\ leaseClient' = cfg'.hub
    /\ UNCHANGED <<given, kubeconfig, accepted, hubConfig, fresh, mismatch, hubFaults>>

-----------------------------------------------------------------------------
AccessInit ==
    /\ env \in Envs /\ file \in Files /\ chosen \in Chosen /\ local \in Locals
    /\ kubeconfig = 0 /\ accepted = 0
    /\ cfg = InitConfig(0)
    /\ step = [p \in Routine |-> "idle"]
    /\ hubConfig = [p \in Routine |-> 0]
    /\ sender = [url |-> cfg.url, inHub |-> cfg.inHub, cred |-> 0]
    /\ leaseClient = 0
    /\ fresh = FALSE /\ up = TRUE /\ mismatch = FALSE /\ hubFaults = 0

SenderStep == InitConfigStep("sender") \/ SendFails \/ ReloadSettings \/ ReloadClient

LeaseStep == InitConfigStep("lease") \/ RenewLease \/ RenewFails \/ ReloadLeaseClient

AccessNext ==
    \/ Rotate \/ Expire \/ LeaseExpires
    \/ SenderStep
    \/ LeaseStep
    \/ \E p \in Routine : HubConfigUnreadable(p)
    \/ Restart

\* Both routines go on, and the process is started again when it ends.
Fairness == WF_accessVars(SenderStep) /\ WF_accessVars(LeaseStep) /\ WF_accessVars(Restart)

AccessSpec == AccessInit /\ [][AccessNext]_accessVars /\ Fairness

-----------------------------------------------------------------------------
(* Properties.                                                             *)

\* The type invariant.
AccessTypeOK ==
    /\ kubeconfig \in 0..RotationLimit /\ accepted \in 0..kubeconfig
    /\ cfg.url \in Url /\ {cfg.inHub, cfg.feature} \subseteq BOOLEAN
    /\ cfg.jitter \in Int /\ cfg.hub \in 0..kubeconfig
    /\ step \in [Routine -> {"idle", "load", "environment", "check", "read", "write", "use", "client"}]
    /\ hubConfig \in [Routine -> 0..kubeconfig]
    /\ sender \in [url : Url, inHub : BOOLEAN, cred : -1..kubeconfig]
    /\ leaseClient \in 0..kubeconfig
    /\ {fresh, up, mismatch} \subseteq BOOLEAN /\ hubFaults \in 0..HubFaultLimit

\* The settings that decide whether the collector runs on the hub can be read: the
\* environment does not give that setting in a form that cannot be parsed, and no other
\* file is chosen where ./config.json, whose existence is what is tested, is missing.
SettingsReadable ==
    /\ \A e \in Envs : e["inHub"] # Bad
    /\ \A c \in Chosen : c.other => c.exists

\* What is preferred of a setting: the environment, the chosen file, the default.
Preferred(f) ==
    IF env[f] # Unset THEN env[f]
    ELSE IF (chosen.exists \/ chosen.other) /\ file[f] # Unset THEN file[f]
    ELSE Default[f]

\* Between initialisations the collector is on a managed cluster as its environment says,
\* whatever other routine was initialising at the same time.
EnvironmentWins ==
    up /\ (\A p \in Routine : step[p] = "idle") => cfg.inHub = Preferred("inHub")

\* The types of the configuration and its users, and what is in force.
AccessInv ==
    /\ AccessTypeOK
    /\ EnvironmentWins

\* With rotations and faults the sender comes to use settings that the hub accepts.
SenderRecovers == <>[](up /\ SenderWorks)

\* A lease that runs out is renewed.
LeaseRecovers == ~fresh ~> fresh

\* The process does not end for being on the hub when its environment says it is not.
NoFalseMismatch == mismatch => env.inHub = TRUE
=============================================================================
