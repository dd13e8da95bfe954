------------------------------ MODULE SendLoop ------------------------------
(***************************************************************************)
(* The goroutine of StartSendLoop (pkg/send/sender.go) seen from its       *)
(* waits, its HTTP client and its end, together with the goroutine that    *)
(* polls the TLS profile (pkg/config/tlsPoller.go) of a managed cluster.   *)
(* What is sent is the subject of Sender; here a cycle only succeeds,      *)
(* fails or meets a busy indexer.                                          *)
(*                                                                         *)
(* Intervals are computed with the machine's int.  Its width, the unit of  *)
(* the back-off and the factor from milliseconds to a time.Duration are    *)
(* constants, so that a narrow int shows what a 64-bit one does after more *)
(* retries.                                                                *)
(***************************************************************************)
EXTENDS Integers, FiniteSetsExt

CONSTANTS
    IntLimit,      \* an int lies in -IntLimit .. IntLimit - 1 (2^63)
    Second,        \* the unit of the back-off in milliseconds (1000)
    Millisecond,   \* time.Millisecond (10^6)
    MaxBackoff,    \* config.Cfg.MaxBackoffMS
    RetryJitter,   \* config.Cfg.RetryJitterMS
    RetryLimit,    \* a retry count whose interval overflows, see NextRetry
    Exp2,          \* math.Exp2 on the retry counts
    Versions,      \* number of states the ConfigMap goes through
    ProfileAt,     \* its data in each of them, or NoProfile
    NoProfile,     \* there is no ConfigMap
    FaultLimit     \* bound on failed reads and crashes

ASSUME IntervalAssumption ==
    /\ {IntLimit, Second, Millisecond, MaxBackoff, RetryJitter, RetryLimit} \subseteq Nat \ {0}
    /\ Exp2 \in [0..RetryLimit -> Nat \ {0}]
    /\ Exp2[0] = 1
    /\ \A n \in 0..(RetryLimit - 1) : Exp2[n + 1] = 2 * Exp2[n]
    /\ Second <= MaxBackoff /\ RetryJitter <= MaxBackoff
    /\ Millisecond % 2 = 0
    /\ 2 * MaxBackoff + RetryJitter < IntLimit
    /\ MaxBackoff * Millisecond < IntLimit
    /\ Second * Exp2[RetryLimit] >= IntLimit

ASSUME ProfileAssumption ==
    /\ Versions \in Nat \ {0}
    /\ FaultLimit \in Nat

VARIABLES
    pc,            \* where the send loop is
    sending,       \* the payload that sendWithRetry was called with
    sent,          \* lastSentTime is not -1
    retry,         \* busy answers to this payload
    backoffFactor,
    wait,          \* the time slept at pc
    cancelled,     \* mainCtx is done
    version,       \* the state the ConfigMap is in
    client,        \* the state the HTTP client was built from, 0 for a failed read
    poller,        \* where pollTLSProfile is
    lastData,      \* the state whose data it holds, 0 for nil
    tlsReload,     \* a signal is in the channel
    unsynced,      \* the client was built from older data than the poller started
                   \* from, or from none because its read failed
    faults

loopVars == <<pc, sending, sent, retry, backoffFactor, wait>>
tlsVars == <<client, poller, lastData, tlsReload, unsynced>>
vars == <<loopVars, tlsVars, cancelled, version, faults>>

-----------------------------------------------------------------------------
(* Intervals.                                                              *)

Wrap(n) == ((n + IntLimit) % (2 * IntLimit)) - IntLimit

\* Conversion of a float64 that is out of range depends on the machine: the least
\* int on amd64, the greatest on arm64.
ToInt(f) == IF f < IntLimit THEN {f} ELSE {-IntLimit, IntLimit - 1}

addJitter == 0..(RetryJitter - 1)

Limited(ms) == IF ms < MaxBackoff THEN ms ELSE MaxBackoff

\* The intervals that sendInterval may return for a retry count.
sendInterval(n) ==
    {Wrap(Limited(Wrap(f + j)) * Millisecond) : f \in ToInt(Second * Exp2[n]), j \in addJitter}

\* The back-off that a retry count stands for: doubled every time, up to the maximum.
BackoffOf(n) == Limited(Second * Exp2[n]) * Millisecond

\* Counting stops where the interval overflows: from there on it is the same for
\* every count.
NextRetry == IF retry < RetryLimit THEN retry + 1 ELSE retry

\* Mutation: the factor grows with every failure.
BackoffAlways == {IF backoffFactor < RetryLimit THEN backoffFactor + 1 ELSE backoffFactor}

\* The factor after a failed cycle, for each interval that its check may compute.
BackoffAfterError ==
    {IF w < MaxBackoff * Millisecond THEN backoffFactor + 1 ELSE backoffFactor :
        w \in sendInterval(backoffFactor)}

-----------------------------------------------------------------------------
(* The TLS profile.                                                        *)

DataOf(v) == IF v = 0 THEN NoProfile ELSE ProfileAt[v]

Fault == faults < FaultLimit /\ faults' = faults + 1

\* The ConfigMap is created, changed or deleted.
EditProfile ==
    /\ version < Versions
    /\ version' = version + 1
    /\ UNCHANGED <<loopVars, tlsVars, cancelled, faults>>

\* getHTTPSClient takes the TLS configuration from the ConfigMap as it is now; when
\* it cannot be read, or is not there, the Intermediate profile is used.
BuildClient ==
    \/ /\ client' = version
       /\ UNCHANGED <<unsynced, faults>>
    \/ /\ Fault
       /\ client' = 0
       /\ unsynced' = TRUE

\* The first read of the poller, which goes on without data when it fails.
PollerStart ==
    /\ poller = "starting"
    /\ poller' = "polling"
    /\ \/ /\ lastData' = IF DataOf(version) = NoProfile THEN 0 ELSE version
          /\ unsynced' = (unsynced \/ (pc # "new" /\ client < lastData'))
          /\ UNCHANGED faults
       \/ /\ Fault
          /\ UNCHANGED <<lastData, unsynced>>
    /\ UNCHANGED <<loopVars, client, tlsReload, cancelled, version>>

\* Mutation: data that appears for the first time is taken as the first read.
ChangedFromData == lastData # 0 /\ DataOf(version) # DataOf(lastData)

Changed == DataOf(version) # DataOf(lastData)

\* Mutation: the channel has no buffer, and the loop never waits at it.
PollUnbuffered ==
    /\ poller = "polling"
    /\ DataOf(version) # NoProfile
    /\ Changed
    /\ lastData' = version
    /\ UNCHANGED <<loopVars, client, poller, tlsReload, unsynced, cancelled, version, faults>>

\* A tick of the poller: changed data is remembered and signalled, unless a signal
\* is already in the channel.  A read that fails changes nothing.
Poll ==
    /\ poller = "polling"
    /\ DataOf(version) # NoProfile
    /\ Changed
    /\ lastData' = version
    /\ tlsReload' = TRUE
    /\ UNCHANGED <<loopVars, client, poller, unsynced, cancelled, version, faults>>

PollerStop ==
    /\ poller = "polling"
    /\ cancelled
    /\ poller' = "stopped"
    /\ UNCHANGED <<loopVars, client, lastData, tlsReload, unsynced, cancelled, version, faults>>

-----------------------------------------------------------------------------
(* The send loop.                                                          *)

NewSender ==
    /\ pc = "new"
    /\ pc' = "top"
    /\ BuildClient
    /\ UNCHANGED <<sending, sent, retry, backoffFactor, wait,
                   poller, lastData, tlsReload, cancelled, version>>

\* Mutation: the context is not looked at.
ContextIgnored == FALSE

ContextDone == cancelled

Return ==
    /\ pc = "top"
    /\ ContextDone
    /\ pc' = "stopped"
    /\ UNCHANGED <<sending, sent, retry, backoffFactor, wait, tlsVars, cancelled, version, faults>>

\* The receive of checkTLSReload, with the client still to be built.
TakeReload ==
    /\ pc = "top"
    /\ ~ ContextDone
    /\ tlsReload
    /\ tlsReload' = FALSE
    /\ pc' = "reload"
    /\ UNCHANGED <<sending, sent, retry, backoffFactor, wait,
                   client, poller, lastData, unsynced, cancelled, version, faults>>

Rebuild ==
    /\ pc = "reload"
    /\ pc' = "sync"
    /\ BuildClient
    /\ UNCHANGED <<sending, sent, retry, backoffFactor, wait,
                   poller, lastData, tlsReload, cancelled, version>>

NoReload ==
    /\ pc = "top"
    /\ ~ ContextDone
    /\ ~ tlsReload
    /\ pc' = "sync"
    /\ UNCHANGED <<sending, sent, retry, backoffFactor, wait, tlsVars, cancelled, version, faults>>

\* Sync sends the complete state after a failure and a diff otherwise.
StartSync ==
    /\ pc = "sync"
    /\ pc' = "post"
    /\ sending' = IF sent THEN "diff" ELSE "complete"
    /\ UNCHANGED <<sent, retry, backoffFactor, wait, tlsVars, cancelled, version, faults>>

EndCycle(factor) ==
    /\ pc' = "cycleWait"
    /\ sending' = "none"
    /\ retry' = 0
    /\ backoffFactor' = factor
    /\ wait' \in sendInterval(factor)

\* Nothing to send and no heartbeat due.
SkipSync ==
    /\ pc = "sync"
    /\ sent
    /\ EndCycle(1)
    /\ UNCHANGED <<sent, tlsVars, cancelled, version, faults>>

PostOK ==
    /\ pc = "post"
    /\ EndCycle(1)
    /\ sent' = TRUE
    /\ UNCHANGED <<tlsVars, cancelled, version, faults>>

\* The indexer is busy: sleep and send the same payload again.
PostBusy ==
    /\ pc = "post"
    /\ pc' = "busyWait"
    /\ retry' = NextRetry
    /\ wait' \in sendInterval(NextRetry)
    /\ UNCHANGED <<sending, sent, backoffFactor, tlsVars, cancelled, version, faults>>

Resend ==
    /\ pc = "busyWait"
    /\ pc' = "post"
    /\ wait' = 0
    /\ UNCHANGED <<sending, sent, retry, backoffFactor, tlsVars, cancelled, version, faults>>

\* Any other failure: sleep, then reload the configuration and the client.
PostFails ==
    /\ pc = "post"
    /\ pc' = "errorWait"
    /\ retry' = NextRetry
    /\ wait' \in sendInterval(NextRetry)
    /\ UNCHANGED <<sending, sent, backoffFactor, tlsVars, cancelled, version, faults>>

\* ... after which a failed diff is followed by the complete state, and a failed
\* complete state ends the cycle.
ReloadSender ==
    /\ pc = "errorWait"
    /\ BuildClient
    /\ IF sending = "diff"
       THEN /\ pc' = "post"
            /\ sending' = "complete"
            /\ retry' = 0
            /\ wait' = 0
            /\ UNCHANGED <<sent, backoffFactor>>
       ELSE /\ \E factor \in BackoffAfterError : EndCycle(factor)
            /\ sent' = FALSE
    /\ UNCHANGED <<poller, lastData, tlsReload, cancelled, version>>

\* InitConfig panics on a hub kubeconfig that it cannot read, and the pod starts
\* again.
CrashOnReload ==
    /\ pc = "errorWait"
    /\ Fault
    /\ pc' = "new" /\ sending' = "none" /\ sent' = FALSE
    /\ retry' = 0 /\ backoffFactor' = 1 /\ wait' = 0
    /\ client' = 0 /\ poller' = "starting" /\ lastData' = 0
    /\ tlsReload' = FALSE /\ unsynced' = FALSE /\ cancelled' = FALSE
    /\ UNCHANGED version

NextCycle ==
    /\ pc = "cycleWait"
    /\ pc' = "top"
    /\ wait' = 0
    /\ UNCHANGED <<sending, sent, retry, backoffFactor, tlsVars, cancelled, version, faults>>

\* SIGINT or SIGTERM.
Cancel ==
    /\ ~ cancelled
    /\ cancelled' = TRUE
    /\ UNCHANGED <<loopVars, tlsVars, version, faults>>

-----------------------------------------------------------------------------
(* The specification.                                                      *)

Init ==
    /\ pc = "new" /\ sending = "none" /\ sent = FALSE
    /\ retry = 0 /\ backoffFactor = 1 /\ wait = 0
    /\ cancelled = FALSE
    /\ version = 1
    /\ client = 0 /\ poller = "starting" /\ lastData = 0
    /\ tlsReload = FALSE /\ unsynced = FALSE
    /\ faults = 0

Answer == PostOK \/ PostFails

LoopStep ==
    \/ NewSender \/ Return \/ TakeReload \/ Rebuild \/ NoReload
    \/ StartSync \/ SkipSync
    \/ Answer \/ PostBusy \/ Resend \/ ReloadSender \/ NextCycle

PollerStep == PollerStart \/ Poll \/ PollerStop

Next == LoopStep \/ PollerStep \/ EditProfile \/ CrashOnReload \/ Cancel

Spec == Init /\ [][Next]_vars

\* Both goroutines keep running, the ticker ticks, and an indexer is not busy forever.
FairSpec ==
    /\ Spec
    /\ WF_vars(LoopStep)
    /\ WF_vars(PollerStep)
    /\ SF_vars(Answer)

-----------------------------------------------------------------------------
(* Properties.                                                             *)

\* The type invariant.  No sleep is ever negative or longer than MaxBackoffMS, not
\* even when its computation overflows.
TypeOK ==
    /\ pc \in {"new", "top", "reload", "sync", "post", "busyWait", "errorWait",
               "cycleWait", "stopped"}
    /\ sending \in {"none", "diff", "complete"}
    /\ {sent, cancelled, tlsReload, unsynced} \subseteq BOOLEAN
    /\ retry \in 0..RetryLimit
    /\ backoffFactor \in 1..RetryLimit
    /\ wait \in 0..(MaxBackoff * Millisecond)
    /\ version \in 1..Versions
    /\ client \in 0..Versions /\ lastData \in 0..Versions
    /\ poller \in {"starting", "polling", "stopped"}
    /\ faults \in 0..FaultLimit

\* Between two cycles the loop sleeps at least for the back-off of its factor: the
\* check in StartSendLoop stops the factor early enough that the doubled interval
\* never overflows, whatever jitter the check and the sleep draw.
CycleBacksOff == pc = "cycleWait" => wait >= BackoffOf(backoffFactor)

\* The same for the retries of sendWithRetry, whose count nothing stops.
RetryBacksOff == pc = "busyWait" => wait >= BackoffOf(retry)

\* What the poller has seen last, the client was built from, or from something newer,
\* or a signal to build it again is on its way: taking the signal before the read and
\* remembering the data before the send lose no change between them.
ChangeIsSignalled ==
    (pc # "new" /\ poller # "starting" /\ ~ unsynced) =>
        client >= lastData \/ tlsReload \/ pc = "reload"

\* The types and waits of the loop, and that no change of the profile is lost.
LoopInv ==
    /\ TypeOK
    /\ ChangeIsSignalled

\* A ConfigMap that exists and no longer changes is in the end what the client uses,
\* in a collector that is not stopped.
HotReload ==
    <>[](cancelled \/ DataOf(version) \in {NoProfile, DataOf(client)})

\* The same where the client did not miss the change that the poller started from and
\* no read of the ConfigMap failed.  Each change is to other data than any before: data that
\* are changed and changed back between two polls stay in a client built in between.
HotReloadWhenSynced ==
    <>[](cancelled \/ unsynced \/ DataOf(version) \in {NoProfile, DataOf(client)})

\* A cancelled loop ends, from any of its sleeps and also in the middle of a failed
\* diff, once the indexer is no longer busy.
CancelStops == cancelled ~> (pc = "stopped" \/ ~ cancelled)
=============================================================================
