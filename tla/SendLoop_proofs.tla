--------------------------- MODULE SendLoop_proofs ---------------------------
(***************************************************************************)
(* Proofs about the waits of the send loop and the reload of its TLS       *)
(* profile (SendLoop), for any width of an int, any unit, limit and jitter *)
(* within it, and any number of changes of the profile, and about the      *)
(* access to the hub that a failed send initialises again (HubAccess), for *)
(* any settings, rotations and faults.  The two are proved about apart     *)
(* from each other.                                                        *)
(***************************************************************************)
EXTENDS SendLoop, HubAccess, TLAPS

-----------------------------------------------------------------------------
(* Arithmetic.                                                             *)

\* A product grows with its first factor.
LEMMA TimesMonotone ==
    ASSUME NEW a \in Int, NEW b \in Int, a <= b, NEW m \in Nat
    PROVE  a * m <= b * m
<1>1. (b - a) * m >= 0
  BY b - a \in Nat
<1>2. (b - a) * m = b * m - a * m
  OBVIOUS
<1>3. a * m \in Int /\ b * m \in Int
  OBVIOUS
<1> QED BY <1>1, <1>2, <1>3

\* The remainder of a division is the one number below the divisor that differs from the
\* dividend by a multiple of it.
LEMMA RemainderUnique ==
    ASSUME NEW m \in Nat \ {0}, NEW q \in Int, NEW r \in 0..(m - 1)
    PROVE  (q * m + r) % m = r
<1> DEFINE x == q * m + r
           d == x \div m
           s == x % m
<1>1. x \in Int
  OBVIOUS
<1>2. d \in Int /\ s \in 0..(m - 1) /\ x = m * d + s
  BY <1>1
<1>3. m * (d - q) = r - s
  BY <1>2
<1> HIDE DEF x, d, s
<1>4. d - q < 1
  <2> SUFFICES ASSUME d - q >= 1 PROVE FALSE
    BY <1>2
  <2>1. 1 * m <= (d - q) * m
    BY <1>2, TimesMonotone
  <2> QED BY <1>2, <1>3, <2>1
<1>5. d - q > -1
  <2> SUFFICES ASSUME d - q <= -1 PROVE FALSE
    BY <1>2
  <2>1. (d - q) * m <= (-1) * m
    BY <1>2, TimesMonotone
  <2> QED BY <1>2, <1>3, <2>1
<1>6. d - q = 0
  BY <1>2, <1>4, <1>5
<1>7. s = r
  BY <1>2, <1>3, <1>6
<1> QED BY <1>7 DEF x, s

\* An int keeps a number of its range and drops multiples of its size.
LEMMA WrapKeeps ==
    ASSUME NEW n \in (-IntLimit)..(IntLimit - 1), NEW k \in Int
    PROVE  Wrap(n + k * (2 * IntLimit)) = n
<1>1. IntLimit \in Nat \ {0}
  BY IntervalAssumption
<1>2. 2 * IntLimit \in Nat \ {0} /\ n + IntLimit \in 0..(2 * IntLimit - 1)
  BY <1>1
<1>3. (k * (2 * IntLimit) + (n + IntLimit)) % (2 * IntLimit) = n + IntLimit
  BY <1>2, RemainderUnique
<1>4. k * (2 * IntLimit) + (n + IntLimit) = n + k * (2 * IntLimit) + IntLimit
  BY <1>1
<1> QED BY <1>1, <1>3, <1>4 DEF Wrap

\* An int keeps a number of its range.
LEMMA WrapInRange ==
    ASSUME NEW n \in (-IntLimit)..(IntLimit - 1)
    PROVE  Wrap(n) = n
<1>1. IntLimit \in Nat
  BY IntervalAssumption
<1>2. n + 0 * (2 * IntLimit) = n
  BY <1>1
<1> QED BY <1>2, WrapKeeps

\* The constants, as the leaves below use them.
LEMMA IntervalFacts ==
    /\ IntLimit \in Nat /\ IntLimit > 0
    /\ Second \in Nat /\ MaxBackoff \in Nat /\ RetryJitter \in Nat
    /\ Millisecond \in Nat /\ RetryLimit \in Nat /\ RetryLimit >= 1
    /\ Second <= MaxBackoff /\ RetryJitter <= MaxBackoff
    /\ 2 * MaxBackoff + RetryJitter < IntLimit
    /\ MaxBackoff * Millisecond \in Nat /\ MaxBackoff * Millisecond < IntLimit
BY IntervalAssumption

\* The interval in milliseconds before it is limited, as a float64.
LEMMA SecondsInNat ==
    ASSUME NEW n \in 0..RetryLimit
    PROVE  Second * Exp2[n] \in Nat
<1>1. Exp2[n] \in Nat
  BY IntervalAssumption
<1> QED BY <1>1, IntervalFacts

\* A number of milliseconds within the limit is a duration that does not overflow.
LEMMA DurationInRange ==
    ASSUME NEW ms \in 0..MaxBackoff
    PROVE  /\ Wrap(ms * Millisecond) = ms * Millisecond
           /\ ms * Millisecond \in 0..(MaxBackoff * Millisecond)
<1>1. ms \in Int /\ 0 <= ms /\ ms <= MaxBackoff /\ 0 * Millisecond = 0
  BY IntervalFacts
<1>2. 0 * Millisecond <= ms * Millisecond
  BY <1>1, TimesMonotone, IntervalFacts
<1>3. ms * Millisecond <= MaxBackoff * Millisecond
  BY <1>1, TimesMonotone, IntervalFacts
<1>4. ms * Millisecond \in Int
  BY <1>1, IntervalFacts
<1>5. ms * Millisecond \in (-IntLimit)..(IntLimit - 1)
  BY <1>1, <1>2, <1>3, <1>4, IntervalFacts
<1> QED BY <1>1, <1>2, <1>3, <1>4, <1>5, WrapInRange, IntervalFacts

\* A number of milliseconds that overflowed is negative and stays below the limit; as
\* time.Millisecond is even, the multiplication overflows to the jitter alone.
LEMMA DurationOverflows ==
    ASSUME NEW k \in 0..MaxBackoff
    PROVE  Wrap((k - IntLimit) * Millisecond) = k * Millisecond
<1>1. PICK h \in Int : Millisecond = 2 * h
  <2>1. Millisecond \in Nat /\ Millisecond % 2 = 0
    BY IntervalAssumption
  <2>2. Millisecond = 2 * (Millisecond \div 2) /\ Millisecond \div 2 \in Int
    BY <2>1
  <2> QED BY <2>2
<1>2. (k - IntLimit) * Millisecond = k * Millisecond - IntLimit * Millisecond
  BY IntervalFacts
<1>3. IntLimit * Millisecond = h * (2 * IntLimit)
  BY <1>1, IntervalFacts
<1>4. (-h) * (2 * IntLimit) = - (h * (2 * IntLimit)) /\ h * (2 * IntLimit) \in Int
  BY IntervalFacts
<1>5. k * Millisecond \in Int
  BY IntervalFacts
<1>6. (k - IntLimit) * Millisecond = k * Millisecond + (-h) * (2 * IntLimit)
  BY <1>2, <1>3, <1>4, <1>5
<1>7. k * Millisecond \in (-IntLimit)..(IntLimit - 1)
  BY DurationInRange, IntervalFacts
<1>8. Wrap(k * Millisecond + (-h) * (2 * IntLimit)) = k * Millisecond
  BY <1>7, WrapKeeps
<1> QED BY <1>6, <1>8

\* No interval is negative or longer than MaxBackoffMS, for any count of retries.
LEMMA IntervalInRange ==
    ASSUME NEW n \in 0..RetryLimit, NEW w \in sendInterval(n)
    PROVE  w \in 0..(MaxBackoff * Millisecond)
<1>1. PICK f \in ToInt(Second * Exp2[n]), j \in addJitter :
          w = Wrap(Limited(Wrap(f + j)) * Millisecond)
  BY DEF sendInterval
<1>2. j \in 0..(RetryJitter - 1) /\ j < MaxBackoff
  BY IntervalFacts DEF addJitter
<1>3. f \in Int /\ (f = -IntLimit \/ (0 <= f /\ f < IntLimit))
  BY SecondsInNat, IntervalFacts DEF ToInt
<1>4. CASE 0 <= f /\ f + j < IntLimit
  <2>1. Wrap(f + j) = f + j
    BY <1>2, <1>3, <1>4, WrapInRange, IntervalFacts
  <2>2. Limited(f + j) \in 0..MaxBackoff
    BY <1>2, <1>3, <1>4, IntervalFacts DEF Limited
  <2> QED BY <1>1, <2>1, <2>2, DurationInRange
<1>5. CASE f = -IntLimit
  <2>1. Wrap(f + j) = j - IntLimit
    BY <1>2, <1>3, <1>5, WrapInRange, IntervalFacts
  <2>2. Limited(j - IntLimit) = j - IntLimit
    BY <1>2, IntervalFacts DEF Limited
  <2>3. j \in 0..MaxBackoff
    BY <1>2, IntervalFacts
  <2>4. w = j * Millisecond
    BY <1>1, <2>1, <2>2, <2>3, DurationOverflows
  <2> QED BY <2>3, <2>4, DurationInRange
<1>6. CASE 0 <= f /\ f + j >= IntLimit
  <2> DEFINE k == f + j - IntLimit
  <2>1. k \in 0..MaxBackoff /\ k < RetryJitter
    BY <1>2, <1>3, <1>6, IntervalFacts
  <2>2. k - IntLimit \in (-IntLimit)..(IntLimit - 1)
    BY <2>1, IntervalFacts
  <2>3. f + j = (k - IntLimit) + 1 * (2 * IntLimit)
    BY <1>2, <1>3, IntervalFacts
  <2>4. Wrap((k - IntLimit) + 1 * (2 * IntLimit)) = k - IntLimit
    BY <2>2, WrapKeeps
  <2>5. Wrap(f + j) = k - IntLimit
    BY <2>3, <2>4
  <2>6. Limited(k - IntLimit) = k - IntLimit
    BY <2>1, IntervalFacts DEF Limited
  <2>7. w = k * Millisecond
    BY <1>1, <2>1, <2>5, <2>6, DurationOverflows
  <2> QED BY <2>1, <2>7, DurationInRange
<1> QED BY <1>2, <1>3, <1>4, <1>5, <1>6, IntervalFacts

\* Where the doubled second is at most twice the limit, nothing overflows, and the
\* interval is the back-off and more.
LEMMA IntervalBacksOff ==
    ASSUME NEW n \in 0..RetryLimit, NEW w \in sendInterval(n),
           Second * Exp2[n] <= 2 * MaxBackoff
    PROVE  /\ w >= BackoffOf(n)
           /\ w < MaxBackoff * Millisecond => Second * Exp2[n] < MaxBackoff
<1> DEFINE s == Second * Exp2[n]
<1>1. s \in Nat /\ s <= 2 * MaxBackoff
  BY SecondsInNat
<1> HIDE DEF s
<1>2. ToInt(s) = {s}
  BY <1>1, IntervalFacts DEF ToInt
<1>3. PICK j \in addJitter : w = Wrap(Limited(Wrap(s + j)) * Millisecond)
  BY <1>2 DEF sendInterval, s
<1>4. j \in Nat /\ j < RetryJitter
  BY IntervalFacts DEF addJitter
<1>5. Wrap(s + j) = s + j
  BY <1>1, <1>4, WrapInRange, IntervalFacts
<1>6. /\ Limited(s + j) \in 0..MaxBackoff
      /\ Limited(s) \in 0..MaxBackoff /\ Limited(s) <= Limited(s + j)
      /\ s >= MaxBackoff => Limited(s + j) = MaxBackoff
  BY <1>1, <1>4, IntervalFacts DEF Limited
<1>7. w = Limited(s + j) * Millisecond
  BY <1>3, <1>5, <1>6, DurationInRange
<1>8. Limited(s) * Millisecond <= Limited(s + j) * Millisecond
  BY <1>6, TimesMonotone, IntervalFacts
<1>9. Limited(s) * Millisecond \in Int /\ w \in Int
  BY <1>6, <1>7, IntervalFacts
<1>10. w >= Limited(s) * Millisecond
  BY <1>7, <1>8, <1>9
<1>11. w < MaxBackoff * Millisecond => s < MaxBackoff
  <2> SUFFICES ASSUME w < MaxBackoff * Millisecond, s >= MaxBackoff PROVE FALSE
    BY <1>1, IntervalFacts
  <2>1. w = MaxBackoff * Millisecond
    BY <1>6, <1>7
  <2> QED BY <2>1, IntervalFacts
<1> QED BY <1>10, <1>11 DEF BackoffOf, s

-----------------------------------------------------------------------------
(* The inductive invariant.                                                *)

\* The factor stops growing where the doubled second reaches the limit.
FactorStops == Second * Exp2[backoffFactor] <= 2 * MaxBackoff

\* What was read of the ConfigMap is not newer than the ConfigMap, and a poller that has
\* not started holds nothing.
ReadBefore ==
    /\ client <= version /\ lastData <= version
    /\ poller = "starting" => lastData = 0

LoopIInv ==
    /\ LoopInv
    /\ CycleBacksOff
    /\ FactorStops
    /\ ReadBefore

\* The part of it about the waits, and the part about the TLS profile.
LoopPart ==
    /\ pc \in {"new", "top", "reload", "sync", "post", "busyWait", "errorWait",
               "cycleWait", "stopped"}
    /\ sending \in {"none", "diff", "complete"}
    /\ sent \in BOOLEAN
    /\ retry \in 0..RetryLimit
    /\ backoffFactor \in 1..RetryLimit
    /\ wait \in 0..(MaxBackoff * Millisecond)
    /\ CycleBacksOff
    /\ FactorStops

ProfilePart ==
    /\ cancelled \in BOOLEAN /\ tlsReload \in BOOLEAN /\ unsynced \in BOOLEAN
    /\ version \in 1..Versions
    /\ client \in 0..Versions /\ lastData \in 0..Versions
    /\ poller \in {"starting", "polling", "stopped"}
    /\ faults \in 0..FaultLimit
    /\ ChangeIsSignalled
    /\ ReadBefore

\* The two parts are the invariant.
LEMMA Parts == LoopIInv <=> LoopPart /\ ProfilePart
BY DEF LoopIInv, LoopInv, TypeOK, LoopPart, ProfilePart

\* The first factor is within the limit, for its doubled second is two.
LEMMA FirstFactor == 1 \in 1..RetryLimit /\ Second * Exp2[1] <= 2 * MaxBackoff
<1>1. 0 \in 0..(RetryLimit - 1) /\ Exp2[0] = 1
  BY IntervalFacts, IntervalAssumption
<1>2. Exp2[0 + 1] = 2 * Exp2[0]
  BY <1>1, IntervalAssumption
<1>3. Exp2[1] = 2
  BY <1>1, <1>2
<1> QED BY <1>3, IntervalFacts

\* Neither loop nor poller has started initially.
LEMMA LoopInit == Init => LoopIInv
<1> SUFFICES ASSUME Init PROVE LoopPart /\ ProfilePart
  BY Parts
<1>1. LoopPart
  <2>1. sent \in BOOLEAN
    BY Zenon DEF Init
  <2>2. retry \in 0..RetryLimit /\ wait \in 0..(MaxBackoff * Millisecond)
    BY IntervalFacts DEF Init
  <2> QED BY <2>1, <2>2, FirstFactor DEF Init, LoopPart, CycleBacksOff, FactorStops
<1>2. ProfilePart
  <2>1. cancelled \in BOOLEAN /\ tlsReload \in BOOLEAN /\ unsynced \in BOOLEAN
    BY Zenon DEF Init
  <2>2. /\ version \in 1..Versions /\ client \in 0..Versions /\ lastData \in 0..Versions
        /\ faults \in 0..FaultLimit
    BY ProfileAssumption DEF Init
  <2>3. ReadBefore
    BY DEF Init, ReadBefore
  <2> QED BY <2>1, <2>2, <2>3 DEF Init, ProfilePart, ChangeIsSignalled
<1> QED BY <1>1, <1>2

\* A factor that is within the limit after a cycle keeps the waits in order.
LEMMA EndCycleKeeps ==
    ASSUME LoopPart, NEW factor \in 1..RetryLimit, Second * Exp2[factor] <= 2 * MaxBackoff,
           EndCycle(factor), sent' \in BOOLEAN
    PROVE  LoopPart'
<1>1. factor \in 0..RetryLimit
  BY IntervalFacts
<1>2. wait' \in sendInterval(factor) /\ backoffFactor' = factor
  BY DEF EndCycle
<1>3. wait' \in 0..(MaxBackoff * Millisecond) /\ wait' >= BackoffOf(factor)
  BY <1>1, <1>2, IntervalInRange, IntervalBacksOff
<1> QED BY <1>2, <1>3, IntervalFacts DEF EndCycle, LoopPart, CycleBacksOff, FactorStops, BackoffOf

\* The factor after a failed cycle: it grows only below the limit, where the interval
\* that is checked did not overflow.
LEMMA FactorAfterError ==
    ASSUME LoopPart, NEW factor \in BackoffAfterError
    PROVE  factor \in 1..RetryLimit /\ Second * Exp2[factor] <= 2 * MaxBackoff
<1>1. PICK w \in sendInterval(backoffFactor) :
          factor = IF w < MaxBackoff * Millisecond THEN backoffFactor + 1 ELSE backoffFactor
  BY DEF BackoffAfterError
<1>2. backoffFactor \in 0..RetryLimit /\ backoffFactor \in 1..RetryLimit
  BY IntervalFacts DEF LoopPart
<1>3. Second * Exp2[backoffFactor] <= 2 * MaxBackoff
  BY DEF LoopPart, FactorStops
<1>4. CASE w < MaxBackoff * Millisecond
  <2>1. Second * Exp2[backoffFactor] < MaxBackoff
    BY <1>2, <1>3, <1>4, IntervalBacksOff
  <2>2. backoffFactor # RetryLimit
    <3> SUFFICES ASSUME backoffFactor = RetryLimit PROVE FALSE
      OBVIOUS
    <3>1. Second * Exp2[RetryLimit] >= IntLimit
      BY IntervalAssumption
    <3>2. Second * Exp2[RetryLimit] \in Nat
      BY SecondsInNat, IntervalFacts
    <3> QED BY <1>3, <3>1, <3>2, IntervalFacts
  <2>3. backoffFactor \in 0..(RetryLimit - 1)
    BY <1>2, <2>2, IntervalFacts
  <2>4. Exp2[backoffFactor + 1] = 2 * Exp2[backoffFactor] /\ Exp2[backoffFactor] \in Nat
    BY <1>2, <2>3, IntervalAssumption
  <2>5. Second * Exp2[backoffFactor + 1] = 2 * (Second * Exp2[backoffFactor])
    BY <2>4, IntervalFacts
  <2>6. Second * Exp2[backoffFactor] \in Nat
    BY <1>2, SecondsInNat
  <2>7. Second * Exp2[backoffFactor + 1] <= 2 * MaxBackoff
    BY <2>1, <2>5, <2>6, IntervalFacts
  <2> QED BY <1>1, <1>4, <2>3, <2>7, IntervalFacts
<1>5. CASE ~(w < MaxBackoff * Millisecond)
  BY <1>1, <1>2, <1>3, <1>5
<1> QED BY <1>4, <1>5

\* A retry counts on and waits in range, whether its interval overflowed or not.
LEMMA RetryInRange ==
    ASSUME LoopPart, NEW w \in sendInterval(NextRetry)
    PROVE  NextRetry \in 0..RetryLimit /\ w \in 0..(MaxBackoff * Millisecond)
<1>1. NextRetry \in 0..RetryLimit
  BY IntervalFacts DEF NextRetry, LoopPart
<1> QED BY <1>1, IntervalInRange

\* The wait that was slept through is reset.
LEMMA ZeroWait == 0 \in 0..(MaxBackoff * Millisecond)
BY IntervalFacts

\* Every step keeps the part about the waits.
LEMMA LoopPartInv ==
    ASSUME LoopPart, [Next]_vars
    PROVE  LoopPart'
<1>1. CASE UNCHANGED loopVars
  BY <1>1 DEF loopVars, LoopPart, CycleBacksOff, FactorStops
<1>2. CASE NewSender \/ Return \/ TakeReload \/ Rebuild \/ NoReload \/ StartSync
  BY <1>2 DEF NewSender, Return, TakeReload, Rebuild, NoReload, StartSync,
              LoopPart, CycleBacksOff, FactorStops
<1>3. CASE SkipSync \/ PostOK
  BY <1>3, FirstFactor, EndCycleKeeps DEF SkipSync, PostOK, LoopPart
<1>4. CASE PostBusy \/ PostFails
  <2>1. NextRetry \in 0..RetryLimit /\ wait' \in 0..(MaxBackoff * Millisecond)
    BY <1>4, RetryInRange DEF PostBusy, PostFails
  <2> QED BY <1>4, <2>1 DEF PostBusy, PostFails, LoopPart, CycleBacksOff, FactorStops
<1>5. CASE Resend \/ NextCycle
  BY <1>5, ZeroWait DEF Resend, NextCycle, LoopPart, CycleBacksOff, FactorStops
<1>6. CASE ReloadSender
  <2>1. CASE sending = "diff"
    BY <1>6, <2>1, ZeroWait, IntervalFacts DEF ReloadSender, LoopPart, CycleBacksOff, FactorStops
  <2>2. CASE sending # "diff"
    <3>1. PICK factor \in BackoffAfterError : EndCycle(factor)
      BY <1>6, <2>2 DEF ReloadSender
    <3>2. sent' \in BOOLEAN
      BY <1>6, <2>2 DEF ReloadSender
    <3> QED BY <3>1, <3>2, FactorAfterError, EndCycleKeeps
  <2> QED BY <2>1, <2>2
<1>7. CASE CrashOnReload
  <2>1. sent' \in BOOLEAN
    BY <1>7, Zenon DEF CrashOnReload
  <2>2. retry' \in 0..RetryLimit /\ wait' \in 0..(MaxBackoff * Millisecond)
    BY <1>7, IntervalFacts DEF CrashOnReload
  <2> QED BY <1>7, <2>1, <2>2, FirstFactor DEF CrashOnReload, LoopPart, CycleBacksOff, FactorStops
<1>8. CASE PollerStep \/ EditProfile \/ Cancel
  BY <1>1, <1>8 DEF PollerStep, PollerStart, Poll, PollerStop, EditProfile, Cancel
<1> QED BY <1>1, <1>2, <1>3, <1>4, <1>5, <1>6, <1>7, <1>8 DEF Next, LoopStep, Answer, vars

\* A client that is built again is built from what the ConfigMap holds now, or counts as
\* unsynced.
LEMMA BuildClientKeeps ==
    ASSUME ProfilePart, BuildClient, UNCHANGED <<poller, lastData, tlsReload, cancelled, version>>
    PROVE  ProfilePart'
<1>1. /\ version \in 1..Versions /\ lastData \in 0..Versions /\ lastData <= version
      /\ Versions \in Nat /\ faults \in 0..FaultLimit /\ FaultLimit \in Nat
  BY ProfileAssumption DEF ProfilePart, ReadBefore
<1>2. unsynced' \in BOOLEAN /\ faults' \in 0..FaultLimit
  <2>1. CASE UNCHANGED <<unsynced, faults>>
    BY <2>1 DEF ProfilePart
  <2>2. CASE Fault /\ unsynced' = TRUE
    <3>1. faults' \in 0..FaultLimit
      BY <1>1, <2>2 DEF Fault
    <3>2. unsynced' \in BOOLEAN
      BY <2>2, Zenon
    <3> QED BY <3>1, <3>2
  <2> QED BY <2>1, <2>2 DEF BuildClient
<1>3. client' \in 0..Versions /\ client' <= version
  BY <1>1 DEF BuildClient
<1>4. unsynced' \/ client' >= lastData
  BY <1>1 DEF BuildClient
<1> QED BY <1>1, <1>2, <1>3, <1>4 DEF ProfilePart, ChangeIsSignalled, ReadBefore

\* Every step keeps the part about the TLS profile.
LEMMA ProfilePartInv ==
    ASSUME ProfilePart, [Next]_vars
    PROVE  ProfilePart'
<1>1. /\ version \in 1..Versions /\ lastData \in 0..Versions /\ lastData <= version
      /\ client \in 0..Versions /\ client <= version
      /\ Versions \in Nat /\ faults \in 0..FaultLimit /\ FaultLimit \in Nat
  BY ProfileAssumption DEF ProfilePart, ReadBefore
<1>2. CASE UNCHANGED vars
  BY <1>2 DEF vars, loopVars, tlsVars, ProfilePart, ChangeIsSignalled, ReadBefore
<1>3. CASE NewSender \/ Rebuild \/ ReloadSender
  BY <1>3, BuildClientKeeps DEF NewSender, Rebuild, ReloadSender
<1>4. CASE TakeReload
  <2>1. tlsReload' \in BOOLEAN
    BY <1>4, Zenon DEF TakeReload
  <2> QED BY <1>4, <2>1 DEF TakeReload, ProfilePart, ChangeIsSignalled, ReadBefore
<1>5. CASE UNCHANGED <<tlsVars, cancelled, version, faults>> /\ pc # "new" /\ pc # "reload"
  BY <1>5 DEF tlsVars, ProfilePart, ChangeIsSignalled, ReadBefore
<1>6. CASE Return \/ NoReload \/ StartSync \/ SkipSync \/ Answer \/ PostBusy \/ Resend \/ NextCycle
  BY <1>5, <1>6 DEF Return, NoReload, StartSync, SkipSync, Answer, PostOK, PostFails, PostBusy,
                    Resend, NextCycle
<1>7. CASE PollerStart
  <2>1. CASE /\ lastData' = (IF DataOf(version) = NoProfile THEN 0 ELSE version)
             /\ unsynced' = (unsynced \/ (pc # "new" /\ client < lastData'))
             /\ UNCHANGED faults
    <3>1. lastData' \in 0..version /\ lastData' \in 0..Versions /\ lastData' <= version
      BY <1>1, <2>1
    <3>2. unsynced' \in BOOLEAN
      BY <2>1, Zenon DEF ProfilePart
    <3>3. unsynced' \/ pc = "new" \/ client >= lastData'
      <4>1. client < lastData' \/ client >= lastData'
        BY <1>1, <3>1
      <4> QED BY <2>1, <4>1, Zenon
    <3>4. ChangeIsSignalled'
      BY <1>7, <3>3 DEF PollerStart, ChangeIsSignalled, loopVars
    <3>5. ReadBefore'
      BY <1>1, <1>7, <3>1 DEF PollerStart, ReadBefore
    <3> QED BY <1>7, <2>1, <3>1, <3>2, <3>4, <3>5 DEF PollerStart, ProfilePart
  <2>2. CASE Fault /\ UNCHANGED <<lastData, unsynced>>
    <3>1. faults' \in 0..FaultLimit
      BY <1>1, <2>2 DEF Fault
    <3>2. lastData' = 0
      BY <1>7, <2>2 DEF PollerStart, ProfilePart, ReadBefore
    <3> QED BY <1>1, <1>7, <2>2, <3>1, <3>2
            DEF PollerStart, ProfilePart, ChangeIsSignalled, ReadBefore
  <2> QED BY <1>7, <2>1, <2>2 DEF PollerStart
<1>8. CASE Poll
  <2>1. tlsReload' \in BOOLEAN /\ tlsReload'
    BY <1>8, Zenon DEF Poll
  <2> QED BY <1>1, <1>8, <2>1 DEF Poll, ProfilePart, ChangeIsSignalled, ReadBefore
<1>9. CASE PollerStop
  BY <1>9 DEF PollerStop, loopVars, ProfilePart, ChangeIsSignalled, ReadBefore
<1>10. CASE EditProfile
  <2>1. version' \in 1..Versions /\ client <= version' /\ lastData <= version'
    BY <1>1, <1>10 DEF EditProfile
  <2> QED BY <1>10, <2>1 DEF EditProfile, loopVars, tlsVars, ProfilePart, ChangeIsSignalled, ReadBefore
<1>11. CASE CrashOnReload
  <2>1. cancelled' \in BOOLEAN /\ tlsReload' \in BOOLEAN /\ unsynced' \in BOOLEAN
    BY <1>11, Zenon DEF CrashOnReload
  <2>2. client' = 0 /\ lastData' = 0 /\ version' = version /\ faults' \in 0..FaultLimit
    BY <1>1, <1>11 DEF CrashOnReload, Fault
  <2>3. pc' = "new" /\ poller' = "starting"
    BY <1>11 DEF CrashOnReload
  <2> QED BY <1>1, <2>1, <2>2, <2>3 DEF ProfilePart, ChangeIsSignalled, ReadBefore
<1>12. CASE Cancel
  <2>1. cancelled' \in BOOLEAN
    BY <1>12, Zenon DEF Cancel
  <2> QED BY <1>12, <2>1 DEF Cancel, loopVars, tlsVars, ProfilePart, ChangeIsSignalled, ReadBefore
<1> QED BY <1>2, <1>3, <1>4, <1>6, <1>7, <1>8, <1>9, <1>10, <1>11, <1>12
        DEF Next, LoopStep, PollerStep

-----------------------------------------------------------------------------
(* The theorems.                                                           *)

\* The inductive invariant holds always.
LEMMA LoopIInvAlways == Spec => []LoopIInv
<1>1. LoopIInv /\ [Next]_vars => LoopIInv'
  <2> SUFFICES ASSUME LoopPart /\ ProfilePart, [Next]_vars PROVE (LoopPart /\ ProfilePart)'
    BY Parts DEF LoopIInv, LoopInv, TypeOK, LoopPart, ProfilePart
  <2> QED BY LoopPartInv, ProfilePartInv
<1> QED BY LoopInit, <1>1, PTL DEF Spec

\* The types and waits of the send loop, no sleep being negative or longer than
\* MaxBackoffMS, and that no change of the TLS profile is lost between the poller and the
\* loop (sender.go, tlsPoller.go).
THEOREM LoopInvariant == Spec => []LoopInv
<1>1. LoopIInv => LoopInv
  BY DEF LoopIInv
<1> QED BY <1>1, LoopIInvAlways, PTL

\* Between two cycles the loop sleeps at least for the back-off of its factor: the check in
\* StartSendLoop stops the factor before the interval overflows.
THEOREM CyclesBackOff == Spec => []CycleBacksOff
<1>1. LoopIInv => CycleBacksOff
  BY DEF LoopIInv
<1> QED BY <1>1, LoopIInvAlways, PTL

-----------------------------------------------------------------------------
(* The access to the hub (HubAccess), which sendWithRetry initialises      *)
(* again, for any settings, rotations and faults.                          *)

\* The configuration is a record of all its fields, at every step of an initialisation.
CfgOK ==
    cfg \in [url : Url, inHub : BOOLEAN, feature : BOOLEAN, jitter : Int, hub : 0..kubeconfig]

\* What the process is given stays.
GivenOK == env \in Envs /\ file \in Files /\ chosen \in Chosen

\* While the process runs, the setting is the preferred one, or a routine has read the
\* file and not yet the environment, which then has the setting.
InForce ==
    up => \/ cfg.inHub = Preferred("inHub")
          \/ env["inHub"] # Unset /\ \E p \in Routine : step[p] = "environment"

\* The inductive invariant of the configuration and its users.
AccessIInv == AccessTypeOK /\ CfgOK /\ GivenOK /\ InForce

\* What the configuration may be after the file was read, and after the environment was.
Loose(v) == [url : Url \cup {""}, inHub : BOOLEAN, feature : BOOLEAN, jitter : Int, hub : 0..v]
Strict(v) == [url : Url, inHub : BOOLEAN, feature : BOOLEAN, jitter : Int, hub : 0..v]

\* Reading the file keeps the types and sets what the file gives.
LEMMA LoadType ==
    ASSUME GivenOK, NEW v \in Nat, NEW c \in Loose(v)
    PROVE  /\ Load(c) \in Loose(v)
           /\ c.url # "" => Load(c).url # ""
           /\ Load(c).inHub = IF FileRead /\ file["inHub"] # Unset THEN file["inHub"] ELSE c.inHub
<1>1. DOMAIN c = Field \cup {"hub"}
  BY DEF Loose, Field
<1>2. c = [url |-> c.url, inHub |-> c.inHub, feature |-> c.feature, jitter |-> c.jitter, hub |-> c.hub]
  BY DEF Loose
<1> QED BY HubAccessAssumption, <1>1, <1>2 DEF Load, GivenOK, Field, Loose, Url

\* The values that the environment and the file may give.
LEMMA SettingTypes ==
    ASSUME GivenOK
    PROVE  /\ env["url"] \in Url \cup {Unset}
           /\ env["inHub"] \in BOOLEAN \cup {Unset, Bad} /\ env["feature"] \in BOOLEAN \cup {Unset, Bad}
           /\ env["jitter"] \in Int \cup {Unset, Bad}
           /\ file["inHub"] \in BOOLEAN \cup {Unset}
BY HubAccessAssumption DEF GivenOK

\* setDefault, setDefaultBool and setDefaultInt return values of their types.
LEMMA DefaultTypes ==
    ASSUME GivenOK
    PROVE  /\ \A u \in Url \cup {""} : setDefault(u, env["url"], Default.url) \in Url
           /\ \A x \in BOOLEAN : setDefaultBool(x, env["inHub"], Default.inHub) \in BOOLEAN
           /\ \A x \in BOOLEAN : setDefaultBool(x, env["feature"], Default.feature) \in BOOLEAN
           /\ \A n \in Int : setDefaultInt(n, env["jitter"], Default.jitter) \in Int
<1>1. \A u \in Url \cup {""} : setDefault(u, env["url"], Default.url) \in Url
  BY SettingTypes DEF Url, setDefault, Default
<1>2. \A x \in BOOLEAN : setDefaultBool(x, env["inHub"], Default.inHub) \in BOOLEAN
  BY SettingTypes DEF setDefaultBool, Default
<1>3. \A x \in BOOLEAN : setDefaultBool(x, env["feature"], Default.feature) \in BOOLEAN
  BY SettingTypes DEF setDefaultBool, Default
<1>4. \A n \in Int : setDefaultInt(n, env["jitter"], Default.jitter) \in Int
  <2>1. Default.jitter = 5000
    BY DEF Default
  <2> QED BY <2>1, SettingTypes DEF setDefaultInt
<1> QED BY <1>1, <1>2, <1>3, <1>4

\* A configuration put together from its fields.
LEMMA StrictRecord ==
    ASSUME NEW v, NEW u \in Url, NEW h \in BOOLEAN, NEW f \in BOOLEAN, NEW j \in Int, NEW n \in 0..v
    PROVE  [url |-> u, inHub |-> h, feature |-> f, jitter |-> j, hub |-> n] \in Strict(v)
BY DEF Strict

\* Reading the environment completes the configuration.
LEMMA EnvType ==
    ASSUME GivenOK, NEW v \in Nat, NEW c \in Loose(v)
    PROVE  /\ FromEnvironment(c) \in Strict(v)
           /\ FromEnvironment(c).inHub = setDefaultBool(c.inHub, env["inHub"], FALSE)
<1> DEFINE u == setDefault(c.url, env["url"], Default.url)
           h == setDefaultBool(c.inHub, env["inHub"], Default.inHub)
           f == setDefaultBool(c.feature, env["feature"], Default.feature)
           j == setDefaultInt(c.jitter, env["jitter"], Default.jitter)
<1>1. FromEnvironment(c) = [c EXCEPT !.url = u, !.inHub = h, !.feature = f, !.jitter = j]
  BY DEF FromEnvironment
<1>2. u \in Url /\ h \in BOOLEAN /\ f \in BOOLEAN /\ j \in Int
  BY DefaultTypes DEF Loose
<1>3. h = setDefaultBool(c.inHub, env["inHub"], FALSE)
  BY DEF Default
<1> HIDE DEF u, h, f, j
<1>4. FromEnvironment(c) = [url |-> u, inHub |-> h, feature |-> f, jitter |-> j, hub |-> c.hub]
  BY <1>1 DEF Loose
<1>5. c.hub \in 0..v
  BY DEF Loose
<1>6. FromEnvironment(c) \in Strict(v)
  BY <1>2, <1>4, <1>5, StrictRecord
<1>7. FromEnvironment(c).inHub = h
  BY <1>4
<1> QED BY <1>3, <1>6, <1>7

\* A configuration with a URL is a complete one.
LEMMA LooseStrict ==
    ASSUME NEW v, NEW c \in Loose(v), c.url # ""
    PROVE  c \in Strict(v)
BY DEF Loose, Strict

\* InitConfig on its own leaves the preferred setting.
LEMMA InitConfigType ==
    ASSUME SettingsReadable, GivenOK, NEW v \in Nat
    PROVE  InitConfig(v) \in Strict(v) /\ InitConfig(v).inHub = Preferred("inHub")
<1> DEFINE empty == [url |-> "", inHub |-> FALSE, feature |-> FALSE, jitter |-> 0, hub |-> 0]
           read == Load(empty)
           set == FromEnvironment(read)
<1>1. empty \in Loose(v) /\ empty.inHub = FALSE
  BY DEF Loose
<1> HIDE DEF empty
<1>2. /\ read \in Loose(v)
      /\ read.inHub = IF FileRead /\ file["inHub"] # Unset THEN file["inHub"] ELSE FALSE
  BY <1>1, LoadType
<1>3. set \in Strict(v) /\ set.inHub = setDefaultBool(read.inHub, env["inHub"], FALSE)
  <2> HIDE DEF read
  <2> QED BY <1>2, EnvType
<1>4. InitConfig(v) = FromHubConfig(set, v)
  BY DEF InitConfig, empty
<1>5. set.inHub = Preferred("inHub")
  <2>1. read.inHub \in BOOLEAN
    BY <1>2 DEF Loose
  <2>2. Default["inHub"] = FALSE
    BY DEF Default
  <2> HIDE DEF set, read
  <2>3. CASE env["inHub"] = Unset
    <3>1. set.inHub = read.inHub
      BY HubAccessAssumption, <1>3, <2>1, <2>3 DEF setDefaultBool
    <3>2. Preferred("inHub") = IF FileRead /\ file["inHub"] # Unset THEN file["inHub"] ELSE FALSE
      BY <2>2, <2>3 DEF SettingsReadable, GivenOK, Preferred, FileRead
    <3> QED BY <1>2, <3>1, <3>2
  <2>4. CASE env["inHub"] # Unset
    <3>1. env["inHub"] # Bad
      BY DEF SettingsReadable, GivenOK
    <3> QED BY <1>3, <2>4, <3>1 DEF setDefaultBool, Preferred
  <2> QED BY <2>3, <2>4
<1>6. v \in 0..v
  OBVIOUS
<1> HIDE DEF set
<1>7. FromHubConfig(set, v) \in Strict(v) /\ FromHubConfig(set, v).inHub = set.inHub
  <2>1. set \in Strict(v)
    BY <1>3
  <2> QED BY <1>6, <2>1 DEF FromHubConfig, Strict, Url
<1> QED BY <1>4, <1>5, <1>7

\* main leaves the invariant behind.
LEMMA AccessStart == ASSUME SettingsReadable, AccessInit PROVE AccessIInv
<1>1. GivenOK /\ InForce /\ cfg \in Strict(0)
  BY InitConfigType DEF AccessInit, GivenOK, InForce
<1>2. CfgOK
  BY <1>1 DEF CfgOK, Strict, AccessInit
<1>3. AccessTypeOK
  <2>1. /\ step \in [Routine -> {"idle", "load", "environment", "check", "read", "write", "use", "client"}]
        /\ hubConfig \in [Routine -> 0..kubeconfig]
        /\ kubeconfig \in 0..RotationLimit /\ accepted \in 0..kubeconfig /\ leaseClient \in 0..kubeconfig
        /\ hubFaults \in 0..HubFaultLimit
    BY HubAccessAssumption DEF AccessInit
  <2>2. sender \in [url : Url, inHub : BOOLEAN, cred : -1..kubeconfig]
    BY <1>1 DEF AccessInit, Strict
  <2>3. /\ cfg.url \in Url /\ cfg.inHub \in BOOLEAN /\ cfg.feature \in BOOLEAN 
        /\ cfg.jitter \in Int /\ cfg.hub \in 0..kubeconfig
    BY <1>2 DEF CfgOK
  <2> QED BY <2>1, <2>2, <2>3 DEF AccessInit, AccessTypeOK
<1> QED BY <1>1, <1>2, <1>3 DEF AccessIInv

\* The steps of InitConfig that write config.Cfg, whatever the other routine is doing.
LEMMA InitConfigStepInv ==
    ASSUME SettingsReadable, AccessIInv, NEW p \in Routine,
           LoadFile(p) \/ ReadEnvironment(p) \/ WriteHubConfig(p)
    PROVE  AccessIInv'
<1> USE DEF AccessIInv
<1>1. /\ up' = up /\ kubeconfig' = kubeconfig /\ kubeconfig \in Nat /\ cfg \in Strict(kubeconfig)
      /\ UNCHANGED <<given, accepted, hubConfig, sender, leaseClient, fresh, mismatch, hubFaults>>
      /\ step' \in [Routine -> {"idle", "load", "environment", "check", "read", "write", "use", "client"}]
  <2>1. kubeconfig \in Nat
    BY HubAccessAssumption DEF AccessTypeOK
  <2>2. cfg \in Strict(kubeconfig)
    BY DEF CfgOK, Strict
  <2> QED BY <2>1, <2>2 DEF LoadFile, ReadEnvironment, WriteHubConfig, Go, AccessTypeOK
<1>2. cfg \in Loose(kubeconfig)
  BY <1>1 DEF Strict, Loose
<1>3. GivenOK' /\ Preferred("inHub")' = Preferred("inHub")
  BY <1>1 DEF GivenOK, given, Preferred
<1>4. cfg' \in Strict(kubeconfig) /\ InForce'
  <2>1. CASE LoadFile(p)
    <3>1. cfg' = Load(cfg) /\ step' = [step EXCEPT ![p] = "environment"]
      BY <2>1 DEF LoadFile, Go
    <3>2. cfg' \in Loose(kubeconfig) /\ cfg'.url # ""
      <4>1. cfg.url # ""
        BY <1>1 DEF Strict, Url
      <4> QED BY <1>1, <1>2, <3>1, <4>1, LoadType
    <3>3. cfg' \in Strict(kubeconfig)
      BY <3>2, LooseStrict
    <3>4. step'[p] = "environment"
      BY <3>1 DEF AccessTypeOK
    <3>5. CASE env["inHub"] # Unset
      <4>1. env' = env /\ p \in Routine
        BY <1>1 DEF given
      <4> QED BY <3>3, <3>4, <3>5, <4>1 DEF InForce
    <3>6. CASE env["inHub"] = Unset
      <4>1. cfg'.inHub = IF FileRead /\ file["inHub"] # Unset THEN file["inHub"] ELSE cfg.inHub
        BY <1>1, <1>2, <3>1, LoadType
      <4>2. up => cfg.inHub = Preferred("inHub")
        BY <3>6 DEF InForce
      <4>3. Preferred("inHub") = IF FileRead /\ file["inHub"] # Unset THEN file["inHub"] ELSE FALSE
        BY <3>6 DEF SettingsReadable, GivenOK, Preferred, FileRead, Default
      <4>4. up => cfg'.inHub = Preferred("inHub")
        BY <4>1, <4>2, <4>3
      <4> QED BY <1>1, <1>3, <3>3, <4>4 DEF InForce
    <3> QED BY <3>3, <3>5, <3>6
  <2>2. CASE ReadEnvironment(p)
    <3>1. cfg' = FromEnvironment(cfg)
      BY <2>2 DEF ReadEnvironment
    <3>2. cfg' \in Strict(kubeconfig) /\ cfg'.inHub = setDefaultBool(cfg.inHub, env["inHub"], FALSE)
      BY <1>1, <1>2, <3>1, EnvType
    <3>3. CASE env["inHub"] # Unset
      <4>1. env["inHub"] # Bad
        BY DEF SettingsReadable, GivenOK
      <4>2. cfg'.inHub = Preferred("inHub")
        BY <3>2, <3>3, <4>1 DEF setDefaultBool, Preferred
      <4> QED BY <1>3, <3>2, <4>2 DEF InForce
    <3>4. CASE env["inHub"] = Unset
      <4>1. up => cfg.inHub = Preferred("inHub")
        BY <3>4 DEF InForce
      <4>2. cfg'.inHub = cfg.inHub
        <5>1. cfg.inHub \in BOOLEAN
          BY <1>1 DEF Strict
        <5> QED BY HubAccessAssumption, <3>2, <3>4, <5>1 DEF setDefaultBool
      <4> QED BY <1>1, <1>3, <3>2, <4>1, <4>2 DEF InForce
    <3> QED BY <3>3, <3>4
  <2>3. CASE WriteHubConfig(p)
    <3>1. /\ cfg' = FromHubConfig(cfg, hubConfig[p])
          /\ step[p] = "write" /\ step' = [step EXCEPT ![p] = "use"]
      BY <2>3 DEF WriteHubConfig, Go, At
    <3>2. hubConfig[p] \in 0..kubeconfig
      BY DEF AccessTypeOK
    <3>3. cfg' \in Strict(kubeconfig) /\ cfg'.inHub = cfg.inHub
      <4>1. /\ FromHubConfig(cfg, hubConfig[p]) \in Strict(kubeconfig)
            /\ FromHubConfig(cfg, hubConfig[p]).inHub = cfg.inHub
        BY <1>1, <3>2 DEF FromHubConfig, Strict, Url
      <4> QED BY <3>1, <4>1
    <3>4. \A q \in Routine : step[q] = "environment" => step'[q] = "environment"
      BY <3>1 DEF AccessTypeOK
    <3> QED BY <1>1, <1>3, <3>3, <3>4 DEF InForce, given
  <2> QED BY <2>1, <2>2, <2>3
<1>5. CfgOK'
  BY <1>1, <1>4 DEF CfgOK, Strict
<1>6. AccessTypeOK'
  <2>1. /\ cfg'.url \in Url /\ cfg'.inHub \in BOOLEAN /\ cfg'.feature \in BOOLEAN
        /\ cfg'.jitter \in Int /\ cfg'.hub \in 0..kubeconfig
    BY <1>4 DEF Strict
  <2> QED BY <1>1, <2>1 DEF AccessTypeOK
<1> QED BY <1>3, <1>4, <1>5, <1>6

\* A restart initialises the configuration alone.
LEMMA RestartInv ==
    ASSUME SettingsReadable, AccessIInv, Restart
    PROVE  AccessIInv'
<1>1. /\ kubeconfig' = kubeconfig /\ kubeconfig \in Nat
      /\ UNCHANGED <<given, accepted, hubConfig, fresh, mismatch, hubFaults>>
      /\ step' = [p \in Routine |-> "idle"] /\ up' = TRUE
  <2>1. kubeconfig \in Nat
    BY HubAccessAssumption DEF AccessIInv, AccessTypeOK
  <2> QED BY <2>1 DEF Restart
<1>2. cfg' \in Strict(kubeconfig) /\ cfg'.inHub = Preferred("inHub")
  BY <1>1, InitConfigType DEF Restart, AccessIInv
<1>3. GivenOK' /\ Preferred("inHub")' = Preferred("inHub")
  BY <1>1 DEF AccessIInv, GivenOK, given, Preferred
<1>4. CfgOK' /\ InForce'
  BY <1>1, <1>2, <1>3 DEF CfgOK, Strict, InForce
<1>5. /\ cfg'.url \in Url /\ cfg'.inHub \in BOOLEAN /\ cfg'.feature \in BOOLEAN
      /\ cfg'.jitter \in Int /\ cfg'.hub \in 0..kubeconfig
  BY <1>2 DEF Strict
<1>6. sender' \in [url : Url, inHub : BOOLEAN, cred : -1..kubeconfig] /\ leaseClient' \in 0..kubeconfig
  <2>1. cfg'.hub \in -1..kubeconfig
    BY <1>1, <1>5
  <2> QED BY <1>5, <2>1 DEF Restart
<1>7. AccessTypeOK'
  BY <1>1, <1>5, <1>6 DEF AccessIInv, AccessTypeOK
<1> QED BY <1>3, <1>4, <1>7 DEF AccessIInv

\* A new kubeconfig and the end of the old one.
LEMMA RotateInv ==
    ASSUME AccessIInv, Rotate \/ Expire
    PROVE  AccessIInv'
<1>1. /\ kubeconfig \in Nat /\ kubeconfig' \in 0..RotationLimit /\ 0..kubeconfig \subseteq 0..kubeconfig'
      /\ accepted' \in 0..kubeconfig' /\ -1..kubeconfig \subseteq -1..kubeconfig'
  <2>1. /\ kubeconfig \in Nat /\ kubeconfig \in 0..RotationLimit /\ accepted \in 0..kubeconfig
        /\ RotationLimit \in Nat
    BY HubAccessAssumption DEF AccessIInv, AccessTypeOK
  <2> QED BY <2>1 DEF Rotate, Expire
<1>2. UNCHANGED <<given, cfg, step, hubConfig, sender, leaseClient, fresh, up, mismatch, hubFaults>>
  BY DEF Rotate, Expire
<1>3. GivenOK' /\ InForce'
  BY <1>2 DEF AccessIInv, GivenOK, InForce, given, Preferred
<1>4. CfgOK'
  BY <1>1, <1>2 DEF AccessIInv, CfgOK
<1>5. AccessTypeOK'
  <2>1. hubConfig' \in [Routine -> 0..kubeconfig']
    BY <1>1, <1>2 DEF AccessIInv, AccessTypeOK
  <2>2. sender' \in [url : Url, inHub : BOOLEAN, cred : -1..kubeconfig']
    BY <1>1, <1>2 DEF AccessIInv, AccessTypeOK
  <2> QED BY <1>1, <1>2, <2>1, <2>2 DEF AccessIInv, AccessTypeOK
<1> QED BY <1>3, <1>4, <1>5 DEF AccessIInv

\* The types that the remaining steps rely on.
LEMMA AccessTypes ==
    ASSUME AccessIInv
    PROVE  /\ kubeconfig \in 0..kubeconfig /\ -1 \in -1..kubeconfig
           /\ cfg.hub \in 0..kubeconfig /\ cfg.hub \in -1..kubeconfig /\ cfg.url \in Url
                 /\ cfg.inHub \in BOOLEAN
           /\ step \in [Routine -> {"idle", "load", "environment", "check", "read", "write", "use", "client"}]
           /\ hubConfig \in [Routine -> 0..kubeconfig] /\ leaseClient \in 0..kubeconfig
           /\ sender \in [url : Url, inHub : BOOLEAN, cred : -1..kubeconfig]
           /\ hubFaults \in 0..HubFaultLimit /\ HubFaultLimit \in Nat
<1>1. kubeconfig \in 0..RotationLimit /\ RotationLimit \in Nat /\ cfg.hub \in 0..kubeconfig
  BY HubAccessAssumption DEF AccessIInv, AccessTypeOK
<1>2. kubeconfig \in 0..kubeconfig /\ -1 \in -1..kubeconfig /\ cfg.hub \in -1..kubeconfig
  BY <1>1
<1> QED BY HubAccessAssumption, <1>1, <1>2 DEF AccessIInv, AccessTypeOK

\* The steps that only read config.Cfg.
LEMMA AccessOtherStep ==
    ASSUME AccessIInv,
           \/ LeaseExpires \/ SendFails \/ ReloadSettings \/ ReloadClient
           \/ RenewLease \/ RenewFails \/ ReloadLeaseClient
           \/ \E p \in Routine : CheckMismatch(p) \/ ReadHubConfig(p) \/ HubConfigUnreadable(p)
    PROVE  AccessIInv'
<1> USE DEF LeaseExpires, SendFails, ReloadSettings, ReloadClient, RenewLease, RenewFails,
            ReloadLeaseClient, CheckMismatch, ReadHubConfig, HubConfigUnreadable, At, Go, HubFault
<1>1. UNCHANGED <<given, kubeconfig, accepted, cfg>>
  OBVIOUS
<1>2. GivenOK' /\ CfgOK' /\ Preferred("inHub")' = Preferred("inHub")
  BY <1>1 DEF AccessIInv, GivenOK, CfgOK, given, Preferred
<1>3. InForce'
  <2>1. \A p \in Routine : step[p] = "environment" => step'[p] = "environment"
    BY AccessTypes
  <2>2. up' => up
    OBVIOUS
  <2> QED BY <1>1, <1>2, <2>1, <2>2 DEF AccessIInv, InForce, given
<1>4. step' \in [Routine -> {"idle", "load", "environment", "check", "read", "write", "use", "client"}]
  BY AccessTypes
<1>5. hubConfig' \in [Routine -> 0..kubeconfig]
  <2>1. \/ UNCHANGED hubConfig
        \/ \E p \in Routine : hubConfig' = [hubConfig EXCEPT ![p] = kubeconfig]
    OBVIOUS
  <2> HIDE DEF LeaseExpires, SendFails, ReloadSettings, ReloadClient, RenewLease, RenewFails,
               ReloadLeaseClient, CheckMismatch, ReadHubConfig, HubConfigUnreadable
  <2> QED BY <2>1, AccessTypes
<1>6. leaseClient' \in 0..kubeconfig
  BY AccessTypes
<1>7. sender' \in [url : Url, inHub : BOOLEAN, cred : -1..kubeconfig]
  BY AccessTypes
<1>8. hubFaults' \in 0..HubFaultLimit
  <2>1. UNCHANGED hubFaults \/ HubFault
    OBVIOUS
  <2> HIDE DEF LeaseExpires, SendFails, ReloadSettings, ReloadClient, RenewLease, RenewFails,
               ReloadLeaseClient, CheckMismatch, ReadHubConfig, HubConfigUnreadable
  <2> QED BY <2>1, AccessTypes
<1>9. fresh' \in BOOLEAN /\ up' \in BOOLEAN /\ mismatch' \in BOOLEAN
  BY AccessTypes DEF AccessIInv, AccessTypeOK
<1> HIDE DEF LeaseExpires, SendFails, ReloadSettings, ReloadClient, RenewLease, RenewFails,
            ReloadLeaseClient, CheckMismatch, ReadHubConfig, HubConfigUnreadable, At, Go, HubFault
<1>10. AccessTypeOK'
  BY <1>1, <1>4, <1>5, <1>6, <1>7, <1>8, <1>9 DEF AccessIInv, AccessTypeOK
<1> QED BY <1>2, <1>3, <1>10 DEF AccessIInv

\* The inductive invariant holds.
LEMMA AccessInductive ==
    ASSUME SettingsReadable
    PROVE  AccessSpec => []AccessIInv
<1>1. AccessInit => AccessIInv
  BY AccessStart
<1>2. AccessIInv /\ [AccessNext]_accessVars => AccessIInv'
  <2> SUFFICES ASSUME AccessIInv, [AccessNext]_accessVars PROVE AccessIInv'
    OBVIOUS
  <2>1. CASE Rotate \/ Expire
    BY <2>1, RotateInv
  <2>2. ASSUME NEW p \in Routine, InitConfigStep(p) \/ HubConfigUnreadable(p) PROVE AccessIInv'
    BY <2>2, InitConfigStepInv, AccessOtherStep DEF InitConfigStep
  <2>3. CASE \/ LeaseExpires \/ SendFails \/ ReloadSettings \/ ReloadClient
             \/ RenewLease \/ RenewFails \/ ReloadLeaseClient
    BY <2>3, AccessOtherStep
  <2>4. CASE Restart
    BY <2>4, RestartInv
  <2>5. CASE UNCHANGED accessVars
    BY <2>5 DEF accessVars, given, AccessIInv, AccessTypeOK, CfgOK, GivenOK, InForce, Preferred
  <2> QED BY <2>1, <2>2, <2>3, <2>4, <2>5 DEF AccessNext, SenderStep, LeaseStep, Routine
<1> QED BY <1>1, <1>2, PTL DEF AccessSpec

\* What the run checks of the configuration: though the sender and the lease reconciler
\* initialise config.Cfg without a lock, each in the middle of the other, once both are
\* done the collector is on the hub or not as the environment says, else the file.
THEOREM AccessInvariant ==
    ASSUME SettingsReadable
    PROVE  AccessSpec => []AccessInv
<1>1. AccessIInv => AccessInv
  BY DEF AccessIInv, AccessInv, EnvironmentWins, InForce, Routine
<1> QED BY <1>1, AccessInductive, PTL
=============================================================================
