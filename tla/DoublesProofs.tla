---------------------------- MODULE DoublesProofs ----------------------------
(***************************************************************************)
(* What holds of what the suite stands up for a host, whatever the sizes   *)
(* of a run: the loops that wait for it, the windows it is given to retry  *)
(* in, the head-of-line leg, the verifier of signed deliveries, the        *)
(* listeners the exercises share, and the doubles of other parties.        *)
(***************************************************************************)
EXTENDS Watching, Receivers, PeerDoubles, Issuers, FiniteSetTheorems, SequenceTheorems, TLAPS

-----------------------------------------------------------------------------
(* The loops over sampled observations.                                    *)

WatchingTypeOK ==
  /\ loop \in Loops /\ hostHonest \in BOOLEAN
  /\ status \in {"running", "completed"} /\ resumptions \in Nat
  /\ clock \in 0..Latest /\ wakeAt \in Nat /\ goalAt \in Nat

(* What the host has shown stays known: the history tells of a completion  *)
(* without a resumption, also of one that a read has seen and the second   *)
(* read has not contradicted yet.                                          *)
ShownIsRemembered ==
  /\ status = "completed" /\ resumptions = 0 => wasUnresumed
  /\ readStatus = "completed" /\ resumptions = 0 => wasUnresumed

(* The host of the single-read loops completes a run by executing it.      *)
HonestResumes ==
  /\ loop # "watchForResumption" => hostHonest
  /\ hostHonest /\ status = "completed" => Resumed

(* A goal once reached stays reached.                                      *)
GoalStands ==
  /\ goalAt = Never \/ goalAt <= clock
  /\ IF Goal(status, resumptions) THEN goalAt # Never ELSE goalAt = Never

(* A timer fires when it is due, and no time passes from there to the next *)
(* request.                                                                *)
TimerIsPunctual ==
  /\ at = "pause" => clock <= wakeAt /\ wakeAt <= clock + PollEvery
  /\ at = "first" => clock = wakeAt

(* Between two rounds of pollUntil none of whose reads failed, the goal    *)
(* was not reached before the last round.                                  *)
LastRoundWasShort ==
  loop = "pollUntil" /\ (at = "pause" \/ at = "first") /\ ~failedReads =>
    wakeAt <= goalAt + PollEvery

NeverEarly == outcome = "timed-out" => clock >= Budget

(* SeenIfInTime, by loop. *)
NotLate ==
  outcome = "timed-out" /\ ~failedReads =>
    /\ loop = "pollUntil" => goalAt + PollEvery >= Budget
    /\ loop # "pollUntil" => goalAt >= Budget

WatchingInv ==
  /\ WatchingTypeOK /\ ShownIsRemembered /\ LatchIsTrue
  /\ HonestResumes /\ GoalStands /\ TimerIsPunctual /\ LastRoundWasShort
  /\ NeverEarly /\ NotLate

LEMMA WatchingInvInit == WatchingInit => WatchingInv
<1> SUFFICES ASSUME WatchingInit PROVE WatchingInv
  OBVIOUS
<1> USE WatchingAssumption DEF WatchingInit
<1>1. WatchingTypeOK
  BY DEF WatchingTypeOK, Loops, Never
<1>2. ShownIsRemembered /\ LatchIsTrue
  BY DEF ShownIsRemembered, LatchIsTrue
<1>3. HonestResumes /\ GoalStands
  BY DEF HonestResumes, GoalStands, Goal, Resumed
<1>4. TimerIsPunctual /\ LastRoundWasShort
  BY DEF TimerIsPunctual, LastRoundWasShort, Never
<1>5. QED
  BY <1>1, <1>2, <1>3, <1>4 DEF WatchingInv, NeverEarly, NotLate

LEMMA WatchingInvStep == WatchingInv /\ [WatchingNext]_watchingVars => WatchingInv'
<1> SUFFICES ASSUME WatchingInv, [WatchingNext]_watchingVars PROVE WatchingInv'
  OBVIOUS
<1> USE WatchingAssumption
        DEF WatchingInv, WatchingTypeOK, ShownIsRemembered, LatchIsTrue, HonestResumes, GoalStands,
            TimerIsPunctual, LastRoundWasShort, NeverEarly, NotLate, Loops, Never, Goal, Resumed,
            hostVars, loopVars, watchHistory
<1>1. CASE HostStep
  <2>0. WatchingTypeOK'
    BY <1>1 DEF HostStep
  <2>1. ShownIsRemembered' /\ LatchIsTrue'
    <3>1. /\ wasUnresumed => wasUnresumed'
          /\ status' = "completed" /\ resumptions' = 0 => wasUnresumed'
          /\ readStatus' = readStatus /\ completedUnresumed' = completedUnresumed
      BY <1>1 DEF HostStep
    <3>2. resumptions' = 0 => resumptions = 0
      BY <1>1 DEF HostStep
    <3>3. QED
      BY <3>1, <3>2
  <2>5. HonestResumes' /\ TimerIsPunctual' /\ NeverEarly'
    BY <1>1 DEF HostStep
  <2>2. GoalStands'
    BY <1>1 DEF HostStep
  <2>3. LastRoundWasShort' /\ NotLate'
    BY <1>1 DEF HostStep
  <2>4. QED
    BY <2>0, <2>1, <2>2, <2>3, <2>5
<1>2. CASE TimePasses
  BY <1>2 DEF TimePasses
<1>3. CASE ReadFirst
  BY <1>3 DEF ReadFirst, Reads, FirstRead
<1>4. CASE ReadSecond
  <2>1. PICK rival \in Reads(IF Resumed THEN "resumed" ELSE "not-resumed") :
           /\ completedUnresumed' =
                (completedUnresumed \/ (readStatus = "completed" /\ rival = "not-resumed"))
           /\ failedReads' = (failedReads \/ (rival = "null" /\ goalAt # Never))
           /\ IF rival = "resumed" THEN Return("seen")
              ELSE IF TimeIsUp THEN Return("timed-out") ELSE Pause
    BY <1>4 DEF ReadSecond, FirstRead, SecondRead
  <2>2. /\ loop = "watchForResumption" /\ at = "second"
        /\ UNCHANGED <<hostVars, loop, readStatus, clock, wasUnresumed, goalAt>>
    BY <1>4 DEF ReadSecond
  <2>3. WatchingTypeOK' /\ HonestResumes' /\ GoalStands'
    BY <2>1, <2>2 DEF Return, Pause
  <2>4. /\ rival = "not-resumed" => resumptions = 0
        /\ rival # "resumed" /\ ~failedReads' => ~failedReads /\ goalAt = Never
    <3>1. rival = "null" \/ rival = (IF Resumed THEN "resumed" ELSE "not-resumed")
      BY <2>1 DEF Reads
    <3>2. goalAt # Never => Resumed
      BY <2>2
    <3>3. (failedReads => failedReads') /\ (rival = "null" /\ goalAt # Never => failedReads')
      BY <2>1
    <3>4. QED
      BY <3>1, <3>2, <3>3
  <2>5. ShownIsRemembered' /\ LatchIsTrue'
    <3>1. completedUnresumed' =>
            completedUnresumed \/ (readStatus = "completed" /\ rival = "not-resumed")
      BY <2>1
    <3>2. QED
      BY <2>2, <2>4, <3>1
  <2>6. TimerIsPunctual' /\ LastRoundWasShort'
    BY <2>1, <2>2 DEF Return, Pause
  <2>7. NeverEarly' /\ NotLate'
    <3>1. outcome' = "timed-out" =>
            \/ outcome = "timed-out"
            \/ clock >= Budget /\ rival # "resumed"
      BY <2>1, <2>2 DEF TimeIsUp, Return, Pause
    <3>2. failedReads => failedReads'
      BY <2>1
    <3>3. QED
      BY <2>2, <2>4, <3>1, <3>2
  <2>8. QED
    BY <2>3, <2>5, <2>6, <2>7
<1>5. CASE Ask
  BY <1>5 DEF Ask, TimeIsUp, ReadsLate, Return
<1>6. CASE Answer
  <2>1. PICK read \in Reads(status) :
           /\ failedReads' = (failedReads \/ (read = "null" /\ goalAt # Never))
           /\ IF read = "completed" THEN Return("seen")
              ELSE IF ReadsLate /\ TimeIsUp THEN Return("timed-out") ELSE Pause
    BY <1>6 DEF Answer, Reads
  <2>2. /\ loop # "watchForResumption" /\ at = "second"
        /\ UNCHANGED <<hostVars, loop, readStatus, completedUnresumed, clock, wasUnresumed, goalAt>>
    BY <1>6 DEF Answer
  <2>3. WatchingTypeOK' /\ HonestResumes' /\ GoalStands'
    BY <2>1, <2>2 DEF Return, Pause
  <2>4. read # "completed" /\ ~failedReads' => ~failedReads /\ goalAt = Never
    BY <2>1, <2>2 DEF Reads
  <2>5. ShownIsRemembered' /\ LatchIsTrue'
    BY <2>2
  <2>6. TimerIsPunctual' /\ LastRoundWasShort'
    <3>1. TimerIsPunctual' /\ (at' = "pause" => wakeAt' = clock + PollEvery /\ read # "completed")
      BY <2>1, <2>2 DEF Return, Pause
    <3>2. at' # "first"
      BY <2>1, <2>2 DEF Return, Pause
    <3>3. QED
      BY <2>2, <2>4, <3>1, <3>2
  <2>7. NeverEarly' /\ NotLate'
    <3>1. outcome' = "timed-out" =>
            \/ outcome = "timed-out"
            \/ clock >= Budget /\ read # "completed"
      BY <2>1, <2>2 DEF TimeIsUp, Return, Pause
    <3>2. failedReads => failedReads'
      BY <2>1
    <3>3. QED
      BY <2>2, <2>4, <3>1, <3>2
  <2>8. QED
    BY <2>3, <2>5, <2>6, <2>7
<1>7. CASE Wake
  BY <1>7 DEF Wake
<1>8. CASE UNCHANGED watchingVars
  BY <1>8 DEF watchingVars
<1>9. QED
  BY <1>1, <1>2, <1>3, <1>4, <1>5, <1>6, <1>7, <1>8 DEF WatchingNext

(* durability-watch.ts: the latch of the watch is set only of a host that  *)
(* has really shown a completed run it had not resumed.                    *)
THEOREM WatchLatchIsTrue == WatchingSpec => []LatchIsTrue
<1>1. WatchingInv => LatchIsTrue
  BY DEF WatchingInv
<1>2. QED
  BY <1>1, WatchingInvInit, WatchingInvStep, PTL DEF WatchingSpec

(* No loop gives up on a goal reached within its budget, unless a read of  *)
(* it failed: whatever the budget, the pause and the delays of the host.   *)
THEOREM GivesUpOnlyTheLate == WatchingSpec => []SeenIfInTime
<1>1. WatchingInv => SeenIfInTime
  BY WatchingAssumption DEF WatchingInv, WatchingTypeOK, NotLate, SeenIfInTime
<1>2. QED
  BY <1>1, WatchingInvInit, WatchingInvStep, PTL DEF WatchingSpec

-----------------------------------------------------------------------------
(* The windows of the retry rows.                                          *)

RetryTypeOK ==
  /\ policy \in Policies /\ retryEnv \in RetryEnvs
  /\ now \in Nat /\ attempts \in Nat /\ firstAt \in Nat /\ waitFrom \in Nat /\ retriedSeen \in Nat

(* An empty sink is met only before the last attempt or just after it; the *)
(* first attempt comes within the grace; and a host that keeps its promise *)
(* lets no more than its bound pass from there.                            *)
PromiseKept ==
  /\ keepsPromise /\ inSink => attempts >= policy.maxAttempts
  /\ attempts = 0 => now < ADVERTISED_BOUND_GRACE
  /\ firstAt < ADVERTISED_BOUND_GRACE
  /\ keepsPromise /\ advertisedMaxElapsed > 0 /\ attempts > 0 /\ ~inSink =>
       now <= firstAt + advertisedMaxElapsed

(* A leg that reads the sink of such a host before its last attempt has    *)
(* waited in a window short of the host's bound.                           *)
WindowWasShort ==
  leg \in {"read-sink", "judged"} /\ keepsPromise /\ attempts < policy.maxAttempts =>
    advertisedMaxElapsed = 0 \/ advertisedMaxElapsed + ADVERTISED_BOUND_GRACE > retryWaitFor

RetryInv ==
  /\ RetryTypeOK /\ PromiseKept /\ WindowWasShort
  /\ retryVerdict = "fail" => leg = "judged"
  /\ ConvictedPastItsBound

(* A window is a number of ticks. *)
LEMMA WindowType ==
  ASSUME policy \in Policies, retryEnv \in RetryEnvs
  PROVE  /\ retryWaitFor \in Nat
         /\ advertisedMaxElapsed \in Nat /\ policy.maxAttempts \in Nat
<1>1. /\ policy.maxElapsed \in Nat /\ policy.maxAttempts \in Nat /\ retryEnv \in Nat
      /\ RETRY_WAIT_FLOOR \in Nat /\ DEFAULT_RETRY_WAIT_CAP \in Nat /\ MAX_RETRY_WAIT_CAP \in Nat
      /\ ADVERTISED_BOUND_GRACE \in Nat
  BY RetryAssumption
<1>2. retryWaitCap \in Nat
  BY <1>1 DEF retryWaitCap
<1>3. QED
  BY <1>1, <1>2 DEF retryWaitFor, AtMostAnHour, advertisedMaxElapsed

LEMMA RetryInvInit == RetryInit => RetryInv
BY RetryAssumption
   DEF RetryInit, RetryInv, RetryTypeOK, PromiseKept, WindowWasShort, ConvictedPastItsBound

LEMMA RetryInvStep == RetryInv /\ [RetryNext]_retryVars => RetryInv'
<1> SUFFICES ASSUME RetryInv, [RetryNext]_retryVars PROVE RetryInv'
  OBVIOUS
<1>0. /\ policy' = policy /\ retryEnv' = retryEnv /\ keepsPromise' = keepsPromise
      /\ retryWaitFor' = retryWaitFor /\ advertisedMaxElapsed' = advertisedMaxElapsed
  BY DEF RetryNext, retryVars, Attempt, DeadLetter, RetryTimePasses, RetryAwaited,
         ExhaustionAwaited, ReadSink, retryWaitFor, retryWaitPath, retryWaitCap, AtMostAnHour,
         advertisedMaxElapsed
<1>t. /\ retryWaitFor \in Nat /\ advertisedMaxElapsed \in Nat /\ policy.maxAttempts \in Nat
      /\ ADVERTISED_BOUND_GRACE \in Nat
  BY WindowType, RetryAssumption DEF RetryInv, RetryTypeOK
<1> USE <1>0, <1>t
        DEF RetryInv, RetryTypeOK, PromiseKept, WindowWasShort, ConvictedPastItsBound
<1>1. CASE Attempt
  BY <1>1 DEF Attempt
<1>2. CASE DeadLetter
  BY <1>2 DEF DeadLetter
<1>3. CASE RetryTimePasses
  BY <1>3 DEF RetryTimePasses
<1>4. CASE RetryAwaited
  BY <1>4 DEF RetryAwaited, WaitIsOver
<1>5. CASE ExhaustionAwaited
  BY <1>5 DEF ExhaustionAwaited, WaitIsOver
<1>6. CASE ReadSink
  BY <1>6 DEF ReadSink, DeadLetterVerdict, pastAdvertisedBound
<1>7. CASE UNCHANGED retryVars
  BY <1>7 DEF retryVars
<1>8. QED
  BY <1>1, <1>2, <1>3, <1>4, <1>5, <1>6, <1>7 DEF RetryNext

(* webhook-retry-window.ts: a host that keeps the bound it advertised is   *)
(* not convicted of a delivery still being retried, whatever its schedule, *)
(* the operator's cap and the windows: save of one attempt seen in a       *)
(* window that was cut short of the bound, or that no bound set.           *)
THEOREM ConvictsOnlyPastTheBound == RetrySpec => []ConvictedPastItsBound
<1>1. RetryInv => ConvictedPastItsBound
  BY DEF RetryInv
<1>2. QED
  BY <1>1, RetryInvInit, RetryInvStep, PTL DEF RetrySpec

-----------------------------------------------------------------------------
(* The head-of-line leg.                                                   *)

IsolationTypeOK ==
  /\ pool \in Nat /\ open \subseteq Held /\ closed \subseteq Held
  /\ openAtHealthy \in Nat /\ peakOpen \in Nat
  /\ sample \in [arrived : Nat, open : Nat]

(* As long as the host has abandoned no attempt, what is open only grows:  *)
(* the count at the terminal read is no more than is open now, and unless  *)
(* an attempt started late, the count at the healthy attempt is just that. *)
OpenOnlyGrows ==
  closed = {} =>
    /\ ~closedBeforeHealthy /\ ~closedBeforeTerminal
    /\ seenTerminal => sample.arrived = sample.open /\ sample.open <= Cardinality(open)
    /\ healthy = "arrived" /\ ~lateStart => openAtHealthy = Cardinality(open)

PoolWasFull ==
  /\ healthy = "arrived" => openAtHealthy < pool
  /\ healthy = "due" /\ Cardinality(open) >= pool => healthyWaited
  /\ healthy = "missed" => healthyWaited

PassHadRoom ==
  isolation = "pass" => healthy = "arrived" /\ openAtHealthy >= FLOOR

FailureWasSeen ==
  /\ isolation # "none" => healthy \in {"arrived", "missed"}
  /\ isolation = "fail" => healthyWaited \/ lateStart \/ closed # {}

IsolationInv ==
  /\ IsolationTypeOK /\ OpenOnlyGrows /\ PoolWasFull /\ PassHadRoom /\ FailureWasSeen

LEMMA OpenCounts ==
  ASSUME open \subseteq Held
  PROVE  /\ Cardinality(open) \in Nat /\ FLOOR \in Nat
         /\ \A w \in Held : /\ Cardinality(open \cup {w}) \in Nat
                           /\ Cardinality(open) <= Cardinality(open \cup {w})
                           /\ Cardinality(open \cup {w}) <= Cardinality(open) + 1
<1>1. IsFiniteSet(open)
  BY FS_Subset, IsolationAssumption
<1>2. QED
  BY <1>1, FS_CardinalityType, FS_AddElement, IsolationAssumption DEF FLOOR

LEMMA IsolationInvInit == IsolationInit => IsolationInv
<1> SUFFICES ASSUME IsolationInit PROVE IsolationInv
  OBVIOUS
<1>1. FLOOR \in Nat
  BY FS_CardinalityType, IsolationAssumption DEF FLOOR
<1>2. QED
  BY <1>1, IsolationAssumption
     DEF IsolationInit, IsolationInv, IsolationTypeOK, OpenOnlyGrows, PoolWasFull, PassHadRoom,
         FailureWasSeen, NotSampled, seenTerminal

LEMMA IsolationInvStep == IsolationInv /\ [IsolationNext]_isolationVars => IsolationInv'
<1> SUFFICES ASSUME IsolationInv, [IsolationNext]_isolationVars PROVE IsolationInv'
  OBVIOUS
<1>0. /\ Cardinality(open) \in Nat /\ FLOOR \in Nat
      /\ \A w \in Held : /\ Cardinality(open \cup {w}) \in Nat
                        /\ Cardinality(open) <= Cardinality(open \cup {w})
                        /\ Cardinality(open \cup {w}) <= Cardinality(open) + 1
  BY OpenCounts DEF IsolationInv, IsolationTypeOK
<1> USE <1>0
        DEF IsolationInv, IsolationTypeOK, OpenOnlyGrows, PoolWasFull, PassHadRoom,
            FailureWasSeen, seenTerminal
<1>1. ASSUME NEW w \in Held, FanOut(w) PROVE IsolationInv'
  BY <1>1 DEF FanOut
<1>2. ASSUME NEW w \in Held, StartHeld(w) PROVE IsolationInv'
  <2>1. /\ open' = open \cup {w} /\ UNCHANGED <<pool, queued, closed, healthy, openAtHealthy, sample>>
        /\ UNCHANGED <<closedBeforeHealthy, closedBeforeTerminal, isolation>>
        /\ Cardinality(open) < pool
    BY <1>2 DEF StartHeld
  <2>2. Cardinality(open') \in Nat /\ peakOpen' \in {peakOpen, Cardinality(open')}
    BY <1>2, <2>1 DEF StartHeld
  <2>3. /\ healthyWaited => healthyWaited'
        /\ healthy = "due" /\ Cardinality(open') = pool => healthyWaited'
        /\ lateStart => lateStart'
        /\ healthy = "arrived" => lateStart'
    BY <1>2 DEF StartHeld
  <2>4. IsolationTypeOK' /\ PassHadRoom' /\ FailureWasSeen'
    BY <2>1, <2>2, <2>3
  <2>5. OpenOnlyGrows'
    BY <2>1, <2>2, <2>3
  <2>6. PoolWasFull'
    BY <2>1, <2>2, <2>3
  <2>7. QED
    BY <2>4, <2>5, <2>6
<1>3. ASSUME NEW w \in Held, Abandon(w) PROVE IsolationInv'
  <2>1. /\ open' = open \ {w} /\ closed' = closed \cup {w} /\ UNCHANGED <<pool, healthy, openAtHealthy>>
        /\ UNCHANGED <<peakOpen, sample, isolation, healthyWaited, lateStart>>
    BY <1>3 DEF Abandon
  <2>2. /\ Cardinality(open') \in Nat /\ Cardinality(open') <= Cardinality(open)
    BY <2>1, FS_Subset, FS_RemoveElement, FS_CardinalityType, IsolationAssumption
  <2>3. QED
    BY <2>1, <2>2
<1>4. CASE EndOfRun
  <2>1. /\ healthy = "not-due" /\ healthy' = "due" /\ UNCHANGED <<pool, open, closed, openAtHealthy>>
        /\ UNCHANGED <<peakOpen, closedBeforeHealthy, closedBeforeTerminal, sample, isolation>>
        /\ lateStart' = lateStart
    BY <1>4 DEF EndOfRun
  <2>2. Cardinality(open) >= pool => healthyWaited'
    BY <1>4 DEF EndOfRun
  <2>3. QED
    BY <2>1, <2>2
<1>5. CASE StartHealthy
  BY <1>5 DEF StartHealthy
<1>6. CASE SeeTerminal
  <2>1. /\ sample' = [arrived |-> Cardinality(open \cup closed), open |-> Cardinality(open)]
        /\ UNCHANGED <<pool, open, closed, healthy, openAtHealthy, peakOpen, isolation>>
        /\ UNCHANGED <<closedBeforeHealthy, closedBeforeTerminal, healthyWaited, lateStart>>
    BY <1>6 DEF SeeTerminal, arrived
  <2>2. Cardinality(open \cup closed) \in Nat
    BY FS_Subset, FS_CardinalityType, IsolationAssumption
  <2>3. closed = {} => open \cup closed = open
    OBVIOUS
  <2>4. QED
    BY <2>1, <2>2, <2>3
<1>7. CASE WindowPasses
  BY <1>7 DEF WindowPasses
<1>8. CASE Judge
  BY <1>8 DEF Judge, isolationVerdict, WaitedForNone
<1>9. CASE UNCHANGED isolationVars
  BY <1>9 DEF isolationVars
<1>10. QED
  BY <1>1, <1>2, <1>3, <1>4, <1>5, <1>6, <1>7, <1>8, <1>9 DEF IsolationNext

(* delivery-isolation-verdict.ts: a pass is a host with room for the floor *)
(* and one more; a failure is a host whose healthy attempt waited, or that *)
(* abandoned a held attempt, or started one after the healthy attempt; for *)
(* any floor and any pool.                                                 *)
THEOREM VerdictOnIsolationIsTrue == IsolationSpec => []IsolationVerdictIsTrue
<1>1. IsolationInv => IsolationVerdictIsTrue
  BY OpenCounts
     DEF IsolationInv, IsolationTypeOK, PoolWasFull, PassHadRoom, FailureWasSeen, IsolationVerdictIsTrue
<1>2. QED
  BY <1>1, IsolationInvInit, IsolationInvStep, PTL DEF IsolationSpec

-----------------------------------------------------------------------------
(* The verifier of signed deliveries.                                      *)

(* What the host signs: entries over the stamp and the body they travel    *)
(* with, just one under the recipe that carries one.                       *)
WellSigned(d) ==
  /\ d.stamp \in Int /\ d.body \in Bodies
  /\ \A x \in d.entries : \E s \in Secrets : x = signed(s, d.stamp, d.body)
  /\ scheme = "openwop" => \E x : d.entries = {x}

(* A signature is remembered only of a delivery that was accepted.         *)
RememberedOnceAccepted ==
  \A x \in acceptedSignatures :
    \E u \in judged : u.result = "accepted" /\ x \in u.delivery.entries

SignaturesInv ==
  /\ time \in Nat /\ skew \in Int /\ scheme \in {"openwop", "standard"}
  /\ \A d \in wire : WellSigned(d)
  /\ \A v \in judged : WellSigned(v.delivery)
  /\ RememberedOnceAccepted
  /\ AcceptedIfGenuine

LEMMA SignaturesInvInit == SignaturesInit => SignaturesInv
BY SignaturesAssumption
   DEF SignaturesInit, SignaturesInv, RememberedOnceAccepted, AcceptedIfGenuine

LEMMA SignKeepsInv ==
  ASSUME SignaturesInv, NEW body \in Bodies, Sign(body)
  PROVE  SignaturesInv'
<1> DEFINE d == [body |-> body, stamp |-> time + skew,
                 entries |-> {signed(s, time + skew, body) : s \in Signers}]
<1>1. /\ UNCHANGED <<scheme, skew, receiverSecret, time, acceptedSignatures, judged>>
      /\ wire' = wire \cup {d}
  BY DEF Sign
<1>2. d.stamp \in Int /\ d.body \in Bodies
  BY DEF SignaturesInv
<1>3. \A x \in d.entries : \E s \in Secrets : x = signed(s, d.stamp, d.body)
  BY SignaturesAssumption DEF Signers, Secrets
<1>4. scheme = "openwop" => \E x : d.entries = {x}
  BY DEF Signers
<1>5. QED
  <2> HIDE DEF d
  <2>4. WellSigned(d)
    BY <1>2, <1>3, <1>4 DEF WellSigned
  <2>1. \A v \in wire' : WellSigned(v)
    BY <1>1, <2>4 DEF SignaturesInv
  <2>2. \A u : Genuine(u)' <=> Genuine(u)
    BY <1>1 DEF Genuine
  <2>3. QED
    BY <1>1, <2>1, <2>2 DEF SignaturesInv, WellSigned, RememberedOnceAccepted, AcceptedIfGenuine

(* The verifier takes just what is genuine, unless it has taken it before. *)
LEMMA VerifierIsTrue ==
  ASSUME SignaturesInv, NEW d, WellSigned(d), NEW spoilt \in SpoilingsOf(scheme),
         NEW result, result = IF scheme = "openwop" THEN verifyWebhookDelivery(d, spoilt)
                              ELSE verifyStandardWebhooks(d, spoilt),
         NEW v, v = [delivery |-> d, spoilt |-> spoilt, time |-> time, result |-> result]
  PROVE  /\ result = "accepted" => Genuine(v)
         /\ Genuine(v) => result \in {"accepted", "duplicate_signature", "throws"}
         /\ result = "duplicate_signature" =>
              scheme = "openwop" /\ d.entries \subseteq acceptedSignatures
<1>1. expected(d, "body") \notin d.entries
  BY SignaturesAssumption DEF expected, WellSigned, signed
<1>2. Delta(d) \in Int /\ Tolerance \in Nat
  BY SignaturesAssumption DEF SignaturesInv, WellSigned, Delta
<1>3. expected(d, "none") = signed(receiverSecret, d.stamp, d.body)
  BY DEF expected
<1>4. Genuine(v) <=> /\ spoilt = "none"
                     /\ expected(d, "none") \in d.entries
                     /\ Delta(d) \in (-Tolerance)..Tolerance
  BY <1>3 DEF Genuine, Delta
<1>5. CASE scheme = "openwop"
  BY <1>1, <1>2, <1>4, <1>5 DEF verifyWebhookDelivery, SpoilingsOf, Spoilings
<1>6. CASE scheme = "standard"
  BY <1>1, <1>2, <1>4, <1>6 DEF verifyStandardWebhooks, SpoilingsOf, Spoilings
<1>7. QED
  BY <1>5, <1>6 DEF SignaturesInv

LEMMA VerifyKeepsInv ==
  ASSUME SignaturesInv, NEW d \in wire, NEW spoilt \in SpoilingsOf(scheme), Verify(d, spoilt)
  PROVE  SignaturesInv'
<1> DEFINE result == IF scheme = "openwop" THEN verifyWebhookDelivery(d, spoilt)
                     ELSE verifyStandardWebhooks(d, spoilt)
           v == [delivery |-> d, spoilt |-> spoilt, time |-> time, result |-> result]
<1>1. /\ UNCHANGED <<scheme, skew, receiverSecret, time, wire>>
      /\ judged' = judged \cup {v}
      /\ acceptedSignatures' =
           IF scheme = "openwop" THEN Remembered(d, result) ELSE acceptedSignatures
  BY Zenon DEF Verify
<1>2. WellSigned(d)
  BY DEF SignaturesInv
<1>3. /\ result = "accepted" => Genuine(v)
      /\ Genuine(v) => result \in {"accepted", "duplicate_signature", "throws"}
      /\ result = "duplicate_signature" =>
           scheme = "openwop" /\ d.entries \subseteq acceptedSignatures
  BY <1>2, VerifierIsTrue
<1>4. v.result = result /\ v.delivery = d
  OBVIOUS
<1> HIDE DEF result, v
<1>5. RememberedOnceAccepted'
  <2>1. \/ acceptedSignatures' = acceptedSignatures
        \/ result = "accepted" /\ acceptedSignatures' = acceptedSignatures \cup d.entries
    BY <1>1 DEF Remembered
  <2>2. QED
    BY <1>1, <1>4, <2>1 DEF SignaturesInv, RememberedOnceAccepted
<1>6. result = "duplicate_signature" =>
        \E u \in judged : u.result = "accepted" /\ u.delivery.entries = d.entries
  <2> SUFFICES ASSUME result = "duplicate_signature"
               PROVE  \E u \in judged : u.result = "accepted" /\ u.delivery.entries = d.entries
    OBVIOUS
  <2>1. PICK x : d.entries = {x}
    BY <1>2, <1>3 DEF WellSigned
  <2>2. PICK u \in judged : u.result = "accepted" /\ x \in u.delivery.entries
    BY <1>3, <2>1 DEF SignaturesInv, RememberedOnceAccepted
  <2>3. PICK y : u.delivery.entries = {y}
    BY <1>3 DEF SignaturesInv, WellSigned
  <2>4. QED
    BY <2>1, <2>2, <2>3
<1>7. AcceptedIfGenuine'
  <2>1. \A u : Genuine(u)' <=> Genuine(u)
    BY <1>1 DEF Genuine
  <2>2. QED
    BY <1>1, <1>3, <1>4, <1>6, <2>1 DEF SignaturesInv, AcceptedIfGenuine
<1>8. QED
  BY <1>1, <1>2, <1>4, <1>5, <1>7 DEF SignaturesInv, WellSigned

LEMMA SignaturesInvStep == SignaturesInv /\ [SignaturesNext]_signatureVars => SignaturesInv'
<1> SUFFICES ASSUME SignaturesInv, [SignaturesNext]_signatureVars PROVE SignaturesInv'
  OBVIOUS
<1>1. CASE Rotate \/ Pass \/ UNCHANGED signatureVars
  <2>1. /\ UNCHANGED <<scheme, skew, receiverSecret, wire, acceptedSignatures, judged>>
        /\ time' \in Nat
    BY <1>1 DEF Rotate, Pass, signatureVars, SignaturesInv
  <2>2. QED
    BY <2>1, ZenonT(40) DEF SignaturesInv, WellSigned, RememberedOnceAccepted, AcceptedIfGenuine, Genuine
<1>2. QED
  BY <1>1, SignKeepsInv, VerifyKeepsInv DEF SignaturesNext

(* webhooks.md recipe: the verifier takes a delivery only if it is genuine *)
(* and prompt; it takes such a one whatever spoilt copies came before, in  *)
(* whatever order and number, and calls it a duplicate only of one taken.  *)
THEOREM VerifierTakesTheGenuine == SignaturesSpec => []AcceptedIfGenuine
<1>1. SignaturesInv => AcceptedIfGenuine
  BY DEF SignaturesInv
<1>2. QED
  BY <1>1, SignaturesInvInit, SignaturesInvStep, PTL DEF SignaturesSpec

-----------------------------------------------------------------------------
(* The listeners the exercises share.                                      *)

Stages == {"idle", "starting", "live", "closed", "failed", "hung"}
Sockets == {"none", "binding", "up", "closing", "gone", "failed"}

ReceiversTypeOK ==
  /\ kind \in Casts
  /\ entry \in Exercises \cup {NoOne}
  /\ socket \in [Exercises -> Sockets] /\ refs \in [Exercises -> Nat]
  /\ listener \in [Exercises -> Exercises] /\ stage \in [Exercises -> Stages]
  /\ DOMAIN told = Exercises /\ DOMAIN seen = Exercises

(* An address names its exercise, or, in the one place where it does not,  *)
(* leads to the port of that exercise's own fake.                          *)
AddressedApart ==
  \A e \in Exercises : told[e] # NoOne =>
    \/ told[e].path = e
    \/ told[e].path = NoOne /\ kind[e] \in {"shared", "fake"} /\ told[e].port = PortOf(e)

(* Only scoped receivers share a listener, a scoped one's.                 *)
OwnersAreScoped ==
  /\ \A e \in Exercises :
       /\ listener[e] # e => kind[e] = "scoped" /\ kind[listener[e]] = "scoped"
       /\ stage[e] # "idle" => stage[listener[e]] # "idle"
       /\ stage[e] = "idle" => socket[e] = "none" /\ entry # e
  /\ entry # NoOne => kind[entry] = "scoped" /\ socket[entry] \in {"binding", "up"}

(* The scoped receivers that hold a claim on the listener of one of them.  *)
Users(o) ==
  {e \in Exercises : kind[e] = "scoped" /\ listener[e] = o /\ stage[e] \in {"starting", "live"}}

(* A listener counts at least as many claims as it has users.              *)
ClaimsCover == \A o \in Exercises : Cardinality(Users(o)) <= refs[o]

AwaitedIsOpen ==
  \A e \in Exercises : stage[e] = "starting" => socket[listener[e]] \in {"binding", "up", "failed"}

ReceiversInv ==
  /\ ReceiversTypeOK /\ AddressedApart /\ OwnersAreScoped
  /\ ClaimsCover /\ AwaitedIsOpen /\ LiveListenerStands /\ EachCountsItsOwn

LEMMA ReceiversInvInit == ReceiversInit => ReceiversInv
<1> SUFFICES ASSUME ReceiversInit PROVE ReceiversInv
  OBVIOUS
<1>1. ReceiversTypeOK
  BY DEF ReceiversInit, ReceiversTypeOK, Stages, Sockets
<1>2. AddressedApart /\ OwnersAreScoped /\ AwaitedIsOpen /\ LiveListenerStands /\ EachCountsItsOwn
  BY ReceiversAssumption
     DEF ReceiversInit, AddressedApart, OwnersAreScoped, AwaitedIsOpen, LiveListenerStands,
         EachCountsItsOwn
<1>3. ClaimsCover
  <2>1. \A o \in Exercises : Users(o) = {}
    BY DEF ReceiversInit, Users
  <2>2. QED
    BY <2>1, FS_EmptySet DEF ReceiversInit, ClaimsCover
<1>4. QED
  BY <1>1, <1>2, <1>3 DEF ReceiversInv

LEMMA UsersFinite ==
  ASSUME NEW o PROVE IsFiniteSet(Users(o)) /\ Cardinality(Users(o)) \in Nat
BY FS_Subset, FS_CardinalityType, ReceiversAssumption DEF Users

(* A request that reaches a listener is recorded by the exercise that      *)
(* handed the address out, or by none.                                     *)
LEMMA DeliveredHome ==
  ASSUME ReceiversInv, NEW e \in Exercises, told[e] # NoOne, NEW s \in Reaches(told[e]),
         NEW r \in Recorders(s, told[e].path), kind[r] # "modal"
  PROVE  r = e
<1>1. s \in Exercises /\ PortOf(s) = told[e].port
  BY DEF Reaches
<1>2. kind \in [Exercises -> Kinds]
  BY ReceiversAssumption DEF ReceiversInv, ReceiversTypeOK
<1>3. CASE told[e].path = e
  BY <1>1, <1>2, <1>3, ReceiversAssumption DEF Recorders, Routed, Kinds
<1>4. CASE told[e].path = NoOne /\ kind[e] \in {"shared", "fake"} /\ told[e].port = PortOf(e)
  <2>1. r = s /\ kind[s] \in {"shared", "fake"}
    BY <1>1, <1>2, <1>4, ReceiversAssumption DEF Recorders, Kinds
  <2>2. TakesPinnedPort(s) <=> TakesPinnedPort(e)
    BY <1>1, <1>4, ReceiversAssumption DEF PortOf
  <2>3. CASE TakesPinnedPort(e)
    <3>1. kind[s] = "shared" /\ kind[e] = "shared"
      BY <1>4, <2>1, <2>2, <2>3 DEF TakesPinnedPort
    <3>2. QED
      BY <1>1, <2>1, <3>1, ReceiversAssumption DEF ReceiversInv, ReceiversTypeOK
  <2>4. CASE ~TakesPinnedPort(e)
    BY <1>1, <1>4, <2>1, <2>2, <2>4 DEF PortOf
  <2>5. QED
    BY <2>3, <2>4
<1>5. QED
  BY <1>3, <1>4 DEF ReceiversInv, AddressedApart

LEMMA HandleKeepsInv ==
  ASSUME ReceiversInv, NEW e \in Exercises, Deliver(e) \/ Stray(e)
  PROVE  ReceiversInv'
<1>1. UNCHANGED <<operator, listening>> /\ DOMAIN seen' = Exercises
  BY DEF Deliver, Stray, Handle
<1>2. UNCHANGED <<kind, front, pinned, occupied, entry, socket, refs, listener, stage, members,
                  registry, told>>
  BY <1>1 DEF operator, listening
<1>3. EachCountsItsOwn'
  <2>1. ASSUME NEW r \in Exercises, kind[r] # "modal"
        PROVE  seen'[r] \subseteq {r} \cup (IF kind[r] \in {"shared", "fake"} THEN {NoOne} ELSE {})
    <3>1. CASE Deliver(e)
      <4>1. PICK s \in Reaches(told[e]) : Handle(e, told[e].path, s)
        BY <3>1 DEF Deliver
      <4>2. seen'[r] = seen[r] \/ (seen'[r] = seen[r] \cup {e} /\ r \in Recorders(s, told[e].path))
        BY <4>1 DEF Handle
      <4>3. QED
        BY <2>1, <3>1, <4>2, DeliveredHome DEF Deliver, ReceiversInv, EachCountsItsOwn
    <3>2. CASE Stray(e)
      <4>1. seen'[r] = seen[r] \/ (seen'[r] = seen[r] \cup {NoOne} /\ r \in Recorders(e, NoOne))
        BY <3>2 DEF Stray, Handle
      <4>2. r \in Recorders(e, NoOne) => r = e /\ kind[r] \in {"shared", "fake"}
        <5>1. kind \in [Exercises -> Kinds]
          BY ReceiversAssumption DEF ReceiversInv, ReceiversTypeOK
        <5>2. QED
          BY <2>1, <5>1, ReceiversAssumption DEF Recorders, Kinds
      <4>3. QED
        BY <2>1, <4>1, <4>2 DEF ReceiversInv, EachCountsItsOwn
    <3>3. QED
      BY <3>1, <3>2
  <2>2. QED
    BY <1>2, <2>1 DEF EachCountsItsOwn
<1>4. QED
  BY <1>1, <1>2, <1>3
     DEF ReceiversInv, ReceiversTypeOK, AddressedApart, PortOf, TakesPinnedPort, OwnersAreScoped,
         ClaimsCover, Users, AwaitedIsOpen, LiveListenerStands

(* What no step but a request touches, and the operator's settings.        *)
LEMMA RecordsStand ==
  ASSUME ReceiversInv, UNCHANGED <<operator, record>>
  PROVE  /\ kind' = kind /\ pinned' = pinned /\ front' = front /\ DOMAIN seen' = Exercises
         /\ EachCountsItsOwn'
         /\ told' = told => AddressedApart'
BY DEF operator, record, ReceiversInv, ReceiversTypeOK, EachCountsItsOwn, AddressedApart, PortOf,
       TakesPinnedPort

(* A listener that loses users, and no claim, or as many as it loses one,  *)
(* still counts enough.                                                    *)
LEMMA FewerUsers ==
  ASSUME ReceiversInv, NEW o \in Exercises, Users(o)' \subseteq Users(o)
  PROVE  /\ Cardinality(Users(o)') \in Nat /\ Cardinality(Users(o)') <= refs[o]
         /\ \A e \in Users(o) : e \notin Users(o)' => Cardinality(Users(o)') <= refs[o] - 1
<1>1. /\ IsFiniteSet(Users(o)) /\ Cardinality(Users(o)) \in Nat /\ refs[o] \in Nat
      /\ Cardinality(Users(o)) <= refs[o]
  BY UsersFinite DEF ReceiversInv, ReceiversTypeOK, ClaimsCover
<1>2. Cardinality(Users(o)') \in Nat /\ Cardinality(Users(o)') <= Cardinality(Users(o))
  BY <1>1, FS_Subset, FS_CardinalityType
<1>3. ASSUME NEW e \in Users(o), e \notin Users(o)'
      PROVE  Cardinality(Users(o)') <= refs[o] - 1
  <2>1. /\ IsFiniteSet(Users(o) \ {e})
        /\ Cardinality(Users(o) \ {e}) = Cardinality(Users(o)) - 1
    BY <1>1, <1>3, FS_RemoveElement
  <2>2. Cardinality(Users(o)') <= Cardinality(Users(o) \ {e})
    BY <1>3, <2>1, FS_Subset
  <2>3. QED
    BY <1>1, <1>2, <2>1, <2>2
<1>4. QED
  BY <1>1, <1>2, <1>3

LEMMA StartScopedKeepsInv ==
  ASSUME ReceiversInv, NEW e \in Exercises, StartScoped(e)
  PROVE  ReceiversInv'
<1> DEFINE owner == IF pinned /\ entry # NoOne THEN entry ELSE e
<1>1. /\ kind[e] = "scoped" /\ stage[e] = "idle"
      /\ listener' = [listener EXCEPT ![e] = owner]
      /\ refs' = [refs EXCEPT ![owner] = @ + 1]
      /\ socket' = IF owner = e THEN [socket EXCEPT ![e] = "binding"] ELSE socket
      /\ entry' = IF pinned THEN owner ELSE entry
      /\ stage' = [stage EXCEPT ![e] = "starting"]
      /\ UNCHANGED <<operator, record>> /\ told' = told
  BY DEF StartScoped, Claim
<1>2. kind' = kind /\ EachCountsItsOwn' /\ AddressedApart' /\ DOMAIN seen' = Exercises
  BY <1>1, RecordsStand
<1>3. owner \in Exercises /\ (owner = e \/ (owner = entry /\ entry # NoOne /\ entry # e))
  <2>1. entry # e /\ entry \in Exercises \cup {NoOne}
    BY <1>1 DEF ReceiversInv, ReceiversTypeOK, OwnersAreScoped
  <2>2. QED
    BY <2>1
<1> HIDE DEF owner
<1>4. ReceiversTypeOK'
  BY <1>1, <1>2, <1>3 DEF ReceiversInv, ReceiversTypeOK, Stages, Sockets
<1>5. OwnersAreScoped'
  <2>1. \A f \in Exercises : listener'[f] # f => kind[f] = "scoped" /\ kind[listener'[f]] = "scoped"
    BY <1>1, <1>3 DEF ReceiversInv, ReceiversTypeOK, OwnersAreScoped
  <2>2. stage'[owner] # "idle"
    BY <1>1, <1>3 DEF ReceiversInv, ReceiversTypeOK, OwnersAreScoped
  <2>3. \A f \in Exercises : stage'[f] # "idle" => stage'[listener'[f]] # "idle"
    BY <1>1, <1>3, <2>2 DEF ReceiversInv, ReceiversTypeOK, OwnersAreScoped
  <2>4. \A f \in Exercises : stage'[f] = "idle" => socket'[f] = "none" /\ entry' # f
    BY <1>1, <1>3, <2>2 DEF ReceiversInv, ReceiversTypeOK, OwnersAreScoped
  <2>5. entry' # NoOne => kind[entry'] = "scoped" /\ socket'[entry'] \in {"binding", "up"}
    BY <1>1, <1>3 DEF ReceiversInv, ReceiversTypeOK, OwnersAreScoped
  <2>6. QED
    BY <1>2, <2>1, <2>3, <2>4, <2>5 DEF OwnersAreScoped
<1>6. AwaitedIsOpen' /\ LiveListenerStands'
  BY <1>1, <1>2, <1>3
     DEF ReceiversInv, ReceiversTypeOK, OwnersAreScoped, AwaitedIsOpen, LiveListenerStands
<1>7. ClaimsCover'
  <2>1. \A o \in Exercises :
          /\ Users(o)' \subseteq (IF o = owner THEN Users(o) \cup {e} ELSE Users(o))
          /\ refs'[o] = IF o = owner THEN refs[o] + 1 ELSE refs[o]
          /\ refs[o] \in Nat
    BY <1>1, <1>2, <1>3 DEF ReceiversInv, ReceiversTypeOK, Users
  <2>2. \A o \in Exercises : Cardinality(Users(o)') <= refs'[o]
    <3> SUFFICES ASSUME NEW o \in Exercises PROVE Cardinality(Users(o)') <= refs'[o]
      OBVIOUS
    <3>1. Cardinality(Users(o)) <= refs[o] /\ IsFiniteSet(Users(o)) /\ Cardinality(Users(o)) \in Nat
      BY UsersFinite DEF ReceiversInv, ClaimsCover
    <3>2. IsFiniteSet(Users(o) \cup {e}) /\ Cardinality(Users(o) \cup {e}) <= Cardinality(Users(o)) + 1
      BY <3>1, FS_AddElement, SMTT(30)
    <3>3. Cardinality(Users(o) \cup {e}) \in Nat
      BY <3>2, FS_CardinalityType
    <3>4. CASE o = owner
      <4>1. Cardinality(Users(o)') <= Cardinality(Users(o) \cup {e})
        BY <2>1, <3>2, <3>4, FS_Subset
      <4>2. Cardinality(Users(o)') \in Nat
        BY <2>1, <3>2, <3>4, FS_Subset, FS_CardinalityType
      <4>3. refs'[o] = refs[o] + 1 /\ refs[o] \in Nat
        BY <2>1, <3>4
      <4>4. QED
        BY <3>1, <3>2, <3>3, <4>1, <4>2, <4>3
    <3>5. CASE o # owner
      <4>1. Cardinality(Users(o)') <= Cardinality(Users(o))
        BY <2>1, <3>1, <3>5, FS_Subset
      <4>2. Cardinality(Users(o)') \in Nat
        BY <2>1, <3>1, <3>5, FS_Subset, FS_CardinalityType
      <4>3. refs'[o] = refs[o] /\ refs[o] \in Nat
        BY <2>1, <3>5
      <4>4. QED
        BY <3>1, <4>1, <4>2, <4>3
    <3>6. QED
      BY <3>4, <3>5
  <2>3. QED
    BY <2>2 DEF ClaimsCover
<1>8. QED
  BY <1>2, <1>4, <1>5, <1>6, <1>7 DEF ReceiversInv

LEMMA StartOtherKeepsInv ==
  ASSUME ReceiversInv, NEW e \in Exercises, StartOther(e)
  PROVE  ReceiversInv'
<1>1. /\ kind[e] # "scoped" /\ stage[e] = "idle"
      /\ listener' = [listener EXCEPT ![e] = e]
      /\ socket' = [socket EXCEPT ![e] = "binding"]
      /\ stage' = [stage EXCEPT ![e] = "starting"]
      /\ entry' = entry /\ refs' = refs /\ told' = told
      /\ UNCHANGED <<operator, record>>
  BY DEF StartOther
<1>2. kind' = kind /\ EachCountsItsOwn' /\ AddressedApart' /\ DOMAIN seen' = Exercises
  BY <1>1, RecordsStand
<1>3. ReceiversTypeOK'
  BY <1>1, <1>2 DEF ReceiversInv, ReceiversTypeOK, Stages, Sockets
<1>4. OwnersAreScoped'
  BY <1>1, <1>2, ReceiversAssumption DEF ReceiversInv, ReceiversTypeOK, OwnersAreScoped
<1>5. AwaitedIsOpen' /\ LiveListenerStands'
  BY <1>1, <1>2
     DEF ReceiversInv, ReceiversTypeOK, OwnersAreScoped, AwaitedIsOpen, LiveListenerStands
<1>6. ClaimsCover'
  <2>1. \A o \in Exercises : Users(o)' \subseteq Users(o)
    BY <1>1, <1>2 DEF ReceiversInv, ReceiversTypeOK, Users
  <2>2. QED
    BY <1>1, <2>1, FewerUsers DEF ClaimsCover
<1>7. QED
  BY <1>2, <1>3, <1>4, <1>5, <1>6 DEF ReceiversInv

LEMMA SocketKeepsInv ==
  ASSUME ReceiversInv, NEW e \in Exercises, Bind(e) \/ BindFails(e) \/ Shut(e)
  PROVE  ReceiversInv'
<1>1. /\ \/ socket[e] = "binding" /\ entry' = entry /\ stage' = stage
            /\ socket' = [socket EXCEPT ![e] = "up"]
         \/ /\ socket[e] = "binding" /\ socket' = [socket EXCEPT ![e] = "failed"]
            /\ entry' = (IF entry = e THEN NoOne ELSE entry)
            /\ \/ stage' = stage
               \/ kind[e] = "modal" /\ stage' = [stage EXCEPT ![e] = "hung"]
         \/ socket[e] = "closing" /\ entry' = entry /\ stage' = stage
            /\ socket' = [socket EXCEPT ![e] = "gone"]
      /\ listener' = listener /\ refs' = refs /\ told' = told
      /\ UNCHANGED <<operator, record>>
  BY DEF Bind, BindFails, Shut
<1>2. kind' = kind /\ EachCountsItsOwn' /\ AddressedApart' /\ DOMAIN seen' = Exercises
  BY <1>1, RecordsStand
<1>3. ReceiversTypeOK'
  BY <1>1, <1>2 DEF ReceiversInv, ReceiversTypeOK, Stages, Sockets
<1>4. OwnersAreScoped'
  BY <1>1, <1>2, ReceiversAssumption DEF ReceiversInv, ReceiversTypeOK, OwnersAreScoped
<1>5. AwaitedIsOpen' /\ LiveListenerStands'
  BY <1>1, <1>2
     DEF ReceiversInv, ReceiversTypeOK, OwnersAreScoped, AwaitedIsOpen, LiveListenerStands
<1>6. ClaimsCover'
  <2>1. \A o \in Exercises : Users(o)' \subseteq Users(o)
    BY <1>1, <1>2 DEF ReceiversInv, ReceiversTypeOK, Users
  <2>2. QED
    BY <1>1, <2>1, FewerUsers DEF ClaimsCover
<1>7. QED
  BY <1>2, <1>3, <1>4, <1>5, <1>6 DEF ReceiversInv

LEMMA StartedKeepsInv ==
  ASSUME ReceiversInv, NEW e \in Exercises, Started(e)
  PROVE  ReceiversInv'
<1>1. /\ stage[e] = "starting" /\ socket[listener[e]] \in {"up", "closing", "gone"}
      /\ \E to \in {"live", "failed"} : stage' = [stage EXCEPT ![e] = to]
      /\ told' \in {told, [told EXCEPT ![e] = AddressOf(e)]}
      /\ UNCHANGED <<operator, record>>
      /\ entry' = entry /\ socket' = socket /\ refs' = refs /\ listener' = listener
  BY DEF Started
<1>2. kind' = kind /\ EachCountsItsOwn' /\ DOMAIN seen' = Exercises /\ pinned' = pinned
  BY <1>1, RecordsStand
<1>3. ReceiversTypeOK'
  BY <1>1, <1>2 DEF ReceiversInv, ReceiversTypeOK, Stages
<1>4. OwnersAreScoped'
  BY <1>1, <1>2 DEF ReceiversInv, ReceiversTypeOK, OwnersAreScoped
<1>5. AwaitedIsOpen' /\ LiveListenerStands'
  BY <1>1, <1>2 DEF ReceiversInv, ReceiversTypeOK, AwaitedIsOpen, LiveListenerStands
<1>6. AddressedApart'
  <2>1. \/ AddressOf(e).path = e
        \/ /\ AddressOf(e).path = NoOne /\ kind[e] \in {"shared", "fake"}
           /\ AddressOf(e).port = PortOf(e)
    <3>1. kind[e] \in {"shared", "fake"} => listener[e] = e
      BY DEF ReceiversInv, OwnersAreScoped
    <3>2. QED
      BY <3>1 DEF AddressOf, frontedEndpoint, nonceAddress, PortOf
  <2>2. QED
    BY <1>1, <1>2, <2>1
       DEF ReceiversInv, ReceiversTypeOK, AddressedApart, PortOf, TakesPinnedPort
<1>7. ClaimsCover'
  <2>1. \A o \in Exercises : Users(o)' \subseteq Users(o)
    BY <1>1, <1>2 DEF ReceiversInv, ReceiversTypeOK, Users
  <2>2. QED
    BY <1>1, <2>1, FewerUsers DEF ClaimsCover
<1>8. QED
  BY <1>2, <1>3, <1>4, <1>5, <1>6, <1>7 DEF ReceiversInv

LEMMA StartFailsKeepsInv ==
  ASSUME ReceiversInv, NEW e \in Exercises, StartFails(e)
  PROVE  ReceiversInv'
<1>1. /\ stage[e] = "starting" /\ stage' = [stage EXCEPT ![e] = "failed"]
      /\ refs' = IF kind[e] = "scoped" /\ refs[listener[e]] > 0
                 THEN [refs EXCEPT ![listener[e]] = @ - 1] ELSE refs
      /\ entry' = entry /\ socket' = socket /\ listener' = listener /\ told' = told
      /\ UNCHANGED <<operator, record>>
  BY DEF StartFails
<1>2. kind' = kind /\ EachCountsItsOwn' /\ AddressedApart' /\ DOMAIN seen' = Exercises
  BY <1>1, RecordsStand
<1>3. ReceiversTypeOK'
  BY <1>1, <1>2 DEF ReceiversInv, ReceiversTypeOK, Stages
<1>4. OwnersAreScoped'
  BY <1>1, <1>2 DEF ReceiversInv, ReceiversTypeOK, OwnersAreScoped
<1>5. AwaitedIsOpen' /\ LiveListenerStands'
  BY <1>1, <1>2 DEF ReceiversInv, ReceiversTypeOK, AwaitedIsOpen, LiveListenerStands
<1>6. ClaimsCover'
  <2>1. \A o \in Exercises : Users(o)' \subseteq Users(o)
    BY <1>1, <1>2 DEF ReceiversInv, ReceiversTypeOK, Users
  <2>2. kind[e] = "scoped" =>
          \A o \in Exercises : o = listener[e] => e \in Users(o) /\ e \notin Users(o)'
    BY <1>1, <1>2 DEF ReceiversInv, ReceiversTypeOK, Users
  <2>3. ASSUME NEW o \in Exercises PROVE Cardinality(Users(o)') <= refs'[o]
    <3>1. refs'[o] = refs[o] \/ (refs'[o] = refs[o] - 1 /\ kind[e] = "scoped" /\ o = listener[e])
      BY <1>1 DEF ReceiversInv, ReceiversTypeOK
    <3>2. /\ Cardinality(Users(o)') <= refs[o]
          /\ kind[e] = "scoped" /\ o = listener[e] => Cardinality(Users(o)') <= refs[o] - 1
      BY <2>1, <2>2, FewerUsers
    <3>3. QED
      BY <3>1, <3>2
  <2>4. QED
    BY <2>3 DEF ClaimsCover
<1>7. QED
  BY <1>2, <1>3, <1>4, <1>5, <1>6 DEF ReceiversInv

LEMMA CloseKeepsInv ==
  ASSUME ReceiversInv, NEW e \in Exercises, Close(e)
  PROVE  ReceiversInv'
<1>0. PICK owner \in Exercises : owner = listener[e]
  BY DEF ReceiversInv, ReceiversTypeOK
<1> DEFINE left == IF kind[e] = "scoped" /\ refs[owner] > 0 THEN refs[owner] - 1 ELSE 0
<1>1. /\ stage[e] = "live" /\ stage' = [stage EXCEPT ![e] = "closed"]
      /\ refs' = [refs EXCEPT ![owner] = left]
      /\ socket' = IF left > 0 THEN socket ELSE [socket EXCEPT ![owner] = "closing"]
      /\ entry' = IF left = 0 /\ entry = owner THEN NoOne ELSE entry
      /\ listener' = listener /\ told' = told /\ UNCHANGED <<operator, record>>
  BY <1>0 DEF Close
<1>2. kind' = kind /\ EachCountsItsOwn' /\ AddressedApart' /\ DOMAIN seen' = Exercises
  BY <1>1, RecordsStand
<1>3. refs[owner] \in Nat /\ left \in Nat
  BY DEF ReceiversInv, ReceiversTypeOK
<1>4. kind[e] # "scoped" => owner = e /\ left = 0
  BY <1>0 DEF ReceiversInv, OwnersAreScoped
<1>5. \A o \in Exercises : Users(o)' \subseteq Users(o)
  BY <1>1, <1>2 DEF ReceiversInv, ReceiversTypeOK, Users
<1>6. kind[e] = "scoped" =>
        /\ e \in Users(owner) /\ e \notin Users(owner)'
        /\ left = refs[owner] - 1
  <2>1. kind[e] = "scoped" => e \in Users(owner) /\ e \notin Users(owner)'
    BY <1>0, <1>1, <1>2 DEF ReceiversInv, ReceiversTypeOK, Users
  <2>2. kind[e] = "scoped" => /\ Cardinality(Users(owner)') \in Nat
                              /\ Cardinality(Users(owner)') <= refs[owner] - 1
    BY <1>5, <2>1, FewerUsers
  <2>3. QED
    BY <1>3, <2>1, <2>2
<1>7. Cardinality(Users(owner)') \in Nat /\ Cardinality(Users(owner)') <= left
  <2>1. CASE kind[e] = "scoped"
    BY <1>5, <1>6, <2>1, FewerUsers
  <2>2. CASE kind[e] # "scoped"
    <3>1. Users(owner)' = {}
      BY <1>1, <1>2, <1>4, <2>2 DEF ReceiversInv, OwnersAreScoped, Users
    <3>2. QED
      BY <1>4, <2>2, <3>1, FS_EmptySet
  <2>3. QED
    BY <2>1, <2>2
(* A listener that is shut has no user left. *)
<1>8. left = 0 => \A f \in Exercises :
        listener[f] = owner => stage'[f] \notin {"starting", "live"}
  <2> SUFFICES ASSUME left = 0, NEW f \in Exercises, listener[f] = owner,
                      stage'[f] \in {"starting", "live"}
               PROVE  FALSE
    OBVIOUS
  <2>1. IsFiniteSet(Users(owner)')
    BY <1>5, UsersFinite, FS_Subset
  <2>2. Users(owner)' = {}
    BY <1>7, <2>1, FS_EmptySet
  <2>3. kind[f] # "scoped"
    BY <1>1, <1>2, <2>2 DEF Users
  <2>4. f = owner
    BY <2>3 DEF ReceiversInv, OwnersAreScoped
  <2>5. e = owner
    BY <1>0, <2>3, <2>4 DEF ReceiversInv, OwnersAreScoped
  <2>6. QED
    BY <1>1, <2>4, <2>5 DEF ReceiversInv, ReceiversTypeOK
<1> HIDE DEF left
<1>9. ReceiversTypeOK'
  BY <1>1, <1>2, <1>3 DEF ReceiversInv, ReceiversTypeOK, Stages, Sockets
<1>10. OwnersAreScoped'
  <2>1. /\ stage[e] # "idle" /\ stage[owner] # "idle"
        /\ \A f \in Exercises : stage'[f] = "idle" <=> stage[f] = "idle"
    BY <1>0, <1>1 DEF ReceiversInv, ReceiversTypeOK, OwnersAreScoped
  <2>2. entry' # NoOne => /\ entry' = entry
                         /\ entry' \in Exercises /\ socket'[entry'] = socket[entry']
    BY <1>1, <1>3, <1>4 DEF ReceiversInv, ReceiversTypeOK, OwnersAreScoped
  <2>3. QED
    BY <1>1, <1>2, <2>1, <2>2, ReceiversAssumption
       DEF ReceiversInv, ReceiversTypeOK, OwnersAreScoped
<1>11. AwaitedIsOpen' /\ LiveListenerStands'
  <2>1. \A f \in Exercises :
          stage'[f] \in {"starting", "live"} =>
            stage[f] = stage'[f] /\ socket'[listener[f]] = socket[listener[f]]
    BY <1>1, <1>3, <1>8 DEF ReceiversInv, ReceiversTypeOK
  <2>2. QED
    BY <1>1, <2>1 DEF ReceiversInv, AwaitedIsOpen, LiveListenerStands
<1>12. ClaimsCover'
  <2>1. ASSUME NEW o \in Exercises PROVE Cardinality(Users(o)') <= refs'[o]
    <3>1. refs'[o] = IF o = owner THEN left ELSE refs[o]
      BY <1>1 DEF ReceiversInv, ReceiversTypeOK
    <3>2. CASE o = owner
      BY <1>7, <3>1, <3>2
    <3>3. CASE o # owner
      BY <1>5, <3>1, <3>3, FewerUsers
    <3>4. QED
      BY <3>2, <3>3
  <2>2. QED
    BY <2>1 DEF ClaimsCover
<1>13. QED
  BY <1>2, <1>9, <1>10, <1>11, <1>12 DEF ReceiversInv

LEMMA ReceiversInvStep == ReceiversInv /\ [ReceiversNext]_receiverVars => ReceiversInv'
<1> SUFFICES ASSUME ReceiversInv, [ReceiversNext]_receiverVars PROVE ReceiversInv'
  OBVIOUS
<1>1. CASE UNCHANGED receiverVars
  <2>1. /\ UNCHANGED <<operator, record>> /\ entry' = entry /\ socket' = socket /\ refs' = refs
        /\ listener' = listener /\ stage' = stage /\ told' = told
    BY <1>1 DEF receiverVars, listening
  <2>2. kind' = kind /\ EachCountsItsOwn' /\ AddressedApart' /\ DOMAIN seen' = Exercises
    BY <2>1, RecordsStand
  <2>3. QED
    BY <2>1, <2>2
       DEF ReceiversInv, ReceiversTypeOK, OwnersAreScoped, ClaimsCover, Users, AwaitedIsOpen,
           LiveListenerStands
<1>2. QED
  BY <1>1, StartScopedKeepsInv, StartOtherKeepsInv, SocketKeepsInv, StartedKeepsInv,
     StartFailsKeepsInv, CloseKeepsInv, HandleKeepsInv
     DEF ReceiversNext

(* front-mux.ts: an exercise records only what was sent to the address it  *)
(* handed out, also after the listener, the port or the front behind that  *)
(* address have passed to another; for any exercises, in any order. A      *)
(* shared receiver or a fake may besides record what names no exercise.    *)
THEOREM ExercisesCountTheirOwn == ReceiversSpec => []EachCountsItsOwn
<1>1. ReceiversInv => EachCountsItsOwn
  BY DEF ReceiversInv
<1>2. QED
  BY <1>1, ReceiversInvInit, ReceiversInvStep, PTL DEF ReceiversSpec

(* scoped-receiver.ts: as long as an exercise is live its listener is up:  *)
(* the claims counted on a shared one cover everyone who uses or awaits it.*)
THEOREM ListenersOutliveTheirUsers == ReceiversSpec => []LiveListenerStands
<1>1. ReceiversInv => LiveListenerStands
  BY DEF ReceiversInv
<1>2. QED
  BY <1>1, ReceiversInvInit, ReceiversInvStep, PTL DEF ReceiversSpec

-----------------------------------------------------------------------------
(* The suite's OIDC issuer and the host that caches its keys by kid.       *)

(* A kid names one key, whichever file's it is and however old.            *)
KidsNameKeys(keys) ==
  \A k \in keys : \E f \in Servers, n \in Nat \ {0} : k = [kid |-> kidFor(f, n), key |-> <<f, n>>]

IssuerInv ==
  /\ rotationCounter \in [Servers -> Nat \ {0}]
  /\ KidsNameKeys(keyCache)
  /\ ControlTokenVerifies

LEMMA IssuerInvInit == IssuerInit => IssuerInv
  BY DEF IssuerInit, IssuerInv, KidsNameKeys, ControlTokenVerifies, NoToken

LEMMA IssuerInvStep == IssuerInv /\ [IssuerNext]_issuerVars => IssuerInv'
<1> SUFFICES ASSUME IssuerInv, [IssuerNext]_issuerVars PROVE IssuerInv'
  OBVIOUS
<1> USE DEF IssuerInv
<1>1. KidsNameKeys(jwks)
  <2>1. SUFFICES ASSUME NEW f \in Servers
                 PROVE  \E g \in Servers, n \in Nat \ {0} :
                          material(f) = [kid |-> kidFor(g, n), key |-> <<g, n>>]
    BY DEF jwks, KidsNameKeys
  <2>2. QED
    BY DEF material
<1>2. ASSUME NEW f \in Servers, rotateKey(f) PROVE IssuerInv'
  BY <1>2 DEF rotateKey, KidsNameKeys, ControlTokenVerifies
<1>3. ASSUME NEW f \in Servers, Present(f) PROVE IssuerInv'
  <2>1. PICK token \in Mint(f) :
          /\ keyCache' = KeysFor(token.kid)
          /\ presented' =
               [control |-> token.kid # unpublished(f) /\ ~token.expired,
                accepted |-> /\ ~token.expired
                             /\ \E k \in KeysFor(token.kid) : k.kid = token.kid /\ k.key = token.key]
    BY <1>3 DEF Present
  <2>2. KidsNameKeys(keyCache')
    BY <1>1, <2>1 DEF KeysFor, KidsNameKeys
  <2>3. /\ token.key = <<f, rotationCounter[f]>>
        /\ token.kid = kidFor(f, rotationCounter[f]) \/ token.kid = kidFor(f, 0)
    BY <2>1 DEF Mint, material, unpublished
  <2>4. token.kid # unpublished(f) <=>
          \E k \in KeysFor(token.kid) : k.kid = token.kid /\ k.key = token.key
    <3>1. CASE token.kid = kidFor(f, 0)
      <4>1. \A k \in KeysFor(token.kid) : k.kid # token.kid
        BY <2>1, <2>2, <3>1 DEF KidsNameKeys, kidFor
      <4>2. QED
        BY <3>1, <4>1 DEF unpublished
    <3>2. CASE token.kid = kidFor(f, rotationCounter[f])
      <4>1. \A k \in KeysFor(token.kid) : k.kid = token.kid => k.key = token.key
        BY <2>1, <2>2, <2>3, <3>2 DEF KidsNameKeys, kidFor
      <4>2. \E k \in KeysFor(token.kid) : k.kid = token.kid
        <5>1. material(f) \in jwks /\ material(f).kid = token.kid
          BY <1>3, <3>2 DEF jwks, Present, material
        <5>2. QED
          BY <5>1 DEF KeysFor
      <4>3. rotationCounter[f] # 0
        OBVIOUS
      <4>4. QED
        BY <3>2, <4>1, <4>2, <4>3 DEF unpublished, kidFor
    <3>3. QED
      BY <2>3, <3>1, <3>2
  <2>5. ControlTokenVerifies'
    BY <2>1, <2>4 DEF ControlTokenVerifies
  <2>6. rotationCounter' = rotationCounter
    BY <1>3 DEF Present
  <2>7. QED
    BY <2>2, <2>5, <2>6
<1>4. CASE ForgetKeys
  BY <1>4 DEF ForgetKeys, KidsNameKeys, ControlTokenVerifies
<1>5. ASSUME UNCHANGED <<rotationCounter, keyCache, presented>> PROVE IssuerInv'
  BY <1>5 DEF KidsNameKeys, ControlTokenVerifies
<1>6. QED
  BY <1>2, <1>3, <1>4, <1>5
  DEF IssuerNext, issuerVars, harnessClaimed, serveHarnessIssuer, CloseIssuer

LEMMA IssuerInvIsEnough == IssuerInv => ControlTokenVerifies
  BY DEF IssuerInv

(* oidc-issuer.ts: however many files serve keys one after another at the  *)
(* one URL, however often they rotate them and whenever the host's cache   *)
(* runs out, a host that caches by kid judges every control by its own key.*)
THEOREM ControlsVerify == IssuerSpec => []ControlTokenVerifies
  BY IssuerInvInit, IssuerInvStep, IssuerInvIsEnough, PTL DEF IssuerSpec

-----------------------------------------------------------------------------
(* The suite's authorization server.                                       *)

IssuedCode ==
  [redirectUri : Redirects, challenge : Verifiers \cup {NoChallenge}, used : BOOLEAN]

Grants == {"authorization_code", "refresh_token", "other"}

AuthTypeOK ==
  /\ codes \in Seq(IssuedCode)
  /\ tokenRequests \in Seq([grant : Grants, code : Nat, status : {200, 400}])
  /\ refreshTokens \in Nat

(* Whoever exchanged a code, it was a known one if it was granted, and it  *)
(* is used up.                                                             *)
ExchangedAreUsed ==
  \A i \in Exchanges :
    /\ tokenRequests[i].code \in {Unknown} \cup DOMAIN codes
    /\ tokenRequests[i].code # Unknown => codes[tokenRequests[i].code].used

AuthInv == AuthTypeOK /\ ExchangedAreUsed /\ CodesGrantOnce /\ IsFiniteSet(Granted)

LEMMA AuthInvInit == AuthInit => AuthInv
<1> SUFFICES ASSUME AuthInit PROVE AuthInv
  OBVIOUS
<1>1. Exchanges = {} /\ Granted = {}
  BY DEF AuthInit, Exchanges, Granted
<1>2. IsFiniteSet(Granted) /\ Cardinality(Granted) = 0
  BY <1>1, FS_EmptySet
<1>3. AuthTypeOK
  BY DEF AuthInit, AuthTypeOK
<1>4. QED
  BY <1>1, <1>2, <1>3 DEF AuthInit, AuthInv, ExchangedAreUsed, CodesGrantOnce

(* What one more counted request adds to the grants there were.            *)
IsLastOf(grant, code, given) ==
  /\ Len(tokenRequests) \in Nat
  /\ tokenRequests' \in Seq([grant : Grants, code : Nat, status : {200, 400}])
  /\ DOMAIN tokenRequests = 1..Len(tokenRequests)
  /\ DOMAIN tokenRequests' = 1..(Len(tokenRequests) + 1)
  /\ \A i \in 1..Len(tokenRequests) : tokenRequests'[i] = tokenRequests[i]
  /\ tokenRequests'[Len(tokenRequests) + 1] =
       [grant |-> grant, code |-> code, status |-> given]

LEMMA CountedIsLast ==
  ASSUME AuthTypeOK, NEW grant \in Grants,
         NEW code \in Nat, NEW given \in {200, 400}, Count(grant, code, given)
  PROVE  IsLastOf(grant, code, given)
  BY DEF AuthTypeOK, Count, IsLastOf, Grants

LEMMA CountedGrants ==
  ASSUME AuthTypeOK, NEW grant \in Grants,
         NEW code \in Nat, NEW given \in {200, 400}, Count(grant, code, given),
         IsFiniteSet(Granted)
  PROVE  /\ Exchanges' = IF grant = "authorization_code"
                         THEN Exchanges \cup {Len(tokenRequests) + 1} ELSE Exchanges
         /\ Granted' = IF grant = "authorization_code" /\ given = 200
                       THEN Granted \cup {Len(tokenRequests) + 1} ELSE Granted
         /\ IsFiniteSet(Granted')
         /\ Cardinality(Granted') =
              Cardinality(Granted) + IF grant = "authorization_code" /\ given = 200 THEN 1 ELSE 0
<1>0. IsLastOf(grant, code, given)
  BY CountedIsLast
<1>1. /\ Len(tokenRequests) \in Nat
      /\ DOMAIN tokenRequests = 1..Len(tokenRequests)
      /\ DOMAIN tokenRequests' = 1..(Len(tokenRequests) + 1)
      /\ \A i \in 1..Len(tokenRequests) : tokenRequests'[i] = tokenRequests[i]
      /\ tokenRequests'[Len(tokenRequests) + 1] =
           [grant |-> grant, code |-> code, status |-> given]
  BY <1>0 DEF IsLastOf
<1>2. Exchanges' = IF grant = "authorization_code"
                   THEN Exchanges \cup {Len(tokenRequests) + 1} ELSE Exchanges
  BY <1>1 DEF Exchanges
<1>3. Granted' = IF grant = "authorization_code" /\ given = 200
                 THEN Granted \cup {Len(tokenRequests) + 1} ELSE Granted
  BY <1>1 DEF Exchanges, Granted
<1>4. Len(tokenRequests) + 1 \notin Granted
  BY <1>1 DEF Exchanges, Granted
<1>5. /\ IsFiniteSet(Granted \cup {Len(tokenRequests) + 1})
      /\ Cardinality(Granted \cup {Len(tokenRequests) + 1}) = Cardinality(Granted) + 1
  BY <1>4, FS_AddElement
<1>6. Cardinality(Granted) \in Nat
  BY FS_CardinalityType
<1>7. QED
  BY <1>2, <1>3, <1>5, <1>6

LEMMA AuthInvStep == AuthInv /\ [AuthNext]_authVars => AuthInv'
<1> SUFFICES ASSUME AuthInv, [AuthNext]_authVars PROVE AuthInv'
  OBVIOUS
<1> USE DEF AuthInv
<1>1. ASSUME UNCHANGED tokenRequests, UNCHANGED refreshTokens,
             AuthTypeOK', DOMAIN codes \subseteq DOMAIN codes',
             \A code \in DOMAIN codes : codes[code].used => codes'[code].used
      PROVE  AuthInv'
  <2>1. Exchanges' = Exchanges /\ Granted' = Granted
    BY <1>1 DEF Exchanges, Granted
  <2>2. QED
    BY <1>1, <2>1 DEF ExchangedAreUsed, CodesGrantOnce
<1>2. ASSUME NEW code \in {Unknown} \cup DOMAIN codes, NEW redirect \in Redirects,
             NEW verifier \in Verifiers, ExchangeCode(code, redirect, verifier)
      PROVE  AuthInv'
  <2>0. code \in Nat /\ DOMAIN codes = 1..Len(codes) /\ Len(codes) \in Nat
    BY DEF AuthTypeOK, Unknown
  <2>1. CASE code = Unknown \/ codes[code].used
    <3>1. Count("authorization_code", code, 400) /\ UNCHANGED <<codes, refreshTokens>>
      BY <1>2, <2>1 DEF ExchangeCode
    <3>0. IsLastOf("authorization_code", code, 400)
      BY <2>0, <3>1, CountedIsLast DEF Grants
    <3>2. /\ Exchanges' = Exchanges \cup {Len(tokenRequests) + 1}
          /\ Granted' = Granted /\ IsFiniteSet(Granted')
      BY <2>0, <3>1, CountedGrants DEF Grants
    <3>3. /\ Len(tokenRequests) \in Nat
          /\ DOMAIN tokenRequests = 1..Len(tokenRequests)
          /\ \A i \in 1..Len(tokenRequests) : tokenRequests'[i] = tokenRequests[i]
          /\ tokenRequests'[Len(tokenRequests) + 1].code = code
          /\ tokenRequests' \in Seq([grant : Grants, code : Nat, status : {200, 400}])
      BY <3>0 DEF IsLastOf
    <3>4. AuthTypeOK'
      BY <3>1, <3>3 DEF AuthTypeOK
    <3>5. ExchangedAreUsed'
      BY <2>1, <3>1, <3>2, <3>3 DEF ExchangedAreUsed, Exchanges
    <3>6. CodesGrantOnce'
      <4>1. \A i \in Exchanges', j \in Granted' :
              tokenRequests'[i].code = tokenRequests'[j].code => j <= i
        BY <3>2, <3>3, SMTT(30) DEF CodesGrantOnce, Exchanges, Granted
      <4>2. QED
        BY <3>1, <3>2, <4>1 DEF CodesGrantOnce
    <3>7. QED
      BY <3>2, <3>4, <3>5, <3>6
  <2>2. CASE ~(code = Unknown \/ codes[code].used)
    <3> DEFINE granted == Matches(code, redirect, verifier)
               given == IF granted THEN 200 ELSE 400
    <3>1. /\ codes' = [codes EXCEPT ![code].used = TRUE]
          /\ Count("authorization_code", code, given)
          /\ refreshTokens' = IF granted THEN refreshTokens + 1 ELSE refreshTokens
      BY <1>2, <2>2 DEF ExchangeCode, UsedUp
    <3>0. IsLastOf("authorization_code", code, given)
      BY <2>0, <3>1, CountedIsLast DEF Grants
    <3>2. /\ Exchanges' = Exchanges \cup {Len(tokenRequests) + 1}
          /\ Granted' = IF given = 200 THEN Granted \cup {Len(tokenRequests) + 1} ELSE Granted
          /\ IsFiniteSet(Granted')
          /\ Cardinality(Granted') = Cardinality(Granted) + IF given = 200 THEN 1 ELSE 0
      BY <2>0, <3>1, CountedGrants DEF Grants
    <3>3. /\ Len(tokenRequests) \in Nat
          /\ DOMAIN tokenRequests = 1..Len(tokenRequests)
          /\ \A i \in 1..Len(tokenRequests) : tokenRequests'[i] = tokenRequests[i]
          /\ tokenRequests'[Len(tokenRequests) + 1].code = code
          /\ tokenRequests' \in Seq([grant : Grants, code : Nat, status : {200, 400}])
      BY <3>0 DEF IsLastOf
    <3>4. AuthTypeOK'
      <4>1. codes \in Seq(IssuedCode) /\ code \in DOMAIN codes
        BY <2>2 DEF AuthTypeOK
      <4>2. codes[code] \in IssuedCode
        BY <4>1
      <4>3. [codes[code] EXCEPT !.used = TRUE] \in IssuedCode
        BY <4>2 DEF IssuedCode
      <4>4. codes' \in Seq(IssuedCode)
        BY <3>1, <4>1, <4>3
      <4>5. refreshTokens' \in Nat
        BY <3>1 DEF AuthTypeOK
      <4>6. QED
        BY <3>3, <4>4, <4>5 DEF AuthTypeOK
    <3>5. /\ code \in DOMAIN codes /\ DOMAIN codes' = DOMAIN codes
          /\ \A c \in DOMAIN codes : codes[c].used \/ c = code => codes'[c].used
      BY <2>2, <3>1 DEF AuthTypeOK, IssuedCode
    <3>6. \A i \in Exchanges : tokenRequests[i].code # code
      BY <2>2 DEF ExchangedAreUsed
    <3>7. ExchangedAreUsed'
      <4>1. \A i \in Exchanges :
              tokenRequests'[i].code = tokenRequests[i].code
        BY <3>3 DEF Exchanges
      <4>2. ASSUME NEW i \in Exchanges'
            PROVE  /\ tokenRequests'[i].code \in {Unknown} \cup DOMAIN codes'
                   /\ tokenRequests'[i].code # Unknown => codes'[tokenRequests'[i].code].used
        <5>1. i = Len(tokenRequests) + 1 \/ i \in Exchanges
          BY <3>2
        <5>2. CASE i \in Exchanges
          BY <3>5, <4>1, <5>2 DEF ExchangedAreUsed
        <5>3. CASE i = Len(tokenRequests) + 1
          BY <3>3, <3>5, <5>3
        <5>4. QED
          BY <5>1, <5>2, <5>3
      <4>3. QED
        BY <4>2 DEF ExchangedAreUsed
    <3>8. CodesGrantOnce'
      <4>1. \A i \in Exchanges', j \in Granted' :
              tokenRequests'[i].code = tokenRequests'[j].code => j <= i
        BY <3>2, <3>3, <3>6, SMTT(30) DEF CodesGrantOnce, Exchanges, Granted
      <4>2. Cardinality(Granted') = refreshTokens'
        BY <3>1, <3>2 DEF CodesGrantOnce, AuthTypeOK
      <4>3. QED
        BY <4>1, <4>2 DEF CodesGrantOnce
    <3>9. QED
      BY <3>2, <3>4, <3>7, <3>8
  <2>3. QED
    BY <2>1, <2>2
<1>3. ASSUME NEW grant \in {"refresh_token", "other"}, NEW code \in Nat, NEW given \in {200, 400},
             Count(grant, code, given), UNCHANGED <<codes, refreshTokens>>
      PROVE  AuthInv'
  <2>0. IsLastOf(grant, code, given)
    BY <1>3, CountedIsLast DEF Grants
  <2>1. Exchanges' = Exchanges /\ Granted' = Granted
    BY <1>3, CountedGrants DEF Grants
  <2>2. /\ DOMAIN tokenRequests = 1..Len(tokenRequests)
        /\ \A i \in 1..Len(tokenRequests) : tokenRequests'[i] = tokenRequests[i]
        /\ AuthTypeOK'
    BY <1>3, <2>0 DEF AuthTypeOK, IsLastOf
  <2>3. \A i \in Exchanges : tokenRequests'[i].code = tokenRequests[i].code
    BY <2>2 DEF Exchanges
  <2>4. ExchangedAreUsed'
    BY <1>3, <2>1, <2>3 DEF ExchangedAreUsed
  <2>5. Granted \subseteq Exchanges
    BY DEF Granted
  <2>6. CodesGrantOnce'
    BY <1>3, <2>1, <2>3, <2>5 DEF CodesGrantOnce
  <2>7. QED
    BY <2>1, <2>2, <2>4, <2>6
<1>4. ASSUME NEW document \in {"metadata", "resource"}, Rewrite(document) PROVE AuthInv'
  BY <1>1, <1>4 DEF Rewrite, AuthTypeOK
<1>5. CASE RevokeRefresh \/ HitResource \/ UNCHANGED authVars
  BY <1>1, <1>5 DEF RevokeRefresh, HitResource, authVars, AuthTypeOK
<1>6. ASSUME NEW redirect \in Redirects, NEW challenge \in Verifiers \cup {NoChallenge},
             Authorize(redirect, challenge)
      PROVE  AuthInv'
  <2>1. /\ AuthTypeOK' /\ UNCHANGED tokenRequests /\ UNCHANGED refreshTokens
        /\ DOMAIN codes \subseteq DOMAIN codes'
        /\ \A code \in DOMAIN codes : codes[code].used => codes'[code].used
    BY <1>6 DEF Authorize, AuthTypeOK, IssuedCode
  <2>2. QED
    BY <1>1, <2>1
<1>7. ASSUME NEW token \in 1..MaxCodes, Refresh(token) PROVE AuthInv'
  <2>1. token \in Nat /\ \E given \in {200, 400} : Count("refresh_token", token, given)
    BY <1>7 DEF Refresh
  <2>2. UNCHANGED <<codes, refreshTokens>>
    BY <1>7 DEF Refresh
  <2>3. QED
    BY <1>3, <2>1, <2>2
<1>8. CASE OtherGrant
  BY <1>3, <1>8 DEF OtherGrant
<1>9. QED
  BY <1>2, <1>4, <1>5, <1>6, <1>7, <1>8 DEF AuthNext

LEMMA AuthInvIsEnough == AuthInv => CodesGrantOnce
  BY DEF AuthInv

(* oauth-as-double.ts: in whatever order and however often codes are       *)
(* issued and exchanged, refreshed, and revoked, only the first exchange   *)
(* of a code is granted, and the counter shows every grant there was.      *)
THEOREM GrantedOnce == AuthSpec => []CodesGrantOnce
  BY AuthInvInit, AuthInvStep, AuthInvIsEnough, PTL DEF AuthSpec

-----------------------------------------------------------------------------
(* The suite's A2A peer and its tool server.                               *)

PeerTask ==
  [state : TaskStates \cup {"none", "SUBMITTED", "CANCELED"}, authority : BOOLEAN,
   final : TerminalStates \cup {"none"}]

(* A task that ended is in the state it ended in. *)
TellsItsEnd(task) == task.final # "none" => task.state = task.final

PeerInv ==
  /\ tasks \in Seq(PeerTask) /\ \A id \in DOMAIN tasks : TellsItsEnd(tasks[id])
  /\ nextState \in TaskStates \cup {"none"} /\ nextAuthority \in BOOLEAN

LEMMA PeerInvInit == PeerInit => PeerInv
<1> SUFFICES ASSUME PeerInit PROVE PeerInv
  OBVIOUS
<1>1. tasks = <<>> /\ nextState = "none" /\ nextAuthority = FALSE
  BY DEF PeerInit
<1>2. <<>> \in Seq(PeerTask) /\ DOMAIN <<>> = {}
  OBVIOUS
<1>3. QED
  BY <1>1, <1>2 DEF PeerInv

LEMMA PeerInvStep == PeerInv /\ [PeerNext]_peerVars => PeerInv'
<1> SUFFICES ASSUME PeerInv, [PeerNext]_peerVars PROVE PeerInv'
  OBVIOUS
<1>0. /\ tasks \in Seq(PeerTask) /\ \A id \in DOMAIN tasks : TellsItsEnd(tasks[id])
      /\ nextState \in TaskStates \cup {"none"} /\ nextAuthority \in BOOLEAN
  BY DEF PeerInv
<1>1. ASSUME UNCHANGED tasks, nextState' \in TaskStates \cup {"none"}, nextAuthority' \in BOOLEAN
      PROVE  PeerInv'
  BY <1>0, <1>1 DEF PeerInv
<1>2. ASSUME NEW id \in DOMAIN tasks, NEW task \in PeerTask, TellsItsEnd(task),
             tasks' = [tasks EXCEPT ![id] = task], UNCHANGED <<nextState, nextAuthority>>
      PROVE  PeerInv'
  <2>1. /\ tasks' \in Seq(PeerTask) /\ DOMAIN tasks' = DOMAIN tasks
        /\ \A i \in DOMAIN tasks' : tasks'[i] = IF i = id THEN task ELSE tasks[i]
    BY <1>0, <1>2
  <2>2. QED
    BY <1>0, <1>2, <2>1 DEF PeerInv
<1>3. ASSUME NEW id \in DOMAIN tasks, NEW s \in TaskStates, advanceTask(id, s)
      PROVE  PeerInv'
  <2>1. /\ Ending(s) \in TerminalStates \cup {"none"}
        /\ Ending(s) # "none" => Ending(s) = s
    BY DEF Ending, TerminalStates
  <2>2. tasks[id] \in PeerTask
    BY <1>0
  <2>3. [tasks[id] EXCEPT !.state = s, !.final = Ending(s)] \in PeerTask
    BY <2>1, <2>2 DEF PeerTask
  <2>4. TellsItsEnd([tasks[id] EXCEPT !.state = s, !.final = Ending(s)])
    BY <2>1, <2>2 DEF PeerTask, TellsItsEnd
  <2>5. /\ tasks' = [tasks EXCEPT ![id] = [tasks[id] EXCEPT !.state = s, !.final = Ending(s)]]
        /\ UNCHANGED <<nextState, nextAuthority>>
    BY <1>0, <1>3 DEF advanceTask
  <2>6. QED
    BY <1>2, <2>3, <2>4, <2>5
<1>4. ASSUME NEW method, NewTask(method) PROVE PeerInv'
  <2> DEFINE state == IF nextState = "none" THEN "SUBMITTED" ELSE nextState
             task == [state |-> state, authority |-> nextAuthority, final |-> Ending(state)]
  <2>1. /\ Ending(state) \in TerminalStates \cup {"none"}
        /\ Ending(state) # "none" => Ending(state) = state
    BY DEF Ending, TerminalStates
  <2>2. tasks' = Append(tasks, task) /\ nextState' = "none" /\ nextAuthority' = FALSE
    BY <1>4 DEF NewTask
  <2>3. state \in TaskStates \cup {"none", "SUBMITTED", "CANCELED"}
    BY <1>0
  <2> HIDE DEF state
  <2>4. task \in PeerTask /\ TellsItsEnd(task)
    BY <1>0, <2>1, <2>3 DEF PeerTask, TellsItsEnd
  <2> HIDE DEF task
  <2>5. /\ tasks' \in Seq(PeerTask)
        /\ \A i \in DOMAIN tasks' : tasks'[i] = task \/ (i \in DOMAIN tasks /\ tasks'[i] = tasks[i])
    BY <1>0, <2>2, <2>4
  <2>6. QED
    BY <1>0, <2>2, <2>4, <2>5 DEF PeerInv
<1>5. ASSUME NEW id \in 1..MaxTasks, CancelTask(id) PROVE PeerInv'
  <2>1. CASE id \notin DOMAIN tasks \/ tasks[id].state \in TerminalStates
    BY <1>0, <1>1, <1>5, <2>1 DEF CancelTask, Hooks
  <2>2. CASE id \in DOMAIN tasks /\ tasks[id].state \notin TerminalStates
    <3>0. tasks[id] \in PeerTask /\ TellsItsEnd(tasks[id])
      BY <1>0, <2>2
    <3>1. tasks[id].final = "none"
      BY <2>2, <3>0 DEF PeerTask, TellsItsEnd
    <3>2. [tasks[id] EXCEPT !.state = "CANCELED", !.final = "CANCELED"] \in PeerTask
      BY <3>0 DEF PeerTask, TerminalStates
    <3>3. TellsItsEnd([tasks[id] EXCEPT !.state = "CANCELED", !.final = "CANCELED"])
      BY <3>0 DEF PeerTask, TellsItsEnd
    <3>4. tasks' = [tasks EXCEPT ![id].state = "CANCELED",
                                 ![id].final = IF @ = "none" THEN "CANCELED" ELSE @]
      BY <1>5, <2>2 DEF CancelTask
    <3>5. tasks' = [tasks EXCEPT ![id] =
                      [tasks[id] EXCEPT !.state = "CANCELED", !.final = "CANCELED"]]
      BY <1>0, <2>2, <3>0, <3>1, <3>4 DEF PeerTask
    <3>6. UNCHANGED <<nextState, nextAuthority>>
      BY <1>5 DEF CancelTask, Hooks
    <3>7. QED
      BY <1>2, <2>2, <3>2, <3>3, <3>5, <3>6
  <2>3. QED
    BY <2>1, <2>2
<1>6. ASSUME NEW header \in {"absent", "1.0", "0.3", "0.4"}, NEW id \in 1..MaxTasks, Rpc(header, id)
      PROVE  PeerInv'
  <2>1. CASE UNCHANGED <<tasks, Hooks>>
    BY <1>0, <1>1, <2>1 DEF Hooks
  <2>2. CASE NewTask("SendMessage") \/ NewTask("message/send")
    BY <1>4, <2>2
  <2>3. CASE CancelTask(id)
    BY <1>5, <2>3
  <2>4. QED
    BY <1>6, <2>1, <2>2, <2>3
    DEF Rpc, ReadTask, ListTasks, Streaming, UnknownMethod
<1>7. ASSUME NEW s \in TaskStates, setNextState(s) PROVE PeerInv'
  BY <1>0, <1>1, <1>7 DEF setNextState
<1>8. ASSUME NEW header, GetCard(header) PROVE PeerInv'
  BY <1>0, <1>1, <1>8 DEF GetCard
<1>9. CASE setNextPeerAssertsAuthority \/ setLegacyErrorData \/ UNCHANGED peerVars
  BY <1>0, <1>1, <1>9 DEF setNextPeerAssertsAuthority, setLegacyErrorData, peerVars
<1>10. CASE resetPeer
  <2>1. tasks' = <<>> /\ nextState' = "none" /\ nextAuthority' = FALSE
    BY <1>10 DEF resetPeer
  <2>2. <<>> \in Seq(PeerTask) /\ DOMAIN <<>> = {}
    OBVIOUS
  <2>3. QED
    BY <2>1, <2>2 DEF PeerInv
<1>11. QED
  BY <1>3, <1>6, <1>7, <1>8, <1>9, <1>10 DEF PeerNext

LEMMA PeerInvIsEnough == PeerInv => EndedTasksStay
  BY DEF PeerInv, TellsItsEnd, EndedTasksStay

(* a2a-fake-peer.ts: whatever versions it speaks and whatever a scenario   *)
(* sets and a host sends, a task it ended is told of as it ended.          *)
THEOREM EndedTasksAreTold == PeerSpec => []EndedTasksStay
  BY PeerInvInit, PeerInvStep, PeerInvIsEnough, PTL DEF PeerSpec

FirstTools(n) == [i \in 1..n |-> i]

(* The tools shown so far are the first ones, up to the cursor, and every  *)
(* state the loop is given stands for one input asked for.                 *)
McpInv ==
  /\ cursor \in [next : 0..Catalogue, over : BOOLEAN]
  /\ cursor.over => cursor.next = Catalogue
  /\ listed = FirstTools(cursor.next)
  /\ requestState \in Nat /\ asked = requestState /\ asked <= Rounds
  /\ looped => asked = Rounds

LEMMA PagesJoin ==
  ASSUME NEW from \in 0..Catalogue, NEW to, to = Least(Catalogue, from + TOOLS_PAGE_SIZE)
  PROVE  to \in from..Catalogue /\ FirstTools(from) \o Page(from) = FirstTools(to)
<1>1. to \in from..Catalogue /\ from \in Nat /\ to \in Nat
  BY McpAssumption DEF Least
<1>2. Page(from) = [i \in 1..(to - from) |-> from + i]
  BY DEF Page
<1>3. /\ FirstTools(from) \in Seq(Nat) /\ Len(FirstTools(from)) = from
      /\ FirstTools(to) \in Seq(Nat) /\ Len(FirstTools(to)) = to
      /\ Page(from) \in Seq(Nat) /\ Len(Page(from)) = to - from
  BY <1>1, <1>2 DEF FirstTools
<1>4. /\ FirstTools(from) \o Page(from) \in Seq(Nat)
      /\ Len(FirstTools(from) \o Page(from)) = Len(FirstTools(from)) + Len(Page(from))
      /\ \A i \in 1..(Len(FirstTools(from)) + Len(Page(from))) :
           (FirstTools(from) \o Page(from))[i] =
             IF i <= Len(FirstTools(from)) THEN FirstTools(from)[i]
             ELSE Page(from)[i - Len(FirstTools(from))]
  BY <1>3, ConcatProperties
<1>5. ASSUME NEW i \in 1..to PROVE (FirstTools(from) \o Page(from))[i] = FirstTools(to)[i]
  <2>0. i \in Nat /\ from \in Nat /\ 1 <= i /\ i <= to
    BY <1>1
  <2>1. FirstTools(to)[i] = i
    BY DEF FirstTools
  <2>2. CASE i <= from
    <3>1. FirstTools(from)[i] = i
      BY <1>1, <2>2 DEF FirstTools
    <3>2. QED
      BY <1>1, <1>3, <1>4, <2>1, <2>2, <3>1
  <2>3. CASE i > from
    <3>1. i - from \in 1..(to - from)
      BY <1>1, <2>3
    <3>2. Page(from)[i - from] = from + (i - from)
      BY <1>2, <3>1
    <3>3. Page(from)[i - from] = i
      BY <2>0, <3>2
    <3>4. (FirstTools(from) \o Page(from))[i] = Page(from)[i - from]
      BY <1>1, <1>3, <1>4, <2>0, <2>3
    <3>5. QED
      BY <2>1, <3>3, <3>4
  <2>4. i <= from \/ i > from
    BY <2>0
  <2>5. QED
    BY <2>2, <2>3, <2>4, Zenon
<1>6. Len(FirstTools(from) \o Page(from)) = to
  BY <1>1, <1>3, <1>4
<1>7. FirstTools(from) \o Page(from) = FirstTools(to)
  BY <1>3, <1>4, <1>5, <1>6, SeqEqual
<1>8. QED
  BY <1>1, <1>7

LEMMA McpInvInit == McpInit => McpInv
<1> SUFFICES ASSUME McpInit PROVE McpInv
  OBVIOUS
<1>1. cursor \in [next : 0..Catalogue, over : BOOLEAN] /\ ~cursor.over /\ cursor.next = 0
  BY McpAssumption DEF McpInit, NoCursor
<1>2. <<>> = FirstTools(0)
  BY DEF FirstTools
<1>3. QED
  BY McpAssumption, <1>1, <1>2 DEF McpInit, McpInv

LEMMA McpInvStep == McpInv /\ [McpNext]_mcpVars => McpInv'
<1> SUFFICES ASSUME McpInv, [McpNext]_mcpVars PROVE McpInv'
  OBVIOUS
<1>1. CASE UNCHANGED clientVars
  BY <1>1 DEF McpInv, clientVars
<1>2. CASE ListTools
  <2> DEFINE to == Least(Catalogue, cursor.next + TOOLS_PAGE_SIZE)
  <2>1. /\ listed' = listed \o Page(cursor.next)
        /\ cursor' = CursorTo(to)
        /\ UNCHANGED <<requestState, asked, looped>>
    BY <1>2 DEF ListTools
  <2>2. to \in 0..Catalogue /\ listed' = FirstTools(to)
    <3>1. cursor.next \in 0..Catalogue /\ listed = FirstTools(cursor.next)
      BY DEF McpInv
    <3>2. /\ to \in cursor.next..Catalogue
          /\ FirstTools(cursor.next) \o Page(cursor.next) = FirstTools(to)
      BY <3>1, PagesJoin
    <3>3. QED
      BY <2>1, <3>1, <3>2
  <2> HIDE DEF to
  <2>3. /\ cursor' \in [next : 0..Catalogue, over : BOOLEAN]
        /\ cursor'.next = to
        /\ cursor'.over => to = Catalogue
    <3>1. (to >= Catalogue) \in BOOLEAN /\ (to >= Catalogue => to = Catalogue)
      BY <2>2, McpAssumption
    <3>2. QED
      BY <2>1, <2>2, <3>1 DEF CursorTo
  <2>4. QED
    BY <2>1, <2>2, <2>3 DEF McpInv
<1>3. CASE NeedsInputLoop
  BY <1>3, McpAssumption DEF NeedsInputLoop, Served, McpInv
<1>4. QED
  BY <1>1, <1>2, <1>3
  DEF McpNext, UnsupportedRevision, Legacy, CurrentRefused, Discover, ListBadCursor, CallTool,
      NeedsInput, setNextResultAssertsAuthority, resetServer, mcpVars

LEMMA McpInvIsEnough == McpInv => WalkAndLoopAreWhole
  BY DEF McpInv, WalkAndLoopAreWhole, FirstTools

(* mcp-fake-server.ts: a client that follows the cursors of any number of  *)
(* tools in pages of any size, and echoes the state of any number of       *)
(* rounds, has it whole, whatever else it calls and whenever the server is *)
(* reset.                                                                  *)
THEOREM WalksAreWhole == McpSpec => []WalkAndLoopAreWhole
  BY McpInvInit, McpInvStep, McpInvIsEnough, PTL DEF McpSpec

-----------------------------------------------------------------------------
(* The synthetic IdP.                                                      *)

(* What a root minted at an hour, with the issuer it has by now.           *)
Restamped(xml, issuer) == [xml EXCEPT !.consumed.issuer = issuer]

Stamped(root, variant, nameId, issuer, minted) ==
  Restamped(mintAssertion(root, variant, nameId, minted), issuer)

(* What a variant is, by what its verifier reads.                          *)
Lifetime(variant, minted) ==
  IF variant = "expired" THEN <<minted - 2, minted - 1>>
  ELSE IF variant = "not-yet-valid" THEN <<minted + 1, minted + 2>> ELSE <<minted - 1, minted + 1>>

LEMMA MintedReads ==
  ASSUME NEW root \in Roots, NEW variant \in SamlVariants, NEW nameId, NEW issuer \in Roots,
         NEW minted \in Nat
  PROVE  LET xml == Stamped(root, variant, nameId, issuer, minted) IN
         /\ issuerOf(xml) = issuer
         /\ xml.consumed.from = Lifetime(variant, minted)[1]
         /\ xml.consumed.until = Lifetime(variant, minted)[2]
         /\ xml.sigAlg = IF variant = "unsigned" THEN NotGiven
                         ELSE IF variant = "alg-none" THEN "none" ELSE "rsa"
         /\ variant \notin {"unsigned", "signature-wrapping"} => xml.refId = xml.consumed.id
         /\ variant = "signature-wrapping" => xml.refId # xml.consumed.id
         /\ variant \in {"valid", "expired", "not-yet-valid", "bad-signature"} =>
              \A reader \in Roots :
                Covers(reader, xml) <=> variant # "bad-signature" /\ reader = root /\ issuer = root
<1> DEFINE xml == Stamped(root, variant, nameId, issuer, minted)
<1> USE SamlAssumption
        DEF Stamped, Restamped, mintAssertion, samlEnvelope, canonicalAssertion, issuerOf, Covers, sign,
            Lifetime, NotGiven, Roots
<1>1. CASE variant = "valid"
  BY <1>1
<1>2. CASE variant = "expired"
  BY <1>2
<1>3. CASE variant = "not-yet-valid"
  BY <1>3
<1>4. CASE variant = "bad-signature"
  BY <1>4
<1>5. CASE variant = "alg-none"
  BY <1>5
<1>6. CASE variant = "unsigned"
  BY <1>6
<1>7. CASE variant = "signature-wrapping"
  BY <1>7
<1>8. QED
  BY <1>1, <1>2, <1>3, <1>4, <1>5, <1>6, <1>7 DEF SamlVariants

LEMMA VerifierReads ==
  ASSUME NEW root \in Roots, NEW variant \in SamlVariants, NEW nameId, NEW issuer \in Roots,
         NEW minted \in Nat, NEW reader \in Roots, NEW read \in Nat, minted <= read, NEW xml,
         xml = Stamped(root, variant, nameId, issuer, minted)
  PROVE  /\ reader = root /\ read = minted /\ issuer = root => verifyAssertion(reader, xml, read) = variant
         /\ (verifyAssertion(reader, xml, read) = "valid") <=>
              /\ reader = root /\ issuer = root
              /\ \/ variant = "valid" /\ read = minted
                 \/ variant = "not-yet-valid" /\ read = minted + 1
<1>1. /\ xml.consumed.from = Lifetime(variant, minted)[1]
      /\ xml.consumed.until = Lifetime(variant, minted)[2]
      /\ xml.sigAlg = IF variant = "unsigned" THEN NotGiven
                      ELSE IF variant = "alg-none" THEN "none" ELSE "rsa"
      /\ variant \notin {"unsigned", "signature-wrapping"} => xml.refId = xml.consumed.id
      /\ variant = "signature-wrapping" => xml.refId # xml.consumed.id
      /\ variant \in {"valid", "expired", "not-yet-valid", "bad-signature"} =>
           (Covers(reader, xml) <=> variant # "bad-signature" /\ reader = root /\ issuer = root)
  BY MintedReads
<1>2. CASE variant = "unsigned"
  <2>1. verifyAssertion(reader, xml, read) = "unsigned"
    BY <1>1, <1>2 DEF verifyAssertion, NotGiven
  <2>2. QED
    BY <1>2, <2>1
<1>3. CASE variant = "alg-none"
  <2>1. verifyAssertion(reader, xml, read) = "alg-none"
    BY <1>1, <1>3 DEF verifyAssertion, NotGiven
  <2>2. QED
    BY <1>3, <2>1
<1>4. CASE variant = "signature-wrapping"
  <2>1. verifyAssertion(reader, xml, read) = "signature-wrapping"
    BY <1>1, <1>4 DEF verifyAssertion, NotGiven
  <2>2. QED
    BY <1>4, <2>1
<1>5. CASE variant \in {"valid", "expired", "not-yet-valid", "bad-signature"}
  <2>1. verifyAssertion(reader, xml, read) =
          IF ~Covers(reader, xml) THEN "bad-signature"
          ELSE IF read < xml.consumed.from THEN "not-yet-valid"
          ELSE IF read >= xml.consumed.until THEN "expired" ELSE "valid"
    BY <1>1, <1>5 DEF verifyAssertion, NotGiven
  <2>2. /\ xml.consumed.from = IF variant = "expired" THEN minted - 2
                               ELSE IF variant = "not-yet-valid" THEN minted + 1 ELSE minted - 1
        /\ xml.consumed.until = IF variant = "expired" THEN minted - 1
                                ELSE IF variant = "not-yet-valid" THEN minted + 2 ELSE minted + 1
    BY <1>1 DEF Lifetime
  <2>3. Covers(reader, xml) <=> variant # "bad-signature" /\ reader = root /\ issuer = root
    BY <1>1, <1>5
  <2>4. QED
    BY <1>5, <2>1, <2>2, <2>3
<1>6. QED
  BY <1>2, <1>3, <1>4, <1>5 DEF SamlVariants

LEMMA MintedShape ==
  ASSUME NEW root \in Roots, NEW variant \in SamlVariants, NEW nameId, NEW minted \in Nat
  PROVE  \E id, for, from, until, sigAlg, signature, refId :
           mintAssertion(root, variant, nameId, minted) =
             [consumed |-> [id |-> id, issuer |-> root, subject |-> for, from |-> from, until |-> until],
              sigAlg |-> sigAlg, signature |-> signature, refId |-> refId]
<1> USE DEF mintAssertion, samlEnvelope, canonicalAssertion
<1>1. CASE variant = "valid"
  BY <1>1
<1>2. CASE variant = "expired"
  BY <1>2
<1>3. CASE variant = "not-yet-valid"
  BY <1>3
<1>4. CASE variant = "bad-signature"
  BY <1>4
<1>5. CASE variant = "alg-none"
  BY <1>5
<1>6. CASE variant = "unsigned"
  BY <1>6
<1>7. CASE variant = "signature-wrapping"
  <2> DEFINE plain == canonicalAssertion(variant, root, nameId, minted - 1, minted + 1)
             wrapper == [plain EXCEPT !.subject = "somebody-else"]
             sealed == sign(root, [plain EXCEPT !.id = "benign"])
  <2>1. mintAssertion(root, variant, nameId, minted) =
          [samlEnvelope(wrapper, "rsa", sealed) EXCEPT !.refId = "benign"]
    BY <1>7, Zenon
  <2>2. wrapper = [id |-> variant, issuer |-> root, subject |-> "somebody-else",
                 from |-> minted - 1, until |-> minted + 1]
    OBVIOUS
  <2> HIDE DEF wrapper, sealed
  <2>3. [samlEnvelope(wrapper, "rsa", sealed) EXCEPT !.refId = "benign"] =
          [consumed |-> wrapper, sigAlg |-> "rsa", signature |-> sealed, refId |-> "benign"]
    OBVIOUS
  <2> HIDE DEF mintAssertion, samlEnvelope, canonicalAssertion
  <2>4. mintAssertion(root, variant, nameId, minted) =
          [consumed |-> [id |-> variant, issuer |-> root, subject |-> "somebody-else",
                         from |-> minted - 1, until |-> minted + 1],
           sigAlg |-> "rsa", signature |-> sealed, refId |-> "benign"]
    BY <2>1, <2>2, <2>3
  <2>5. QED
    BY <2>4
<1>8. QED
  BY <1>1, <1>2, <1>3, <1>4, <1>5, <1>6, <1>7 DEF SamlVariants

LEMMA StampedAgain ==
  ASSUME NEW root \in Roots, NEW variant \in SamlVariants, NEW nameId, NEW minted \in Nat,
         NEW issuer, NEW later
  PROVE  /\ mintAssertion(root, variant, nameId, minted) = Stamped(root, variant, nameId, root, minted)
         /\ Restamped(Stamped(root, variant, nameId, issuer, minted), later) =
              Stamped(root, variant, nameId, later, minted)
<1>1. PICK id, for, from, until, sigAlg, signature, refId :
        mintAssertion(root, variant, nameId, minted) =
          [consumed |-> [id |-> id, issuer |-> root, subject |-> for, from |-> from, until |-> until],
           sigAlg |-> sigAlg, signature |-> signature, refId |-> refId]
  BY MintedShape
<1>2. \A i : Stamped(root, variant, nameId, i, minted) =
               [consumed |-> [id |-> id, issuer |-> i, subject |-> for, from |-> from, until |-> until],
                sigAlg |-> sigAlg, signature |-> signature, refId |-> refId]
  BY <1>1 DEF Stamped, Restamped
<1>3. QED
  BY <1>1, <1>2 DEF Restamped

(* What is under way was minted by a root, at an hour that has come.       *)
AssertionIsMinted ==
  assertion # NoAssertion =>
    \E root \in Roots, variant \in SamlVariants, nameId \in NameIds, issuer \in Roots,
       minted \in Nat :
      /\ minted <= samlHour
      /\ assertion = [xml |-> Stamped(root, variant, nameId, issuer, minted), by |-> root,
                      variant |-> variant, at |-> minted]

(* The leg follows the users it has made, and what the host showed.        *)
LegFollowsUsers ==
  /\ provisioned \subseteq [root : {RootA}, externalId : {"same", "collide"}]
  /\ linkLeg \in {"provisioned", "linked", "both-provisioned", "passed", "crosses-roots", "never-links"} =>
       [root |-> RootA, externalId |-> "same"] \in provisioned
  /\ linkLeg \in {"both-provisioned", "passed", "crosses-roots"} =>
       [root |-> RootA, externalId |-> "collide"] \in provisioned
  /\ linkLeg \in {"linked", "both-provisioned", "passed"} => samlHost.joins # "nothing"

SamlInv ==
  /\ samlHour \in Nat
  /\ samlHost.joins \in {"subjects", "subjects-of-one-root", "nothing"}
  /\ AssertionIsMinted /\ LegFollowsUsers /\ LinkLegIsTrue

LEMMA SamlInvInit == SamlInit => SamlInv
  BY SamlAssumption
  DEF SamlInit, SamlInv, AssertionIsMinted, LegFollowsUsers, LinkLegIsTrue

LEMMA FreshIsValid ==
  ASSUME samlHour \in Nat, NEW root \in Roots, NEW nameId
  PROVE  verifyAssertion(root, mintAssertion(root, "valid", nameId, samlHour), samlHour) = "valid"
<1> DEFINE xml == mintAssertion(root, "valid", nameId, samlHour)
<1>1. xml = Stamped(root, "valid", nameId, root, samlHour)
  BY DEF Stamped, Restamped, mintAssertion, samlEnvelope, canonicalAssertion
<1>2. "valid" \in SamlVariants /\ samlHour <= samlHour
  BY DEF SamlVariants
<1> HIDE DEF xml
<1>3. verifyAssertion(root, xml, samlHour) = "valid"
  BY <1>1, <1>2, VerifierReads
<1>4. QED
  BY <1>3 DEF xml

LEMMA SamlInvStep == SamlInv /\ [SamlNext]_samlVars => SamlInv'
<1> SUFFICES ASSUME SamlInv, [SamlNext]_samlVars PROVE SamlInv'
  OBVIOUS
<1>0. samlHour \in Nat
  BY DEF SamlInv
<1>1. ASSUME UNCHANGED <<samlHost, provisioned, linkLeg>>
      PROVE  LegFollowsUsers' /\ LinkLegIsTrue' /\ samlHost' = samlHost
  BY <1>1 DEF SamlInv, LegFollowsUsers, LinkLegIsTrue
<1>2. ASSUME UNCHANGED assertion, samlHour' \in Nat, samlHour' >= samlHour
      PROVE  AssertionIsMinted'
  <2>1. CASE assertion = NoAssertion
    BY <1>2, <2>1 DEF AssertionIsMinted
  <2>2. CASE assertion # NoAssertion
    <3>1. PICK root \in Roots, variant \in SamlVariants, nameId \in NameIds, issuer \in Roots,
               minted \in Nat :
            /\ minted <= samlHour
            /\ assertion = [xml |-> Stamped(root, variant, nameId, issuer, minted), by |-> root,
                            variant |-> variant, at |-> minted]
      BY <2>2 DEF SamlInv, AssertionIsMinted
    <3>2. /\ minted <= samlHour'
          /\ assertion' = [xml |-> Stamped(root, variant, nameId, issuer, minted), by |-> root,
                           variant |-> variant, at |-> minted]
      BY <1>0, <1>2, <3>1
    <3>3. QED
      BY <3>2 DEF AssertionIsMinted
  <2>3. QED
    BY <2>1, <2>2
<1>3. ASSUME NEW root \in Roots, NEW variant \in SamlVariants, NEW nameId \in NameIds,
             MintAssertion(root, variant, nameId)
      PROVE  SamlInv'
  <2>2. mintAssertion(root, variant, nameId, samlHour) =
          Stamped(root, variant, nameId, root, samlHour)
    BY <1>0, StampedAgain
  <2>3. /\ assertion' = [xml |-> Stamped(root, variant, nameId, root, samlHour), by |-> root,
                         variant |-> variant, at |-> samlHour]
        /\ UNCHANGED <<samlHour, samlHost, provisioned, linkLeg>>
    BY <1>3, <2>2 DEF MintAssertion
  <2>4. AssertionIsMinted'
    BY <1>0, <2>3 DEF AssertionIsMinted
  <2>5. QED
    BY <1>0, <1>1, <2>3, <2>4 DEF SamlInv
<1>4. ASSUME NEW root \in Roots, Restamp(root) PROVE SamlInv'
  <2>1. PICK by \in Roots, variant \in SamlVariants, nameId \in NameIds, issuer \in Roots,
             minted \in Nat :
          /\ minted <= samlHour
          /\ assertion = [xml |-> Stamped(by, variant, nameId, issuer, minted), by |-> by,
                          variant |-> variant, at |-> minted]
    BY <1>4 DEF Restamp, SamlInv, AssertionIsMinted
  <2>2. /\ assertion' = [assertion EXCEPT !.xml.consumed.issuer = root]
        /\ UNCHANGED <<samlHour, samlHost, provisioned, linkLeg>>
    BY <1>4 DEF Restamp
  <2>3. Restamped(Stamped(by, variant, nameId, issuer, minted), root) =
          Stamped(by, variant, nameId, root, minted)
    BY StampedAgain
  <2>4. assertion' = [xml |-> Stamped(by, variant, nameId, root, minted), by |-> by,
                      variant |-> variant, at |-> minted]
    <3>1. assertion' = [xml |-> Restamped(Stamped(by, variant, nameId, issuer, minted), root),
                        by |-> by, variant |-> variant, at |-> minted]
      BY <2>1, <2>2 DEF Restamped
    <3>2. QED
      BY <2>3, <3>1
  <2>5. AssertionIsMinted'
    BY <2>1, <2>2, <2>4 DEF AssertionIsMinted
  <2>6. QED
    BY <1>0, <1>1, <2>2, <2>5 DEF SamlInv
<1>5. CASE SamlHourPasses
  <2>1. /\ UNCHANGED <<assertion, samlHost, provisioned, linkLeg>>
        /\ samlHour' \in Nat /\ samlHour' >= samlHour
    BY <1>0, <1>5 DEF SamlHourPasses
  <2>2. AssertionIsMinted' /\ LegFollowsUsers' /\ LinkLegIsTrue'
    BY <1>1, <1>2, <2>1
  <2>3. QED
    BY <2>1, <2>2 DEF SamlInv
<1>6. CASE UNCHANGED samlVars
  <2>1. UNCHANGED <<samlHour, assertion, samlHost, provisioned, linkLeg>>
    BY <1>6 DEF samlVars
  <2>2. AssertionIsMinted' /\ LegFollowsUsers' /\ LinkLegIsTrue'
    BY <1>0, <1>1, <1>2, <2>1
  <2>3. QED
    BY <1>0, <2>1, <2>2 DEF SamlInv
<1>7. CASE SubjectLinkLeg
  <2>0. UNCHANGED <<samlHour, assertion, samlHost>>
    BY <1>7 DEF SubjectLinkLeg, Linked, Collides, Provision, Validate
  <2>1. AssertionIsMinted'
    BY <1>0, <1>2, <2>0
  <2>2. ASSUME linkLeg = "idle", Provision("same", "provisioned")
        PROVE  LegFollowsUsers' /\ LinkLegIsTrue'
    BY <2>0, <2>2 DEF Provision, SamlInv, LegFollowsUsers, LinkLegIsTrue
  <2>3. ASSUME linkLeg = "linked", Provision("collide", "both-provisioned")
        PROVE  LegFollowsUsers' /\ LinkLegIsTrue'
    BY <2>0, <2>3 DEF Provision, SamlInv, LegFollowsUsers, LinkLegIsTrue
  <2>4. ASSUME Linked PROVE LegFollowsUsers' /\ LinkLegIsTrue'
    <3>1. /\ linkLeg = "provisioned" /\ UNCHANGED provisioned
          /\ linkLeg' = IF samlHost.samlSeam
                        THEN (IF authenticated(RootA, "same") THEN "linked" ELSE "never-links")
                        ELSE "blocked"
      BY <2>4 DEF Linked, Validate
    <3>2. authenticated(RootA, "same") <=> samlHost.joins # "nothing"
      BY <1>0, <3>1, FreshIsValid DEF authenticated, SamlInv, LegFollowsUsers, Roots
    <3>3. QED
      BY <2>0, <3>1, <3>2 DEF SamlInv, LegFollowsUsers, LinkLegIsTrue
  <2>5. ASSUME Collides PROVE LegFollowsUsers' /\ LinkLegIsTrue'
    <3>1. /\ linkLeg = "both-provisioned" /\ UNCHANGED provisioned
          /\ linkLeg' = IF samlHost.samlSeam
                        THEN (IF authenticated(RootB, "collide") THEN "crosses-roots" ELSE "passed")
                        ELSE "blocked"
      BY <2>5 DEF Collides, Validate
    <3>2. authenticated(RootB, "collide") <=> samlHost.joins = "subjects"
      BY <1>0, <3>1, FreshIsValid, SamlAssumption
      DEF authenticated, SamlInv, LegFollowsUsers, Roots
    <3>3. QED
      BY <2>0, <3>1, <3>2 DEF SamlInv, LegFollowsUsers, LinkLegIsTrue
  <2>6. LegFollowsUsers' /\ LinkLegIsTrue'
    BY <1>7, <2>2, <2>3, <2>4, <2>5 DEF SubjectLinkLeg
  <2>7. QED
    BY <1>0, <2>0, <2>1, <2>6 DEF SamlInv
<1>8. QED
  BY <1>3, <1>4, <1>5, <1>6, <1>7 DEF SamlNext

LEMMA SamlInvIsEnough == SamlInv => SamlIsTrue
<1> SUFFICES ASSUME SamlInv PROVE SamlIsTrue
  OBVIOUS
<1>1. ASSUME assertion # NoAssertion, NEW reader \in Roots
      PROVE  LET reason == verifyAssertion(reader, assertion.xml, samlHour) IN
             /\ reader = assertion.by /\ samlHour = assertion.at /\ issuerOf(assertion.xml) = reader =>
                  reason = assertion.variant
             /\ (reason = "valid") <=>
                  /\ reader = assertion.by /\ issuerOf(assertion.xml) = reader
                  /\ \/ assertion.variant = "valid" /\ samlHour = assertion.at
                     \/ assertion.variant = "not-yet-valid" /\ samlHour = assertion.at + 1
  <2>1. PICK root \in Roots, variant \in SamlVariants, nameId \in NameIds, issuer \in Roots,
             minted \in Nat :
          /\ minted <= samlHour
          /\ assertion = [xml |-> Stamped(root, variant, nameId, issuer, minted), by |-> root,
                          variant |-> variant, at |-> minted]
    BY <1>1 DEF SamlInv, AssertionIsMinted
  <2>2. /\ assertion.by = root /\ assertion.variant = variant /\ assertion.at = minted
        /\ assertion.xml = Stamped(root, variant, nameId, issuer, minted)
    BY <2>1
  <2>3. samlHour \in Nat
    BY DEF SamlInv
  <2>4. issuerOf(assertion.xml) = issuer
    <3>1. issuerOf(Stamped(root, variant, nameId, issuer, minted)) = issuer
      BY <2>1, MintedReads
    <3>2. QED
      BY <2>2, <3>1
  <2>5. /\ reader = root /\ samlHour = minted /\ issuer = root =>
             verifyAssertion(reader, assertion.xml, samlHour) = variant
        /\ (verifyAssertion(reader, assertion.xml, samlHour) = "valid") <=>
             /\ reader = root /\ issuer = root
             /\ \/ variant = "valid" /\ samlHour = minted
                \/ variant = "not-yet-valid" /\ samlHour = minted + 1
    BY <2>1, <2>2, <2>3, VerifierReads
  <2>6. QED
    BY <2>2, <2>4, <2>5
<1>2. JudgedAsMinted
  BY <1>1 DEF JudgedAsMinted
<1>3. QED
  BY <1>2 DEF SamlInv, SamlIsTrue

(* saml-idp.ts: whoever mints and restamps what and whenever it is read,   *)
(* its own root alone takes it, within its window and for no other reason; *)
(* auth-subject-link-key-class.test.ts: the leg over both lanes passes the *)
(* hosts that link within one root, and tells the others apart.            *)
THEOREM AssertionsAreJudged == SamlSpec => []SamlIsTrue
  BY SamlInvInit, SamlInvStep, SamlInvIsEnough, PTL DEF SamlSpec

-----------------------------------------------------------------------------
(* The suite's telemetry collector.                                        *)

Answers == {"none", "ok", "too-large", "unsupported", "invalid"}

ExportRecord ==
  [via : Encodings, route : Signals \cup {"log"}, frames : Seq(Items), answer : Answers]

(* What an accepted export sent is kept, but for what cannot be seen.      *)
AcceptedAreKept ==
  \A a \in accepted :
    a[1] \in Items /\ (Unseen(a[1], a[2]) \/ Kept(a[1], a[2]) \in captured)

(* What is kept was sent, by an export that may leave something.           *)
KeptWereSent ==
  \A c \in captured : \E n \in Leaving : \E f \in Range(OfRoute(n)) : c = Kept(f, exports[n].via)

CollectorInv ==
  /\ offered \subseteq Items /\ exports \in Seq(ExportRecord)
  /\ AcceptedAreKept /\ KeptWereSent

LEMMA CollectorInvInit == CollectorInit => CollectorInv
<1> SUFFICES ASSUME CollectorInit PROVE CollectorInv
  OBVIOUS
<1>1. offered \subseteq Items /\ exports = <<>> /\ captured = {} /\ accepted = {}
  BY DEF CollectorInit
<1>2. <<>> \in Seq(ExportRecord)
  OBVIOUS
<1>3. QED
  BY <1>1, <1>2 DEF CollectorInv, AcceptedAreKept, KeptWereSent

LEMMA RangeOfPrefix ==
  ASSUME NEW S, NEW s \in Seq(S)
  PROVE  /\ Range(s) \subseteq S
         /\ \A i \in DOMAIN s : Range(SubSeq(s, 1, i - 1)) \subseteq Range(s)
<1>1. Len(s) \in Nat /\ DOMAIN s = 1..Len(s) /\ \A i \in 1..Len(s) : s[i] \in S
  OBVIOUS
<1>2. Range(s) \subseteq S
  BY <1>1 DEF Range
<1>3. ASSUME NEW i \in DOMAIN s PROVE Range(SubSeq(s, 1, i - 1)) \subseteq Range(s)
  <2>1. i \in Nat /\ 1 <= i /\ i <= Len(s)
    BY <1>1
  <2>2. /\ SubSeq(s, 1, i - 1) \in Seq(S)
        /\ Len(SubSeq(s, 1, i - 1)) = IF 1 <= i - 1 THEN (i - 1) - 1 + 1 ELSE 0
        /\ \A j \in 1..((i - 1) - 1 + 1) : SubSeq(s, 1, i - 1)[j] = s[1 + j - 1]
    BY <1>1, <2>1, SubSeqProperties
  <2>3. DOMAIN SubSeq(s, 1, i - 1) = 1..(i - 1)
    BY <2>1, <2>2
  <2>4. \A j \in 1..(i - 1) : SubSeq(s, 1, i - 1)[j] = s[j] /\ j \in DOMAIN s
    BY <1>1, <2>1, <2>2
  <2>5. QED
    BY <2>3, <2>4 DEF Range
<1>4. QED
  BY <1>2, <1>3

(* An answer is added to an export that had none, and what it leaves.      *)
LEMMA SettledKeeps ==
  ASSUME CollectorInv, NEW n \in DOMAIN exports, Pending(n), NEW replied \in Answers \ {"none"},
         NEW kept, Settle(n, replied, kept),
         replied # "ok" => kept = {} \/ n \in Leaving',
         \A c \in kept : \E f \in Range(OfRoute(n)) : c = Kept(f, exports[n].via),
         replied = "ok" => \A f \in Range(OfRoute(n)) :
           Unseen(f, exports[n].via) \/ Kept(f, exports[n].via) \in kept
  PROVE  CollectorInv'
<1>1. /\ exports' = [exports EXCEPT ![n].answer = replied]
      /\ captured' = captured \cup kept
      /\ accepted' = IF replied # "ok" THEN accepted
                     ELSE accepted \cup {<<f, exports[n].via>> : f \in Range(OfRoute(n))}
      /\ offered' = offered
  BY DEF Settle
<1>2. /\ exports \in Seq(ExportRecord) /\ offered \subseteq Items
      /\ AcceptedAreKept /\ KeptWereSent
  BY DEF CollectorInv
<1>3. exports[n] \in ExportRecord
  BY <1>2
<1>4. [exports[n] EXCEPT !.answer = replied] \in ExportRecord
  BY <1>3 DEF ExportRecord
<1>5. exports' = [exports EXCEPT ![n] = [exports[n] EXCEPT !.answer = replied]]
  BY <1>1
<1>6. exports' \in Seq(ExportRecord) /\ DOMAIN exports' = DOMAIN exports
  BY <1>2, <1>4, <1>5
<1>7. \A m \in DOMAIN exports :
        /\ exports'[m].via = exports[m].via /\ exports'[m].route = exports[m].route
        /\ exports'[m].frames = exports[m].frames
        /\ exports'[m].answer = IF m = n THEN replied ELSE exports[m].answer
  <2>1. \A m \in DOMAIN exports :
          exports'[m] = IF m = n THEN [exports[n] EXCEPT !.answer = replied] ELSE exports[m]
    BY <1>2, <1>5
  <2>2. QED
    BY <1>3, <2>1 DEF ExportRecord
<1>8. \A m \in DOMAIN exports : OfRoute(m)' = OfRoute(m)
  BY <1>7 DEF OfRoute
<1>9. Leaving \subseteq Leaving'
  BY <1>6, <1>7 DEF Leaving, Pending
<1>10. KeptWereSent'
  <2>1. ASSUME NEW c \in captured'
        PROVE  \E m \in Leaving' : \E f \in Range(OfRoute(m)') : c = Kept(f, exports'[m].via)
    <3>1. CASE c \in captured
      <4>1. PICK m \in Leaving : \E f \in Range(OfRoute(m)) : c = Kept(f, exports[m].via)
        BY <1>2, <3>1 DEF KeptWereSent
      <4>2. m \in DOMAIN exports
        BY DEF Leaving
      <4>3. QED
        BY <1>7, <1>8, <1>9, <4>1, <4>2
    <3>2. CASE c \in kept
      <4>1. n \in Leaving'
        BY <1>6, <1>7, <3>2 DEF Leaving
      <4>2. QED
        BY <1>7, <1>8, <3>2, <4>1
    <3>3. QED
      BY <1>1, <3>1, <3>2
  <2>2. QED
    BY <2>1 DEF KeptWereSent
<1>11. AcceptedAreKept'
  <2>1. ASSUME NEW a \in accepted'
        PROVE  a[1] \in Items /\ (Unseen(a[1], a[2]) \/ Kept(a[1], a[2]) \in captured')
    <3>1. CASE a \in accepted
      BY <1>1, <1>2, <3>1 DEF AcceptedAreKept
    <3>2. CASE a \notin accepted
      <4>1. replied = "ok" /\ \E f \in Range(OfRoute(n)) : a = <<f, exports[n].via>>
        BY <1>1, <3>2
      <4>2. Range(OfRoute(n)) \subseteq Items
        <5>1. OfRoute(n) \in Seq(Items)
          BY <1>3 DEF OfRoute, ExportRecord
        <5>2. QED
          BY <5>1, RangeOfPrefix
      <4>3. QED
        BY <1>1, <4>1, <4>2
    <3>3. QED
      BY <3>1, <3>2
  <2>2. QED
    BY <2>1 DEF AcceptedAreKept
<1>12. QED
  BY <1>1, <1>2, <1>6, <1>10, <1>11 DEF CollectorInv

(* What decodes of some frames is kept of them.                            *)
LEMMA IngestedIsKept ==
  ASSUME NEW frames, NEW more, Range(frames) \subseteq Range(more), NEW via
  PROVE  /\ \A c \in Ingested(frames, via) : \E f \in Range(more) : c = Kept(f, via)
         /\ \A f \in Range(frames) : Unseen(f, via) \/ Kept(f, via) \in Ingested(frames, via)
  BY DEF Ingested, Unseen

LEMMA CollectorInvStep == CollectorInv /\ [CollectorNext]_collectorVars => CollectorInv'
<1> SUFFICES ASSUME CollectorInv, [CollectorNext]_collectorVars PROVE CollectorInv'
  OBVIOUS
<1>0. exports \in Seq(ExportRecord) /\ offered \subseteq Items
  BY DEF CollectorInv
<1>1. ASSUME NEW via \in Encodings, NEW route \in Signals \cup {"log"},
             NEW frames \in Seq(Items), Export(via, route, frames)
      PROVE  CollectorInv'
  <2> DEFINE sent == [via |-> via, route |-> route, frames |-> frames, answer |-> "none"]
  <2>1. sent \in ExportRecord
    BY DEF ExportRecord, Answers
  <2>2. /\ exports' = Append(exports, sent)
        /\ UNCHANGED <<offered, captured, accepted>>
    BY <1>1 DEF Export
  <2> HIDE DEF sent
  <2>3. /\ exports' \in Seq(ExportRecord) /\ DOMAIN exports \subseteq DOMAIN exports'
        /\ \A n \in DOMAIN exports : exports'[n] = exports[n]
    BY <1>0, <2>1, <2>2
  <2>4. /\ Leaving \subseteq Leaving'
        /\ \A n \in DOMAIN exports : OfRoute(n)' = OfRoute(n)
    BY <2>3 DEF Leaving, OfRoute
  <2>5. KeptWereSent'
    <3>1. ASSUME NEW c \in captured'
          PROVE  \E m \in Leaving' : \E f \in Range(OfRoute(m)') : c = Kept(f, exports'[m].via)
      <4>1. PICK m \in Leaving : \E f \in Range(OfRoute(m)) : c = Kept(f, exports[m].via)
        BY <2>2 DEF CollectorInv, KeptWereSent
      <4>2. m \in DOMAIN exports
        BY DEF Leaving
      <4>3. QED
        BY <2>3, <2>4, <4>1, <4>2
    <3>2. QED
      BY <3>1 DEF KeptWereSent
  <2>6. AcceptedAreKept'
    BY <2>2 DEF CollectorInv, AcceptedAreKept
  <2>7. QED
    BY <1>0, <2>2, <2>3, <2>5, <2>6 DEF CollectorInv
<1>2. ASSUME NEW n \in DOMAIN exports, Again(n) PROVE CollectorInv'
  <2>1. exports[n] \in ExportRecord
    BY <1>0
  <2>2. /\ exports[n].via \in Encodings /\ exports[n].route \in Signals \cup {"log"}
        /\ exports[n].frames \in Seq(Items)
    BY <2>1 DEF ExportRecord
  <2>3. QED
    BY <1>1, <1>2, <2>2 DEF Again
<1>3. ASSUME NEW n \in DOMAIN exports, HandleRefused(n) PROVE CollectorInv'
  <2>1. Pending(n) /\ \E replied \in {"too-large", "unsupported", "invalid"} : Settle(n, replied, {})
    BY <1>3 DEF HandleRefused
  <2>2. PICK replied \in {"too-large", "unsupported", "invalid"} : Settle(n, replied, {})
    BY <2>1
  <2>3. replied \in Answers \ {"none"} /\ replied # "ok"
    BY DEF Answers
  <2>4. QED
    BY <2>1, <2>2, <2>3, SettledKeeps
<1>4. ASSUME NEW n \in DOMAIN exports, HandleGrpcRefused(n) PROVE CollectorInv'
  <2>0. "invalid" \in Answers \ {"none"} /\ Pending(n) /\ exports[n].via = "grpc"
    BY <1>4 DEF Answers, HandleGrpcRefused
  <2>1. CASE Settle(n, "invalid", {})
    BY <2>0, <2>1, SettledKeeps
  <2>2. ASSUME NEW i \in DOMAIN exports[n].frames, exports[n].route \in Signals,
               Settle(n, "invalid", Ingested(SubSeq(OfRoute(n), 1, i - 1), "grpc"))
        PROVE  CollectorInv'
    <3>1. exports[n] \in ExportRecord
      BY <1>0
    <3>2. OfRoute(n) = exports[n].frames /\ OfRoute(n) \in Seq(Items)
      BY <2>2, <3>1 DEF OfRoute, ExportRecord
    <3>3. Range(SubSeq(OfRoute(n), 1, i - 1)) \subseteq Range(OfRoute(n))
      BY <3>2, RangeOfPrefix
    <3>4. \A c \in Ingested(SubSeq(OfRoute(n), 1, i - 1), "grpc") :
            \E f \in Range(OfRoute(n)) : c = Kept(f, "grpc")
      BY <3>3, IngestedIsKept
    <3>5. Ingested(SubSeq(OfRoute(n), 1, i - 1), "grpc") = {} \/ n \in Leaving'
      <4>1. CASE i = 1
        <5>1. SubSeq(OfRoute(n), 1, 0) = <<>>
          BY SubSeqEmpty
        <5>2. Range(SubSeq(OfRoute(n), 1, i - 1)) = {}
          BY <4>1, <5>1 DEF Range
        <5>3. QED
          BY <5>2 DEF Ingested
      <4>2. CASE i # 1
        <5>1. Len(exports[n].frames) > 1
          BY <2>2, <3>2, <4>2
        <5>2. /\ exports' = [exports EXCEPT ![n].answer = "invalid"]
              /\ DOMAIN exports' = DOMAIN exports
              /\ exports'[n].via = "grpc" /\ exports'[n].answer = "invalid"
              /\ exports'[n].frames = exports[n].frames
          BY <1>0, <2>0, <2>2, <3>1 DEF Settle, ExportRecord
        <5>3. QED
          BY <5>1, <5>2 DEF Leaving
      <4>3. QED
        BY <4>1, <4>2
    <3>6. QED
      BY <2>0, <2>2, <3>4, <3>5, SettledKeeps
  <2>3. QED
    BY <1>4, <2>1, <2>2 DEF HandleGrpcRefused
<1>5. ASSUME NEW n \in DOMAIN exports, HandleAccepted(n) PROVE CollectorInv'
  <2>1. /\ Pending(n) /\ "ok" \in Answers \ {"none"}
        /\ Settle(n, "ok", Ingested(OfRoute(n), exports[n].via))
    BY <1>5 DEF HandleAccepted, Answers
  <2>2. /\ \A c \in Ingested(OfRoute(n), exports[n].via) :
             \E f \in Range(OfRoute(n)) : c = Kept(f, exports[n].via)
        /\ \A f \in Range(OfRoute(n)) :
             \/ Unseen(f, exports[n].via)
             \/ Kept(f, exports[n].via) \in Ingested(OfRoute(n), exports[n].via)
    BY IngestedIsKept
  <2>3. QED
    BY <2>1, <2>2, SettledKeeps
<1>6. CASE StopServers \/ UNCHANGED collectorVars
  <2>1. UNCHANGED <<offered, exports, captured, accepted>>
    BY <1>6 DEF StopServers, collectorVars
  <2>2. QED
    BY <2>1 DEF CollectorInv, AcceptedAreKept, KeptWereSent, Leaving, OfRoute
<1>7. CASE ResetCollector
  BY <1>0, <1>7 DEF ResetCollector, CollectorInv, AcceptedAreKept, KeptWereSent
<1>8. ASSUME NEW frames \in SeqOf(offered, 2) PROVE frames \in Seq(Items)
  <2>1. PICK m \in 0..2 : frames \in [1..m -> offered]
    BY DEF SeqOf
  <2>2. frames \in [1..m -> Items] /\ m \in Nat
    BY <1>0, <2>1
  <2>3. QED
    BY <2>2
<1>9. QED
  BY <1>1, <1>2, <1>3, <1>4, <1>5, <1>6, <1>7, <1>8 DEF CollectorNext

LEMMA CollectorInvIsEnough == CollectorInv => CanaryIsFound
<1> SUFFICES ASSUME CollectorInv PROVE CanaryIsFound
  OBVIOUS
<1>1. ASSUME NEW frame \in Items, NEW via, ~Unseen(frame, via)
      PROVE  /\ Kept(frame, via) = frame /\ frame.spot \in Searched
             /\ frame.signal = "metric" => frame.spot # "name"
  <2>1. frame.spot \in Searched /\ ValueIsKept(frame.spot)
    BY <1>1, CollectorAssumption DEF Unseen, Searched, SpanSpots, MetricSpots, ValueIsKept
  <2>2. [frame EXCEPT !.spot = frame.spot] = frame
    BY CollectorAssumption
  <2>3. Kept(frame, via) = [frame EXCEPT !.spot = frame.spot]
    BY <1>1, <2>1 DEF Kept, Unseen
  <2>4. QED
    BY <1>1, <2>1, <2>2, <2>3 DEF Unseen
<1>2. ASSUME NEW a \in accepted, ~Unseen(a[1], a[2])
      PROVE  \E leak \in findCanaryLeakage :
               /\ leak.surface = IF a[1].spot = "resource" THEN "resource" ELSE a[1].signal
               /\ leak.emitter \in {"any", a[1].run} /\ leak.spot = a[1].spot
  <2>1. a[1] \in Items /\ Kept(a[1], a[2]) \in captured
    BY <1>2 DEF CollectorInv, AcceptedAreKept
  <2>2. a[1] \in captured /\ a[1].spot \in Searched /\ (a[1].signal = "metric" => a[1].spot # "name")
    BY <1>1, <1>2, <2>1
  <2>3. [surface |-> IF a[1].spot = "resource" THEN "resource" ELSE a[1].signal,
         emitter |-> IF a[1].spot = "resource" THEN "any" ELSE a[1].run, spot |-> a[1].spot]
          \in findCanaryLeakage
    BY <2>2 DEF findCanaryLeakage
  <2>4. QED
    BY <2>3
<1>3. \A c \in captured : \E n \in Leaving : \E f \in Range(OfRoute(n)) : c = Kept(f, exports[n].via)
  BY DEF CollectorInv, KeptWereSent
<1>4. ASSUME NEW leak \in findCanaryLeakage
      PROVE  \E n \in Leaving : \E f \in Range(exports[n].frames) :
               f.spot = leak.spot /\ leak.emitter \in {"any", f.run}
  <2>1. PICK c \in captured :
          /\ c.spot \in Searched
          /\ leak.spot = c.spot
          /\ leak.emitter = IF c.spot = "resource" THEN "any" ELSE c.run
    BY DEF findCanaryLeakage
  <2>2. PICK n \in Leaving : \E f \in Range(OfRoute(n)) : c = Kept(f, exports[n].via)
    BY <1>3
  <2>3. PICK f \in Range(OfRoute(n)) : c = Kept(f, exports[n].via)
    BY <2>2
  <2>4. exports[n] \in ExportRecord
    BY DEF CollectorInv, Leaving
  <2>5. f \in Range(exports[n].frames) /\ f \in Items
    <3>1. OfRoute(n) = exports[n].frames
      BY DEF OfRoute, Range
    <3>2. exports[n].frames \in Seq(Items)
      BY <2>4 DEF ExportRecord
    <3>3. QED
      BY <3>1, <3>2, RangeOfPrefix
  <2>6. c.run = f.run /\ (c.spot = f.spot \/ c.spot = "nowhere")
    BY <2>3, <2>5, CollectorAssumption DEF Kept
  <2>7. QED
    BY <2>1, <2>5, <2>6 DEF Searched
<1>5. QED
  BY <1>2, <1>3, <1>4 DEF CanaryIsFound

(* otel-collector.ts: however exports and refusals, restarts and starts    *)
(* over come between one another, the search finds what was accepted, and  *)
(* nothing that was not sent.                                              *)
THEOREM CanariesAreFound == CollectorSpec => []CanaryIsFound
  BY CollectorInvInit, CollectorInvStep, CollectorInvIsEnough, PTL DEF CollectorSpec
=============================================================================
