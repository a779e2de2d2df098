------------------------------- MODULE Watching -------------------------------
(***************************************************************************)
(* How the suite waits for a host: watchForResumption over two reads that  *)
(* are not one (durability-watch.ts), pollUntil over one (polling.ts),     *)
(* pollTerminal (fixture-run-observer.ts) and waitFor (standard-           *)
(* webhooks.ts), beside the host they watch. A read may fail, the host may *)
(* die and come back, and any time may pass between two requests.          *)
(***************************************************************************)
EXTENDS Naturals, Integers, FiniteSets

CONSTANTS
  Budget,    \* how long a loop waits, in ticks
  PollEvery, \* the pause between two rounds, in ticks
  Latest     \* bound on the clock

ASSUME WatchingAssumption ==
  /\ Budget \in Nat /\ Latest \in Nat /\ PollEvery \in Nat \ {0}

Loops == {"watchForResumption", "pollUntil", "pollTerminal", "waitFor"}

VARIABLES
  loop,        \* which loop runs
  hostHonest,  \* the host completes a run only by executing it
  status, resumptions, \* the host: the run's status and the dispatches in its log
  clock,
  at,          \* where the loop is
  wakeAt,      \* when its pause ends
  readStatus,  \* what the status read of this round said; "null" when it failed
  completedUnresumed, \* the latch of the watch
  outcome,     \* what the loop returned
  \* History.
  wasUnresumed,\* the host has really shown completed without resuming
  goalAt,      \* when the run resumed, or finished for the other loops
  failedReads  \* some read has failed since the goal

hostVars == <<hostHonest, status, resumptions>>
loopVars == <<loop, at, wakeAt, readStatus, completedUnresumed, outcome>>
watchHistory == <<wasUnresumed, goalAt, failedReads>>
watchingVars == <<hostVars, loopVars, clock, watchHistory>>

Never == Latest + 1

Resumed == resumptions > 0
Goal(s, r) == IF loop = "watchForResumption" THEN r > 0 ELSE s = "completed"

-----------------------------------------------------------------------------
(* The host, external: the killed run is dispatched again and completes;   *)
(* one that is not honest may call it completed as it stands.              *)
HostStep ==
  /\ \/ /\ status = "running" /\ ~Resumed
        /\ resumptions' = resumptions + 1 /\ UNCHANGED status
     \/ /\ status = "running" /\ (Resumed \/ ~hostHonest)
        /\ status' = "completed" /\ UNCHANGED resumptions
     \/ /\ status = "completed" /\ ~Resumed
        /\ resumptions' = resumptions + 1 /\ status' = "running"
  /\ wasUnresumed' = (wasUnresumed \/ (status' = "completed" /\ resumptions' = 0))
  /\ goalAt' = IF goalAt = Never /\ Goal(status', resumptions') THEN clock ELSE goalAt
  /\ UNCHANGED <<hostHonest, loopVars, clock, failedReads>>

(* A request takes any time; a timer fires when it is due.                 *)
TimePasses ==
  /\ clock < Latest
  /\ at = "second" \/ (at = "pause" /\ clock < wakeAt)
  /\ clock' = clock + 1
  /\ UNCHANGED <<hostVars, loopVars, watchHistory>>

-----------------------------------------------------------------------------
(* Variant: the log is read before the status, as before 2.33.1. *)
LogFirst == "log"
(* The status is read first.                                               *)
FirstRead == "status"
SecondRead == IF FirstRead = "status" THEN "log" ELSE "status"

(* A read that fails concludes nothing: null, or an unreadable log.        *)
Reads(value) == {value, "null"}

(* The first request of a round of the watch.                              *)
ReadFirst ==
  /\ loop = "watchForResumption" /\ at = "first"
  /\ readStatus' \in Reads(IF FirstRead = "status" THEN status
                           ELSE IF Resumed THEN "resumed" ELSE "not-resumed")
  /\ failedReads' = (failedReads \/ (readStatus' = "null" /\ goalAt # Never))
  /\ at' = "second"
  /\ UNCHANGED <<hostVars, loop, wakeAt, completedUnresumed, outcome, clock,
                 wasUnresumed, goalAt>>

TimeIsUp == IF loop = "pollTerminal" THEN clock > Budget ELSE clock >= Budget

Return(result) == at' = "returned" /\ outcome' = result /\ UNCHANGED wakeAt
Pause == at' = "pause" /\ wakeAt' = clock + PollEvery /\ UNCHANGED outcome

(* The second request, and what the round concludes from both.             *)
ReadSecond ==
  /\ loop = "watchForResumption" /\ at = "second"
  /\ \E other \in Reads(IF SecondRead = "log" THEN (IF Resumed THEN "resumed" ELSE "not-resumed")
                        ELSE status) :
       LET said == IF FirstRead = "status" THEN readStatus ELSE other
           log  == IF FirstRead = "status" THEN other ELSE readStatus
       IN  /\ completedUnresumed' =
                (completedUnresumed \/ (said = "completed" /\ log = "not-resumed"))
           /\ failedReads' = (failedReads \/ (other = "null" /\ goalAt # Never))
           /\ IF log = "resumed" THEN Return("seen")
              ELSE IF TimeIsUp THEN Return("timed-out") ELSE Pause
  /\ UNCHANGED <<hostVars, loop, readStatus, clock, wasUnresumed, goalAt>>

(* Variant: none of them reads again once its time is up. *)
NeverReadsLate == FALSE
(* pollUntil looks at the clock before it reads, the others read once more *)
(* when their time is up.                                                  *)
ReadsLate == loop # "pollUntil"

(* One round of a loop over a single read: the request ...                 *)
Ask ==
  /\ loop # "watchForResumption" /\ at = "first"
  /\ IF TimeIsUp /\ ~ReadsLate THEN Return("timed-out")
     ELSE at' = "second" /\ UNCHANGED <<outcome, wakeAt>>
  /\ UNCHANGED <<hostVars, loop, readStatus, completedUnresumed, clock, watchHistory>>

(* ... and its answer. waitFor looks at what has reached the suite's own   *)
(* receiver, which cannot fail.                                            *)
Answer ==
  /\ loop # "watchForResumption" /\ at = "second"
  /\ \E read \in IF loop = "waitFor" THEN {status} ELSE Reads(status) :
       /\ failedReads' = (failedReads \/ (read = "null" /\ goalAt # Never))
       /\ IF read = "completed" THEN Return("seen")
          ELSE IF ReadsLate /\ TimeIsUp THEN Return("timed-out")
          ELSE Pause
  /\ UNCHANGED <<hostVars, loop, readStatus, completedUnresumed, clock, wasUnresumed, goalAt>>

Wake ==
  /\ at = "pause" /\ clock >= wakeAt
  /\ at' = "first"
  /\ UNCHANGED <<hostVars, loop, wakeAt, readStatus, completedUnresumed, outcome, clock,
                 watchHistory>>

-----------------------------------------------------------------------------
WatchingInit ==
  /\ loop \in Loops /\ hostHonest \in BOOLEAN
  /\ loop # "watchForResumption" => hostHonest
  /\ status = "running" /\ resumptions = 0
  /\ clock = 0 /\ at = "first" /\ wakeAt = 0
  /\ readStatus = "null" /\ completedUnresumed = FALSE /\ outcome = "none"
  /\ wasUnresumed = FALSE /\ goalAt = Never /\ failedReads = FALSE

WatchingNext == HostStep \/ TimePasses \/ ReadFirst \/ ReadSecond \/ Ask \/ Answer \/ Wake

WatchingSpec == WatchingInit /\ [][WatchingNext]_watchingVars

-----------------------------------------------------------------------------
(* durability-watch.ts: if the later log "still shows no resumption, the   *)
(* run really was observable as completed un-re-executed". The latch is    *)
(* set only of a host that did show it.                                    *)
LatchIsTrue == completedUnresumed => wasUnresumed

(* A loop that gives up, and none of whose reads failed, was not late: the *)
(* host had not reached the goal while the budget ran, or for pollUntil    *)
(* until the pause the budget ended in.                                    *)
SeenIfInTime ==
  outcome = "timed-out" /\ ~failedReads =>
    goalAt + (IF loop = "pollUntil" THEN PollEvery ELSE 0) >= Budget

-----------------------------------------------------------------------------
(***************************************************************************)
(* How long a webhook row waits for a host's retries, and when it may      *)
(* convict: webhook-retry-window.ts, and the dead-letter leg that uses it  *)
(* (v2-webhook-durable-delivery.test.ts). The host delivers, retries on a  *)
(* schedule it cannot put on the wire, and dead-letters; it may advertise  *)
(* the longest this takes. Time is in ticks of the 20 s floor's size.      *)
(***************************************************************************)
CONSTANTS
  RETRY_WAIT_FLOOR, DEFAULT_RETRY_WAIT_CAP, MAX_RETRY_WAIT_CAP, ADVERTISED_BOUND_GRACE,
  RetryEnvs,  \* values of OPENWOP_WEBHOOK_RETRY_WAIT_MS; 0 stands for unset or no number
  Policies,   \* advertised policies: [maxAttempts, backoff, maxElapsed], maxElapsed 0 when absent
  LatestRetry \* bound on the time of the model

ASSUME RetryAssumption ==
  /\ {RETRY_WAIT_FLOOR, DEFAULT_RETRY_WAIT_CAP, MAX_RETRY_WAIT_CAP} \cup RetryEnvs \subseteq Nat
  /\ Policies \subseteq [maxAttempts : Nat, backoff : STRING, maxElapsed : Nat]
  /\ RETRY_WAIT_FLOOR <= DEFAULT_RETRY_WAIT_CAP
  /\ DEFAULT_RETRY_WAIT_CAP <= MAX_RETRY_WAIT_CAP
  /\ ADVERTISED_BOUND_GRACE \in Nat \ {0}

VARIABLES
  policy, retryEnv,
  keepsPromise, \* the host makes its attempts, and dead-letters within its own bound
  now, attempts, firstAt, inSink,
  leg,          \* where the leg is
  waitFrom,     \* when its current wait began
  retriedSeen,  \* attempts seen when the first wait ended
  retryVerdict

retryVars == <<policy, retryEnv, keepsPromise, now, attempts, firstAt, inSink,
               leg, waitFrom, retriedSeen, retryVerdict>>

-----------------------------------------------------------------------------
advertisedMaxElapsed == policy.maxElapsed

(* Raised by the operator, never lowered, and never past the hour.         *)
retryWaitCap ==
  IF retryEnv < DEFAULT_RETRY_WAIT_CAP THEN DEFAULT_RETRY_WAIT_CAP
  ELSE IF retryEnv > MAX_RETRY_WAIT_CAP THEN MAX_RETRY_WAIT_CAP ELSE retryEnv

AtMostAnHour(t) == IF t > MAX_RETRY_WAIT_CAP THEN MAX_RETRY_WAIT_CAP ELSE t

retryWaitPath ==
  IF advertisedMaxElapsed > 0
  THEN IF advertisedMaxElapsed + ADVERTISED_BOUND_GRACE >= retryWaitCap
       THEN "advertised-bound" ELSE "cap"
  ELSE IF policy.backoff \in {"exponential", "fixed"} THEN "cap" ELSE "floor"

retryWaitFor ==
  AtMostAnHour(CASE retryWaitPath = "advertised-bound" ->
                      advertisedMaxElapsed + ADVERTISED_BOUND_GRACE
                 [] retryWaitPath = "cap" -> retryWaitCap
                 [] OTHER -> RETRY_WAIT_FLOOR)

(* Variant: any wait of a host that advertises a bound is long enough. *)
PastAnyWait(waited) == advertisedMaxElapsed > 0
(* Past the host's own bound and the grace: the only point to convict.     *)
pastAdvertisedBound(waited) ==
  advertisedMaxElapsed > 0 /\ waited >= advertisedMaxElapsed + ADVERTISED_BOUND_GRACE

-----------------------------------------------------------------------------
(* The host, external.                                                     *)
Attempt ==
  /\ ~inSink
  /\ attempts < policy.maxAttempts + (IF keepsPromise THEN 0 ELSE 1)
  /\ attempts' = attempts + 1
  /\ firstAt' = IF attempts = 0 THEN now ELSE firstAt
  /\ UNCHANGED <<policy, retryEnv, keepsPromise, now, inSink, leg, waitFrom, retriedSeen,
                 retryVerdict>>

DeadLetter ==
  /\ attempts = policy.maxAttempts /\ ~inSink
  /\ inSink' = TRUE
  /\ UNCHANGED <<policy, retryEnv, keepsPromise, now, attempts, firstAt, leg, waitFrom,
                 retriedSeen, retryVerdict>>

(* The first attempt follows the run's end within the grace. A host that   *)
(* keeps its promise has dead-lettered when its bound is up.               *)
RetryTimePasses ==
  /\ now < LatestRetry /\ leg # "judged"
  /\ attempts = 0 => now + 1 < ADVERTISED_BOUND_GRACE
  /\ keepsPromise /\ advertisedMaxElapsed > 0 /\ attempts > 0 /\ ~inSink =>
       now < firstAt + advertisedMaxElapsed
  /\ now' = now + 1
  /\ UNCHANGED <<policy, retryEnv, keepsPromise, attempts, firstAt, inSink, leg, waitFrom,
                 retriedSeen, retryVerdict>>

-----------------------------------------------------------------------------
WaitIsOver(done) == done \/ now >= waitFrom + retryWaitFor

(* The first wait: until the delivery was retried.                         *)
RetryAwaited ==
  /\ leg = "await-retry" /\ WaitIsOver(attempts > 1)
  /\ retriedSeen' = attempts
  /\ leg' = IF attempts > 1 THEN "await-exhaustion" ELSE "read-sink"
  /\ waitFrom' = now
  /\ UNCHANGED <<policy, retryEnv, keepsPromise, now, attempts, firstAt, inSink, retryVerdict>>

(* The second: until the last advertised attempt, and a second more.       *)
ExhaustionAwaited ==
  /\ leg = "await-exhaustion" /\ WaitIsOver(attempts >= policy.maxAttempts)
  /\ leg' = "read-sink"
  /\ UNCHANGED <<policy, retryEnv, keepsPromise, now, attempts, firstAt, inSink, waitFrom,
                 retriedSeen, retryVerdict>>

(* What the leg concludes of the sink it reads; a host without the sink's  *)
(* read is not judged here.                                                *)
DeadLetterVerdict ==
  IF ~inSink /\ retriedSeen > 1 /\ attempts < policy.maxAttempts
  THEN IF pastAdvertisedBound(retryWaitFor) THEN "fail" ELSE "blocked"
  ELSE IF retriedSeen > 1 /\ attempts <= policy.maxAttempts /\ inSink THEN "pass" ELSE "fail"

ReadSink ==
  /\ leg = "read-sink"
  /\ retryVerdict' = DeadLetterVerdict /\ leg' = "judged"
  /\ UNCHANGED <<policy, retryEnv, keepsPromise, now, attempts, firstAt, inSink, waitFrom,
                 retriedSeen>>

-----------------------------------------------------------------------------
RetryInit ==
  /\ policy \in Policies /\ retryEnv \in RetryEnvs /\ keepsPromise \in BOOLEAN
  /\ now = 0 /\ attempts = 0 /\ firstAt = 0 /\ inSink = FALSE
  /\ leg = "await-retry" /\ waitFrom = 0 /\ retriedSeen = 0 /\ retryVerdict = "none"

RetryNext ==
  \/ Attempt \/ DeadLetter \/ RetryTimePasses
  \/ RetryAwaited \/ ExhaustionAwaited \/ ReadSink

RetrySpec == RetryInit /\ [][RetryNext]_retryVars

-----------------------------------------------------------------------------
(* webhook-retry-window.ts: "a row convicts only once the wait has passed  *)
(* the advertised bound". A host that keeps its bound is not convicted,    *)
(* save where the leg does convict on its own clock: of one attempt seen   *)
(* in a window the maximum cut short or no bound set, and of an empty sink *)
(* read as soon as the last attempt was seen.                              *)
ConvictedPastItsBound ==
  (retryVerdict = "fail" /\ keepsPromise /\ attempts < policy.maxAttempts) =>
    /\ retriedSeen <= 1
    /\ advertisedMaxElapsed + ADVERTISED_BOUND_GRACE > retryWaitFor \/ advertisedMaxElapsed = 0

-----------------------------------------------------------------------------
(***************************************************************************)
(* The head-of-line leg (v2-webhook-delivery-isolation.test.ts) and its    *)
(* verdict (delivery-isolation-verdict.ts). A run's start is delivered to  *)
(* subscriptions whose receiver holds every answer, its end to one more;   *)
(* the host delivers through a pool, and may abandon an attempt.           *)
(***************************************************************************)
CONSTANTS
  Held,  \* the held subscriptions: as many as the floor
  Pools  \* sizes of the host's pool

ASSUME IsolationAssumption == IsFiniteSet(Held) /\ Pools \subseteq Nat

FLOOR == Cardinality(Held)

VARIABLES
  pool,
  queued,     \* the subscriptions whose delivery is due
  open,       \* the held attempts open at the receiver
  closed,     \* the held attempts the host has abandoned
  healthy,    \* "not-due", "due", "arrived" or "missed" (the window passed)
  openAtHealthy, peakOpen,
  closedBeforeHealthy, closedBeforeTerminal, \* earliestClose against the two times
  sample,     \* what was read when the run was seen terminal: [arrived, open]
  isolation,  \* the verdict
  \* History.
  healthyWaited, \* the pool was full while the healthy attempt was due
  lateStart      \* a held attempt started after the healthy one

isolationVars == <<pool, queued, open, closed, healthy, openAtHealthy, peakOpen,
                   closedBeforeHealthy, closedBeforeTerminal, sample, isolation,
                   healthyWaited, lateStart>>

NotSampled == [arrived |-> 0, open |-> FLOOR + 1]
seenTerminal == sample # NotSampled

arrived == open \cup closed

-----------------------------------------------------------------------------
(* The host, external. The start of the run is fanned out ...              *)
FanOut(w) ==
  /\ w \notin queued /\ isolation = "none"
  /\ queued' = queued \cup {w}
  /\ UNCHANGED <<pool, open, closed, healthy, openAtHealthy, peakOpen, closedBeforeHealthy,
                 closedBeforeTerminal, sample, isolation, healthyWaited, lateStart>>

(* ... each delivery is attempted when the pool has room, and held open by *)
(* the leg's receiver ...                                                  *)
StartHeld(w) ==
  /\ w \in queued \ arrived /\ Cardinality(open) < pool /\ isolation = "none"
  /\ open' = open \cup {w}
  /\ peakOpen' = IF Cardinality(open') > peakOpen THEN Cardinality(open') ELSE peakOpen
  /\ healthyWaited' = (healthyWaited \/ (healthy = "due" /\ Cardinality(open') = pool))
  /\ lateStart' = (lateStart \/ healthy = "arrived")
  /\ UNCHANGED <<pool, queued, closed, healthy, openAtHealthy, closedBeforeHealthy,
                 closedBeforeTerminal, sample, isolation>>

(* ... the host may give an attempt up ...                                 *)
Abandon(w) ==
  /\ w \in open /\ isolation = "none"
  /\ open' = open \ {w} /\ closed' = closed \cup {w}
  /\ closedBeforeHealthy' = (closedBeforeHealthy \/ healthy # "arrived")
  /\ closedBeforeTerminal' = (closedBeforeTerminal \/ ~seenTerminal)
  /\ UNCHANGED <<pool, queued, healthy, openAtHealthy, peakOpen, sample, isolation,
                 healthyWaited, lateStart>>

(* ... the run ends, and the healthy delivery falls due ...                *)
EndOfRun ==
  /\ healthy = "not-due"
  /\ healthy' = "due"
  /\ healthyWaited' = (Cardinality(open) >= pool)
  /\ UNCHANGED <<pool, queued, open, closed, openAtHealthy, peakOpen, closedBeforeHealthy,
                 closedBeforeTerminal, sample, isolation, lateStart>>

(* ... and is attempted when the pool has room.                            *)
StartHealthy ==
  /\ healthy = "due" /\ Cardinality(open) < pool
  /\ healthy' = "arrived" /\ openAtHealthy' = Cardinality(open)
  /\ UNCHANGED <<pool, queued, open, closed, peakOpen, closedBeforeHealthy,
                 closedBeforeTerminal, sample, isolation, healthyWaited, lateStart>>

-----------------------------------------------------------------------------
(* The leg sees the run terminal and counts what it holds.                 *)
SeeTerminal ==
  /\ healthy # "not-due" /\ ~seenTerminal
  /\ sample' = [arrived |-> Cardinality(arrived), open |-> Cardinality(open)]
  /\ UNCHANGED <<pool, queued, open, closed, healthy, openAtHealthy, peakOpen,
                 closedBeforeHealthy, closedBeforeTerminal, isolation, healthyWaited, lateStart>>

(* The window passes only over a healthy attempt the pool has no room for. *)
WindowPasses ==
  /\ healthy = "due" /\ seenTerminal /\ Cardinality(open) >= pool
  /\ healthy' = "missed"
  /\ UNCHANGED <<pool, queued, open, closed, openAtHealthy, peakOpen, closedBeforeHealthy,
                 closedBeforeTerminal, sample, isolation, healthyWaited, lateStart>>

(* Variant: short of the floor at the terminal read, the row fails. *)
ConvictsTheLate == FALSE
(* It started before any held attempt finished: it waited for none.        *)
WaitedForNone == healthy = "arrived" /\ ~closedBeforeHealthy

isolationVerdict ==
  IF healthy = "arrived" /\ openAtHealthy >= FLOOR THEN "pass"
  ELSE IF sample.open >= FLOOR THEN "fail"
  ELSE IF sample.arrived >= FLOOR \/ closedBeforeTerminal THEN "blocked-after-peak"
  ELSE IF WaitedForNone THEN "blocked" ELSE "fail"

(* Before its verdict of released contention is recorded, the leg asserts  *)
(* that the floor was once open.                                           *)
Judge ==
  /\ seenTerminal /\ healthy \in {"arrived", "missed"} /\ isolation = "none"
  /\ isolation' = CASE isolationVerdict # "blocked-after-peak" -> isolationVerdict
                    [] peakOpen >= FLOOR -> "blocked"
                    [] OTHER -> "fail"
  /\ UNCHANGED <<pool, queued, open, closed, healthy, openAtHealthy, peakOpen,
                 closedBeforeHealthy, closedBeforeTerminal, sample, healthyWaited, lateStart>>

-----------------------------------------------------------------------------
IsolationInit ==
  /\ pool \in Pools
  /\ queued = {} /\ open = {} /\ closed = {} /\ healthy = "not-due"
  /\ openAtHealthy = 0 /\ peakOpen = 0
  /\ closedBeforeHealthy = FALSE /\ closedBeforeTerminal = FALSE
  /\ sample = NotSampled /\ isolation = "none"
  /\ healthyWaited = FALSE /\ lateStart = FALSE

IsolationNext ==
  \/ \E w \in Held : FanOut(w) \/ StartHeld(w) \/ Abandon(w)
  \/ EndOfRun \/ StartHealthy \/ SeeTerminal \/ WindowPasses \/ Judge

IsolationSpec == IsolationInit /\ [][IsolationNext]_isolationVars

-----------------------------------------------------------------------------
(* webhooks.md §Isolation, as delivery-isolation-verdict.ts reads it: a    *)
(* pass is a host with room for the floor and one more, and a failure is   *)
(* one whose healthy attempt found the pool full, or which abandoned a     *)
(* held attempt, or started one after the healthy attempt.                 *)
IsolationVerdictIsTrue ==
  /\ isolation = "pass" => pool > FLOOR
  /\ isolation = "fail" => healthyWaited \/ lateStart \/ closed # {}
==============================================================================
