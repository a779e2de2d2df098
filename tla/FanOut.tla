-------------------------------- MODULE FanOut --------------------------------
(***************************************************************************)
(* conformance/src/lib/fan-out-witness.ts: is the parallel dispatch of     *)
(* agents.fanOut what the host says it is? The witness starts one fixture  *)
(* run, waits for it (fixture-run-observer.ts), follows its log to the     *)
(* child runs and judges what it read. The host here does as it likes: it  *)
(* starts and ends children in real time, stamps the end of one late, and  *)
(* may drop a child, give it another's item or dispatch what it should     *)
(* have refused. Time is kept for the waves only.                          *)
(***************************************************************************)
EXTENDS Naturals, Sequences, FiniteSets, FiniteSetsExt

CONSTANTS
  WAVES_CHILDREN, WAVES_MAX_CONCURRENCY, OVERLAP_TOLERANCE_MS,
  Adverts,       \* agents of the discovery document: [dispatch, admits (a wait-all join
                 \* that collects), maxFanOut (0: no limit said), perItemInput]
  Lags,          \* how late completedAt may be stamped
  LatestFanOut   \* the last moment, the observer's timeoutMs

ASSUME FanOutAssumption ==
  /\ WAVES_CHILDREN \in Nat /\ WAVES_MAX_CONCURRENCY \in Nat \ {0}
  /\ OVERLAP_TOLERANCE_MS \in Nat /\ Lags \subseteq 0..OVERLAP_TOLERANCE_MS /\ LatestFanOut \in Nat
  /\ \A a \in Adverts : a.maxFanOut \in Nat

VARIABLES
  fixture,       \* the fixture the host is given: "waves", "per item" or "mismatch"
  agents,        \* the agents family of its discovery document
  run,           \* the parent run: "none", "running", "completed", "failed", "refused"
  moment,
  startedAt, endedAt, completedAt, \* per dispatched child, Unset before
  item,          \* per child, the childGreeting of its inputs
  errorCode,     \* what the dispatch node, or createRun, failed with
  fanned,        \* the dispatch.fanned-out and dispatch.joined events, once recorded
  fanOutVerdict  \* "none", "inapplicable", "ok" or "convicted"

fanOutVars == <<fixture, agents, run, moment, startedAt, endedAt, completedAt, item,
                errorCode, fanned, fanOutVerdict>>

Children == 1..WAVES_CHILDREN
Unset == LatestFanOut + 100
PER_ITEM_VALUES == {"item-a", "item-b"}
NotRecorded == [recorded |-> FALSE]

Dispatched == {c \in Children : startedAt[c] # Unset}
InFlight == {c \in Dispatched : endedAt[c] = Unset}

(* wavesGate, perItemGate: dispatch and, for the waves, a wait-all join    *)
(* that collects; the ceiling is the smaller of the two limits.            *)
Bound == agents.dispatch /\ (fixture = "waves" => agents.admits)
ceiling == IF agents.maxFanOut = 0 THEN WAVES_MAX_CONCURRENCY
           ELSE Min({WAVES_MAX_CONCURRENCY, agents.maxFanOut})
Honored == fixture = "per item" /\ agents.perItemInput

-----------------------------------------------------------------------------
(* observeRun: one POST /runs, which the host may answer 400. *)
CreateFixtureRun ==
  /\ run = "none" /\ Bound
  /\ \/ run' = "running" /\ UNCHANGED errorCode
     \/ /\ fixture # "waves" /\ run' = "refused"
        /\ errorCode' \in {"validation_error", "internal_error"}
  /\ UNCHANGED <<fixture, agents, moment, startedAt, endedAt, completedAt, item, fanned, fanOutVerdict>>

(* The children of a run of waves start one by one; the two of an item     *)
(* fixture carry inputs.                                                   *)
StartChild(c) ==
  /\ run = "running" /\ ~fanned.recorded /\ startedAt[c] = Unset
  /\ \A b \in 1..(c - 1) : startedAt[b] # Unset
  /\ startedAt' = [startedAt EXCEPT ![c] = moment]
  /\ \/ fixture = "waves" /\ UNCHANGED item
     \/ /\ fixture # "waves" /\ c <= 2
        /\ \E v \in PER_ITEM_VALUES \cup {"absent"} : item' = [item EXCEPT ![c] = v]
  /\ UNCHANGED <<fixture, agents, run, moment, endedAt, completedAt, errorCode, fanned, fanOutVerdict>>

EndChild(c) ==
  /\ c \in InFlight /\ (fixture = "waves" => moment > startedAt[c])
  /\ endedAt' = [endedAt EXCEPT ![c] = moment]
  /\ \E lag \in Lags : completedAt' = [completedAt EXCEPT ![c] = moment + lag]
  /\ UNCHANGED <<fixture, agents, run, moment, startedAt, item, errorCode, fanned, fanOutVerdict>>

(* The join: the host says how many children the decision had and under    *)
(* which limit, and lists them. It may count a child it never ran, or list *)
(* one twice. That a child fails is left out: it convicts at once.         *)
Join ==
  /\ run = "running" /\ fixture = "waves" /\ InFlight = {} /\ ~fanned.recorded
  /\ \E count \in {WAVES_CHILDREN, Cardinality(Dispatched)},
        listed \in {WAVES_CHILDREN, Cardinality(Dispatched)},
        limit \in {ceiling, ceiling + 1}, named \in BOOLEAN :
       fanned' = [recorded |-> TRUE, childCount |-> count, maxConcurrency |-> limit,
                  mergeOrder |-> listed, dispatchedEvents |-> named]
  /\ run' = "completed"
  /\ UNCHANGED <<fixture, agents, moment, startedAt, endedAt, completedAt, item, errorCode, fanOutVerdict>>

EndItems ==
  /\ run = "running" /\ fixture # "waves" /\ InFlight = {}
  /\ \/ run' = "completed" /\ UNCHANGED errorCode
     \/ run' = "failed" /\ errorCode' \in {"validation_error", "internal_error"}
  /\ UNCHANGED <<fixture, agents, moment, startedAt, endedAt, completedAt, item, fanned, fanOutVerdict>>

FanOutTimePasses ==
  /\ run = "running" /\ fixture = "waves" /\ moment < LatestFanOut
  /\ moment' = moment + 1
  /\ UNCHANGED <<fixture, agents, run, startedAt, endedAt, completedAt, item, errorCode, fanned, fanOutVerdict>>

-----------------------------------------------------------------------------
(* locateChildren: the distinct runs node.dispatched names, else those of  *)
(* the join's mergeOrder. A child listed that never ran is a run the host  *)
(* cannot serve, and one listed twice is one run.                          *)
ChildRunIds == Cardinality(Dispatched)
Unreadable == fanned.recorded /\ ~fanned.dispatchedEvents /\ fanned.mergeOrder > ChildRunIds

(* An end and a start at one instant, in the other order. *)
MaxInFlightStartsFirst(windows) ==
  LET counted == {c \in windows : startedAt[c] + OVERLAP_TOLERANCE_MS < completedAt[c]}
      Open(t) == Cardinality({c \in counted : startedAt[c] + OVERLAP_TOLERANCE_MS <= t})
                 - Cardinality({c \in counted : completedAt[c] < t})
  IN Max({1} \cup {Open(startedAt[c] + OVERLAP_TOLERANCE_MS) : c \in counted})

(* A window counts from the tolerance after its start, and at one instant  *)
(* an end closes before a start opens.                                     *)
maxInFlight(windows) ==
  LET counted == {c \in windows : startedAt[c] + OVERLAP_TOLERANCE_MS < completedAt[c]}
      Open(t) == Cardinality({c \in counted : startedAt[c] + OVERLAP_TOLERANCE_MS <= t})
                 - Cardinality({c \in counted : completedAt[c] <= t})
  IN Max({1} \cup {Open(startedAt[c] + OVERLAP_TOLERANCE_MS) : c \in counted})

judgeWaves ==
  /\ run = "completed" /\ fanned.recorded
  /\ fanned.childCount = WAVES_CHILDREN /\ fanned.maxConcurrency <= ceiling
  /\ fanned.mergeOrder = WAVES_CHILDREN
  /\ ChildRunIds = WAVES_CHILDREN /\ ~Unreadable
  /\ maxInFlight(Dispatched) <= ceiling

(* The same refusal is read at createRun and from the failed node. *)
judgeFailClosed ==
  /\ errorCode = "validation_error"
  /\ run = "refused" \/ (run = "failed" /\ Dispatched = {})

judgePerItem ==
  IF ~Honored THEN judgeFailClosed
  ELSE run = "completed" /\ Dispatched = {1, 2} /\ {item[c] : c \in Dispatched} = PER_ITEM_VALUES

(* The drive ends when the run does, or at the observer's deadline. *)
JudgeFanOut ==
  /\ fanOutVerdict = "none"
  /\ \/ ~Bound /\ run = "none" /\ fanOutVerdict' = "inapplicable"
     \/ /\ run \in {"completed", "failed", "refused"} \/ moment = LatestFanOut
        /\ fanOutVerdict' =
             IF CASE fixture = "waves" -> judgeWaves
                  [] fixture = "per item" -> judgePerItem
                  [] OTHER -> judgeFailClosed
             THEN "ok" ELSE "convicted"
  /\ UNCHANGED <<fixture, agents, run, moment, startedAt, endedAt, completedAt, item, errorCode, fanned>>

-----------------------------------------------------------------------------
FanOutInit ==
  /\ fixture \in {"waves", "per item", "mismatch"}
  /\ agents \in Adverts
  /\ run = "none" /\ moment = 0
  /\ startedAt = [c \in Children |-> Unset] /\ endedAt = [c \in Children |-> Unset]
  /\ completedAt = [c \in Children |-> Unset] /\ item = [c \in Children |-> "absent"]
  /\ errorCode = "none" /\ fanned = NotRecorded /\ fanOutVerdict = "none"

FanOutNext ==
  /\ fanOutVerdict = "none"
  /\ \/ CreateFixtureRun \/ Join \/ EndItems \/ FanOutTimePasses \/ JudgeFanOut
     \/ \E c \in Children : StartChild(c) \/ EndChild(c)

FanOutSpec == FanOutInit /\ [][FanOutNext]_fanOutVars

-----------------------------------------------------------------------------
(* Children really at work together, at some moment. *)
AtWork(t, for) == {c \in Dispatched : startedAt[c] + for <= t /\ t < endedAt[c]}
Crowded(for) == \E t \in 0..LatestFanOut : Cardinality(AtWork(t, for)) > ceiling

(* The host kept to its ceiling, dropped no child and said what it did. *)
KeptToWaves ==
  /\ run = "completed" /\ ~Crowded(0)
  /\ Dispatched = Children /\ ~Unreadable /\ fanned.maxConcurrency = ceiling

(* fan-out-witness.ts: "A host stamps a child's completedAt and the next   *)
(* child's startedAt from separate clock reads. A real breach overlaps by  *)
(* a whole conformance-delay": of the waves, no host that kept to its      *)
(* ceiling is convicted for stamps late within the tolerance, none that    *)
(* had more children at work for longer than it, or dropped one, gets by;  *)
(* and where the host must fail closed, none that dispatched a child does. *)
FanOutVerdictIsTrue ==
  /\ fixture = "waves" /\ KeptToWaves => fanOutVerdict # "convicted"
  /\ fixture = "waves" /\ (Crowded(OVERLAP_TOLERANCE_MS) \/ Dispatched # Children) => fanOutVerdict # "ok"
  /\ fixture # "waves" /\ ~Honored /\ Dispatched # {} => fanOutVerdict # "ok"
=============================================================================
