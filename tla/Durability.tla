------------------------------- MODULE Durability -------------------------------
(***************************************************************************)
(* A host that is killed. The recovery rows of a durable host              *)
(* (v2-durability-recovery.test.ts): the seam of the host kills it, the    *)
(* suite waits for it to be back and watches the run, counts an effect at  *)
(* its own receiver (effect-receiver.ts), and notes on each row what it    *)
(* measured; the rung a bundle claims is derived from those rows           *)
(* (durability-evidence.ts). And the hosts the suite spawns and kills      *)
(* itself (multiProcess.ts, staleClaim.test.ts,                            *)
(* restart-during-run.test.ts). Time is counted in polls.                  *)
(***************************************************************************)
EXTENDS Naturals, Sequences, SequencesExt, FiniteSets, Folds

CONSTANTS
  DurableHosts,        \* what a host is: its rows, its fault, its declared bounds ...
  RESUME_WINDOW,       \* how long the service may stay away
  ObservationCeiling,  \* OBSERVATION_CEILING_MS
  UndeclaredBound,     \* UNDECLARED_BOUND_FALLBACK_MS
  FirstArrivalBudget, QuietWindow,
  ClaimTtl,            \* CLAIM_TTL_MS
  WorkLasts            \* how long the fixture of the spawned hosts runs

VARIABLES
  durable,      \* the host, one of DurableHosts
  instance,     \* its process: up, the polls until it dies, the polls since it died
  work,         \* the run: status, events, attempts, when it was resumed
  effects,      \* what reached the receiver, and what the host's ledger says
  exercise,     \* the row that runs: where it is and what it has read
  recoveryRows, \* the rows recorded: result, evidence, and what really happened
  spawned,      \* the hosts the suite spawned: the process it knows, and the server
  claim         \* the claim on the run in the file they share

durabilityVars == <<durable, instance, work, effects, exercise, recoveryRows, spawned, claim>>
spawnVars == <<spawned, claim>>

Breaks(rule) == durable.fault = rule
NeverAt == 99
KILL_ROWS == {"kill-after-accept", "kill-during-execution"}
SINGLE_INSTANCE_ROWS ==
  KILL_ROWS \cup {"duplicate-delivery", "bound-is-derived", "poison-exhaustion"}
NoEvidence == [none |-> TRUE]

-----------------------------------------------------------------------------
(* durability-evidence.ts: declared bounds that are usable, the rung the   *)
(* rows support, the claims that are accepted.                             *)
SumOfTerms(terms) == FoldSeq(LAMBDA a, b : a + b, 0, terms)
parseRecoveryBounds(raw) ==
  /\ raw # << >>
  /\ \A i, j \in DOMAIN raw : raw[i].class = raw[j].class => i = j
  /\ \A i \in DOMAIN raw : raw[i].terms # << >> /\ SumOfTerms(raw[i].terms) = raw[i].bound

RUNGS == {"durable-single-instance", "durable-multi-instance", "multi-region-qualified"}
NoRung == "none"
Governed(recovery, bounds) ==
  \E i \in DOMAIN bounds :
    /\ bounds[i].class = recovery.class /\ bounds[i].bound = recovery.boundMs
    /\ recovery.observedMs <= bounds[i].bound
deriveRung(rows) ==
  IF /\ SINGLE_INSTANCE_ROWS \subseteq DOMAIN rows
     /\ \A id \in SINGLE_INSTANCE_ROWS : rows[id].result = "executed-pass"
     /\ parseRecoveryBounds(rows["bound-is-derived"].evidence)
     /\ \A id \in KILL_ROWS : /\ rows[id].evidence # NoEvidence
                              /\ Governed(rows[id].evidence, rows["bound-is-derived"].evidence)
  THEN "durable-single-instance" ELSE NoRung
checkRungClaim(rung, rows) == rung = NoRung \/ (rung \in RUNGS /\ rung = deriveRung(rows))

-----------------------------------------------------------------------------
(* The host: its process, ... *)
NewInstance == [up |-> TRUE, dying |-> NeverAt, since |-> NeverAt]
HostDies ==
  /\ instance.dying = 0
  /\ instance' = [up |-> FALSE, dying |-> NeverAt, since |-> 0]
  /\ UNCHANGED <<durable, work, effects, exercise, recoveryRows, spawnVars>>
SupervisorRestarts ==
  /\ ~instance.up /\ instance.since = durable.boot
  /\ instance' = [instance EXCEPT !.up = TRUE]
  /\ UNCHANGED <<durable, work, effects, exercise, recoveryRows, spawnVars>>

(* ... and its work. Work that was accepted is dispatched again, by a      *)
(* second start or by the event that says so; late, if that is its fault.  *)
NoWork == [status |-> "none", starts |-> 0, restored |-> 0, attempts |-> 0, resumedAt |-> NeverAt]
Redispatched(job) == IF durable.announces THEN [job EXCEPT !.restored = @ + 1]
                   ELSE [job EXCEPT !.starts = @ + 1]
MayResume == /\ instance.up /\ instance.since # NeverAt /\ work.status = "running"
             /\ work.resumedAt = NeverAt /\ ~Breaks("loses the work")
HostResumes ==
  /\ MayResume /\ (Breaks("resumes late") => instance.since > durable.governs)
  /\ work' = [Redispatched(work) EXCEPT !.resumedAt = instance.since]
  /\ UNCHANGED <<durable, instance, effects, exercise, recoveryRows, spawnVars>>
WorkCompletes ==
  /\ instance.up /\ instance.since # NeverAt /\ work.status = "running"
  /\ work.resumedAt # NeverAt \/ Breaks("completes what it lost")
  /\ work' = [work EXCEPT !.status = "completed"]
  /\ UNCHANGED <<durable, instance, effects, exercise, recoveryRows, spawnVars>>

(* The staged effect arrives once; the same delivery twice, if the host    *)
(* does not know it; an earlier exercise's, at any time.                   *)
EffectArrives ==
  /\ exercise.at \in {"arrival", "quiet"} /\ exercise.row = "duplicate-delivery"
  /\ effects.arrivals < (IF Breaks("fires twice") THEN 2 ELSE 1)
  /\ effects' = [effects EXCEPT !.arrivals = @ + 1]
  /\ UNCHANGED <<durable, instance, work, exercise, recoveryRows, spawnVars>>
StrayEffectArrives ==
  /\ exercise.at \in {"arrival", "quiet"} /\ effects.foreign = 0
  /\ effects' = [effects EXCEPT !.foreign = 1]
  /\ UNCHANGED <<durable, instance, work, exercise, recoveryRows, spawnVars>>

(* Failing work ends, after an attempt or two; or goes on.                 *)
WorkFails ==
  /\ exercise.at = "ending" /\ work.status = "running" /\ ~Breaks("never ends")
  /\ \E redone \in 1..2 : work' = [work EXCEPT !.status = "failed", !.attempts = redone]
  /\ UNCHANGED <<durable, instance, effects, exercise, recoveryRows, spawnVars>>
HostRedelivers ==
  /\ Breaks("redelivers") /\ work.status = "failed" /\ work.attempts < 3
  /\ work' = [work EXCEPT !.attempts = @ + 1]
  /\ UNCHANGED <<durable, instance, effects, exercise, recoveryRows, spawnVars>>

(* Time passes while the suite waits, not past what is due.                *)
Overdue ==
  \/ instance.dying = 0
  \/ ~instance.up /\ instance.since = durable.boot
  \/ MayResume /\ ~Breaks("resumes late") /\ instance.since >= durable.governs
  \/ exercise.at = "ending" /\ work.status = "running" /\ ~Breaks("never ends")
       /\ exercise.waited >= RESUME_WINDOW - 1
Sleeps == \/ exercise.at \in {"probe", "back", "asleep", "arrival", "quiet", "ending"}
          \/ exercise.at = "bound" /\ ~instance.up
Passing(n) == IF n = NeverAt THEN n ELSE n + 1
RecoveryTimePasses ==
  /\ Sleeps /\ ~Overdue /\ exercise.waited < exercise.patience
  /\ instance' = [instance EXCEPT !.dying = IF @ = NeverAt THEN @ ELSE @ - 1, !.since = Passing(@)]
  /\ exercise' = [exercise EXCEPT !.waited = @ + 1,
                                  !.at = IF @ = "asleep" THEN "status" ELSE @,
                                  !.blind = IF exercise.at = "bound" THEN @ + 1 ELSE @]
  /\ UNCHANGED <<durable, work, effects, recoveryRows, spawnVars>>

-----------------------------------------------------------------------------
(* The rows, one after another. *)
Starting(row) == [row |-> row, at |-> "probe", waited |-> 0, patience |-> RESUME_WINDOW,
                  backIn |-> 0, bound |-> 0, declared |-> FALSE, class |-> "none", status |-> "null",
                  unresumed |-> FALSE, blind |-> 0, attempts |-> 0]
NoExercise == [Starting("none") EXCEPT !.at = "idle"]
Onward(where, patience) ==
  exercise' = [exercise EXCEPT !.at = where, !.waited = 0, !.patience = patience]

RowsLeft == SelectSeq(durable.rows, LAMBDA row : row \notin DOMAIN recoveryRows)
BeginRow ==
  /\ exercise.row = "none" /\ RowsLeft # << >>
  /\ exercise' = [Starting(Head(RowsLeft)) EXCEPT
                    !.at = IF Head(RowsLeft) = "poison-exhaustion" THEN "create" ELSE "probe"]
  /\ work' = NoWork /\ effects' = [arrivals |-> 0, foreign |-> 0]
  /\ UNCHANGED <<durable, instance, recoveryRows, spawnVars>>

(* When it was resumed is what no reader of the rows knows.                *)
RecordRecovery(result, evidence) ==
  /\ recoveryRows' = (exercise.row :> [result |-> result, evidence |-> evidence,
                                       resumedAt |-> work.resumedAt, blind |-> exercise.blind,
                                       declared |-> exercise.declared]) @@ recoveryRows
  /\ exercise' = NoExercise

(* A service that is not there when the wait is over answers nobody: a     *)
(* transport loss, which is recorded as blocked.                           *)
ProbeSeam ==
  /\ exercise.at = "probe"
  /\ \/ instance.up /\ durable.seam /\ Onward("fire", 0) /\ UNCHANGED recoveryRows
     \/ instance.up /\ ~durable.seam /\ RecordRecovery("inapplicable", NoEvidence)
     \/ ~instance.up /\ exercise.waited = RESUME_WINDOW /\ RecordRecovery("blocked", NoEvidence)
  /\ UNCHANGED <<durable, instance, work, effects, spawnVars>>

Staged ==
  LET before == IF exercise.row = "kill-during-execution" \/ Breaks("dispatches before it dies")
                THEN 1 ELSE 0
  IN [NoWork EXCEPT !.status = "running", !.starts = before]
Fire ==
  /\ exercise.at = "fire" /\ exercise.row \in KILL_ROWS
  /\ IF Breaks("names no run") THEN RecordRecovery("blocked", NoEvidence) /\ UNCHANGED <<instance, work>>
     ELSE /\ work' = Staged
          /\ instance' = [NewInstance EXCEPT !.dying = durable.dies]
          /\ exercise' = [exercise EXCEPT !.at = "back", !.waited = 0, !.patience = RESUME_WINDOW,
                                          !.class = durable.names]
          /\ UNCHANGED recoveryRows
  /\ UNCHANGED <<durable, effects, spawnVars>>

WaitBack ==
  /\ exercise.at = "back"
  /\ \/ /\ instance.up /\ UNCHANGED recoveryRows
        /\ exercise' = [exercise EXCEPT !.at = "bound", !.backIn = exercise.waited, !.waited = 0]
     \/ ~instance.up /\ exercise.waited = RESUME_WINDOW /\ RecordRecovery("blocked", NoEvidence)
  /\ UNCHANGED <<durable, instance, work, effects, spawnVars>>

(* The bound that governs: the one the answer of the seam gave, or what    *)
(* one read of the bounds shows at its top level, once the host is there.  *)
WatchUntil(bound, isDeclared) ==
  exercise' = [exercise EXCEPT !.at = "status", !.waited = 0, !.bound = bound, !.declared = isDeclared,
                               !.patience = IF bound < ObservationCeiling THEN bound
                                            ELSE ObservationCeiling]
declaredBoundMs ==
  /\ exercise.at = "bound"
  /\ \/ /\ durable.tells = "governing" /\ WatchUntil(durable.governs, TRUE) /\ UNCHANGED recoveryRows
     \/ /\ durable.tells # "governing" /\ instance.up /\ UNCHANGED recoveryRows
        /\ IF durable.tells = "one" THEN WatchUntil(durable.bounds[1].bound, TRUE)
           ELSE WatchUntil(UndeclaredBound, FALSE)
     \/ /\ durable.tells # "governing" /\ ~instance.up /\ exercise.waited = RESUME_WINDOW
        /\ RecordRecovery("blocked", NoEvidence)
  /\ UNCHANGED <<durable, instance, work, effects, spawnVars>>

(* watchForResumption: the status first, then the log. *)
ReadStatus ==
  /\ exercise.at = "status"
  /\ exercise' = [exercise EXCEPT !.at = "log", !.status = IF instance.up THEN work.status ELSE "null"]
  /\ UNCHANGED <<durable, instance, work, effects, recoveryRows, spawnVars>>
DispatchSeen(job) == \/ job.restored >= 1
                \/ job.starts > (IF exercise.row = "kill-during-execution" THEN 1 ELSE 0)
Measured == [class |-> exercise.class, boundMs |-> exercise.bound,
             observedMs |-> exercise.backIn + exercise.waited]
WatchedLog ==
  /\ exercise.at = "log" /\ ~Overdue
  /\ \E readable \in (IF instance.up THEN {TRUE, ~durable.lossy} ELSE {FALSE}) :
       LET resumed == readable /\ DispatchSeen(work)
           unresumed == \/ exercise.unresumed
                        \/ exercise.status = "completed" /\ readable /\ ~resumed
           mayPass == ~unresumed \/ exercise.row = "kill-after-accept"
       IN CASE resumed /\ mayPass ->
                 RecordRecovery("executed-pass",
                        IF exercise.declared /\ exercise.class # "none" THEN Measured ELSE NoEvidence)
            [] resumed /\ ~mayPass -> RecordRecovery("executed-fail", NoEvidence)
            [] ~resumed /\ exercise.waited < exercise.patience ->
                 /\ exercise' = [exercise EXCEPT !.at = "asleep", !.unresumed = unresumed]
                 /\ UNCHANGED recoveryRows
            [] ~resumed /\ exercise.waited = exercise.patience ->
                 RecordRecovery(IF readable /\ (~mayPass \/ exercise.bound <= ObservationCeiling)
                        THEN "executed-fail" ELSE "blocked", NoEvidence)
  /\ UNCHANGED <<durable, instance, work, effects, spawnVars>>

(* The effect: fired, waited for, and then waited out. *)
FireDuplicate ==
  /\ exercise.at = "fire" /\ exercise.row = "duplicate-delivery"
  /\ Onward("arrival", FirstArrivalBudget)
  /\ UNCHANGED <<durable, instance, work, effects, recoveryRows, spawnVars>>
WaitForFirstArrival ==
  /\ exercise.at = "arrival" /\ (effects.arrivals > 0 \/ exercise.waited = FirstArrivalBudget)
  /\ Onward("quiet", QuietWindow)
  /\ UNCHANGED <<durable, instance, work, effects, recoveryRows, spawnVars>>
LedgerDoubled == Breaks("records twice") /\ effects.arrivals > 0
JudgeArrivals ==
  /\ exercise.at = "quiet" /\ exercise.row = "duplicate-delivery" /\ exercise.waited = QuietWindow
  /\ RecordRecovery(CASE effects.arrivals = 0 -> "blocked"
              [] effects.arrivals = 1 /\ ~LedgerDoubled -> "executed-pass"
              [] OTHER -> "executed-fail", NoEvidence)
  /\ UNCHANGED <<durable, instance, work, effects, spawnVars>>

ReadBounds ==
  /\ exercise.at = "fire" /\ exercise.row = "bound-is-derived"
  /\ IF durable.bounds = << >> THEN RecordRecovery("blocked", NoEvidence)
     ELSE IF parseRecoveryBounds(durable.bounds) THEN RecordRecovery("executed-pass", durable.bounds)
     ELSE RecordRecovery("executed-fail", NoEvidence)
  /\ UNCHANGED <<durable, instance, work, effects, spawnVars>>

(* Failing work: created without a look at the seam, followed to its end,  *)
(* its attempts counted twice.                                             *)
CreateFailing ==
  /\ exercise.at = "create"
  /\ IF instance.up THEN /\ work' = [NoWork EXCEPT !.status = "running"]
                         /\ instance' = [instance EXCEPT !.since = NeverAt]
                         /\ Onward("ending", RESUME_WINDOW) /\ UNCHANGED recoveryRows
     ELSE RecordRecovery("blocked", NoEvidence) /\ UNCHANGED <<work, instance>>
  /\ UNCHANGED <<durable, effects, spawnVars>>
CountAttempts ==
  /\ exercise.at = "ending"
  /\ \/ /\ work.status = "failed" /\ ~Breaks("logs no failure") /\ UNCHANGED recoveryRows
        /\ exercise' = [exercise EXCEPT !.at = "quiet", !.waited = 0, !.patience = QuietWindow,
                                        !.attempts = work.attempts]
     \/ work.status = "failed" /\ Breaks("logs no failure") /\ RecordRecovery("blocked", NoEvidence)
     \/ work.status # "failed" /\ exercise.waited = RESUME_WINDOW /\ RecordRecovery("executed-fail", NoEvidence)
  /\ UNCHANGED <<durable, instance, work, effects, spawnVars>>
CountAgain ==
  /\ exercise.at = "quiet" /\ exercise.row = "poison-exhaustion" /\ exercise.waited = QuietWindow
  /\ RecordRecovery(IF work.attempts = exercise.attempts THEN "executed-pass" ELSE "executed-fail", NoEvidence)
  /\ UNCHANGED <<durable, instance, work, effects, spawnVars>>

-----------------------------------------------------------------------------
(* Two hosts over one file: the first is killed while it holds the claim,  *)
(* the second is started when the claim has run out, and resumes what is   *)
(* not claimed as it starts. The suite knows the process it spawned, a     *)
(* wrapper; whether a signal reaches the server below it is the system's.  *)
NotSpawned == [wrapper |-> "none", server |-> "none"]
Spawn(h) == spawned' = [spawned EXCEPT ![h] = [wrapper |-> "up", server |-> "booting"]]
Signalled(h) ==
  [spawned EXCEPT ![h] = [wrapper |-> "killed", server |-> IF durable.reaches THEN "gone" ELSE @.server]]
SpawnPort(h) == IF durable.samePort THEN "one" ELSE h
Listening(port) == {h \in DOMAIN spawned : spawned[h].server = "up" /\ SpawnPort(h) = port}

spawnHost ==
  /\ durable.kind = "spawned" /\ spawned["A"].wrapper = "none" /\ Spawn("A")
  /\ exercise' = [Starting("stale-claim") EXCEPT !.at = "ready A"]
  /\ UNCHANGED <<durable, instance, work, effects, recoveryRows, claim>>

ServerBoots(h) ==
  /\ spawned[h].server = "booting"
  /\ IF Listening(SpawnPort(h)) # {}
     THEN spawned' = [spawned EXCEPT ![h] = [wrapper |-> "exited", server |-> "gone"]] /\ UNCHANGED claim
     ELSE /\ spawned' = [spawned EXCEPT ![h].server = "up"]
          /\ claim' = IF /\ claim.status = "running" /\ claim.age >= ClaimTtl
                         /\ ~Breaks("resumes nothing")
                      THEN [claim EXCEPT !.holder = h, !.age = 0, !.ran = 0] ELSE claim
  /\ UNCHANGED <<durable, instance, work, effects, exercise, recoveryRows>>

WorkIsDone == claim.status = "running" /\ claim.ran >= WorkLasts
ServerCompletes(h) ==
  /\ spawned[h].server = "up" /\ claim.holder = h /\ WorkIsDone
  /\ claim' = [claim EXCEPT !.status = "completed", !.by = h]
  /\ UNCHANGED <<durable, instance, work, effects, exercise, recoveryRows, spawned>>

(* A live holder renews its claim, and works.                              *)
SpawnedTimePasses ==
  /\ exercise.at \in {"ready A", "ready B", "expire", "poll"} /\ exercise.waited < exercise.patience
  /\ (\E h \in DOMAIN spawned : spawned[h].server = "booting") => exercise.waited < RESUME_WINDOW - 1
  /\ claim.holder # "none" /\ spawned[claim.holder].server = "up" => ~WorkIsDone
  /\ exercise' = [exercise EXCEPT !.waited = @ + 1]
  /\ claim' = IF claim.holder # "none" /\ spawned[claim.holder].server = "up"
              THEN [claim EXCEPT !.age = 0, !.ran = @ + 1] ELSE [claim EXCEPT !.age = @ + 1]
  /\ UNCHANGED <<durable, instance, work, effects, recoveryRows, spawned>>

RecordClaim(result) ==
  /\ recoveryRows' = ("stale-claim" :> [result |-> result, by |-> claim.by]) @@ recoveryRows
  /\ exercise' = [exercise EXCEPT !.at = "clean"]

(* The process is asked first, its port after that.                        *)
ready(h, next) ==
  /\ exercise.at = "ready " \o h
  /\ \/ spawned[h].wrapper = "exited" /\ RecordClaim("executed-fail")
     \/ /\ spawned[h].wrapper # "exited" /\ Listening(SpawnPort(h)) # {}
        /\ Onward(next, WorkLasts + 2) /\ UNCHANGED recoveryRows
     \/ /\ spawned[h].wrapper # "exited" /\ Listening(SpawnPort(h)) = {}
        /\ exercise.waited = exercise.patience /\ RecordClaim("executed-fail")
  /\ UNCHANGED <<durable, instance, work, effects, spawnVars>>

StartRun ==
  /\ exercise.at = "start" /\ Onward("kill", 0)
  /\ claim' = [claim EXCEPT !.status = "running", !.holder = "A"]
  /\ UNCHANGED <<durable, instance, work, effects, recoveryRows, spawned>>
kill ==
  /\ exercise.at = "kill" /\ spawned' = Signalled("A") /\ Onward("expire", ClaimTtl + 1)
  /\ UNCHANGED <<durable, instance, work, effects, recoveryRows, claim>>
SpawnSecond ==
  /\ exercise.at = "expire" /\ exercise.waited = exercise.patience
  /\ Spawn("B") /\ Onward("ready B", RESUME_WINDOW)
  /\ UNCHANGED <<durable, instance, work, effects, recoveryRows, claim>>
PollResumed ==
  /\ exercise.at = "poll" /\ Listening(SpawnPort("B")) # {}
  /\ IF claim.status = "completed" THEN RecordClaim("executed-pass")
     ELSE exercise.waited = exercise.patience /\ RecordClaim("executed-fail")
  /\ UNCHANGED <<durable, instance, work, effects, spawnVars>>
shutdown ==
  /\ exercise.at = "clean" /\ exercise' = [exercise EXCEPT !.at = "over"]
  /\ spawned' = [h \in DOMAIN spawned |-> IF spawned[h].wrapper = "up" THEN Signalled(h)[h] ELSE spawned[h]]
  /\ UNCHANGED <<durable, instance, work, effects, recoveryRows, claim>>

-----------------------------------------------------------------------------
DurabilityInit ==
  /\ durable \in DurableHosts /\ instance = NewInstance /\ work = NoWork
  /\ effects = [arrivals |-> 0, foreign |-> 0] /\ exercise = NoExercise /\ recoveryRows = durable.given
  /\ spawned = [A |-> NotSpawned, B |-> NotSpawned]
  /\ claim = [holder |-> "none", age |-> 0, ran |-> 0, status |-> "none", by |-> "none"]

DurabilityNext ==
  \/ HostDies \/ SupervisorRestarts \/ HostResumes \/ WorkCompletes \/ EffectArrives \/ StrayEffectArrives
  \/ WorkFails \/ HostRedelivers \/ RecoveryTimePasses
  \/ BeginRow \/ ProbeSeam \/ Fire \/ WaitBack \/ declaredBoundMs \/ ReadStatus \/ WatchedLog
  \/ FireDuplicate \/ WaitForFirstArrival \/ JudgeArrivals \/ ReadBounds
  \/ CreateFailing \/ CountAttempts \/ CountAgain
  \/ spawnHost \/ (\E h \in {"A", "B"} : ServerBoots(h) \/ ServerCompletes(h)) \/ SpawnedTimePasses
  \/ ready("A", "start") \/ StartRun \/ kill \/ SpawnSecond \/ ready("B", "poll") \/ PollResumed
  \/ shutdown

-----------------------------------------------------------------------------
RowFaults ==
  [row \in SINGLE_INSTANCE_ROWS |->
     CASE row = "kill-after-accept" -> {"loses the work", "resumes late", "completes what it lost"}
       [] row = "kill-during-execution" ->
            {"loses the work", "resumes late", "completes what it lost"}
       [] row = "duplicate-delivery" -> {"fires twice", "records twice"}
       [] row = "bound-is-derived" -> {"bound of no terms"}
       [] row = "poison-exhaustion" -> {"never ends", "redelivers"}]
Ran(row) == row \in DOMAIN recoveryRows /\ row \notin DOMAIN durable.given
RowPassed(row) == Ran(row) /\ recoveryRows[row].result = "executed-pass"

(* A row fails only a host that breaks its rule. Not known to the rows: a  *)
(* bound the host declares in another shape than the one that is read, for *)
(* which a fallback stands in; and a death later than the answer of the    *)
(* seam, from which the wait is counted.                                   *)
FailsItsOwn ==
  \A row \in SINGLE_INSTANCE_ROWS :
    Ran(row) /\ recoveryRows[row].result = "executed-fail" =>
      \/ durable.fault \in RowFaults[row]
      \/ row \in KILL_ROWS /\ (~recoveryRows[row].declared \/ durable.dies > 0)
(* A kill row passes only when the run was resumed after the death, unless *)
(* the host's own seam dispatched what it was to hold.                     *)
PassesWitness ==
  \A row \in KILL_ROWS :
    RowPassed(row) => recoveryRows[row].resumedAt # NeverAt \/ Breaks("dispatches before it dies")
(* What does not depend on the moment it is looked at never passes.        *)
SureFault == [row \in SINGLE_INSTANCE_ROWS |->
                CASE row = "duplicate-delivery" -> "records twice"
                  [] row = "bound-is-derived" -> "bound of no terms"
                  [] row = "poison-exhaustion" -> "never ends"
                  [] OTHER -> "loses the work"]
ConvictsTheSure == \A row \in SINGLE_INSTANCE_ROWS : RowPassed(row) => ~Breaks(SureFault[row])

(* The rung that is derived, and the only claim accepted, says that work   *)
(* was resumed within the declared bound, but for the time the bound was   *)
(* being read. The rung is not refused to an honest host that is well      *)
(* within the bound, names its class and can always be read.               *)
RungIsEarned ==
  \A rung \in RUNGS :
    checkRungClaim(rung, recoveryRows) =>
      /\ rung = "durable-single-instance"
      /\ \A row \in KILL_ROWS :
           Ran(row) /\ ~Breaks("dispatches before it dies") =>
             /\ recoveryRows[row].resumedAt # NeverAt
             /\ \E i \in DOMAIN durable.bounds :
                  /\ durable.bounds[i].class = durable.names
                  /\ recoveryRows[row].resumedAt <= durable.bounds[i].bound + recoveryRows[row].blind
RungIsGiven ==
  (/\ SINGLE_INSTANCE_ROWS \subseteq DOMAIN recoveryRows
   /\ \A row \in SINGLE_INSTANCE_ROWS : recoveryRows[row].result = "executed-pass"
   /\ Breaks("none") /\ durable.names # "none" /\ ~durable.lossy
   /\ \A row \in KILL_ROWS : Ran(row) =>
        recoveryRows[row].declared /\ recoveryRows[row].resumedAt + durable.dies + 1 <= durable.governs)
  => deriveRung(recoveryRows) # NoRung

(* The spawned hosts: the second resumes what the first left, or the       *)
(* scenario fails; and nothing is left running. ("confirmed by smoke       *)
(* testing": all of it as long as a signal reaches the server.)            *)
OrphanIsResumed ==
  "stale-claim" \in DOMAIN recoveryRows /\ durable.reaches =>
    /\ recoveryRows["stale-claim"].result = "executed-pass" <=> ~Breaks("resumes nothing")
    /\ recoveryRows["stale-claim"].result = "executed-pass" => recoveryRows["stale-claim"].by = "B"
    /\ exercise.at = "over" => \A h \in DOMAIN spawned : spawned[h].server # "up"

RecoveryIsWitnessed ==
  FailsItsOwn /\ PassesWitness /\ ConvictsTheSure /\ RungIsEarned /\ RungIsGiven /\ OrphanIsResumed
=============================================================================
