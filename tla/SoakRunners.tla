----------------------------- MODULE SoakRunners ------------------------------
(* The two runners of soak/ that keep several requests in flight: the      *)
(* multi-agent stress, whose workers take trials from a shared index,      *)
(* create a run, may cancel it, poll it to its end and read its events;    *)
(* and the load profile, whose workers take samples from a shared queue.   *)
EXTENDS Naturals, Integers, Sequences, SequencesExt, FiniteSets, FiniteSetsExt

CONSTANTS
  SoakWorkers,
  RUNS,            \* trials, or samples
  CancelTargets,   \* how many of the trials are cancelled
  StressPolls,     \* DEADLINE_MS, in polls
  LoadPathSets     \* OPENWOP_LOAD_PATHS

ASSUME SoakAssumption ==
  SoakWorkers \in Nat \ {0} /\ RUNS \in Nat \ {0} /\ CancelTargets \subseteq Nat /\ StressPolls \in Nat

VARIABLES
  soakFault,       \* "none", or the rule the host breaks
  soakPlan,        \* what is run: the stress and its cancelTarget, or the paths of the load
  nextIndex,       \* nextIndex of the trials; samples shifted off the queue
  workers,         \* per worker: what it is at, its trial and how many polls
  agentRuns,       \* the host's runs, by trial: status, whether it took a cancel, reasoning events
  trials,          \* per trial its record, once its worker is done with it
  timings,         \* per sample of the path under way the latency, or -1 for an error
  pathReports,     \* the paths done: statsFor, or what was thrown
  loadErrors

soakVars == <<soakFault, soakPlan, nextIndex, workers, agentRuns, trials, timings, pathReports, loadErrors>>

Broken(rule) == soakFault = rule
Stressing == soakPlan.runner = "stress"
Trials == 0..(RUNS - 1)
shouldCancel(i) == i < soakPlan.cancelTarget
TERMINAL == {"completed", "failed", "cancelled"}
WorkerCap == Max({2, 2 * SoakWorkers})
NoTrial == [at |-> "idle", trial |-> RUNS, polls |-> 0, error |-> "none", terminalStatus |-> "none", cancel |-> 0]
StressVars == <<agentRuns, trials>>
LoadVars == <<timings, pathReports, loadErrors>>

-----------------------------------------------------------------------------
(* The host. Its runs go on by themselves; a run whose cancel it took ends *)
(* cancelled, and what it emits is bounded.                                *)
RunsMove ==
  /\ \E i \in Trials, ended \in TERMINAL :
       LET run == agentRuns[i] IN
       /\ run.status = "running"
       /\ IF run.cancelling /\ ~Broken("cancel lost") THEN ended = "cancelled" ELSE ended # "cancelled"
       /\ (ended = "failed" => ~Broken("none"))
       /\ agentRuns' = [agentRuns EXCEPT ![i].status = ended]
  /\ UNCHANGED <<soakFault, soakPlan, nextIndex, workers, trials, LoadVars>>

AgentRun == [status |-> "running", cancelling |-> FALSE,
             reasoned |-> IF Broken("talks too much") THEN WorkerCap + 1 ELSE WorkerCap]

-----------------------------------------------------------------------------
(* The stress. A worker's record is its trial's when it is done.           *)
At(w, part) == [workers EXCEPT ![w].at = part]
Give(w, trial) ==
  /\ trials' = [trials EXCEPT ![workers[w].trial] = trial]
  /\ workers' = [workers EXCEPT ![w] = NoTrial]
TrialOf(w, error, reasoned) ==
  [error |-> error, terminalStatus |-> workers[w].terminalStatus, reasoned |-> reasoned,
   cancel |-> workers[w].cancel]

TakeTrial(w) ==
  /\ Stressing /\ workers[w].at = "idle" /\ nextIndex' = nextIndex + 1
  /\ workers' = IF nextIndex >= RUNS THEN At(w, "done")
                ELSE [workers EXCEPT ![w] = [NoTrial EXCEPT !.at = "create", !.trial = nextIndex]]
  /\ UNCHANGED <<soakFault, soakPlan, StressVars, LoadVars>>

(* A run that is not created, and any request that throws, ends the trial. *)
CreateRun(w) ==
  /\ workers[w].at = "create"
  /\ \/ /\ workers' = At(w, IF shouldCancel(workers[w].trial) THEN "cancel" ELSE "poll")
        /\ agentRuns' = [agentRuns EXCEPT ![workers[w].trial] = AgentRun] /\ UNCHANGED trials
     \/ /\ Broken("refuses") /\ Give(w, TrialOf(w, "create-run", 0)) /\ UNCHANGED agentRuns
  /\ UNCHANGED <<soakFault, soakPlan, nextIndex, LoadVars>>

(* An ended run answers 409; any other refusal is the trial's error, and   *)
(* it is polled all the same.                                              *)
CancelRun(w) ==
  /\ workers[w].at = "cancel"
  /\ LET i == workers[w].trial
         answers == (IF agentRuns[i].status = "running" THEN {200} ELSE {409})
                    \cup (IF Broken("refuses") THEN {500} ELSE {})
     IN  \E status \in answers :
           /\ workers' = [workers EXCEPT ![w].at = "poll", ![w].cancel = status,
                                         ![w].error = IF status = 500 THEN "cancel" ELSE @]
           /\ agentRuns' = [agentRuns EXCEPT ![i].cancelling = status = 200]
  /\ UNCHANGED <<soakFault, soakPlan, nextIndex, trials, LoadVars>>

PollRun(w) ==
  /\ workers[w].at = "poll"
  /\ LET status == agentRuns[workers[w].trial].status IN
     workers' = CASE workers[w].polls >= StressPolls ->
                       [workers EXCEPT ![w].at = "events", ![w].terminalStatus = "timed-out"]
                  [] status \in TERMINAL -> [workers EXCEPT ![w].at = "events", ![w].terminalStatus = status]
                  [] OTHER -> [workers EXCEPT ![w].polls = @ + 1]
  /\ UNCHANGED <<soakFault, soakPlan, nextIndex, StressVars, LoadVars>>

(* A log that cannot be read counts no event. *)
ReadRunEvents(w) ==
  /\ workers[w].at = "events"
  /\ \E readable \in {TRUE, ~Broken("refuses")} :
       Give(w, TrialOf(w, workers[w].error, IF readable THEN agentRuns[workers[w].trial].reasoned ELSE 0))
  /\ UNCHANGED <<soakFault, soakPlan, nextIndex, agentRuns, LoadVars>>

(* detectViolations: of a trial without an error, how it ended, and how    *)
(* much was said.                                                          *)
ViolationsOf(i) ==
  LET t == trials[i] IN
  IF t.error # "none" THEN {"run-error"}
  ELSE (CASE shouldCancel(i) /\ t.terminalStatus = "completed" -> {"cancel-raced-completion"}
          [] shouldCancel(i) /\ t.terminalStatus \notin {"completed", "cancelled"} -> {"cancel-not-propagated"}
          [] ~shouldCancel(i) /\ t.terminalStatus # "completed" -> {"non-terminal"}
          [] OTHER -> {})
       \cup (IF t.reasoned > WorkerCap THEN {"reasoning-events-unbounded"} ELSE {})
StressDone == Stressing /\ \A w \in 1..SoakWorkers : workers[w].at = "done"
Results(status) == {i \in Trials : trials[i].terminalStatus = status}
StressOk == (\A i \in Trials : ViolationsOf(i) = {}) /\ Results("timed-out") = {}

-----------------------------------------------------------------------------
(* The load. *)
LoadPaths == {"create", "poll", "interrupt", "webhook"}
pathNow == IF Stressing \/ Len(pathReports) = Len(soakPlan.paths) THEN "none" ELSE soakPlan.paths[Len(pathReports) + 1]

(* The placeholders report no samples; an unknown path is an error.        *)
EmptyStats == [samples |-> 0, errors |-> 0, min |-> 0, p50 |-> 0, p95 |-> 0, p99 |-> 0, max |-> 0]
NextPath(report) == pathReports' = Append(pathReports, report) /\ nextIndex' = 0 /\ timings' = << >>

SkipPath ==
  /\ pathNow \notin {"none", "create", "poll"} /\ NextPath(EmptyStats)
  /\ loadErrors' = IF pathNow \in LoadPaths THEN loadErrors ELSE Append(loadErrors, "unknown_path")
  /\ UNCHANGED <<soakFault, soakPlan, workers, StressVars>>

(* pathPoll creates the run it will poll, or throws. *)
PathThrows ==
  /\ pathNow = "poll" /\ nextIndex = 0 /\ Broken("refuses") /\ \A w \in 1..SoakWorkers : workers[w].at = "idle"
  /\ NextPath(EmptyStats) /\ loadErrors' = Append(loadErrors, "path_handler_threw")
  /\ UNCHANGED <<soakFault, soakPlan, workers, StressVars>>

TakeSample(w) ==
  /\ pathNow \in {"create", "poll"} /\ workers[w].at = "idle" /\ nextIndex < RUNS
  /\ nextIndex' = nextIndex + 1
  /\ workers' = [workers EXCEPT ![w] = [NoTrial EXCEPT !.at = "task", !.trial = nextIndex]]
  /\ UNCHANGED <<soakFault, soakPlan, StressVars, LoadVars>>

TaskEnds(w) ==
  /\ workers[w].at = "task" /\ workers' = [workers EXCEPT ![w] = NoTrial]
  /\ \/ \E latency \in 1..2 : timings' = Append(timings, latency) /\ UNCHANGED loadErrors
     \/ Broken("refuses") /\ timings' = Append(timings, -1) /\ loadErrors' = Append(loadErrors, "task_failed")
  /\ UNCHANGED <<soakFault, soakPlan, nextIndex, StressVars, pathReports>>

quantile(sorted, hundredths) ==
  sorted[Min({Len(sorted), 1 + (Len(sorted) * hundredths) \div 100})]

statsFor(samples, pathErrors) ==
  LET sorted == SortSeq(samples, LAMBDA a, b : a < b) IN
  IF samples = << >> THEN [EmptyStats EXCEPT !.errors = pathErrors]
  ELSE [samples |-> Len(samples), errors |-> pathErrors, min |-> Head(sorted), p50 |-> quantile(sorted, 50),
        p95 |-> quantile(sorted, 95), p99 |-> quantile(sorted, 99), max |-> Last(sorted)]

PathDone ==
  /\ pathNow \in {"create", "poll"} /\ nextIndex = RUNS /\ \A w \in 1..SoakWorkers : workers[w].at = "idle"
  /\ LET samples == SelectSeq(timings, LAMBDA t : t >= 0) IN
     NextPath(statsFor(samples, Len(timings) - Len(samples)))
  /\ UNCHANGED <<soakFault, soakPlan, workers, StressVars, loadErrors>>

LoadOk == loadErrors = << >>

-----------------------------------------------------------------------------
SoakInit ==
  /\ soakFault \in {"none", "cancel lost", "talks too much", "refuses"}
  /\ soakPlan \in [runner : {"stress"}, cancelTarget : CancelTargets, paths : {<< >>}]
                  \cup [runner : {"load"}, cancelTarget : {0}, paths : LoadPathSets]
  /\ nextIndex = 0 /\ workers = [w \in 1..SoakWorkers |-> NoTrial]
  /\ agentRuns = [i \in Trials |-> [status |-> "absent", cancelling |-> FALSE, reasoned |-> 0]]
  /\ trials = [i \in Trials |-> [error |-> "missing", terminalStatus |-> "none", reasoned |-> 0, cancel |-> 0]]
  /\ timings = << >> /\ pathReports = << >> /\ loadErrors = << >>

SoakNext ==
  \/ RunsMove \/ SkipPath \/ PathThrows \/ PathDone
  \/ \E w \in 1..SoakWorkers :
       \/ TakeTrial(w) \/ CreateRun(w) \/ CancelRun(w) \/ PollRun(w) \/ ReadRunEvents(w)
       \/ TakeSample(w) \/ TaskEnds(w)

SoakSpec == SoakInit /\ [][SoakNext]_soakVars

(* multi-agent-stress.mjs: every trial is somebody's, once; a host that    *)
(* keeps its rules is told at most that a run outran its cancel or the     *)
(* deadline; one that loses a cancel it took, or says too much of a run it *)
(* let be read, is not reported ok; no run that ended as asked is held     *)
(* against it.                                                             *)
StressReportsAreTrue ==
  /\ StressDone =>
       /\ \A i \in Trials : trials[i].error # "missing"
       /\ soakFault = "none" => \A i \in Trials :
            ViolationsOf(i) \subseteq {"cancel-raced-completion"} \cup
                                      (IF i \in Results("timed-out") THEN {"cancel-not-propagated", "non-terminal"} ELSE {})
       /\ Broken("cancel lost") /\ (\E i \in Trials : agentRuns[i].cancelling) => ~StressOk
       /\ Broken("talks too much") => ~StressOk
       /\ \A i \in Trials : "cancel-not-propagated" \in ViolationsOf(i) => agentRuns[i].status # "cancelled" \/ i \in Results("timed-out")
  /\ Stressing => Cardinality({w \in 1..SoakWorkers : workers[w].trial < RUNS}) =
                  Cardinality({workers[w].trial : w \in {v \in 1..SoakWorkers : workers[v].trial < RUNS}})

(* load-profile.mjs: a path's numbers are of its own samples, in order,    *)
(* none taken twice.                                                       *)
LoadReportsAreTrue ==
  \A k \in DOMAIN pathReports :
    LET r == pathReports[k] IN
    /\ r.min <= r.p50 /\ r.p50 <= r.p95 /\ r.p95 <= r.p99 /\ r.p99 <= r.max
    /\ r.samples + r.errors \in {0, RUNS}
    /\ r.errors > 0 => ~LoadOk

SoakReportsAreTrue == StressReportsAreTrue /\ LoadReportsAreTrue

-----------------------------------------------------------------------------
(* Three readers of server-sent events: the subscription of the scenarios  *)
(* (sse.ts) and those of the load and the longevity runner (soak/). A body *)
(* arrives in chunks cut anywhere, in the middle of a line or between the  *)
(* two characters that end one, and may break off.                         *)
CONSTANTS
  StreamBodies,     \* what a host may send: lines, the style of their ends, whether
                    \* the last one is ended
  SoakDeadline,     \* DURATION and RUN_INTERVAL, in ticks
  RunInterval,
  SoakLimit         \* bound: ticks a run of the soak is followed for

VARIABLES
  streamReader,     \* "subscribe", "load" or "longevity"
  streamBody,
  arrivedTokens,          \* tokens of the body that have arrived
  lineBuffer,       \* those not yet read
  pendingEvent,     \* the event being read: its type, data lines and id
  readEvents,       \* events, or frames, read from this stream
  streamAt,         \* "closed", "open", "ended" or, of the soak, "asleep"
  closedBy,
  soak              \* what the longevity run has counted

streamVars == <<streamReader, streamBody, arrivedTokens, lineBuffer, pendingEvent, readEvents,
                streamAt, closedBy, soak>>

(* A line is two tokens, then what ends it. *)
Line(field, value) == [field |-> field, value |-> value]
LF == [token |-> "lf", line |-> Line("unknown", "")]
CR == [token |-> "cr", line |-> Line("unknown", "")]
Written(line) ==
  IF line.field = "blank" THEN << >> ELSE <<[token |-> "first", line |-> line], [token |-> "rest", line |-> line]>>
EndOf(body, i) ==
  CASE i = Len(body.lines) /\ ~body.ended -> << >>
    [] body.style = "crlf" -> <<CR, LF>>
    [] OTHER -> <<LF>>
Wire(body) == FlattenSeq([i \in DOMAIN body.lines |-> Written(body.lines[i]) \o EndOf(body, i)])

-----------------------------------------------------------------------------
(* subscribe reads lines. *)
NoEvent == [event |-> "message", data |-> << >>, id |-> "none"]

WithoutCR(text) == IF text # << >> /\ Last(text) = CR THEN Front(text) ELSE text

FlushEvent(s) ==
  [s EXCEPT !.events = IF s.pending.data = << >> THEN @ ELSE Append(@, s.pending), !.pending = NoEvent]

ReadLine(s, text) ==
  IF text = << >> THEN FlushEvent(s)
  ELSE LET line == Head(text).line IN
       CASE line.field = "event" -> [s EXCEPT !.pending.event = line.value]
         [] line.field = "data" -> [s EXCEPT !.pending.data = Append(@, line.value)]
         [] line.field = "id" -> [s EXCEPT !.pending.id = line.value]
         [] OTHER -> s

ReadByLine(s, token) ==
  IF token = LF THEN [ReadLine(s, WithoutCR(s.buffer)) EXCEPT !.buffer = << >>]
                ELSE [s EXCEPT !.buffer = Append(@, token)]

(* The runners read frames, up to two line feeds in a row; one that begins *)
(* with a comment is a heartbeat, an empty one nothing.                    *)
FrameOf(text) ==
  CASE text = << >> -> << >>
    [] Head(text).token = "first" /\ Head(text).line.field = "comment" -> <<"heartbeat">>
    [] OTHER -> <<"event">>

ReadByFrame(s, token) ==
  IF token = LF /\ s.buffer # << >> /\ Last(s.buffer) = LF
    THEN [s EXCEPT !.events = @ \o FrameOf(Front(s.buffer)), !.buffer = << >>]
    ELSE [s EXCEPT !.buffer = Append(@, token)]

Reading == [buffer |-> lineBuffer, pending |-> pendingEvent, events |-> readEvents]
Read(chunk) ==
  IF streamReader = "subscribe" THEN FoldLeft(ReadByLine, Reading, chunk) ELSE FoldLeft(ReadByFrame, Reading, chunk)

-----------------------------------------------------------------------------
Fresh == arrivedTokens' = 0 /\ lineBuffer' = << >> /\ pendingEvent' = NoEvent /\ readEvents' = << >>
Lasting == <<arrivedTokens, lineBuffer, pendingEvent, readEvents>>
StreamEnds(how) == streamAt' = "ended" /\ closedBy' = how

(* Asking: of the soak, after a run was created. A refused subscription is *)
(* an empty one; the soak notes what went wrong and goes on.               *)
Noted(problem) == [soak EXCEPT !.errors = @ \cup {problem}]

Open ==
  /\ streamAt = "closed" /\ (streamReader = "longevity" => soak.now < SoakDeadline)
  /\ streamBody' \in StreamBodies /\ streamAt' = "open" /\ Fresh
  /\ soak' = [soak EXCEPT !.created = @ + 1, !.lastArrival = soak.now]
  /\ UNCHANGED <<streamReader, closedBy>>

StreamRefused(problem) ==
  /\ streamAt = "closed" /\ (streamReader = "longevity" => soak.now < SoakDeadline)
  /\ CASE streamReader = "longevity" ->
            /\ streamAt' = "asleep" /\ UNCHANGED closedBy
            /\ soak' = [Noted(problem) EXCEPT
                          !.created = IF problem = "sse_open_failed" THEN @ + 1 ELSE @,
                          !.reconnects = IF problem = "sse_stream_error" THEN @ + 1 ELSE @]
       [] OTHER -> StreamEnds(IF problem = "sse_stream_error" THEN "threw" ELSE "server") /\ UNCHANGED soak
  /\ UNCHANGED <<streamReader, streamBody, Lasting>>

(* A frame's arrival, as the soak times it: since the last of any stream.  *)
Timed(s, chunkEvents) ==
  LET beats == {i \in DOMAIN chunkEvents : chunkEvents[i] = "heartbeat"}
      gaps == IF beats = {} THEN {}
              ELSE (IF s.lastBeat = 0 THEN {} ELSE {s.now - (s.lastBeat - 1)})
                   \cup (IF Cardinality(beats) > 1 THEN {0} ELSE {})
  IN  [s EXCEPT !.longestQuiet = Max({@, s.now - s.lastFrame}), !.lastFrame = s.now,
                !.beats = @ + Cardinality(beats), !.received = @ + Len(chunkEvents) - Cardinality(beats),
                !.lastBeat = IF beats = {} THEN @ ELSE s.now + 1,
                !.minGap = Min({@} \cup gaps), !.maxGap = Max({@} \cup gaps),
                !.quiet = Max({@, s.now - s.lastArrival}), !.lastArrival = s.now]

(* The load runner leaves a stream at its first event. *)
Arrive ==
  /\ streamAt = "open"
  /\ LET wire == Wire(streamBody) IN
     \E n \in 1..(Len(wire) - arrivedTokens) :
       LET read == Read(SubSeq(wire, arrivedTokens + 1, arrivedTokens + n))
           chunkEvents == SubSeq(read.events, Len(readEvents) + 1, Len(read.events))
       IN  /\ arrivedTokens' = arrivedTokens + n
           /\ lineBuffer' = read.buffer /\ pendingEvent' = read.pending /\ readEvents' = read.events
           /\ soak' = IF streamReader = "longevity" THEN Timed(soak, chunkEvents) ELSE soak
           /\ IF streamReader = "load" /\ Contains(read.events, "event") THEN StreamEnds("reader")
              ELSE UNCHANGED <<streamAt, closedBy>>
  /\ UNCHANGED <<streamReader, streamBody>>

(* However a subscription ended but by a broken connection, what is pending*)
(* is an event.                                                            *)
Finish(how) ==
  LET flushed == FlushEvent(Reading) IN
  /\ readEvents' = IF streamReader = "subscribe" THEN flushed.events ELSE readEvents
  /\ pendingEvent' = IF streamReader = "subscribe" THEN flushed.pending ELSE pendingEvent
  /\ UNCHANGED <<arrivedTokens, lineBuffer>>
  /\ IF streamReader = "longevity" THEN streamAt' = "asleep" /\ UNCHANGED closedBy ELSE StreamEnds(how)

CloseStream ==
  /\ streamAt = "open" /\ Finish("server") /\ UNCHANGED <<streamReader, streamBody, soak>>

Abort(by) ==
  /\ streamAt = "open" /\ streamReader = "subscribe"
  /\ Finish(by) /\ UNCHANGED <<streamReader, streamBody, soak>>

Break ==
  /\ streamAt = "open" /\ UNCHANGED <<streamReader, streamBody, Lasting>>
  /\ IF streamReader = "longevity"
       THEN /\ streamAt' = "asleep" /\ UNCHANGED closedBy
            /\ soak' = [Noted("sse_stream_error") EXCEPT !.reconnects = @ + 1]
       ELSE StreamEnds("threw") /\ UNCHANGED soak

(* Between two streams the soak sleeps, and no longer than it has left.    *)
Sleep ==
  /\ streamAt = "asleep" /\ streamAt' = "closed"
  /\ LET remaining == IF soak.now < SoakDeadline THEN SoakDeadline - soak.now ELSE 0 IN
     soak' = [soak EXCEPT !.now = @ + Min({RunInterval, remaining})]
  /\ UNCHANGED <<streamReader, streamBody, Lasting, closedBy>>

(* fatal when a run was refused for want of a credential. *)
Report ==
  /\ streamReader = "longevity" /\ streamAt = "closed" /\ soak.now >= SoakDeadline
  /\ StreamEnds(IF "unauthorized" \in soak.errors THEN "fatal" ELSE "ok")
  /\ UNCHANGED <<streamReader, streamBody, Lasting, soak>>

StreamTick ==
  /\ streamAt = "open" /\ streamReader = "longevity" /\ soak.now < SoakLimit
  /\ soak' = [soak EXCEPT !.now = @ + 1]
  /\ UNCHANGED <<streamReader, streamBody, Lasting, streamAt, closedBy>>

StreamInit ==
  /\ streamReader \in {"subscribe", "load", "longevity"}
  /\ streamBody = [lines |-> << >>, style |-> "lf", ended |-> TRUE]
  /\ arrivedTokens = 0 /\ lineBuffer = << >> /\ pendingEvent = NoEvent /\ readEvents = << >>
  /\ streamAt = "closed" /\ closedBy = "none"
  /\ soak = [now |-> 0, created |-> 0, received |-> 0, beats |-> 0, reconnects |-> 0, errors |-> {},
             lastFrame |-> 0, lastBeat |-> 0, longestQuiet |-> 0, minGap |-> SoakLimit + 1, maxGap |-> 0,
             lastArrival |-> 0, quiet |-> 0]

StreamNext ==
  \/ Open \/ Arrive \/ CloseStream \/ Break \/ Sleep \/ Report \/ StreamTick
  \/ \E problem \in {"unauthorized", "create_run_failed", "sse_open_failed", "sse_stream_error"} : StreamRefused(problem)
  \/ \E by \in {"timeout", "caller"} : Abort(by)

-----------------------------------------------------------------------------
(* What a body says, by the groups of its lines between blank ones.        *)
LinesArrived ==
  LET arrived == SubSeq(Wire(streamBody), 1, arrivedTokens)
  IN  SubSeq(streamBody.lines, 1, Len(SelectSeq(arrived, LAMBDA token : token = LF)))

GroupsOf(lines) ==
  LET blank == {i \in DOMAIN lines : lines[i].field = "blank"}
      starts == {i \in DOMAIN lines : i \notin blank /\ (i = 1 \/ i - 1 \in blank)}
      until(i) == Min({j \in blank : j > i} \cup {Len(lines) + 1}) - 1
  IN  [k \in 1..Cardinality(starts) |->
         LET i == CHOOSE s \in starts : Cardinality({t \in starts : t <= s}) = k
         IN  [lines |-> SubSeq(lines, i, until(i)), whole |-> until(i) < Len(lines)]]

Values(lines, field) ==
  LET of == SelectSeq(lines, LAMBDA l : l.field = field) IN [i \in DOMAIN of |-> of[i].value]
EventSaid(group) ==
  [event |-> Last(<<"message">> \o Values(group.lines, "event")),
   data |-> Values(group.lines, "data"), id |-> Last(<<"none">> \o Values(group.lines, "id"))]
EventsSaid(groups) ==
  LET said == SelectSeq(groups, LAMBDA g : Values(g.lines, "data") # << >>)
  IN  [i \in DOMAIN said |-> EventSaid(said[i])]

FramesSaid(groups) ==
  LET whole == SelectSeq(groups, LAMBDA g : g.whole) IN
  [i \in DOMAIN whole |-> IF whole[i].lines[1].field = "comment" THEN "heartbeat" ELSE "event"]

(* sse.ts, load-profile.mjs, sse-longevity.mjs: however the body was cut,  *)
(* a subscription holds the events of the lines that arrived, a half one at*)
(* its end included, and a runner the frames, of a host that ends lines in *)
(* line feeds; the soak's longest quiet is no shorter than one it sat      *)
(* through, it ends no sooner than its deadline, and only a refused        *)
(* credential makes it fail.                                               *)
StreamsAreRead ==
  LET said == GroupsOf(LinesArrived) IN
  /\ streamReader = "subscribe" /\ streamAt = "ended" /\ closedBy # "threw" => readEvents = EventsSaid(said)
  /\ streamReader # "subscribe" /\ streamAt # "closed" /\ streamBody.style = "lf" => readEvents = FramesSaid(said)
  /\ streamReader = "load" /\ closedBy = "server" => ~Contains(readEvents, "event")
  /\ streamReader = "longevity" =>
       /\ soak.longestQuiet >= soak.quiet
       /\ soak.reconnects > 0 => "sse_stream_error" \in soak.errors
       /\ soak.minGap <= SoakLimit => soak.beats > 1 /\ soak.minGap <= soak.maxGap
       /\ streamAt = "ended" => soak.now >= SoakDeadline /\ (closedBy = "fatal" <=> "unauthorized" \in soak.errors)
=============================================================================
