----------------------------- MODULE RunResources ------------------------------
(***************************************************************************)
(* What a run may use: the witnesses of provider attempts                  *)
(* (callai-attempts-witness.ts), of a run's budget (budget-witness.ts), of *)
(* the slots of a host (backpressure-witness.ts), of a run's time          *)
(* (run-bounds-witness.ts), of the exhaustion behaviours a host serves     *)
(* (exhaustion-facet-witness.ts) and of a dispatch no model can serve      *)
(* (model-capability-insufficient-witness.ts). Each creates a fixture run, *)
(* asks for it until it ends or its patience does, reads its log and       *)
(* judges. The host breaks one rule, or none; its run goes on between any  *)
(* two requests, and a request may be lost.                                *)
(***************************************************************************)
EXTENDS Naturals, Sequences, SequencesExt, FiniteSets, FiniteSetsExt

CONSTANTS
  Resources,    \* the hosts: [witness, fault, ...what the discovery document says]
  RunPolls,     \* the timeoutMs of a wait, in polls
  RunTimeout,   \* runTimeoutMs of the breach leg, in ticks of the run
  FixtureTicks  \* how long the fixture of the breach leg runs by itself

VARIABLES
  resource,     \* the host, one of Resources
  fixtureRun,   \* the run the host has: its status, error, log and what it has used
  waiting,      \* the witness: what it is at, its polls, what it has read
  slots,        \* the runs that hold slots, by number: status and whether streamed
  rulesFailed   \* the rules a finding that is not ok is about

resourceVars == <<resource, fixtureRun, waiting, slots, rulesFailed>>

Fault(rule) == resource.fault = rule
WitnessIs(name) == resource.witness = name
Event(type, payload) == [type |-> type, payload |-> payload]
NoValue == [none |-> TRUE]
NoRunYet == [status |-> "none", error |-> "none", log |-> << >>, used |-> 0, maxTokens |-> 0,
             tokens |-> << >>, attempts |-> NoValue]
TERMINAL_STATUS == {"completed", "failed", "cancelled"}
Types(log) == {log[i].type : i \in DOMAIN log}
FirstEvent(log, type) == SelectInSeq(log, LAMBDA e : e.type = type)

(* Rules that do not hold, by name. *)
Failing(findings) == {rule \in DOMAIN findings : ~findings[rule]}

-----------------------------------------------------------------------------
(* The host's mock serves a script: what each request of the call returns. *)
BUDGET == 100
Entry(how, tokens) == [kind |-> how, outputTokens |-> tokens, usage |-> TRUE, mode |-> "prompt"]
NoPolicyAsked == [maxAttempts |-> 99, grow |-> TRUE]
CallCase(schema, retry, script) == [schema |-> schema, retry |-> retry, script |-> script]
CASES ==
  LET invalid == Entry("invalid-json", 10)
      valid == Entry("valid", 20)
      short == Entry("valid", 5)
  IN [count |-> CallCase(TRUE, NoPolicyAsked, <<invalid, valid>>),
      incomplete |-> CallCase(FALSE, NoPolicyAsked, <<[Entry("valid", 0) EXCEPT !.usage = FALSE]>>),
      plain |-> CallCase(FALSE, NoPolicyAsked, <<short>>),
      native |-> CallCase(TRUE, NoPolicyAsked, <<[short EXCEPT !.mode = "native"]>>),
      cap |-> CallCase(TRUE, [NoPolicyAsked EXCEPT !.maxAttempts = 1], <<invalid, valid>>),
      growth |-> CallCase(TRUE, [NoPolicyAsked EXCEPT !.grow = FALSE], 
                         <<Entry("truncated", BUDGET), Entry("valid", 150)>>),
      truncation |-> CallCase(TRUE, NoPolicyAsked, <<Entry("truncated", BUDGET), valid>>),
      exhaustion |-> CallCase(TRUE, [NoPolicyAsked EXCEPT !.maxAttempts = 2], <<invalid>>),
      refusal |-> CallCase(TRUE, NoPolicyAsked, <<Entry("refusal", 0), valid>>),
      malformed |-> CallCase(FALSE, [NoPolicyAsked EXCEPT !.maxAttempts = 0], <<short>>)]
callCase == CASES[resource.asked]
ServedEntry(i) == callCase.script[Min({i, Len(callCase.script)})]

(* A host makes as many requests as the call allows, and no more than its  *)
(* own default.                                                            *)
AllowedAttempts ==
  IF Fault("ignores the cap") THEN resource.attempts
  ELSE Min({callCase.retry.maxAttempts, resource.attempts})
Grows == Fault("grows the budget") \/ (callCase.retry.grow /\ resource.grows)

AttemptsReport(ran) ==
  [count |-> IF Fault("counts the last") THEN 1 ELSE Len(ran.tokens),
   outputTokens |-> IF Fault("sums the last") THEN Last(ran.tokens)
                    ELSE FoldLeft(LAMBDA sum, t : sum + t, 0, ran.tokens),
   usageComplete |-> Fault("complete in any case") \/ \A i \in DOMAIN ran.tokens : ServedEntry(i).usage,
   structuredOutput |-> IF callCase.schema \/ Fault("mode in any case")
                        THEN ServedEntry(Len(ran.tokens)).mode ELSE "absent"]

Unless(fault, events) == IF Fault(fault) THEN << >> ELSE events
FailWith(ran, code, events) == [ran EXCEPT !.status = "failed", !.error = code, !.log = @ \o events]

(* One provider request, with what its reply leads to.                     *)
ProviderRequest ==
  LET i == Len(fixtureRun.tokens) + 1
      request == ServedEntry(i)
      tokens == Min({request.outputTokens, fixtureRun.maxTokens})
      cut == request.outputTokens > fixtureRun.maxTokens \/ request.kind = "truncated"
      usage == IF resource.usageEvents THEN <<Event("provider.usage", tokens)>> ELSE << >>
      said == IF cut THEN Unless("cuts in silence", <<Event("envelope.truncated", NoValue)>>)
              ELSE << >>
      sent == [fixtureRun EXCEPT !.tokens = Append(@, tokens), !.log = @ \o usage \o said]
      again == [sent EXCEPT !.log = Append(@, Event("envelope.retry-attempted", NoValue)),
                            !.maxTokens = IF cut /\ Grows THEN 2 * @ ELSE @]
  IN CASE request.kind = "refusal" ->
            IF Fault("retries a refusal") THEN again
            ELSE FailWith(sent, "envelope_refusal", <<Event("envelope.refusal", NoValue)>>)
       [] request.kind = "valid" /\ ~cut ->
            [sent EXCEPT !.status = "completed", !.attempts = AttemptsReport(sent)]
       [] OTHER ->
            IF i < AllowedAttempts THEN again
            ELSE FailWith(sent, "envelope_invalid",
                          Unless("gives up in silence", <<Event("envelope.retry-exhausted", i),
                                                          Event("cap.breached", "schema")>>))

CallStep ==
  IF callCase.retry.maxAttempts = 0 /\ ~Fault("takes a malformed policy")
  THEN FailWith(fixtureRun, "validation_error", <<Event("node.failed", "retry.maxAttempts")>>)
  ELSE ProviderRequest

(* What a fork in replay mode reports: the recorded attempts, or what the  *)
(* rest of the script makes of a second call.                              *)
Forked == IF Fault("calls again on replay")
          THEN [fixtureRun.attempts EXCEPT !.count = 1, !.outputTokens = Last(callCase.script).outputTokens]
          ELSE fixtureRun.attempts

-----------------------------------------------------------------------------
(* The judges of the attempts, over the run that was read. *)
Usage(ran) == SelectSeq(ran.log, LAMBDA e : e.type = "provider.usage")
presence(ran) == ran.status = "completed" /\ ran.attempts # NoValue
ScriptSum(n, limit) ==
  FoldLeft(LAMBDA sum, i : sum + Min({ServedEntry(i).outputTokens, limit}), 0, [i \in 1..n |-> i])

judgeCount(ran) ==
  presence(ran) /\ (resource.usageEvents => Len(Usage(ran)) = ran.attempts.count)
judgeSum(ran) ==
  /\ presence(ran) /\ ran.attempts.usageComplete
  /\ ran.attempts.outputTokens = ScriptSum(ran.attempts.count, BUDGET)
  /\ resource.usageEvents =>
       FoldLeft(LAMBDA sum, e : sum + e.payload, 0, Usage(ran)) = ran.attempts.outputTokens
judgeReplayed(ran, fork) == presence(ran) /\ fork = ran.attempts
judgeIncomplete(ran) == presence(ran) /\ ~ran.attempts.usageComplete
judgeStructuredOutput(ran) ==
  presence(ran) /\ ran.attempts.structuredOutput = (IF callCase.schema THEN "native" ELSE "absent")
Exhausted(ran) == FirstEvent(ran.log, "envelope.retry-exhausted")
judgeCap(ran) ==
  /\ ran.status = "failed" /\ ran.error # "validation_error"
  /\ resource.usageEvents => Len(Usage(ran)) <= 1
  /\ Exhausted(ran) # 0 => ran.log[Exhausted(ran)].payload = 1
judgeNoGrowth(ran) ==
  /\ ran.status # "completed" /\ ran.error # "validation_error"
  /\ resource.usageEvents => \A i \in DOMAIN Usage(ran) : Usage(ran)[i].payload <= BUDGET
judgeMalformed(ran) ==
  /\ ran.status = "failed" /\ ran.error = "validation_error"
  /\ Event("node.failed", "retry.maxAttempts") \in ToSet(ran.log)
judgeTruncation(ran) == "envelope.truncated" \in Types(ran.log) /\ ran.status = "completed"
judgeExhaustion(ran) ==
  /\ ran.status = "failed" /\ ran.error = "envelope_invalid"
  /\ Exhausted(ran) # 0 /\ Event("cap.breached", "schema") \in ToSet(ran.log)
judgeProviderRefusal(ran) ==
  /\ ran.status = "failed" /\ ran.error = "envelope_refusal"
  /\ "envelope.refusal" \in Types(ran.log) /\ "envelope.retry-attempted" \notin Types(ran.log)

(* A count run that failed is of a host that does not retry: not judged.   *)
judgeCall(ran) ==
  CASE resource.asked = "count" ->
         IF ran.status = "failed" THEN << >>
         ELSE [count |-> judgeCount(ran), sum |-> judgeSum(ran), replayed |-> judgeReplayed(ran, Forked)]
    [] resource.asked = "incomplete" -> [incomplete |-> judgeIncomplete(ran)]
    [] resource.asked \in {"plain", "native"} -> [structured |-> judgeStructuredOutput(ran)]
    [] resource.asked = "cap" -> [cap |-> judgeCap(ran)]
    [] resource.asked = "growth" -> [growth |-> judgeNoGrowth(ran)]
    [] resource.asked = "malformed" -> [malformed |-> judgeMalformed(ran)]
    [] resource.asked = "truncation" -> [truncation |-> judgeTruncation(ran)]
    [] resource.asked = "exhaustion" -> [exhaustion |-> judgeExhaustion(ran)]
    [] resource.asked = "refusal" -> [refusal |-> judgeProviderRefusal(ran)]

-----------------------------------------------------------------------------
(* A budget of two tool calls, of which the fixture makes three.           *)
MaxToolCalls == 2
BudgetEvent(type, payload) ==
  Event(type, [of |-> payload, priced |-> Fault("tells prices") /\ type = resource.pricedEvent])
BudgetStep ==
  LET reserved == Unless("reserves in silence", <<BudgetEvent("budget.reserved", "limit")>>)
      crossed == BudgetEvent("budget.threshold.crossed",
                             IF Fault("threshold without percent") THEN "none" ELSE "percent")
      late == IF Fault("threshold last") THEN <<crossed>> ELSE << >>
      exhausted == BudgetEvent("budget.exhausted", "limit")
      breach == BudgetEvent("cap.breached", IF Fault("breaches another cap") THEN "budget-tokens"
                                            ELSE "budget-tool-calls")
      spent == [fixtureRun EXCEPT !.used = @ + 1]
      stops == IF resource.enforce = "hard" THEN ~Fault("runs on") ELSE Fault("advice that stops")
  IN CASE fixtureRun.used = 0 ->
            [spent EXCEPT !.log = reserved \o Unless("threshold last", <<crossed>>)]
       [] fixtureRun.used \in 1..(MaxToolCalls - 1) -> spent
       [] fixtureRun.used = MaxToolCalls /\ stops ->
            FailWith(spent,
                     IF Fault("fails for another reason") THEN "internal_error" ELSE "budget_exhausted",
                     IF Fault("breach first") THEN <<breach, exhausted>>
                     ELSE <<exhausted>> \o late \o Unless("stops in silence", <<breach>>))
       [] fixtureRun.used = MaxToolCalls /\ ~stops ->
            [spent EXCEPT !.status = "completed", !.log = @ \o <<exhausted>> \o late]

(* What a breach is, to the judge: of any budget.                          *)
Breach(log) ==
  SelectInSeq(log, LAMBDA e : /\ e.type = "cap.breached"
                              /\ e.payload.of \in {"budget-tool-calls", "budget-tokens"})

judgeBudget(ran) ==
  LET log == ran.log
      reserved == FirstEvent(log, "budget.reserved")
      crossed == FirstEvent(log, "budget.threshold.crossed")
      exhausted == FirstEvent(log, "budget.exhausted")
  IN [lifecycle |-> /\ reserved # 0 /\ crossed # 0 /\ exhausted # 0
                    /\ log[crossed].payload.of = "percent"
                    /\ reserved < crossed /\ crossed < exhausted,
      hardstop |-> resource.enforce = "hard" =>
                     /\ Breach(log) # 0 /\ log[Breach(log)].payload.of = "budget-tool-calls"
                     /\ exhausted # 0 => exhausted <= Breach(log)
                     /\ ran.status = "failed" /\ ran.error = "budget_exhausted",
      advisory |-> resource.enforce = "advisory" => Breach(log) = 0 /\ ran.error # "budget_exhausted",
      contentfree |-> \A i \in DOMAIN log :
                        log[i].type # "cap.breached" \/ i = Breach(log) => ~log[i].payload.priced]

-----------------------------------------------------------------------------
(* A run with a timeout, judged by the first cap that was breached.        *)
BoundsStep ==
  LET ran == [fixtureRun EXCEPT !.used = @ + 1]
      breach == Event("cap.breached",
                      [kind |-> IF Fault("names another kind") THEN "node-count" ELSE "run-duration",
                       observed |-> IF Fault("observes the limit") THEN RunTimeout ELSE ran.used,
                       limit |-> RunTimeout])
  IN IF ran.used > RunTimeout /\ ~Fault("keeps no time")
     THEN FailWith(ran, IF Fault("times out by another name") THEN "timeout" ELSE "run_timeout",
                   Unless("times out in silence", <<breach>>))
     ELSE IF ran.used > FixtureTicks THEN [ran EXCEPT !.status = "completed"] ELSE ran

judgeBreach(ran) ==
  [breach |-> /\ ran.status = "failed" /\ ran.error = "run_timeout"
              /\ LET place == FirstEvent(ran.log, "cap.breached")
                 IN  place # 0 /\ ran.log[place].payload.kind = "run-duration"
                            /\ ran.log[place].payload.observed > ran.log[place].payload.limit]
judgeShape == [shape |-> resource.maxRunDurationMs >= 1000]

(* A node no model can serve: the dispatch is refused, the node fails.     *)
CapabilityStep ==
  LET refused == Unless("refuses in silence", <<Event("model.capability.insufficient",
                                                      [fallback |-> Fault("claims a fallback")])>>)
      usage == <<Event("provider.usage", NoValue)>>
      failed == <<Event("node.failed", NoValue)>>
      code == IF Fault("fails without the code") THEN "internal_error" ELSE "capability_not_provided"
  IN CASE Fault("dispatches") ->
            [fixtureRun EXCEPT !.status = "completed",
                               !.log = refused \o usage \o <<Event("node.completed", NoValue)>>]
       [] Fault("asks, then refuses") -> FailWith(fixtureRun, code, usage \o refused \o failed)
       [] Fault("effect before cause") -> FailWith(fixtureRun, code, failed \o refused)
       [] OTHER -> FailWith(fixtureRun, code, refused \o failed)

NOT_AFTER_REFUSAL == {"node.completed", "provider.usage"}
judgeRefusal(ran) ==
  LET place == FirstEvent(ran.log, "model.capability.insufficient")
      failed == FirstEvent(ran.log, "node.failed")
  IN /\ ran.status = "failed" /\ ran.error = "capability_not_provided" /\ place # 0
     /\ failed = 0 \/ place < failed
     /\ ~ran.log[place].payload.fallback
judgeNoDispatch(ran) == Types(ran.log) \cap NOT_AFTER_REFUSAL = {}

Answered(httpStatus, code) == [status |-> httpStatus, code |-> code]

(* A host that does not serve what a policy asks of it refuses the run.    *)
AnswerUnserved ==
  CASE Fault("runs it all the same") -> Answered(201, "none")
    [] Fault("refuses by another code") -> Answered(422, "validation_error")
    [] OTHER -> Answered(422, "capability_not_provided")
AsksForInterrupt == "interrupt" \notin resource.onExhaustion
judgeFacet(response) ==
  [containsfail |-> "fail" \in resource.onExhaustion
                    /\ resource.onExhaustion \subseteq {"fail", "interrupt"},
   refused |-> response # NoValue => response = Answered(422, "capability_not_provided")]

(* A run with a timeout below the least is refused. *)
AnswerZero ==
  CASE Fault("takes no time at all") -> Answered(201, "none")
    [] Fault("refuses without a code") -> Answered(400, "internal_error")
    [] OTHER -> Answered(400, "validation_error")
judgeRefused(response) == [refused |-> response = Answered(400, "validation_error")]

-----------------------------------------------------------------------------
(* A wait: the run is created, asked for and read. *)
RunStep ==
  CASE WitnessIs("attempts") -> CallStep
    [] WitnessIs("budget") -> BudgetStep
    [] WitnessIs("bounds") -> BoundsStep
    [] WitnessIs("capability") -> CapabilityStep
RunGoesOn ==
  /\ fixtureRun.status = "running" /\ fixtureRun' = RunStep
  /\ UNCHANGED <<resource, waiting, slots, rulesFailed>>

MoveTo(where) == waiting' = [waiting EXCEPT !.at = where]

(* A busy host answers 429 and a request may be lost. Two of the witnesses *)
(* then judge nothing; the two others throw, or take 429 for a refusal of  *)
(* the fixture.                                                            *)
Lenient == resource.witness \in {"attempts", "budget", "facet"}
Refusable == [bounds |-> {"breach"}, capability |-> {"refusal", "nodispatch"}, zero |-> {"refused"}]
NotCreated ==
  /\ waiting.at = "create" /\ ~WitnessIs("slots")
  /\ \E busy \in BOOLEAN :
       IF Lenient THEN MoveTo("blocked") /\ UNCHANGED rulesFailed
       ELSE IF busy THEN /\ waiting' = [waiting EXCEPT !.at = "judged", !.busy = TRUE]
                         /\ rulesFailed' = Refusable[resource.witness]
       ELSE MoveTo("thrown") /\ UNCHANGED rulesFailed
  /\ UNCHANGED <<resource, fixtureRun, slots>>

StartFixtureRun ==
  /\ waiting.at = "create" /\ resource.witness \in {"attempts", "budget", "bounds", "capability"}
  /\ fixtureRun' = [NoRunYet EXCEPT !.status = "running", !.maxTokens = BUDGET]
  /\ MoveTo("poll")
  /\ UNCHANGED <<resource, slots, rulesFailed>>

(* The deadline is looked at after the answer; the first two witnesses     *)
(* then cancel and judge nothing, the others judge what they have.         *)
PollFixtureRun ==
  /\ waiting.at = "poll"
  /\ CASE fixtureRun.status \in TERMINAL_STATUS ->
            /\ waiting' = [waiting EXCEPT !.at = "read", !.status = fixtureRun.status,
                                          !.error = fixtureRun.error]
            /\ UNCHANGED fixtureRun
       [] fixtureRun.status = "running" /\ waiting.polls < RunPolls ->
            waiting' = [waiting EXCEPT !.polls = @ + 1] /\ UNCHANGED fixtureRun
       [] fixtureRun.status = "running" /\ waiting.polls = RunPolls ->
            IF Lenient THEN MoveTo("blocked") /\ fixtureRun' = [fixtureRun EXCEPT !.status = "cancelled"]
            ELSE waiting' = [waiting EXCEPT !.at = "read", !.status = "running"] /\ UNCHANGED fixtureRun
  /\ UNCHANGED <<resource, slots, rulesFailed>>

Verdicts(ran) ==
  CASE WitnessIs("attempts") -> judgeCall(ran)
    [] WitnessIs("budget") -> judgeBudget(ran)
    [] WitnessIs("bounds") -> judgeBreach(ran) @@ judgeShape
    [] WitnessIs("capability") -> [refusal |-> judgeRefusal(ran), nodispatch |-> judgeNoDispatch(ran)]

(* The log is read; of the budget's page by page, and what is unreadable   *)
(* after the first page is left out.                                       *)
PagesEnd ==
  LET all == Len(fixtureRun.log)
  IN  {all} \cup (IF WitnessIs("budget") THEN {n \in 1..(all - 1) : n % resource.page = 0} ELSE {})
ReadLog ==
  /\ waiting.at = "read"
  /\ \E heard \in PagesEnd :
       LET read == [fixtureRun EXCEPT !.status = waiting.status, !.error = waiting.error,
                                      !.log = SubSeq(@, 1, heard)]
       IN  /\ rulesFailed' = Failing(Verdicts(read))
           /\ waiting' = [waiting EXCEPT !.at = "judged", !.partial = heard < Len(fixtureRun.log)]
  /\ UNCHANGED <<resource, fixtureRun, slots>>

(* One request that the host must refuse, and its answer. *)
AskForRefusal ==
  /\ waiting.at = "create" /\ resource.witness \in {"facet", "zero"}
  /\ LET response == CASE WitnessIs("zero") -> AnswerZero
                        [] WitnessIs("facet") /\ AsksForInterrupt -> AnswerUnserved
                        [] OTHER -> NoValue
     IN  /\ rulesFailed' = Failing(IF WitnessIs("zero") THEN judgeRefused(response) ELSE judgeFacet(response))
         /\ fixtureRun' = [NoRunYet EXCEPT !.status = IF response # NoValue /\ response.status = 201
                                                      THEN "cancelled" ELSE "none"]
         /\ MoveTo("judged")
  /\ UNCHANGED <<resource, slots>>

-----------------------------------------------------------------------------
(* The slots of a host. A slot is held by a stream, for as long as the run *)
(* it streams goes on; a parallel file may hold one too.                   *)
FillsSlots == WitnessIs("slots")
Streamed == {i \in DOMAIN slots : slots[i].streamed /\ slots[i].status = "running"}
InUse == Cardinality(Streamed) + waiting.others
KnownSlots == {i \in DOMAIN slots : slots[i].known}
Slot(known) == [status |-> "running", streamed |-> FALSE, known |-> known]
LeaveSlots(why) == waiting' = [waiting EXCEPT !.at = "cancel", !.verdict = why]

(* A create may be answered to nobody: the run is there, its id is not.    *)
FillSlot ==
  /\ waiting.at = "create" /\ FillsSlots /\ Len(slots) < resource.cap
  /\ IF InUse >= resource.cap THEN LeaveSlots("blocked") /\ UNCHANGED slots
     ELSE \/ slots' = Append(slots, Slot(TRUE)) /\ waiting' = [waiting EXCEPT !.at = "stream"]
          \/ slots' = Append(slots, Slot(FALSE)) /\ LeaveSlots("blocked")
  /\ UNCHANGED <<resource, fixtureRun, rulesFailed>>

OpenStream ==
  /\ waiting.at = "stream"
  /\ \/ /\ InUse < resource.cap /\ slots[Len(slots)].status = "running"
        /\ slots' = [slots EXCEPT ![Len(slots)].streamed = TRUE]
        /\ waiting' = [waiting EXCEPT !.at = IF Len(slots) = resource.cap THEN "probe" ELSE "create"]
     \/ LeaveSlots("blocked") /\ UNCHANGED slots
  /\ UNCHANGED <<resource, fixtureRun, rulesFailed>>

ParallelFile ==
  /\ waiting.at \in {"create", "stream"} /\ FillsSlots
  /\ waiting' = [waiting EXCEPT !.others = 1 - @]
  /\ waiting.others = 0 => InUse < resource.cap
  /\ UNCHANGED <<resource, fixtureRun, slots, rulesFailed>>

(* A held run comes to its end, and frees its slot. *)
HoldEnds ==
  /\ \E i \in DOMAIN slots : slots[i].status = "running" /\ slots' = [slots EXCEPT ![i].status = "completed"]
  /\ waiting' = [waiting EXCEPT !.early = @ \/ waiting.at \in {"create", "stream", "probe"}]
  /\ UNCHANGED <<resource, fixtureRun, rulesFailed>>

Advertised == 5
Absent == 0
Overload ==
  LET seconds == IF Fault("waits as it likes") THEN Advertised + 1 ELSE Advertised
      header == IF Fault("no Retry-After") THEN Absent ELSE seconds
  IN [status |-> IF Fault("429 instead") THEN 429 ELSE 503,
      code |-> IF Fault("overload without a code") THEN "none" ELSE "service_unavailable", header |-> header,
      details |-> CASE resource.major = 2 -> IF Fault("spells it twice") THEN Advertised ELSE Absent
                    [] resource.major = 1 -> IF Fault("spells it otherwise") THEN seconds + 1 ELSE seconds]
Admitted == [status |-> 201, code |-> "none", header |-> Absent, details |-> Absent]

judgeSlots(r) ==
  [refusal |-> r.status = 503 /\ r.code = "service_unavailable" /\ r.header # Absent,
   advertised |-> r.header = Advertised,
   timing |-> IF resource.major = 2 THEN r.details = Absent ELSE r.details # Absent /\ r.details = r.header]

ProbeSlots ==
  /\ waiting.at = "probe"
  /\ LET full == InUse >= resource.cap /\ ~Fault("admits everyone")
     IN  /\ rulesFailed' = Failing(judgeSlots(IF full THEN Overload ELSE Admitted))
         /\ slots' = IF full THEN slots ELSE Append(slots, Slot(TRUE))
         /\ LeaveSlots("judged")
  /\ UNCHANGED <<resource, fixtureRun>>

(* Whatever happened, the runs the witness knows of are cancelled: all at  *)
(* once, or one by one when that was not answered or not served.           *)
CancelSlots ==
  /\ waiting.at = "cancel"
  /\ slots' = [i \in DOMAIN slots |->
                 [slots[i] EXCEPT !.streamed = FALSE,
                                  !.status = IF i \in KnownSlots /\ @ = "running" THEN "cancelled" ELSE @]]
  /\ MoveTo(waiting.verdict)
  /\ UNCHANGED <<resource, fixtureRun, rulesFailed>>

-----------------------------------------------------------------------------
ResourceInit ==
  /\ resource \in Resources /\ fixtureRun = NoRunYet /\ slots = << >> /\ rulesFailed = {}
  /\ waiting = [at |-> "create", polls |-> 0, status |-> "none", error |-> "none", partial |-> FALSE,
                others |-> 0, early |-> FALSE, busy |-> FALSE, verdict |-> "none"]

ResourceNext ==
  \/ RunGoesOn \/ NotCreated \/ StartFixtureRun \/ PollFixtureRun \/ ReadLog \/ AskForRefusal
  \/ FillSlot \/ OpenStream \/ ParallelFile \/ HoldEnds \/ ProbeSlots \/ CancelSlots

ResourceSpec == ResourceInit /\ [][ResourceNext]_resourceVars

-----------------------------------------------------------------------------
(* The faults each rule is about. *)
FaultsOf ==
  [count |-> {"counts the last"}, sum |-> {"counts the last", "sums the last"},
   replayed |-> {"calls again on replay"}, incomplete |-> {"complete in any case"},
   structured |-> {"mode in any case"}, cap |-> {"ignores the cap"}, growth |-> {"grows the budget"},
   malformed |-> {"takes a malformed policy"}, truncation |-> {"cuts in silence"},
   exhaustion |-> {"gives up in silence"},
   lifecycle |-> {"reserves in silence", "threshold without percent", "threshold last"},
   hardstop |-> {"runs on", "stops in silence", "breach first", "breaches another cap",
                 "fails for another reason"},
   advisory |-> {"advice that stops"}, contentfree |-> {"tells prices"},
   shape |-> {"bound too short"},
   breach |-> {"keeps no time", "names another kind", "observes the limit",
               "times out by another name", "times out in silence"},
   refusal |-> {"retries a refusal", "dispatches", "effect before cause", "claims a fallback",
                "refuses in silence", "fails without the code", "no Retry-After", "429 instead",
                "overload without a code", "admits everyone"},
   nodispatch |-> {"dispatches", "asks, then refuses"}, containsfail |-> {"serves no failing"},
   refused |-> {"runs it all the same", "refuses by another code", "takes no time at all",
                "refuses without a code"},
   advertised |-> {"waits as it likes", "no Retry-After", "admits everyone"},
   timing |-> {"spells it twice", "spells it otherwise", "no Retry-After", "admits everyone"}]

(* What the witness does not tell from a breach: a host that is slower     *)
(* than its patience, or busy; a page of the log that did not arrive; a    *)
(* hold that came to its end before the probe.                             *)
MistakenFor ==
  \/ waiting.partial \/ waiting.early \/ waiting.busy
  \/ resource.witness \in {"bounds", "capability"} /\ waiting.status = "running"

(* Whether the fixture brings the fault to light: a host that makes one    *)
(* request never breaks a rule of the second, and so on.                   *)
ComesToLight ==
  CASE Fault("none") -> FALSE
    [] resource.fault \in {"ignores the cap", "grows the budget", "counts the last", "sums the last",
                           "calls again on replay"} -> resource.attempts > 1
    [] resource.fault \in FaultsOf.hardstop -> resource.enforce = "hard"
    [] Fault("advice that stops") -> resource.enforce = "advisory"
    [] Fault("tells prices") -> resource.enforce = "hard" \/ resource.pricedEvent # "cap.breached"
    [] resource.fault \in {"runs it all the same", "refuses by another code"} -> AsksForInterrupt
    [] Fault("spells it twice") -> resource.major = 2
    [] Fault("spells it otherwise") -> resource.major = 1
    [] OTHER -> TRUE

(* The witnesses of run resources convict a host of the rules it breaks    *)
(* and of no other, whenever its run ends between their requests, unless   *)
(* they could not tell. ("Two halves ...: drive observes and asserts       *)
(* nothing; the judge functions are pure.")                                *)
ConvictedOfItsOwn ==
  waiting.at = "judged" /\ ~MistakenFor =>
    /\ \A rule \in rulesFailed : resource.fault \in FaultsOf[rule]
    /\ ComesToLight => rulesFailed # {}

(* The slots witness leaves no run behind that it knew of: "Cancel them so *)
(* the next file does not meet a saturated host."                          *)
NoSlotLeftHeld ==
  FillsSlots /\ waiting.at \in {"judged", "blocked"} =>
    \A i \in DOMAIN slots : slots[i].status = "running" => ~slots[i].known

ResourcesAreJudged == ConvictedOfItsOwn /\ NoSlotLeftHeld
=============================================================================
