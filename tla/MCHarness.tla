------------------------------ MODULE MCHarness -------------------------------
(* The machines of the harness that share no state, side by side: a        *)
(* behaviour is one machine's, the "subject", while the others stay where  *)
(* they start. What a run of each would show, one run shows of them all.   *)
EXTENDS MockPrograms, Receivers, Watching, PeerDoubles, Issuers, FanOut,
        TriggerBridge, LinkedRuns, ChainExpansion, MCSurfaceRetirement, EosClock,
        MCCutGates, PromptsAndDeployments, SoakRunners, WitnessCoverage,
        SuiteRelease, RunResources, Durability, SecretWitness, Projections,
        Declaration

CONSTANTS first, second, other, e1, e2, e3

VARIABLE subject

Subjects == {"programs", "receivers", "signatures", "watching", "retries", "isolation",
             "issuer", "peer", "mcp", "authorization", "fan-out", "triggers", "linked",
             "chains", "trees", "collector", "retirement", "clock", "cut",
             "prompts", "deployments", "streams", "soak", "coverage",
             "release", "resources", "durability", "secrets", "projection",
             "declaration", "copies", "saml"}

Is(machine) == subject = machine

(* Two files that hold one mock node, and any other file, which holds none. *)
Lists == [f \in Files |-> IF f = other THEN << >> ELSE <<1>>]

(* Who may listen: three webhook rows, a shared fake beside two of their   *)
(* own, and a row of each of the other kinds.                              *)
Scoped == [e \in Exercises |-> "scoped"]
MCCasts == {Scoped,
            (e1 :> "shared") @@ (e2 :> "fake") @@ (e3 :> "fake"),
            (e1 :> "scoped") @@ (e2 :> "effect") @@ (e3 :> "modal")}

SecretSizes == ("old" :> 32) @@ ("new" :> 24)

MCPolicies == [maxAttempts : {3}, backoff : {"none", "exponential"}, maxElapsed : {0, 2, 6}]

MCPeerVersions == {<<"0.3", "1.0">>, <<"1.0">>}
MCRevisions == {{"2026-07-28", "2025-06-18"}, {"2026-07-28"}, {"2025-06-18"}}

Advert(dispatch, admits, maxFanOut, perItemInput) ==
  [dispatch |-> dispatch, admits |-> admits, maxFanOut |-> maxFanOut, perItemInput |-> perItemInput]
MCAdverts == {Advert(TRUE, TRUE, 0, TRUE), Advert(TRUE, FALSE, 0, FALSE),
              Advert(TRUE, TRUE, 1, FALSE), Advert(FALSE, TRUE, 1, FALSE)}

MCDrifts == {-2, 2}

(* Values of a chain that expansion tells apart, of a sensitive parameter  *)
(* and of others.                                                          *)
Field(where, tokens, lead, whole, nested) ==
  [at |-> where, tokens |-> tokens, lead |-> lead, whole |-> whole, nested |-> nested]
MCFields ==
  {Field("prompt", <<"name">>, 0, FALSE, FALSE), Field("prompt", <<"key">>, 1, FALSE, FALSE),
   Field("prompt", <<"name", "key">>, 0, FALSE, FALSE), Field("prompt", << >>, 0, FALSE, FALSE),
   Field("config", <<"key">>, 0, FALSE, TRUE), Field("config", <<"name", "key">>, 0, FALSE, FALSE),
   Field("config", <<"key", "name">>, 1, FALSE, FALSE), Field("input", <<"name">>, 0, TRUE, FALSE),
   Field("input", <<"key">>, 0, TRUE, FALSE), Field("input", <<"name", "key">>, 0, FALSE, FALSE),
   Field("input", <<"other">>, 1, FALSE, FALSE)}

(* Four chains, two of which are minted the same id.                       *)
MCSlug == [c \in Chains |-> IF c = "a.b" THEN "a_b" ELSE c]
MCRefs == {<< >>, <<"a.b">>, <<"b">>, <<"a.b", "a_b">>, <<"b", "r">>}

Item(signal, from, spot, shape) == [signal |-> signal, run |-> from, spot |-> spot, shape |-> shape]
MCItems ==
  {Item("span", "r1", "key", "plain"), Item("span", "r2", "kvlist value", "plain"),
   Item("metric", "r1", "attribute", "histogram"),
   Item("metric", "r1", "attribute", "no points")}

MCOverrides == {[date |-> 4, accepted |-> rfc, evidence |-> TRUE] : rfc \in BOOLEAN}

(* A shelf of every kind of template, one with nothing to render, none.    *)
Shelved(id, form, source, needs) ==
  [id |-> id, version |-> 1, kind |-> form, source |-> source, stamped |-> source = "pack", needs |-> needs]
MCShelves ==
  LET secret == Shelved("key", "user", "host", {"secret"})
  IN  {<< >>, <<secret>>,
       <<Shelved("writer", "system", "host", {"input"}), Shelved("shots", "few-shot", "host", {"input"}),
         secret, Shelved("pack", "system", "pack", {})>>}
Library(endpoints, mutable, observability) ==
  [endpoints |-> endpoints, mutable |-> mutable, packs |-> endpoints, observability |-> observability]
MCPromptAdverts == {Library(TRUE, TRUE, "hashed"), Library(TRUE, TRUE, "full"),
                    Library(TRUE, FALSE, "hashed"), Library(FALSE, FALSE, "hashed")}

(* Deployment facets: every state, subsets of them, and one without active. *)
DeploymentFacet(states, canary, rollback, replay, low) ==
  [states |-> states, canary |-> canary, rollback |-> rollback, replay |-> replay,
   lowKey |-> low, displaces |-> low]
MCDeployFacets ==
  LET all == {"draft", "test", "staged", "active", "paused", "deprecated", "rolled-back"}
  IN  {DeploymentFacet(all, TRUE, TRUE, TRUE, TRUE), DeploymentFacet(all, TRUE, TRUE, TRUE, FALSE),
       DeploymentFacet(all, FALSE, FALSE, FALSE, FALSE),
       DeploymentFacet({"draft", "active"}, TRUE, TRUE, TRUE, TRUE),
       DeploymentFacet({"draft", "staged", "active", "rolled-back"}, FALSE, TRUE, TRUE, TRUE),
       DeploymentFacet({"draft", "test", "active", "paused", "rolled-back"}, TRUE, TRUE, TRUE, TRUE),
       DeploymentFacet({"draft", "test"}, TRUE, FALSE, TRUE, TRUE)}
MCDeployVersions == <<"v0", "v1", "d1", "d2">>
MCIncumbencies == {<< >>, <<"v1">>, <<"v0", "v1">>, <<"v1", "v0">>}

(* A host whose lines end in CR LF, one that is cut off in the middle of   *)
(* an event, and one that says only comments before its first event.       *)
Data(v) == Line("data", v)
Blank == Line("blank", "")
StreamBody(lines, style, ended) == [lines |-> lines, style |-> style, ended |-> ended]
MCStreamBodies ==
  {StreamBody(<<Line("event", "a"), Data("x"), Blank, Data("y"), Data("z")>>, "crlf", TRUE),
   StreamBody(<<Line("event", "a"), Data("x"), Blank, Data("y"), Line("id", "1"), Data("z")>>, "lf", FALSE),
   StreamBody(<<Line("id", "1"), Blank, Line("comment", "beat"), Blank, Line("comment", "beat"), Blank,
                Data("x"), Blank>>, "lf", TRUE)}
MCLoadPathSets == {<<"create", "webhook">>, <<"poll", "ssse">>}

(* Two documents, in one of which a family has a section of its own, or    *)
(* stands inside another's; helpers whose legs reach a gate through two    *)
(* others, which are read before or after them.                            *)
CoreFamily(key, homes, rfc) == [key |-> key, homes |-> homes, rfc |-> rfc]
MCCoreFamilies == {CoreFamily("cache", {"storage"}, "r1"), CoreFamily("sql", {"storage"}, "r1"),
                   CoreFamily("memory", {"host"}, "r2")}
Heading(level, titled, words, rules) ==
  [level |-> level, titled |-> titled, words |-> words, rules |-> rules]
MCCorpusDocs ==
  LET preamble == Heading(1, {}, <<"(preamble)">>, {})
      host == <<preamble, Heading(2, {}, <<"one">>, {"m1"})>>
  IN {[host |-> host,
       storage |-> <<preamble, Heading(2, {}, <<"shared">>, {"s1", "s2"}),
                     Heading(2, {"cache"}, <<"cache">>, {"c1"}), Heading(3, {}, <<"limits">>, {})>>],
      [host |-> host,
       storage |-> <<preamble, Heading(2, {}, <<"all">>, {}), Heading(4, {"cache"}, <<"cache">>, {"c1"}),
                     Heading(3, {"sql"}, <<"sql">>, {"q1"})>>]}
MCNamedFor == [storage |-> "storage", host |-> "host"]
NewHeading(doc, heading) == [doc |-> doc, heading |-> heading]
MCNewHeadings == {NewHeading("storage", Heading(2, {"sql"}, <<"sql">>, {"q2"})),
                  NewHeading("storage", Heading(3, {"cache", "sql"}, <<"cache", "sql">>, {"x"})),
                  NewHeading("host", Heading(3, {"sql"}, <<"sql">>, {"m2"}))}

SourceCall(in, exported, callee, arguments) ==
  [in |-> in, exported |-> exported, callee |-> callee, arguments |-> arguments]
Literal(k) == [kind |-> "literal", of |-> k]
Param(i) == [kind |-> "parameter", of |-> i]
Unread == [kind |-> "read", of |-> 0]
LibCall(lib, call) == [lib |-> lib, call |-> call]
MCLibCalls == {LibCall("a", SourceCall("probe", TRUE, "twice", <<Unread, Param(1)>>)),
               LibCall("a", SourceCall("leg", FALSE, "gateFamily", <<Literal("cache")>>)),
               LibCall("a", SourceCall("leg", FALSE, "gateFamily", <<Literal("sql")>>)),
               LibCall("a", SourceCall("leg", FALSE, "gateFamily", <<Literal("memory")>>)),
               LibCall("b", SourceCall("twice", TRUE, "capabilityFamily", <<Unread, Param(2)>>))}
MCLibOrder == {<<"a", "b">>, <<"b", "a">>}

Part(doc, words) == [doc |-> doc, words |-> words]
Scenario(majors, source, imports, citations, rfcs) ==
  [majors |-> majors, source |-> source, imports |-> imports, citations |-> citations, rfcs |-> rfcs]
MCScenarioPool ==
  {Scenario({1}, <<SourceCall("leg", FALSE, "probe", <<Param(1)>>), SourceCall("", FALSE, "leg", <<Literal("sql")>>)>>,
            {}, {}, {"r2"}),
   Scenario({2}, << >>, {"a"}, {<<Part("storage", <<"shared">>), Part("same", <<"cache">>)>>}, {"r1"}),
   Scenario({1, 2}, <<SourceCall("leg", FALSE, "gateFamily", <<Param(1)>>), SourceCall("", FALSE, "leg", <<Unread>>)>>,
            {}, {<<Part("host", <<"one">>), Part("first major", << >>), Part("same", <<"cache">>)>>}, {}),
   Scenario({2}, << >>, {}, {<<Part("storage", <<"all">>)>>, <<Part("runs", <<"all">>), Part("same", <<"cache">>)>>}, {}),
   Scenario({2}, <<SourceCall("", FALSE, "twice", <<Unread, Literal("cache")>>)>>, {}, {}, {}),
   Scenario({1}, << >>, {"a"}, {<<Part("storage", <<"cache">>)>>}, {"r1", "r2"})}

(* Two contracts of the same API, released as two versions.                *)
MCContracts == {[api |-> "a1", schemas |-> "x1"], [api |-> "a1", schemas |-> "x2"]}
MCReleaseVersions == <<1, 2>>

(* Hosts that keep every rule of a run's resources, or break one.          *)
CallHost(asking, fault, most, grows, usage) ==
  [witness |-> "attempts", fault |-> fault, asked |-> asking, attempts |-> most,
   grows |-> grows, usageEvents |-> usage]
CallFaults ==
  [count |-> {"none", "counts the last", "sums the last", "calls again on replay"},
   incomplete |-> {"none", "complete in any case"}, plain |-> {"none", "mode in any case"},
   native |-> {"none"}, cap |-> {"none", "ignores the cap"}, growth |-> {"none", "grows the budget"},
   malformed |-> {"none", "takes a malformed policy"}, truncation |-> {"none", "cuts in silence"},
   exhaustion |-> {"none", "gives up in silence"}, refusal |-> {"none", "retries a refusal"}]
CallHosts ==
  UNION {{CallHost(asking, fault, n, grows, usage) :
            fault \in CallFaults[asking], grows \in BOOLEAN, usage \in BOOLEAN,
            n \in IF asking = "truncation" THEN {2, 3} ELSE {1, 2, 3}} : asking \in DOMAIN CallFaults}
BudgetHosts ==
  [witness : {"budget"}, enforce : {"hard", "advisory"}, page : {1, 2},
   pricedEvent : {"budget.exhausted", "cap.breached"},
   fault : {"none", "reserves in silence", "threshold without percent", "threshold last", "runs on",
            "stops in silence", "breach first", "breaches another cap", "fails for another reason",
            "advice that stops", "tells prices"}]
BoundsHosts ==
  {[witness |-> "bounds", fault |-> fault,
    maxRunDurationMs |-> IF fault = "bound too short" THEN 999 ELSE 1000] :
     fault \in {"none", "bound too short", "keeps no time", "names another kind",
                "observes the limit", "times out by another name", "times out in silence"}}
CapabilityHosts ==
  [witness : {"capability"},
   fault : {"none", "dispatches", "asks, then refuses", "effect before cause", "claims a fallback",
            "refuses in silence", "fails without the code"}]
RefusingHosts ==
  [witness : {"zero"}, fault : {"none", "takes no time at all", "refuses without a code"}] \cup
  [witness : {"facet"}, fault : {"none", "runs it all the same", "refuses by another code"},
   onExhaustion : {{"fail"}, {"fail", "interrupt"}}] \cup
  [witness : {"facet"}, fault : {"serves no failing"}, onExhaustion : {{"interrupt"}, {}}]
SlotHosts ==
  [witness : {"slots"}, cap : {1, 2}, major : {1, 2},
   fault : {"none", "no Retry-After", "429 instead", "overload without a code", "admits everyone",
            "waits as it likes", "spells it twice", "spells it otherwise"}]
MCResources ==
  CallHosts \cup BudgetHosts \cup BoundsHosts \cup CapabilityHosts \cup RefusingHosts \cup SlotHosts

(* Hosts that recover from a death, or break one rule of it: slow to die   *)
(* and to come back, with every shape of the bound they declare. A host    *)
(* runs the rows it is about; the others are given as passed.              *)
RecoveryClass(name, terms, bound) == [class |-> name, terms |-> terms, bound |-> bound]
TwoBounds == <<RecoveryClass("unleased", <<1, 1>>, 2), RecoveryClass("leased", <<1, 2>>, 3)>>
BadBounds == {<<RecoveryClass("leased", <<1, 2>>, 2)>>, <<RecoveryClass("leased", << >>, 0)>>,
              <<RecoveryClass("leased", <<2>>, 2), RecoveryClass("leased", <<2>>, 2)>>}
GivenRow(row) ==
  [result |-> "executed-pass", resumedAt |-> NeverAt, blind |-> 0, declared |-> TRUE,
   evidence |-> CASE row \in KILL_ROWS -> [class |-> "unleased", boundMs |-> 2, observedMs |-> 1]
                  [] row = "bound-is-derived" -> TwoBounds
                  [] OTHER -> NoEvidence]
DurableHost(rows, fault) ==
  [kind |-> "seam", rows |-> rows, fault |-> fault, seam |-> TRUE, dies |-> 0, boot |-> 1,
   governs |-> 2, names |-> "unleased", tells |-> "governing", bounds |-> TwoBounds,
   announces |-> FALSE, lossy |-> FALSE,
   given |-> [row \in SINGLE_INSTANCE_ROWS \ {rows[i] : i \in DOMAIN rows} |-> GivenRow(row)]]
BoundShape(governs, names, tells, bounds) ==
  [governs |-> governs, names |-> names, tells |-> tells, bounds |-> bounds]
BoundShapes ==
  {BoundShape(3, "leased", "governing", TwoBounds), BoundShape(2, "unleased", "one", <<TwoBounds[1]>>),
   BoundShape(2, "unleased", "classes", TwoBounds), BoundShape(3, "none", "governing", TwoBounds)}
KillHost(row, fault, dies, boot, shape) ==
  [DurableHost(<<row, "bound-is-derived">>, fault) EXCEPT
     !.dies = dies, !.boot = boot, !.governs = shape.governs, !.names = shape.names,
     !.tells = shape.tells, !.bounds = shape.bounds, !.announces = row = "kill-after-accept",
     !.lossy = fault = "none" /\ boot = 1 /\ dies = 1]
KillFaults == {"none", "loses the work", "resumes late", "completes what it lost",
               "dispatches before it dies"}
MCDurableHosts ==
  {KillHost(row, fault, dies, boot, shape) :
     row \in KILL_ROWS, fault \in KillFaults, dies \in {0, 1}, boot \in {1, 2}, shape \in BoundShapes} \cup
  {KillHost(row, fault, 0, 1, BoundShape(3, "unleased", "governing", TwoBounds)) :
     row \in KILL_ROWS, fault \in {"names another class", "names no run"}} \cup
  {KillHost(row, "none", dies, NeverAt, BoundShape(2, "unleased", "one", <<TwoBounds[1]>>)) :
     row \in KILL_ROWS, dies \in {0, 1}} \cup
  {[DurableHost(<<"kill-during-execution", "duplicate-delivery", "poison-exhaustion">>, fault)
      EXCEPT !.boot = boot] :
     boot \in {1, NeverAt},
     fault \in {"none", "fires twice", "records twice", "never ends", "redelivers", "logs no failure"}} \cup
  {[DurableHost(<<"bound-is-derived">>, IF bounds \in BadBounds THEN "bound of no terms" ELSE "none")
      EXCEPT !.bounds = bounds, !.seam = seam] :
     seam \in BOOLEAN, bounds \in BadBounds \cup {TwoBounds, << >>}} \cup
  [kind : {"spawned"}, rows : {<< >>}, given : {<< >>}, fault : {"none", "resumes nothing"},
   samePort : BOOLEAN, reaches : BOOLEAN]

(* Hosts that keep a secret to themselves, or break one rule of it; slow,  *)
(* or with answers that get lost; and hosts that show a value somewhere,   *)
(* in a form that is looked for or in another.                             *)
SecretHost(its, fault) ==
  [legs |-> its, fault |-> fault, offers |-> "all", shows |-> "nowhere", form |-> "raw",
   slow |-> FALSE, lossy |-> FALSE, closes |-> TRUE, serves |-> {"list"}, output |-> "log",
   branches |-> "served", digest |-> TRUE, operator |-> "none"]
PairLegs == <<"resolves", "redacted">>
StoreLegs == <<"store", "store failing", "store fork">>
SecretFaults(its) ==
  CASE its = <<"scope">> ->
         {"none", "answers for any name", "keeps what was given", "inherits in a fork"}
    [] its = <<"digest">> ->
         {"none", "refuses what is given", "digests what is given", "runs it again",
          "tells no replay", "keeps the retried value"}
    [] OTHER -> {"none", "refuses what is given", "always matches", "never matches",
                 "fails on a mismatch"}
MCSecretHosts ==
  UNION {{[SecretHost(its, fault) EXCEPT !.slow = slow, !.lossy = lossy] :
            fault \in SecretFaults(its), slow \in BOOLEAN, lossy \in BOOLEAN} :
           its \in {PairLegs, <<"scope">>, <<"digest">>}} \cup
  {[SecretHost(PairLegs, "shows it")
      EXCEPT !.shows = surface, !.form = form, !.closes = closes, !.serves = serves] :
     surface \in {"answer", "snapshot", "poll", "debug", "list", "bundle"}, closes \in BOOLEAN,
     form \in {"raw", "sha256 hex", "reversed"}, serves \in {{"list"}, {"list", "bundle"}}} \cup
  {[SecretHost(PairLegs, "none") EXCEPT !.output = output] : output \in {"snapshot", "nowhere"}} \cup
  {[SecretHost(<<"scope">>, fault) EXCEPT !.branches = branches] :
     branches \in {"no", "refused"}, fault \in {"none", "inherits in a fork"}} \cup
  {[SecretHost(<<aLeg>>, "none") EXCEPT !.offers = offers] :
     offers \in {"no facet", "no fixture"}, aLeg \in {"scope", "store"}} \cup
  {[SecretHost(StoreLegs, fault)
      EXCEPT !.slow = slow, !.digest = digest, !.operator = knows, !.branches = branches] :
     fault \in {"none", "ends it otherwise"}, slow \in BOOLEAN, digest \in BOOLEAN,
     knows \in {"none", "S", "X"}, branches \in {"served", "no"}} \cup
  {[SecretHost(StoreLegs, "shows it")
      EXCEPT !.shows = surface, !.form = form, !.digest = digest, !.operator = knows,
             !.lossy = surface = "list"] :
     surface \in {"snapshot", "cancel", "list"}, form \in {"hex", "reversed"},
     digest \in BOOLEAN, knows \in {"none", "S", "X"}}

(* Conditions as authors write them: on the flag, on a name of the facet,  *)
(* on both, on the tier, on the object as a whole and on a name's absence; *)
(* and payloads that refer to each other.                                  *)
MCFacetNames == {"supported", "tier", "f", "g"}
SaysIf(if, then, else, place) == [in |-> place, if |-> if, then |-> then, else |-> else]
OnFlag == Fragment({"supported"}, {"supported"}, {}, FALSE)
OnName == Fragment({"f"}, {"f"}, {}, FALSE)
OnBothNames == Fragment({"f", "supported"}, {"supported"}, {}, FALSE)
OnObject == Fragment({"f"}, {}, {}, TRUE)
NeedsG == Fragment({"g"}, {}, {}, FALSE)
NeedsFlagToo == Fragment({"supported", "g"}, {}, {}, FALSE)
WithoutG == Fragment({}, {}, {"g"}, FALSE)
Consequences ==
  {NeedsG, NeedsFlagToo, Fragment({"tier"}, {}, {}, FALSE), Fragment({"g"}, {"f"}, {}, FALSE), Fragment({}, {}, {"supported"}, FALSE), Fragment({}, {"g"}, {}, TRUE)}
MCConditionals ==
  {SaysIf(if, NeedsG, NoFragment, "allOf") :
     if \in {OnFlag, OnName, OnBothNames, OnObject, Fragment({"tier"}, {"tier"}, {}, FALSE),
             Fragment({}, {}, {"f"}, FALSE)}} \cup
  {SaysIf(OnFlag, then, NoFragment, "self") : then \in Consequences} \cup
  {SaysIf(OnName, then, NoFragment, place) : then \in Consequences, place \in {"self", "allOf"}} \cup
  {SaysIf(if, NeedsFlagToo, WithoutG, "allOf") : if \in {OnName, OnBothNames}} \cup
  {SaysIf(OnObject, NeedsG, WithoutG, "allOf")} \cup
  {SaysIf(OnName, NeedsG, Fragment({}, {"g"}, {}, TRUE), "self"),
   SaysIf(Fragment({}, {}, {"supported"}, FALSE), NeedsG, NoFragment, "allOf"),
   SaysIf(Fragment({}, {}, {"tier"}, FALSE), NeedsG, NoFragment, "allOf"),
   SaysIf(OnName, Fragment({}, {}, {"tier"}, FALSE), NoFragment, "allOf")}
MCPayloadDefs == {"approvalRequested", "interruptRequested", "suspend"}

(* Floors that gate on the profile's family, on another as well, and that  *)
(* a seam drives.                                                          *)
MCFloor ==
  [plain |-> [gates |-> {"base"}, seam |-> FALSE],
   gatedOnK |-> [gates |-> {"base", "k"}, seam |-> FALSE],
   driven |-> [gates |-> {"base"}, seam |-> TRUE]]
MCFloorFiles == DOMAIN MCFloor
MCNeedSets == {{"k", "host.k"}, {"k.f"}, {"old"}}
MCDesks == {"facets", "prose", "families", "packs", "guard"}
MCMaxEdits == [d \in MCDesks |-> IF d = "packs" THEN 2 ELSE 4]

(* A machine that is not the subject, of which no property speaks, is not  *)
(* even started.                                                           *)
Still(v) == v = "still"

(* What an idle machine might vary stands at one value.                    *)
Init ==
  /\ subject \in Subjects
  /\ ProgramsInit
  /\ ReceiversInit /\ (Is("receivers") \/ (kind = Scoped /\ front = "unset" /\ ~pinned))
  /\ SignaturesInit /\ (Is("signatures") \/ (scheme = "standard" /\ skew = 0 /\ receiverSecret = "old"))
  /\ WatchingInit /\ (Is("watching") \/ (loop = "pollUntil" /\ hostHonest))
  /\ RetryInit /\ (Is("retries") \/ (policy = (CHOOSE p \in Policies : TRUE) /\ retryEnv = 0 /\ keepsPromise))
  /\ IsolationInit /\ (Is("isolation") \/ pool = 1)
  /\ IF Is("issuer") THEN IssuerInit
     ELSE Still(claimed) /\ Still(serving) /\ Still(tries) /\ Still(rotationCounter)
          /\ Still(keyCache) /\ Still(presented)
  /\ IF Is("peer") THEN PeerInit
     ELSE Still(protocolVersions) /\ Still(tasks) /\ Still(nextState) /\ Still(nextAuthority)
          /\ Still(legacyErrorData) /\ Still(reply)
  /\ IF Is("mcp") THEN McpInit
     ELSE Still(revisions) /\ Still(stateCounter) /\ Still(nextResultAssertsAuthority)
          /\ Still(invocations) /\ Still(exchanges) /\ Still(answer) /\ Still(cursor)
          /\ Still(listed) /\ Still(requestState) /\ Still(asked) /\ Still(looped)
  /\ IF Is("authorization") THEN AuthInit
     ELSE Still(gate) /\ Still(metadata) /\ Still(codes) /\ Still(refreshTokens)
          /\ Still(refreshRevoked) /\ Still(tokenRequests) /\ Still(resourceHits)
  /\ IF Is("fan-out") THEN FanOutInit
     ELSE Still(fixture) /\ Still(agents) /\ Still(run) /\ Still(moment) /\ Still(startedAt)
          /\ Still(endedAt) /\ Still(completedAt) /\ Still(item) /\ Still(errorCode)
          /\ Still(fanned) /\ Still(fanOutVerdict)
  /\ IF Is("triggers") THEN TriggerInit
     ELSE Still(defect) /\ Still(drift) /\ Still(foreignTenantRead) /\ Still(subs)
          /\ Still(legs) /\ Still(answers)
  /\ IF Is("linked") THEN LinkedInit
     ELSE Still(kindOfRun) /\ Still(parentVar) /\ Still(version) /\ Still(parent)
          /\ Still(child) /\ Still(bag) /\ Still(mapped) /\ Still(link) /\ Still(lineage)
          /\ Still(decisions) /\ Still(strayed) /\ Still(legsJudged)
  /\ IF Is("chains") THEN ChainInit
     ELSE Still(lastIndex) /\ Still(settings) /\ Still(firstSettings) /\ Still(expansion)
  /\ IF Is("trees") THEN TreeInit
     ELSE Still(subRefs) /\ Still(declared) /\ Still(siblings) /\ Still(maxDepth)
          /\ Still(lacking) /\ Still(stack) /\ Still(children) /\ Still(expanded)
  /\ IF Is("collector") THEN CollectorInit
     ELSE Still(offered) /\ Still(standing) /\ Still(exports) /\ Still(captured)
          /\ Still(accepted)
  /\ IF Is("retirement") THEN RetirementInit
     ELSE Still(main) /\ Still(tags) /\ Still(today) /\ Still(announced) /\ Still(merges)
  /\ IF Is("clock") THEN ClockInit
     ELSE Still(history) /\ Still(tag)
  /\ IF Is("cut") THEN CutInit
     ELSE Still(corpus) /\ Still(server) /\ Still(endOfSupport) /\ Still(matrixRow)
          /\ Still(bundle)
  /\ IF Is("prompts") THEN PromptInit
     ELSE Still(promptDefect) /\ Still(promptAdvert) /\ Still(shelf) /\ Still(library)
          /\ Still(life) /\ Still(question) /\ Still(answered)
  /\ IF Is("deployments") THEN DeployInit
     ELSE Still(deployFault) /\ Still(deployFacet) /\ Still(deployed) /\ Still(activations)
          /\ Still(drives) /\ Still(deployAt) /\ Still(drive) /\ Still(acceptedMoves)
          /\ Still(deployLegs)
  /\ IF Is("streams") THEN StreamInit
     ELSE Still(streamReader) /\ Still(streamBody) /\ Still(arrivedTokens)
          /\ Still(lineBuffer) /\ Still(pendingEvent) /\ Still(readEvents) /\ Still(streamAt)
          /\ Still(closedBy) /\ Still(soak)
  /\ IF Is("soak") THEN SoakInit
     ELSE Still(soakFault) /\ Still(soakPlan) /\ Still(nextIndex) /\ Still(workers)
          /\ Still(agentRuns) /\ Still(trials) /\ Still(timings) /\ Still(pathReports)
          /\ Still(loadErrors)
  /\ IF Is("coverage") THEN CoverageInit
     ELSE Still(witnessCorpus)
  /\ IF Is("release") THEN ReleaseInit
     ELSE Still(releaseTree) /\ Still(manifestLog) /\ Still(npmRegistry) /\ Still(shown)
          /\ Still(tagRun) /\ Still(tagsPushed) /\ Still(hour)
  /\ IF Is("resources") THEN ResourceInit
     ELSE Still(resource) /\ Still(fixtureRun) /\ Still(waiting) /\ Still(slots)
          /\ Still(rulesFailed)
  /\ IF Is("durability") THEN DurabilityInit
     ELSE Still(durable) /\ Still(instance) /\ Still(work) /\ Still(effects)
          /\ Still(exercise) /\ Still(recoveryRows) /\ Still(spawned) /\ Still(claim)
  /\ IF Is("secrets") THEN SecretInit
     ELSE Still(capturedText) /\ Still(secretHost) /\ Still(secretRuns) /\ Still(secretLeg)
          /\ Still(secretRows)
  /\ IF Is("projection") THEN ProjectionInit
     ELSE Still(facetSchema) /\ Still(payloadDefs)
  /\ IF Is("declaration") THEN DeclarationInit
     ELSE Still(desk) /\ Still(edits) /\ Still(workTree) /\ Still(packVersions)
  /\ IF Is("copies") THEN CopiesInit
     ELSE Still(schemas) /\ Still(pointers)
  /\ IF Is("saml") THEN SamlInit
     ELSE Still(samlHour) /\ Still(assertion) /\ Still(samlHost) /\ Still(provisioned)
          /\ Still(linkLeg)

(* The others stay where they are. *)
StaysStill(machine, itsVars) == IF Is(machine) THEN TRUE ELSE UNCHANGED itsVars

Next ==
  /\ UNCHANGED subject
  /\ StaysStill("programs", allVars)
  /\ StaysStill("receivers", receiverVars)
  /\ StaysStill("signatures", signatureVars)
  /\ StaysStill("watching", watchingVars)
  /\ StaysStill("retries", retryVars)
  /\ StaysStill("isolation", isolationVars)
  /\ StaysStill("issuer", issuerVars)
  /\ StaysStill("peer", peerVars)
  /\ StaysStill("mcp", mcpVars)
  /\ StaysStill("authorization", authVars)
  /\ StaysStill("fan-out", fanOutVars)
  /\ StaysStill("triggers", triggerVars)
  /\ StaysStill("linked", linkedVars)
  /\ StaysStill("chains", chainVars)
  /\ StaysStill("trees", treeVars)
  /\ StaysStill("collector", collectorVars)
  /\ StaysStill("retirement", retirementVars)
  /\ StaysStill("clock", clockVars)
  /\ StaysStill("cut", cutVars)
  /\ StaysStill("prompts", promptVars)
  /\ StaysStill("deployments", deployVars)
  /\ StaysStill("streams", streamVars)
  /\ StaysStill("soak", soakVars)
  /\ StaysStill("coverage", coverageVars)
  /\ StaysStill("release", releaseVars)
  /\ StaysStill("resources", resourceVars)
  /\ StaysStill("durability", durabilityVars)
  /\ StaysStill("secrets", secretVars)
  /\ StaysStill("projection", projectionVars)
  /\ StaysStill("declaration", declarationVars)
  /\ StaysStill("copies", copiesVars)
  /\ StaysStill("saml", samlVars)
  /\ \/ Is("programs") /\ ProgramsNext
     \/ Is("receivers") /\ ReceiversNext
     \/ Is("signatures") /\ SignaturesNext
     \/ Is("watching") /\ WatchingNext
     \/ Is("retries") /\ RetryNext
     \/ Is("isolation") /\ IsolationNext
     \/ Is("issuer") /\ IssuerNext
     \/ Is("peer") /\ PeerNext
     \/ Is("mcp") /\ McpNext
     \/ Is("authorization") /\ AuthNext
     \/ Is("fan-out") /\ FanOutNext
     \/ Is("triggers") /\ TriggerNext
     \/ Is("linked") /\ LinkedNext
     \/ Is("chains") /\ ChainNext
     \/ Is("trees") /\ TreeNext
     \/ Is("collector") /\ CollectorNext
     \/ Is("retirement") /\ RetirementNext
     \/ Is("clock") /\ ClockNext
     \/ Is("cut") /\ CutNext
     \/ Is("prompts") /\ PromptNext
     \/ Is("deployments") /\ DeployNext
     \/ Is("streams") /\ StreamNext
     \/ Is("soak") /\ SoakNext
     \/ Is("coverage") /\ CoverageNext
     \/ Is("release") /\ ReleaseNext
     \/ Is("resources") /\ ResourceNext
     \/ Is("durability") /\ DurabilityNext
     \/ Is("secrets") /\ SecretNext
     \/ Is("projection") /\ ProjectionNext
     \/ Is("declaration") /\ DeclarationNext
     \/ Is("copies") /\ CopiesNext
     \/ Is("saml") /\ SamlNext

harnessVars ==
  <<subject, allVars, receiverVars, signatureVars, watchingVars, retryVars, isolationVars,
    issuerVars, peerVars, mcpVars, authVars, fanOutVars, triggerVars, linkedVars, chainVars,
    treeVars, collectorVars, retirementVars, clockVars, cutVars, promptVars, deployVars,
    streamVars, soakVars, coverageVars, releaseVars, resourceVars, durabilityVars, secretVars,
    projectionVars, declarationVars, copiesVars, samlVars>>

Spec == Init /\ [][Next]_harnessVars

-----------------------------------------------------------------------------
(* Each double of another party keeps the rule its rows rely on: the       *)
(* issuer's control token is the one that verifies (oidc-issuer.ts), the   *)
(* peer's ended tasks stay ended (a2a-fake-peer.ts), the tool server's     *)
(* pages and its input loop lose and repeat nothing (mcp-fake-server.ts),  *)
(* a code grants tokens once (oauth-as-double.ts), what a host exported    *)
(* and the collector took is what the search looks through                 *)
(* (otel-collector.ts), and an assertion is taken by the root that signed  *)
(* what is read, within its window, and by no other (saml-idp.ts).         *)
DoublesKeepTheirWord ==
  CASE Is("issuer") -> ControlTokenVerifies
    [] Is("peer") -> EndedTasksStay
    [] Is("mcp") -> WalkAndLoopAreWhole
    [] Is("authorization") -> CodesGrantOnce
    [] Is("collector") -> CanaryIsFound
    [] Is("saml") -> SamlIsTrue
    [] OTHER -> TRUE

(* Each witness convicts the host that breaks its rule and no other: of    *)
(* children in flight (fan-out-witness.ts), of trigger deliveries          *)
(* (trigger-delivery-witness.ts, trigger-dead-letter-witness.ts), of       *)
(* linked runs (dispatch-witness.ts, subworkflow-witness.ts), of a prompt  *)
(* library others write to (prompt-library-witness.ts) and of an agent's   *)
(* deployments (deployment-lifecycle-witness.ts). The soak runners report  *)
(* what the stream carried (sse-longevity.mjs, lib/sse.ts) and how the     *)
(* runs ended (multi-agent-stress.mjs, load-profile.mjs).                  *)
WitnessesAreTrue ==
  CASE Is("fan-out") -> FanOutVerdictIsTrue
    [] Is("triggers") -> EachDefectHasItsLegs
    [] Is("linked") -> LinkedVerdictIsTrue
    [] Is("prompts") -> LibraryVerdictIsTrue
    [] Is("deployments") -> DeploymentVerdictIsTrue
    [] Is("streams") -> StreamsAreRead
    [] Is("soak") -> SoakReportsAreTrue
    [] Is("resources") -> ResourcesAreJudged
    [] Is("durability") -> RecoveryIsWitnessed
    [] Is("secrets") -> SecretsAreWatched
    [] OTHER -> TRUE

(* A chain is expanded (workflow-chain-expansion.ts) with no sensitive     *)
(* value in what it leaves behind, with nothing deferred that no run can   *)
(* resolve, under one policy, and with its whole tree of sub-chains.       *)
ChainsExpandWhole ==
  CASE Is("chains") -> ChainsExpandSoundly
    [] Is("trees") -> TreeIsWhole
    [] OTHER -> TRUE

(* The corpus keeps what its releases promised: what a tag counted is gone *)
(* only by the rules (check-v2-surface-monotone.mjs and the gates beside   *)
(* it), the end of the first major's support is computed from history as   *)
(* main has it (generate-v1-eos-clock.mjs), the second is cut on a bundle  *)
(* that witnessed today's corpus (check-cut-gates.mjs), the families it is *)
(* said to witness are witnessed (report-v2-witness-coverage.mjs), and what*)
(* npm serves is a tree of main (openwop-publish.yml and its checks).      *)
ReleasesKeepTheirPromises ==
  CASE Is("retirement") -> RemovalsAreLicensed
    [] Is("clock") -> ClockIsSound
    [] Is("cut") -> CutIsEarned
    [] Is("coverage") -> CoverageIsTrue
    [] Is("release") -> ReleaseIsTrue
    [] Is("projection") -> ProjectionsAreFaithful
    [] Is("declaration") -> AcceptedTreesAreSound
    [] Is("copies") -> CopiesAreKept
    [] OTHER -> TRUE
=============================================================================
