----------------------------- MODULE Derivation -----------------------------
(***************************************************************************)
(* From a discovery document and what a run left behind to the rows of a   *)
(* bundle and the verdict on each claimed profile.                         *)
(*                                                                         *)
(* The first part says which profiles a document derives, and which        *)
(* requirements the claim of a profile rests on (profiles.ts,              *)
(* requirement-registry.ts, v2-profiles.ts). A document is the set of the  *)
(* facts that the predicates read off it: "replay.supported" is in it when *)
(* that member is true, "replay.modes: branch" when that array includes    *)
(* the entry.                                                              *)
(*                                                                         *)
(* The second derives the rows and the verdicts (scenario-disposition.ts,  *)
(* deriveRequirementDispositions) from two sources that disagree at will:  *)
(* what the test runner's report says of each file, and the ledger the     *)
(* files wrote.                                                            *)
(***************************************************************************)
EXTENDS Dispositions, Integers, FiniteSetsExt

CONSTANTS
  PROFILE_FLOOR_SCENARIOS,  \* the v1 hand table: its floor for each profile
  Registry,                 \* spec/v2/profiles.json: the entry of each profile
  RegistryFound,            \* whether this layout has that file
  FamiliesInName            \* the families whose name the id of a profile contains

(* A floor of the table has required and conditional files, groups of      *)
(* files met by any member (prefixes and anyOf, sets of [id, files]), and  *)
(* whether it is discoveryOnly or runtimeDerived.                          *)
CatalogProfiles == DOMAIN PROFILE_FLOOR_SCENARIOS

(* A group's id is its prefix, or the names of its alternatives, so that   *)
(* the id makes the group.                                                 *)
ASSUME GroupsApart ==
  \A p, q \in CatalogProfiles :
    LET floor == PROFILE_FLOOR_SCENARIOS[p]  other == PROFILE_FLOOR_SCENARIOS[q]
    IN  /\ \A g \in floor.prefixes, h \in other.prefixes : g.id = h.id => g = h
        /\ \A g \in floor.anyOf, h \in other.anyOf : g.id = h.id => g = h

-----------------------------------------------------------------------------
(* The v1 predicates. *)
CoreFacts ==
  {"protocolVersion 1.x", "supportedEnvelopes", "schemaVersions",
   "limits.clarificationRounds", "limits.schemaRounds", "limits.envelopesPerTurn"}

isCore(doc) == CoreFacts \subseteq doc
isInterrupts(doc) == isCore(doc) /\ "supportedEnvelopes: clarification.request" \in doc
isStream(doc) ==
  isCore(doc) /\ ("supportedTransports" \in doc => "supportedTransports: rest" \in doc)
isSecrets(doc) == isCore(doc) /\ {"secrets.supported", "secrets.scopes: user"} \subseteq doc
isProviderPolicy(doc) == isCore(doc) /\ "aiProviders.policies.modes: optional" \in doc

ReplayModes == {"replay.modes: replay", "replay.modes: branch"}
isReplayFork(doc) ==
  isCore(doc) /\ "replay.supported" \in doc /\ doc \cap ReplayModes # {}
isFixtures(doc) == isCore(doc) /\ "fixtures" \in doc
isMemory(doc) ==
  /\ isCore(doc)
  /\ {"memory.supported", "agents.memoryBackends: long-term"} \subseteq doc
  /\ "memory.writable: false" \notin doc

DurableSources ==
  {"queueBus.supported", "scheduling.supported", "webhooks.durable",
   "triggerBridge.ingestion.externalSources: email",
   "triggerBridge.ingestion.externalSources: form"}
isTriggerBridge(doc) ==
  /\ isCore(doc)
  /\ {"triggerBridge.supported", "deadLetter.supported"} \subseteq doc
  /\ doc \cap DurableSources # {}

(* The agent-platform annex: the terms of its two tiers.                   *)
FloorTerms ==
  {"agents.manifestRuntime.supported", "agents.liveRuntime.supported",
   "toolCatalog.supported", "toolHooks.supported", "httpClient.safeFetch.supported",
   "providerUsage.supported", "prompts.supported", "memory.supported",
   "feedback.supported"}
FullTerms ==
  {"authorization.supported", "agents.manifestRuntime.installScope: tenant",
   "memory.attribution.supported", "debugBundle.supported", "triggerBridge.supported",
   "httpClient.egressPolicy.supported"}
Deterministic(doc) == doc \cap {"replay.supported", "nondeterminismPolicy.declared"} # {}

isAgentPlatformPartial(doc) == isCore(doc) /\ FloorTerms \subseteq doc /\ Deterministic(doc)
isAgentPlatformFull(doc) == isAgentPlatformPartial(doc) /\ FullTerms \subseteq doc
agentPlatformStatus(doc) ==
  IF isAgentPlatformFull(doc) THEN "full"
  ELSE IF isAgentPlatformPartial(doc) THEN "partial" ELSE "none"
agentPlatformSatisfiedTerms(doc) ==
  (doc \cap (FloorTerms \cup FullTerms))
    \cup (IF Deterministic(doc) THEN {"replay-or-nondeterminism"} ELSE {})

isCoreStandard(doc) == isCore(doc) /\ isInterrupts(doc) /\ isStream(doc)

(* The closed catalog; openwop-core is the deprecated alias, never alone.  *)
DEPRECATED_PROFILE_ALIASES == {"openwop-core"}
CanonicalOf(p) == IF p = "openwop-core" THEN "openwop-discovery-core" ELSE p

deriveProfiles(doc) ==
  {p \in {"openwop-discovery-core", "openwop-core", "openwop-node-packs"} : isCore(doc)}
  \cup {p \in {"openwop-interrupts"} : isInterrupts(doc)}
  \cup {p \in {"openwop-stream-sse", "openwop-stream-poll"} : isStream(doc)}
  \cup {p \in {"openwop-secrets"} : isSecrets(doc)}
  \cup {p \in {"openwop-provider-policy"} : isProviderPolicy(doc)}
  \cup {p \in {"openwop-replay-fork"} : isReplayFork(doc)}
  \cup {p \in {"openwop-fixtures"} : isFixtures(doc)}
  \cup {p \in {"openwop-memory"} : isMemory(doc)}
  \cup {p \in {"openwop-trigger-bridge"} : isTriggerBridge(doc)}

(* The v2 registry: a predicate over families and metadata of the root.    *)
v2ProfileIds(doc) ==
  IF ~RegistryFound THEN {}
  ELSE {p \in DOMAIN Registry : Registry[p].families \cup Registry[p].metadata \subseteq doc}

(* claimedProfilesFor, claimedProfilesForV2: what the emitter claims.      *)
claimedProfiles(doc, major) ==
  IF major = 2 THEN v2ProfileIds(doc)
  ELSE deriveProfiles(doc)
       \cup {p \in {"openwop-core-standard"} : isCoreStandard(doc)}
       \cup {p \in {"openwop-agent-platform"} : agentPlatformStatus(doc) # "none"}

(* What the verifier accepts. *)
profileDerivable(doc, p, major) ==
  CASE major = 2 -> p \in v2ProfileIds(doc)
    [] major = 1 /\ p = "openwop-core-standard" -> isCoreStandard(doc)
    [] major = 1 /\ p = "openwop-agent-platform" -> agentPlatformStatus(doc) # "none"
    [] OTHER -> p \in deriveProfiles(doc)

-----------------------------------------------------------------------------
(* Requirement ids: the row of a floor file, of any other file, and of a   *)
(* group.                                                                  *)
requirementIdForScenario(f) == <<"floor", f>>
requirementIdForPrefix(g) == <<"any", g.id>>
requirementIdForAnyOf(g) == <<"anyof", g.id>>

floorMemberFiles(floor) ==
  floor.required \cup (UNION {c.required : c \in floor.conditional})
                 \cup (UNION {g.files : g \in floor.anyOf})

(* The files the recorder mints a floor id for. *)
floorScenarioFiles(major) ==
  (UNION {floorMemberFiles(PROFILE_FLOOR_SCENARIOS[p]) : p \in CatalogProfiles})
  \cup (IF major = 2 /\ RegistryFound
        THEN UNION {Registry[p].floor : p \in DOMAIN Registry} ELSE {})

requirementIdForFile(f, major) ==
  IF f \in floorScenarioFiles(major) THEN requirementIdForScenario(f) ELSE <<"scenario", f>>

floorFilesFor(p, doc) ==
  LET floor == PROFILE_FLOOR_SCENARIOS[p]
  IN  floor.required \cup UNION {c.required : c \in {d \in floor.conditional : d.fact \in doc}}

HasFloor(p, major) ==
  IF major = 2 THEN RegistryFound /\ p \in DOMAIN Registry ELSE p \in CatalogProfiles

(* The requirements a claim rests on, for a profile that has a floor.      *)
requirementsFor(p, doc, major) ==
  IF major = 2 THEN {requirementIdForScenario(f) : f \in Registry[p].floor}
  ELSE LET floor == PROFILE_FLOOR_SCENARIOS[p]
       IN  IF floor.discoveryOnly THEN {}
           ELSE {requirementIdForScenario(f) : f \in floorFilesFor(p, doc)}
                \cup {requirementIdForPrefix(g) : g \in floor.prefixes}
                \cup {requirementIdForAnyOf(g) : g \in floor.anyOf}

allRequirements ==
  LET floors == {PROFILE_FLOOR_SCENARIOS[p] : p \in CatalogProfiles}
  IN  UNION {{requirementIdForScenario(f) : f \in floorMemberFiles(floor)}
             \cup {requirementIdForPrefix(g) : g \in floor.prefixes}
             \cup {requirementIdForAnyOf(g) : g \in floor.anyOf} :
               floor \in {fl \in floors : ~fl.discoveryOnly}}

-----------------------------------------------------------------------------
(* Variant: a profile is denied only when its id names the family.         *)
RelaxedByName(families, profiles) == {p \in profiles : FamiliesInName[p] \cap families # {}}

(* A relaxed obligation denies the profiles that own its family or name it. *)
profilesRelaxedBy(families, profiles) ==
  {p \in profiles :
     \/ RegistryFound /\ p \in DOMAIN Registry /\ Registry[p].families \cap families # {}
     \/ FamiliesInName[p] \cap families # {}}

(* The v1 verifier: passed is the bundle's list of passed files.           *)
verifyBundleProfile(doc, passed, p) ==
  /\ profileDerivable(doc, p, 1)
  /\ p \in CatalogProfiles
  /\ LET floor  == PROFILE_FLOOR_SCENARIOS[p]
         files  == floorFilesFor(p, doc)
         groups == floor.prefixes \cup floor.anyOf
     IN  /\ floor.discoveryOnly \/ files # {} \/ groups # {}
         /\ files \subseteq passed
         /\ \A g \in groups : g.files \cap passed # {}

-----------------------------------------------------------------------------
(* What the run left behind, and the rows it derives. *)

ReportStates == {"passed", "failed", "skipped"}

(* A row about the scenario file, or the group of files, in scenario.      *)
Row(scenario, d, detail, n) ==
  [scenario |-> scenario, disposition |-> d, detail |-> detail, count |-> n]

Assertions(row) == IF row.count > 0 THEN row.count ELSE 0
SumOf(rows) == MapThenSumSet(LAMBDA pair : Assertions(pair[2]), rows)

Unstated == -1   \* a row whose assertion count is not stated

(* A file's row: what it recorded, else what the report says of it.        *)
DerivedFileRow(f, id, state, rec, present) ==
  IF id \in DOMAIN rec
  THEN Row({f}, rec[id].disposition, rec[id].detail, rec[id].count)
  ELSE CASE state = "passed" -> Row({f}, "executed-pass",
                                    IF present THEN "why" ELSE NoDetail, Unstated)
         [] state = "failed" -> Row({f}, "executed-fail", "why", Unstated)
         [] state = "skipped" -> Row({f}, "blocked", "why", Unstated)

Having(rows, d) == {pair \in rows : pair[2].disposition = d}
WitnessedIn(rows) == {pair \in Having(rows, "executed-pass") : pair[2].count > 0}

(* The groups' rows are derived from the rows of the matching files, each  *)
(* with the file's name. A prefix group passes when any file does.         *)
PrefixRow(g, perFile) ==
  LET matching == {pair \in perFile : pair[1] \in g.files}
      passes   == Having(matching, "executed-pass")
  IN  IF passes # {} THEN Row(g.files, "executed-pass", NoDetail, SumOf(passes))
      ELSE Row(g.files, IF Having(matching, "executed-fail") # {} THEN "executed-fail"
                        ELSE "blocked", "why", Unstated)

(* Variant: one witnessed alternative is enough, whatever the others did. *)
AnyOfRowOfWitness(g, perFile) ==
  LET witnessed == WitnessedIn({pair \in perFile : pair[1] \in g.files})
  IN  IF witnessed # {} THEN Row(g.files, "executed-pass", NoDetail, SumOf(witnessed))
      ELSE Row(g.files, "blocked", "why", Unstated)

(* An any-of group passes on a witnessed alternative if none failed.       *)
AnyOfRow(g, perFile) ==
  LET matching  == {pair \in perFile : pair[1] \in g.files}
      witnessed == WitnessedIn(matching)
  IN  IF Having(matching, "executed-fail") # {}
      THEN Row(g.files, "executed-fail", "why", Unstated)
      ELSE IF witnessed # {} THEN Row(g.files, "executed-pass", NoDetail, SumOf(witnessed))
      ELSE Row(g.files, "blocked", "why", Unstated)

(* report: the state of every file the run reported on. rec: the ledger,   *)
(* by requirement id. Groups count for claimed profiles, at major 1. An    *)
(* entry of another kind makes a row if it names a reported file.          *)
DerivedRows(report, rec, claimed, major) ==
  LET fileIds == {requirementIdForFile(f, major) : f \in DOMAIN report}
      ofFile(f) == DerivedFileRow(f, requirementIdForFile(f, major), report[f], rec,
                                  DOMAIN rec # {})
      perFile  == {<<f, ofFile(f)>> : f \in DOMAIN report}
      floors   == IF major = 2 THEN {}
                  ELSE {PROFILE_FLOOR_SCENARIOS[p] :
                          p \in CatalogProfiles \cap {CanonicalOf(c) : c \in claimed}}
      prefixes == UNION {floor.prefixes : floor \in floors}
      anyOfs   == UNION {floor.anyOf : floor \in floors}
      groupIds == {requirementIdForPrefix(g) : g \in prefixes}
                  \cup {requirementIdForAnyOf(g) : g \in anyOfs}
      itIds    == {id \in DOMAIN rec \ (fileIds \cup groupIds) : rec[id].file \in DOMAIN report}
  IN  [id \in fileIds \cup groupIds \cup itIds |->
         IF id \in itIds
         THEN Row({rec[id].file}, rec[id].disposition, rec[id].detail, rec[id].count)
         ELSE IF id \in fileIds
         THEN ofFile(CHOOSE f \in DOMAIN report : requirementIdForFile(f, major) = id)
         ELSE IF \E g \in prefixes : requirementIdForPrefix(g) = id
         THEN PrefixRow(CHOOSE g \in prefixes : requirementIdForPrefix(g) = id, perFile)
         ELSE AnyOfRow(CHOOSE g \in anyOfs : requirementIdForAnyOf(g) = id, perFile)]

TotalsOf(rows) ==
  [d \in Dispositions |-> Cardinality({id \in DOMAIN rows : rows[id].disposition = d})]

-----------------------------------------------------------------------------
(* The verdict on a profile. *)
WitnessedRow(row) == row.disposition = "executed-pass" /\ row.count > 0

(* An executed pass that says it asserted nothing, and the recorder's own  *)
(* marker for a file that returned without a word: a witness of nothing.   *)
Vacuous(row) ==
  \/ row.disposition = "executed-pass" /\ row.count = 0
  \/ row.disposition = "blocked" /\ row.detail = "unclassified-return"

IsGroup(id) == id[1] \in {"any", "anyof"}

(* No row, nothing recorded, or nothing witnessed. With no ledger at all,  *)
(* only a blocked row is silent.                                           *)
Unclassified(id, rows, rec) ==
  \/ id \notin DOMAIN rows
  \/ /\ id \notin DOMAIN rec /\ ~IsGroup(id)
     /\ DOMAIN rec # {} \/ rows[id].disposition = "blocked"
  \/ Vacuous(rows[id])

Blocking(id, rows, rec, major) ==
  \/ Unclassified(id, rows, rec)
  \/ rows[id].disposition \notin CERTIFIABLE
  \/ major = 2 /\ rows[id].disposition = "skipped"

ProfileVerdict(p, rows, rec, doc, major) ==
  LET ids       == requirementsFor(p, doc, major)
      open      == {id \in ids : Unclassified(id, rows, rec)}
      blocking  == {id \in ids : Blocking(id, rows, rec, major)}
      witnessed == {id \in ids \cap DOMAIN rows : WitnessedRow(rows[id])}
      floor     == PROFILE_FLOOR_SCENARIOS[p]
      derived   == major = 1 /\ floor.runtimeDerived
      held      == ids # {} /\ witnessed = ids
  IN  IF ~HasFloor(p, major)
      THEN [unclassified |-> {}, blocking |-> {<<"no floor", p>>}, certifiable |-> FALSE,
            notHeld |-> FALSE, witnessed |-> 0]
      ELSE [unclassified |-> IF derived /\ ~held THEN {} ELSE open,
            blocking     |-> IF derived /\ ~held THEN ids \ witnessed ELSE blocking,
            certifiable  |->
              IF major = 2 THEN ids # {} /\ blocking = {} /\ witnessed # {}
              ELSE IF derived THEN held
              ELSE floor.discoveryOnly \/ (ids # {} /\ blocking = {}),
            notHeld      |-> derived /\ ~held,
            witnessed    |-> Cardinality(witnessed)]

Verdicts(claimed, rows, rec, doc, major) ==
  [p \in claimed |-> ProfileVerdict(p, rows, rec, doc, major)]
=============================================================================
