---------------------------- MODULE Certification ----------------------------
(***************************************************************************)
(* A certification run from end to end (cli.ts, runCertify): discover the  *)
(* host and what it claims, run its scenario files, each of which records  *)
(* into the shared ledger and any of which may fail to load or lose its    *)
(* worker, read the report and the ledger, and write a bundle.             *)
(***************************************************************************)
EXTENDS ScenarioRecorder, Bundles

CONSTANTS
  Hosts,          \* what a host serves: [v1, v2, versions, preferred]
  TargetFlag,     \* --target-major, or 0
  MajorFiles,     \* MajorFiles[m]: the files that target major m
  ReqOf,          \* ReqOf[id]: the requirement id of any other ledger id
  MaxWorkers,     \* --max-workers: how many files run at a time
  MayFailToLoad,  \* files whose import can throw
  MayDie,         \* files whose worker can die
  Requests,       \* what a v3 bundle may be asked for: [relaxations, tier, leaks],
                  \* the families declared relaxed, the evidence tier, and the
                  \* places where a secret of the run occurs
  HostKey, VerifierKey

ASSUME CertificationAssumption ==
  /\ IsFiniteSet(Files) /\ MajorFiles \in [1 .. 2 -> SUBSET Files]
  /\ TargetFlag \in 0 .. 2 /\ MaxWorkers \in Nat \ {0}
  /\ \A host \in Hosts : host.preferred \in 0 .. 2 /\ host.versions \subseteq 1 .. 2
  /\ MayFailToLoad \cup MayDie \subseteq Files
  /\ \A r \in Requests : r.leaks \subseteq Places
  /\ NoKey \notin {HostKey, VerifierKey}

(* Every file a floor names is a file of the suite (a coherence test of    *)
(* the repository, "every transcribed floor names scenario files that      *)
(* exist").                                                                *)
ASSUME FloorsExist ==
  \A p \in CatalogProfiles : floorMemberFiles(PROFILE_FLOOR_SCENARIOS[p]) \subseteq Files

(* The grammar of the ids (requirement-ids.ts): openwop.floor.<stem> and   *)
(* openwop.scenario.<stem> name one file each, openwop.it.<stem>.<title> a *)
(* test, and no other id has one of these forms or a group's.              *)
ASSUME IdsApart ==
  /\ \A f, g \in Files : FileIds[f] = FileIds[g] => f = g
  /\ \A f, g \in Files : FileIds[f] \notin {DefaultIds[g][n] : n \in 1 .. Legs[g]}
  /\ \A id \in Ids : ReqOf[id][1] \notin {"floor", "scenario", "any", "anyof"}

VARIABLES
  stage,     \* discovering, running, derived, exited
  target,    \* the major the run targets
  document,  \* the captured discovery document
  gone,      \* gone[f]: "no", "unloaded" (no test collected) or "died"
  report,    \* what vitest's report says of each file in it
  derived,   \* the ledger as read, the rows and the verdicts derived from it
  outcome    \* the exit status, the file written, the profiles it certifies
             \* to a reader with the keys, the exit status of his --verify, and
             \* whether the captured document held a secret of the run

runVars == <<stage, target, document, gone, report, derived, outcome>>
certVars == <<allVars, runVars>>

None == [exit |-> 0, written |-> "none", certified |-> {}, audit |-> 0, leaked |-> FALSE]
Exits(n) == [None EXCEPT !.exit = n]

-----------------------------------------------------------------------------
(* Variant: what the host prefers is not looked at before it is used. *)
PreferredAsGiven(host, answered) ==
  IF TargetFlag # 0 THEN TargetFlag ELSE IF ~answered THEN 1 ELSE host.preferred

(* The target major: the flag, else what the host prefers, else the        *)
(* highest it serves, else 1; a host that does not answer leaves it at 1.  *)
resolveTargetMajor(host, answered) ==
  IF TargetFlag # 0 THEN TargetFlag
  ELSE IF ~answered THEN 1
  ELSE IF host.preferred # 0 THEN host.preferred
  ELSE IF host.versions # {} THEN Max(host.versions) ELSE 1

(* One resource, two renderings: the version header selects.               *)
Capture(host, answered) ==
  /\ stage = "discovering"
  /\ stage' = "running"
  /\ target' = resolveTargetMajor(host, answered)
  /\ document' = IF target' = 2 THEN host.v2 ELSE host.v1
  /\ UNCHANGED <<allVars, gone, report, derived, outcome>>

(* The fetch fails, or answers with an error or something unreadable.      *)
DiscoveryFails ==
  /\ stage = "discovering"
  /\ stage' = "exited" /\ outcome' = Exits(2)
  /\ UNCHANGED <<allVars, target, document, gone, report, derived>>

-----------------------------------------------------------------------------
(* The run. A file has a worker from its first line to its last hook.      *)
Started(f) == phase[f] # "loading" \/ journal[f] # << >>
InProgress == {f \in Files : Started(f) /\ ~Closed(f) /\ gone[f] = "no"}

Alive(f) ==
  /\ stage = "running" /\ f \in MajorFiles[target] /\ gone[f] = "no"
  /\ f \in InProgress \/ Cardinality(InProgress) < MaxWorkers

Step(f) == Alive(f) /\ (Body(f) \/ End(f) \/ Hooks(f)) /\ UNCHANGED runVars

(* Importing the file throws: no test is collected and no hook runs.       *)
FailToLoad(f) ==
  /\ Alive(f) /\ f \in MayFailToLoad /\ phase[f] = "loading"
  /\ gone' = [gone EXCEPT ![f] = "unloaded"]
  /\ UNCHANGED <<allVars, stage, target, document, report, derived, outcome>>

WorkerDies(f) ==
  /\ Alive(f) /\ f \in MayDie /\ phase[f] \notin {"loading", "closed"}
  /\ gone' = [gone EXCEPT ![f] = "died"]
  /\ UNCHANGED <<allVars, stage, target, document, report, derived, outcome>>

Settled(f) == Closed(f) \/ gone[f] # "no"

(* scenarioStatesFromReport looks at the tests of a file and nothing else. *)
StateInReport(f) ==
  IF \E n \in DOMAIN tasks[f] : tasks[f][n].state = "fail" THEN "failed"
  ELSE IF \E n \in DOMAIN tasks[f] : tasks[f][n].state = "pass" THEN "passed" ELSE "skipped"

(* No report, or an unreadable one. *)
ReportMissing ==
  /\ stage = "running" /\ \A f \in MajorFiles[target] : Settled(f)
  /\ stage' = "exited" /\ outcome' = Exits(2)
  /\ UNCHANGED <<allVars, target, document, gone, report, derived>>

-----------------------------------------------------------------------------
(* Variant: the recording worker is not told the target major. *)
MintedWithoutMajor(id) ==
  IF \E f \in Files : FileIds[f] = id
  THEN requirementIdForFile(CHOOSE f \in Files : FileIds[f] = id, 1) ELSE ReqOf[id]

(* The requirement id under which a worker recorded a ledger id.           *)
MintedId(id) ==
  IF \E f \in Files : FileIds[f] = id
  THEN requirementIdForFile(CHOOSE f \in Files : FileIds[f] = id, target) ELSE ReqOf[id]

(* The ledger as the certifier has it. *)
Rec ==
  LET read == ReadLedgerFile(sink)
  IN  [id \in {MintedId(i) : i \in DOMAIN read} |->
         read[CHOOSE i \in DOMAIN read : MintedId(i) = id]]

Claimed == claimedProfiles(document, target)

(* vitest writes its report. Of a file whose worker died it may say        *)
(* nothing, or what it had heard by then. Its exit status is not read. The *)
(* certifier reads the report and the ledger and derives rows and verdicts. *)
VitestExits(mentioned) ==
  /\ stage = "running" /\ \A f \in MajorFiles[target] : Settled(f)
  /\ stage' = "derived"
  /\ LET died == {f \in Files : gone[f] = "died"} \ mentioned
        heard == [f \in MajorFiles[target] \ died |-> StateInReport(f)]
         rec  == Rec
         rows == DerivedRows(heard, rec, Claimed, target)
     IN  /\ report' = heard
         /\ derived' = [rec |-> rec, rows |-> rows,
                        verdicts |-> Verdicts(Claimed, rows, rec, document, target)]
  /\ UNCHANGED <<allVars, target, document, gone, outcome>>

Rows == derived.rows
Rejected == {p \in Claimed : derived.verdicts[p].unclassified # {}}
NotHeld == {p \in Claimed : derived.verdicts[p].notHeld}

Passed == {f \in DOMAIN report : report[f] = "passed"}
Failed == {f \in DOMAIN report : report[f] = "failed"}

ExitStatus == IF Rejected # {} THEN 3 ELSE IF Failed # {} THEN 1 ELSE 0

Exit(o) ==
  /\ stage = "derived"
  /\ stage' = "exited" /\ outcome' = o
  /\ UNCHANGED <<allVars, target, document, gone, report, derived>>

(* v1: lists of files. What a reader certifies from it is recomputed.      *)
EmitV1 ==
  Exit([exit |-> ExitStatus, written |-> "v1",
        certified |-> {p \in Claimed : verifyBundleProfile(document, Passed, p)},
        audit |-> 0, leaked |-> FALSE])

BundleV2(leaks) ==
  scrubEvidence([rows |-> Rows, totals |-> TotalsOf(Rows), document |-> document,
                 claims |-> Claimed \ (DEPRECATED_PROFILE_ALIASES \cup NotHeld),
                 leaks |-> leaks])

EmitV2(leaks) ==
  /\ stage = "derived"
  /\ LET b == BundleV2(leaks)
     IN  IF verifyBundleV2(b) # {} THEN Exit(Exits(2))
         ELSE Exit([exit |-> ExitStatus, written |-> "v2",
                    certified |-> {p \in b.claims : certifiedV2(b, p)},
                    audit |-> 0, leaked |-> FALSE])

(* Variants: the flag without a look at the rows left blocked, and the     *)
(* flag without the verdict, as it once was.                               *)
CertifiedDespiteBlocked(p, relaxed) ==
  p \notin relaxed /\ derived.verdicts[p].certifiable /\ p \notin NotHeld \cup Rejected
CertifiedWithoutVerdict(p, relaxed) ==
  /\ p \notin relaxed /\ p \notin NotHeld \cup Rejected
  /\ TotalsOf(Rows)["blocked"] = 0

(* The certified flag of a v3 claim. *)
CertifiedFlag(p, relaxed) ==
  /\ p \notin relaxed /\ derived.verdicts[p].certifiable /\ p \notin NotHeld \cup Rejected
  /\ TotalsOf(Rows)["blocked"] = 0

BundleV3(request) ==
  LET relaxations == request.relaxations
      tier        == request.tier
      leaks       == request.leaks
      relaxed == profilesRelaxedBy(relaxations, Claimed)
                 \cup profilesDeniedByObservedRelaxation(Rows, Claimed)
      draft == [rows |-> Rows, totals |-> TotalsOf(Rows), document |-> document,
                docDigest |-> documentDigest(document, leaks),
                claims |-> [p \in Claimed \ DEPRECATED_PROFILE_ALIASES |->
                              [tier |-> tier, certified |-> CertifiedFlag(p, relaxed)]],
                assertions |-> SumOfRows(Rows), relaxations |-> relaxations,
                deployment |-> "served", build |-> "build", suite |-> "version",
                major |-> target, leaks |-> leaks,
                witness |-> NoDetail, signature |-> Unsigned,
                verifierSignature |-> Unsigned]
      sealed == sealBundleV3(draft, HostKey)
  IN  IF tier = "independent"
      THEN [sealed EXCEPT !.verifierSignature = signedBy(VerifierKey, sealed)]
      ELSE sealed

(* What the emitter's own verification forgives.                           *)
Forgiven == {"blocked-certified", "independent-unverifiable"}
Defects(b) == {r \in verifyBundleV3(b, HostKey, NoKey) : r.kind \notin Forgiven}

(* A v3 bundle is written if the emitter's own verification accepts it;    *)
(* if not it is kept beside, under a name that is no certificate.          *)
EmitV3(request) ==
  /\ stage = "derived"
  /\ LET b      == BundleV3(request)
         leaked == "document" \in request.leaks
         faults == verifyBundleV3(b, HostKey, VerifierKey)
     IN  IF Defects(b) # {}
         THEN Exit([Exits(2) EXCEPT !.written = "rejected", !.leaked = leaked])
         ELSE Exit([exit |-> ExitStatus, written |-> "v3", leaked |-> leaked,
                    certified |-> certifiedProfilesV3(b, faults),
                    audit |-> verifyExit(b, faults, HostKey)])

(* No build or no signing key, or a bundle the schema refuses.             *)
NothingToSign == Exit(Exits(2))

-----------------------------------------------------------------------------
CertifyInit ==
  /\ RecorderInit
  /\ stage = "discovering" /\ target = 1 /\ document = {}
  /\ gone = [f \in Files |-> "no"]
  /\ report = << >> /\ derived = {} /\ outcome = None

Discover == \E host \in Hosts, answered \in BOOLEAN : Capture(host, answered)
Report == ReportMissing \/ \E mentioned \in SUBSET MayDie : VitestExits(mentioned)
Emit ==
  \/ EmitV1
  \/ \E request \in Requests : EmitV2(request.leaks) \/ EmitV3(request)
  \/ NothingToSign

CertifyNext ==
  \/ Discover \/ DiscoveryFails
  \/ \E f \in Files : Step(f) \/ FailToLoad(f) \/ WorkerDies(f)
  \/ Report \/ Emit

CertifySpec == CertifyInit /\ [][CertifyNext]_certVars

-----------------------------------------------------------------------------
CertifyTypeOK ==
  /\ stage \in {"discovering", "running", "derived", "exited"}
  /\ target \in 1 .. 2
  /\ gone \in [Files -> {"no", "unloaded", "died"}]
  /\ DOMAIN report \subseteq Files /\ \A f \in DOMAIN report : report[f] \in ReportStates
  /\ outcome.exit \in 0 .. 3
  /\ outcome.written \in {"none", "rejected", "v1", "v2", "v3"}
  /\ outcome.leaked \in BOOLEAN /\ outcome.audit \in 0 .. 2

(* A failure that is more than a lost connection before any assertion that *)
(* the recorder counted.                                                   *)
FailedWithCause(f) ==
  \E n \in LegsOf(f) : /\ tasks[f][n].state = "fail"
                       /\ \/ did[f][n].row # "none" /\ did[f][n].asserted > 0
                          \/ ~tasks[f][n].loss

(* What a file stands for: what it said of itself; else that it was lost   *)
(* or had a failing test; else what its tests asserted or gave as a reason,   *)
(* a test that skipped itself being a reason. A file about the corpus has  *)
(* its reason from the start.                                              *)
StandingOf(f) ==
  LET legs    == LegsOf(f)
      reasons == UNION {did[f][n].noted \cup did[f][n].gated : n \in legs}
  IN  CASE ~Settled(f) -> "open"
        [] Settled(f) /\ SelfClassified(f) ->
             (CASE FileRow(f).disposition = "inapplicable" -> "inapplicable"
                [] FileRow(f).disposition = "skipped" -> "withheld"
                [] OTHER -> "denied")
        [] OTHER ->
             IF gone[f] # "no" THEN "denied"
             ELSE IF \E n \in legs : tasks[f][n].state = "fail"
             THEN IF FailedWithCause(f) THEN "failed" ELSE "denied"
             ELSE IF \E n \in legs : did[f][n].row # "none" /\ did[f][n].asserted > 0
             THEN "witnessed"
             ELSE IF "inapplicable" \in reasons \/ f \in CoherenceFiles THEN "inapplicable"
             ELSE IF "skipped" \in reasons \/ \E n \in legs : tasks[f][n].state = "skip"
             THEN "withheld" ELSE "denied"

(* What the claim of a profile rests on: of a discoveryOnly one, on the    *)
(* document alone. A runtime-derived profile has to witness every file. A  *)
(* v2 reader looks at every row of the files of a prefix group, those of   *)
(* single tests too, where the emitter looks at the files' own: a group    *)
(* can be met there by a file that did not pass, so prefix groups are no   *)
(* part of what a v2 bundle promises.                                      *)
ClaimOf(p, doc, major, written) ==
  IF major = 2 THEN [files |-> Registry[p].floor, groups |-> {}, clean |-> {}, strict |-> TRUE]
  ELSE LET floor == PROFILE_FLOOR_SCENARIOS[p]
           files == floorFilesFor(p, doc)
       IN  IF floor.discoveryOnly
           THEN [files |-> {}, groups |-> {}, clean |-> {}, strict |-> FALSE]
           ELSE [files |-> files, strict |-> FALSE, clean |-> UNION {g.files : g \in floor.anyOf},
                 groups |-> {g.files : g \in floor.anyOf}
                            \cup (IF floor.runtimeDerived THEN {{f} : f \in files} ELSE {})
                            \cup (IF written = "v3" THEN {g.files : g \in floor.prefixes} ELSE {})]

AllClaims ==
  {ClaimOf(p, host.v1, 1, w) : p \in CatalogProfiles, host \in Hosts, w \in {"v2", "v3"}}
  \cup {ClaimOf(p, {}, 2, "v3") : p \in DOMAIN Registry}

Honest ==
  INSTANCE HonestCertifier
    WITH Scenarios <- Files, Claims <- AllClaims,
         standing <- [f \in Files |-> StandingOf(f)],
         certificate <- IF outcome.written \in {"v2", "v3"}
                        THEN {ClaimOf(p, document, target, outcome.written) :
                                p \in outcome.certified}
                        ELSE {}

(* Whatever was lost on the way, ledger lines, workers, whole files or the *)
(* ledger itself: a v2 or v3 bundle certifies, to a reader who verifies    *)
(* it, only profiles whose floor the scenarios came to stand for.          *)
CertifierIsHonest == Honest!Spec

(* The comment on the self-check: a bundle the emitter refuses to write is *)
(* the mark of an emitter defect. It refuses only when a row was lost      *)
(* between a worker and the ledger, when a scenario passed itself without  *)
(* an assertion, or when the captured document held a secret, which is     *)
(* scrubbed after its digest was taken.                                    *)
OnlyLostRowsAreDefects ==
  outcome.written = "rejected" =>
    \/ \E f \in MajorFiles[target] :
         \/ ~faithful[f] \/ gone[f] # "no"
         \/ SelfClassified(f) /\ FileRow(f).disposition = "executed-pass"
    \/ outcome.leaked

(* rc.55: the worker's and the runner's idea of which files are floors     *)
(* agree at both majors, so a file that recorded its row is never judged   *)
(* by the report instead.                                                  *)
RecordedRowsAreUsed ==
  stage = "derived" =>
    \A f \in DOMAIN report :
      (Closed(f) /\ faithful[f]) => requirementIdForFile(f, target) \in DOMAIN derived.rec

(* The emitter, with its verdicts, and the reader, who has the bundle      *)
(* alone, agree: nothing certifies that the emitter found unclassified or  *)
(* not certifiable. (v2 prefix groups apart, as in ClaimOf.)               *)
VerifierAgreesWithEmitter ==
  (stage = "exited" /\ outcome.written \in {"v2", "v3"}) =>
    \A p \in outcome.certified :
      \/ /\ derived.verdicts[p].certifiable /\ p \notin Rejected
      \/ /\ outcome.written = "v2" /\ PROFILE_FLOOR_SCENARIOS[p].prefixes # {}

(* What the emitter's own check forgives never comes to a reader: a bundle *)
(* published as a certificate is verified by --verify with the keys it was *)
(* signed with, in full but for what a layout without the registry cannot  *)
(* tell of a v2 host.                                                      *)
PublishedBundleVerifies ==
  outcome.written = "v3" => outcome.audit = IF target = 2 /\ ~RegistryFound THEN 2 ELSE 0

(* A guard that failed on the wire (proposal 0171), in a test of any file, *)
(* denies every profile that owns its family, as the registry has it,      *)
(* though each file of that profile's own floor passed.                    *)
ObservedRelaxationDenies ==
  RegistryFound => \A w \in UNDECLARED_RELAXATION_WITNESSES :
    /\ stage = "exited" /\ outcome.written = "v3"
    /\ w.id \in DOMAIN Rows /\ Rows[w.id].disposition = "executed-fail"
    => \A p \in outcome.certified \cap DOMAIN Registry : w.family \notin Registry[p].families
=============================================================================
