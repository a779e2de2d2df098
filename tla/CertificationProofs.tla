-------------------------- MODULE CertificationProofs --------------------------
(***************************************************************************)
(* Theorems about a certification run, for any hosts, files, floors,       *)
(* registry and requests: what the bundle says is what the files came to   *)
(* stand for.                                                              *)
(***************************************************************************)
EXTENDS Certification, ScenarioRecorderProofs

-----------------------------------------------------------------------------
(* The recorder inside the run.                                            *)

FileStep(f) == Body(f) \/ End(f) \/ Hooks(f)

(* Whatever else the run does leaves the workers and the ledger alone.     *)
LEMMA RunSteps ==
  ASSUME [CertifyNext]_certVars
  PROVE  \/ UNCHANGED allVars
         \/ \E f \in Files : FileStep(f) /\ Alive(f) /\ UNCHANGED runVars
<1>1. CASE UNCHANGED certVars
  BY <1>1 DEF certVars
<1>2. CASE CertifyNext
  BY <1>2 DEF CertifyNext, Discover, Capture, DiscoveryFails, Step, FailToLoad, WorkerDies,
              Report, ReportMissing, VitestExits, Emit, EmitV1, EmitV2, EmitV3, NothingToSign,
              Exit, FileStep
<1>3. QED
  BY <1>1, <1>2

LEMMA RunRecords ==
  ASSUME [CertifyNext]_certVars PROVE [RecorderNext]_allVars
BY RunSteps DEF RecorderNext, FileStep

LEMMA RecordsHold ==
  /\ CertifyInit => RecorderInv /\ TraceInv
  /\ RecorderInv /\ TraceInv /\ [CertifyNext]_certVars => RecorderInv' /\ TraceInv'
<1>1. CertifyInit => RecorderInv /\ TraceInv
  BY RecorderInvInit, TraceInvInit DEF CertifyInit
<1>2. ASSUME RecorderInv, TraceInv, [CertifyNext]_certVars PROVE RecorderInv' /\ TraceInv'
  BY <1>2, RunRecords, RecorderInvStep, TraceInvStep
<1>3. QED
  BY <1>1, <1>2

-----------------------------------------------------------------------------
(* The run's own state.                                                    *)

(* A host states its versions, so that there is a target.                  *)
LEMMA TargetType ==
  ASSUME NEW host \in Hosts, NEW answered \in BOOLEAN
  PROVE  resolveTargetMajor(host, answered) \in 1 .. 2
<1>1. /\ TargetFlag \in 0 .. 2
      /\ host.preferred \in 0 .. 2 /\ host.versions \subseteq 1 .. 2
  BY CertificationAssumption
<1>2. ASSUME host.versions # {} PROVE Max(host.versions) \in 1 .. 2
  <2> DEFINE V == host.versions
  <2>1. \E x \in V : \A y \in V : x >= y
    <3>1. CASE 2 \in V
      BY <1>1, <3>1
    <3>2. CASE 2 \notin V
      BY <1>1, <1>2, <3>2
    <3>3. QED
      BY <3>1, <3>2
  <2>2. Max(V) \in V
    BY <2>1 DEF Max
  <2>3. QED
    BY <1>1, <2>2
<1>3. QED
  BY <1>1, <1>2 DEF resolveTargetMajor

(* Once the rows are derived nothing of the run moves but its outcome.     *)
runFacts == <<allVars, target, document, gone, report, derived>>
Over == stage \in {"derived", "exited"}

LEMMA OverIsOver ==
  ASSUME Over, [CertifyNext]_certVars
  PROVE  UNCHANGED runFacts /\ Over'
<1>1. CASE UNCHANGED certVars
  BY <1>1 DEF certVars, runVars, runFacts, Over
<1>2. CASE CertifyNext
  <2>1. ASSUME NEW o, Exit(o) PROVE UNCHANGED runFacts /\ Over'
    BY <2>1 DEF Exit, runFacts, Over
  <2>2. CASE Discover \/ DiscoveryFails
    BY <2>2 DEF Discover, Capture, DiscoveryFails, Over
  <2>3. CASE \E f \in Files : Step(f) \/ FailToLoad(f) \/ WorkerDies(f)
    BY <2>3 DEF Step, FailToLoad, WorkerDies, Alive, Over
  <2>4. CASE Report
    BY <2>4 DEF Report, ReportMissing, VitestExits, Over
  <2>5. CASE Emit
    BY <2>1, <2>5 DEF Emit, EmitV1, EmitV2, EmitV3, NothingToSign
  <2>6. QED
    BY <1>2, <2>2, <2>3, <2>4, <2>5 DEF CertifyNext
<1>3. QED
  BY <1>1, <1>2

-----------------------------------------------------------------------------
(* What the run wrote down.                                                *)

Released == stage = "derived" \/ outcome.written # "none"

DerivedFrom(heard) ==
  LET rec == Rec rows == DerivedRows(heard, rec, Claimed, target)
  IN  [rec |-> rec, rows |-> rows,
       verdicts |-> Verdicts(Claimed, rows, rec, document, target)]

(* The report and what was derived of it and of the ledger.                *)
DerivedHeld ==
  Released =>
    /\ \A f \in MajorFiles[target] : Settled(f)
    /\ \E died \in SUBSET {f \in Files : gone[f] = "died"} :
         report = [f \in MajorFiles[target] \ died |-> StateInReport(f)]
    /\ derived = DerivedFrom(report)

(* The bundle that was written, or refused.                                *)
WrittenV2(request) ==
  LET b == BundleV2(request.leaks)
  IN  /\ verifyBundleV2(b) = {}
      /\ outcome = [exit |-> ExitStatus, written |-> "v2",
                    certified |-> {p \in b.claims : certifiedV2(b, p)},
                    audit |-> 0, leaked |-> FALSE]
WrittenV3(request) ==
  LET b      == BundleV3(request)
      faults == verifyBundleV3(b, HostKey, VerifierKey)
  IN  /\ Defects(b) = {}
      /\ outcome = [exit |-> ExitStatus, written |-> "v3",
                    leaked |-> "document" \in request.leaks,
                    certified |-> certifiedProfilesV3(b, faults),
                    audit |-> verifyExit(b, faults, HostKey)]
RefusedV3(request) ==
  /\ Defects(BundleV3(request)) # {}
  /\ outcome = [Exits(2) EXCEPT !.written = "rejected", !.leaked = "document" \in request.leaks]
WrittenV1 ==
  outcome = [exit |-> ExitStatus, written |-> "v1",
             certified |-> {p \in Claimed : verifyBundleProfile(document, Passed, p)},
             audit |-> 0, leaked |-> FALSE]

OutcomeHeld ==
  /\ stage # "exited" => outcome = None
  /\ stage = "exited" =>
       \/ outcome = Exits(2)
       \/ WrittenV1
       \/ \E request \in Requests :
            WrittenV2(request) \/ WrittenV3(request) \/ RefusedV3(request)

(* What is read at the end depends on what the run left behind alone.      *)
LEMMA ReadingStands ==
  ASSUME UNCHANGED <<allVars, target, document, gone>>
  PROVE  /\ Claimed' = Claimed /\ Rec' = Rec
         /\ \A f : Settled(f)' = Settled(f) /\ StateInReport(f)' = StateInReport(f)
         /\ \A heard : DerivedFrom(heard)' = DerivedFrom(heard)
<1>1. /\ document' = document /\ target' = target /\ gone' = gone
      /\ sink' = sink /\ phase' = phase /\ tasks' = tasks
  BY DEF allVars, vars, ledgerVars, recorderVars, resultVars
<1>2. Claimed' = Claimed
  BY <1>1 DEF Claimed
<1>3. Rec' = Rec
  <2>1. sink' = sink /\ target' = target
    BY <1>1
  <2>2. QED
    BY <2>1 DEF Rec, MintedId
<1>4. \A f : Settled(f)' = Settled(f) /\ StateInReport(f)' = StateInReport(f)
  BY <1>1, Zenon DEF Settled, Closed, StateInReport
<1>5. \A heard : DerivedFrom(heard)' = DerivedFrom(heard)
  BY <1>1, <1>2, <1>3, Zenon DEF DerivedFrom
<1>6. QED
  BY <1>2, <1>3, <1>4, <1>5

LEMMA DerivedStands ==
  ASSUME UNCHANGED runFacts
  PROVE  /\ derived' = derived /\ report' = report /\ document' = document
         /\ target' = target /\ gone' = gone
         /\ Claimed' = Claimed /\ Rows' = Rows /\ Passed' = Passed
         /\ Rejected' = Rejected /\ NotHeld' = NotHeld /\ ExitStatus' = ExitStatus
<1>1. /\ derived' = derived /\ report' = report /\ document' = document
      /\ target' = target /\ gone' = gone
  BY DEF runFacts
<1>2. Claimed' = Claimed /\ Rows' = Rows
  BY <1>1 DEF Claimed, Rows
<1>3. Rejected' = Rejected /\ NotHeld' = NotHeld
  BY <1>1, <1>2 DEF Rejected, NotHeld
<1>4. Passed' = Passed /\ Failed' = Failed
  BY <1>1 DEF Passed, Failed
<1>5. ExitStatus' = ExitStatus
  BY <1>3, <1>4 DEF ExitStatus
<1>6. QED
  BY <1>1, <1>2, <1>3, <1>4, <1>5

LEMMA BundlesStand ==
  ASSUME UNCHANGED runFacts
  PROVE  /\ \A leaks : BundleV2(leaks)' = BundleV2(leaks)
         /\ \A request : BundleV3(request)' = BundleV3(request)
<1>1. /\ derived' = derived /\ document' = document /\ target' = target
      /\ Claimed' = Claimed /\ Rows' = Rows /\ Rejected' = Rejected /\ NotHeld' = NotHeld
  BY DerivedStands
<1>2. \A leaks : BundleV2(leaks)' = BundleV2(leaks)
  BY <1>1 DEF BundleV2
<1>3. \A p, relaxed : CertifiedFlag(p, relaxed)' = CertifiedFlag(p, relaxed)
  BY <1>1 DEF CertifiedFlag
<1>4. \A request : BundleV3(request)' = BundleV3(request)
  BY <1>1, <1>3 DEF BundleV3
<1>5. QED
  BY <1>2, <1>4

(* What was written stays written. *)
LEMMA OutcomeStands ==
  ASSUME UNCHANGED runFacts, outcome' = outcome
  PROVE  /\ WrittenV1 => WrittenV1'
         /\ \A request : /\ WrittenV2(request) => WrittenV2(request)'
                         /\ WrittenV3(request) => WrittenV3(request)'
                         /\ RefusedV3(request) => RefusedV3(request)'
<1>1. /\ document' = document /\ Claimed' = Claimed /\ Passed' = Passed
      /\ ExitStatus' = ExitStatus
  BY DerivedStands
<1>2. WrittenV1 => WrittenV1'
  BY <1>1 DEF WrittenV1
<1>3. ASSUME NEW request, WrittenV2(request) PROVE WrittenV2(request)'
  <2>1. BundleV2(request.leaks)' = BundleV2(request.leaks)
    BY BundlesStand
  <2>2. QED
    BY <1>1, <1>3, <2>1 DEF WrittenV2
<1>4. ASSUME NEW request, WrittenV3(request) PROVE WrittenV3(request)'
  <2>1. BundleV3(request)' = BundleV3(request)
    BY BundlesStand
  <2>2. Defects(BundleV3(request))' = Defects(BundleV3(request))
    BY <2>1 DEF Defects
  <2>3. QED
    BY <1>1, <1>4, <2>1, <2>2 DEF WrittenV3
<1>5. ASSUME NEW request, RefusedV3(request) PROVE RefusedV3(request)'
  <2>1. BundleV3(request)' = BundleV3(request)
    BY BundlesStand
  <2>2. Defects(BundleV3(request))' = Defects(BundleV3(request))
    BY <2>1 DEF Defects
  <2>3. QED
    BY <1>5, <2>2, Zenon DEF RefusedV3
<1>6. QED
  BY <1>2, <1>3, <1>4, <1>5

LEMMA OutcomeStep ==
  ASSUME OutcomeHeld, stage \in {"discovering", "running", "derived", "exited"},
         [CertifyNext]_certVars
  PROVE  OutcomeHeld'
<1>1. CASE UNCHANGED certVars
  <2>1. UNCHANGED runFacts /\ outcome' = outcome /\ stage' = stage
    BY <1>1 DEF certVars, runVars, runFacts
  <2>2. CASE stage = "exited"
    BY <2>1, <2>2, OutcomeStands DEF OutcomeHeld
  <2>3. CASE stage # "exited"
    BY <2>1, <2>3 DEF OutcomeHeld
  <2>4. QED
    BY <2>2, <2>3
<1>2. CASE Discover \/ DiscoveryFails
  BY <1>2 DEF Discover, Capture, DiscoveryFails, OutcomeHeld
<1>3. CASE \E f \in Files : Step(f) \/ FailToLoad(f) \/ WorkerDies(f)
  BY <1>3 DEF Step, FailToLoad, WorkerDies, Alive, runVars, OutcomeHeld
<1>4. CASE Report
  BY <1>4 DEF Report, ReportMissing, VitestExits, OutcomeHeld
<1>5. CASE Emit
  <2>1. stage = "derived" /\ stage' = "exited" /\ UNCHANGED runFacts
    BY <1>5, Zenon DEF Emit, EmitV1, EmitV2, EmitV3, NothingToSign, Exit, runFacts
  <2>2. ExitStatus' = ExitStatus /\ Claimed' = Claimed /\ Passed' = Passed /\ document' = document
    BY <2>1, DerivedStands
  <2>3. CASE EmitV1
    <3>1. WrittenV1'
      BY <2>2, <2>3 DEF EmitV1, Exit, WrittenV1
    <3>2. QED
      BY <2>1, <3>1 DEF OutcomeHeld
  <2>4. ASSUME NEW request \in Requests, EmitV2(request.leaks) PROVE OutcomeHeld'
    <3> DEFINE b == BundleV2(request.leaks)
    <3>1. b' = b
      BY <2>1, BundlesStand
    <3>2. CASE verifyBundleV2(b) # {}
      <4>1. outcome' = Exits(2)
        BY <2>4, <3>2 DEF EmitV2, Exit
      <4>2. QED
        BY <2>1, <4>1 DEF OutcomeHeld
    <3>3. CASE verifyBundleV2(b) = {}
      <4>1. outcome' = [exit |-> ExitStatus, written |-> "v2",
                        certified |-> {p \in b.claims : certifiedV2(b, p)},
                        audit |-> 0, leaked |-> FALSE]
        BY <2>4, <3>3 DEF EmitV2, Exit
      <4>2. WrittenV2(request)'
        BY <2>2, <3>1, <3>3, <4>1 DEF WrittenV2
      <4>3. QED
        BY <2>1, <4>2 DEF OutcomeHeld
    <3>4. QED
      BY <3>2, <3>3
  <2>5. ASSUME NEW request \in Requests, EmitV3(request) PROVE OutcomeHeld'
    <3> DEFINE b == BundleV3(request)
    <3>1. b' = b
      BY <2>1, BundlesStand
    <3>2. CASE Defects(b) # {}
      <4>1. outcome' = [Exits(2) EXCEPT !.written = "rejected",
                                        !.leaked = "document" \in request.leaks]
        BY <2>5, <3>2 DEF EmitV3, Exit
      <4>2. RefusedV3(request)'
        BY <3>1, <3>2, <4>1 DEF RefusedV3, Defects
      <4>3. QED
        BY <2>1, <4>2 DEF OutcomeHeld
    <3>3. CASE Defects(b) = {}
      <4>1. outcome' = [exit |-> ExitStatus, written |-> "v3",
                        leaked |-> "document" \in request.leaks,
                        certified |-> certifiedProfilesV3(b, verifyBundleV3(b, HostKey, VerifierKey)),
                        audit |-> verifyExit(b, verifyBundleV3(b, HostKey, VerifierKey), HostKey)]
        BY <2>5, <3>3 DEF EmitV3, Exit
      <4>2. WrittenV3(request)'
        BY <2>2, <3>1, <3>3, <4>1 DEF WrittenV3, Defects
      <4>3. QED
        BY <2>1, <4>2 DEF OutcomeHeld
    <3>4. QED
      BY <3>2, <3>3
  <2>6. CASE NothingToSign
    BY <2>1, <2>6 DEF NothingToSign, Exit, OutcomeHeld
  <2>7. QED
    BY <1>5, <2>3, <2>4, <2>5, <2>6 DEF Emit
<1>6. QED
  BY <1>1, <1>2, <1>3, <1>4, <1>5 DEF CertifyNext

LEMMA DerivedStep ==
  ASSUME DerivedHeld, OutcomeHeld, stage \in {"discovering", "running", "derived", "exited"},
         [CertifyNext]_certVars
  PROVE  DerivedHeld'
<1>1. CASE Over
  <2>1. UNCHANGED runFacts
    BY <1>1, OverIsOver
  <2>2. /\ UNCHANGED <<allVars, target, document, gone>>
        /\ derived' = derived /\ report' = report /\ target' = target /\ gone' = gone
    BY <2>1 DEF runFacts
  <2>3. Released' => Released
    <3>1. CASE stage = "derived"
      BY <3>1 DEF Released
    <3>2. CASE stage = "exited"
      <4>1. UNCHANGED certVars
        BY <3>2 DEF CertifyNext, Discover, Capture, DiscoveryFails, Step, FailToLoad, WorkerDies,
                    Alive, Report, ReportMissing, VitestExits, Emit, EmitV1, EmitV2, EmitV3,
                    NothingToSign, Exit
      <4>2. QED
        BY <4>1 DEF certVars, runVars, Released
    <3>3. QED
      BY <1>1, <3>1, <3>2 DEF Over
  <2>4. SUFFICES ASSUME Released PROVE DerivedHeld'
    BY <2>3 DEF DerivedHeld
  <2>5. /\ \A f \in MajorFiles[target] : Settled(f)
        /\ \E died \in SUBSET {f \in Files : gone[f] = "died"} :
             report = [f \in MajorFiles[target] \ died |-> StateInReport(f)]
        /\ derived = DerivedFrom(report)
    BY <2>4 DEF DerivedHeld
  <2>6. \A f \in MajorFiles[target]' : Settled(f)'
    BY <2>2, <2>5, ReadingStands
  <2>7. derived' = DerivedFrom(report)'
    BY <2>2, <2>5, ReadingStands
  <2>8. PICK died \in SUBSET {f \in Files : gone[f] = "died"} :
          report = [f \in MajorFiles[target] \ died |-> StateInReport(f)]
    BY <2>5
  <2>9. report' = [f \in MajorFiles[target]' \ died |-> StateInReport(f)']
    BY <2>2, <2>8, ReadingStands
  <2>10. died \in SUBSET {f \in Files : gone'[f] = "died"}
    BY <2>2
  <2>11. QED
    BY <2>6, <2>7, <2>9, <2>10 DEF DerivedHeld
<1>2. CASE ~Over
  <2>1. outcome.written = "none" /\ stage \in {"discovering", "running"}
    BY <1>2 DEF Over, OutcomeHeld, None
  <2>2. SUFFICES ASSUME Released' PROVE DerivedHeld'
    BY DEF DerivedHeld
  <2>3. \E mentioned \in SUBSET MayDie : VitestExits(mentioned)
    <3>1. CASE UNCHANGED certVars
      BY <2>1, <2>2, <3>1 DEF certVars, runVars, Released
    <3>2. CASE Discover \/ DiscoveryFails
      BY <2>1, <2>2, <3>2 DEF Discover, Capture, DiscoveryFails, Released, Exits, None
    <3>3. CASE \E f \in Files : Step(f) \/ FailToLoad(f) \/ WorkerDies(f)
      BY <2>1, <2>2, <3>3 DEF Step, FailToLoad, WorkerDies, runVars, Released
    <3>4. CASE ReportMissing
      BY <2>1, <2>2, <3>4 DEF ReportMissing, Released, Exits, None
    <3>5. CASE Emit
      BY <2>1, <3>5, Zenon DEF Emit, EmitV1, EmitV2, EmitV3, NothingToSign, Exit
    <3>6. QED
      BY <3>1, <3>2, <3>3, <3>4, <3>5 DEF CertifyNext, Report
  <2>4. PICK mentioned \in SUBSET MayDie : VitestExits(mentioned)
    BY <2>3
  <2> DEFINE died == {f \in Files : gone[f] = "died"} \ mentioned
             heard == [f \in MajorFiles[target] \ died |-> StateInReport(f)]
  <2>5. /\ \A f \in MajorFiles[target] : Settled(f)
        /\ report' = heard
        /\ UNCHANGED <<allVars, target, document, gone>>
    BY <2>4 DEF VitestExits
  <2>6. derived' = DerivedFrom(heard)
    BY <2>4, Zenon DEF VitestExits, DerivedFrom
  <2> HIDE DEF heard
  <2>7. target' = target /\ gone' = gone
    BY <2>5
  <2>8. derived' = DerivedFrom(report)'
    BY <2>5, <2>6, ReadingStands
  <2>9. \A f \in MajorFiles[target]' : Settled(f)'
    BY <2>5, <2>7, ReadingStands
  <2>10. report' = [f \in MajorFiles[target]' \ died |-> StateInReport(f)']
    BY <2>5, <2>7, ReadingStands DEF heard
  <2>11. died \in SUBSET {f \in Files : gone'[f] = "died"}
    BY <2>7
  <2>12. QED
    BY <2>8, <2>9, <2>10, <2>11 DEF DerivedHeld
<1>3. QED
  BY <1>1, <1>2

(* The type of the run's state. *)
StagesTyped ==
  /\ stage \in {"discovering", "running", "derived", "exited"}
  /\ target \in 1 .. 2
  /\ gone \in [Files -> {"no", "unloaded", "died"}]
  /\ DOMAIN report \subseteq Files /\ \A f \in DOMAIN report : report[f] \in ReportStates

LEMMA StagesStep ==
  ASSUME StagesTyped, [CertifyNext]_certVars
  PROVE  StagesTyped'
<1>1. CASE UNCHANGED certVars
  BY <1>1 DEF certVars, runVars, StagesTyped
<1>2. CASE Discover
  <2>1. PICK host \in Hosts, answered \in BOOLEAN : Capture(host, answered)
    BY <1>2 DEF Discover
  <2>2. target' \in 1 .. 2
    BY <2>1, TargetType DEF Capture
  <2>3. QED
    BY <2>1, <2>2 DEF Capture, StagesTyped
<1>3. CASE DiscoveryFails
  BY <1>3 DEF DiscoveryFails, StagesTyped
<1>4. ASSUME NEW f \in Files, Step(f) PROVE StagesTyped'
  BY <1>4 DEF Step, runVars, StagesTyped
<1>5. ASSUME NEW f \in Files, FailToLoad(f) \/ WorkerDies(f) PROVE StagesTyped'
  BY <1>5 DEF FailToLoad, WorkerDies, StagesTyped
<1>6. CASE ReportMissing
  BY <1>6 DEF ReportMissing, StagesTyped
<1>7. ASSUME NEW mentioned \in SUBSET MayDie, VitestExits(mentioned) PROVE StagesTyped'
  <2> DEFINE died == {f \in Files : gone[f] = "died"} \ mentioned
             heard == [f \in MajorFiles[target] \ died |-> StateInReport(f)]
  <2>1. /\ stage' = "derived" /\ report' = heard /\ target' = target /\ gone' = gone
    BY <1>7 DEF VitestExits
  <2>2. MajorFiles[target] \subseteq Files
    BY CertificationAssumption DEF StagesTyped
  <2>3. \A f : StateInReport(f) \in ReportStates
    BY DEF StateInReport, ReportStates
  <2>4. QED
    BY <2>1, <2>2, <2>3 DEF StagesTyped
<1>8. CASE Emit
  <2>1. stage' = "exited" /\ UNCHANGED <<target, gone, report>>
    BY <1>8, Zenon DEF Emit, EmitV1, EmitV2, EmitV3, NothingToSign, Exit
  <2>2. QED
    BY <2>1 DEF StagesTyped
<1>9. QED
  BY <1>1, <1>2, <1>3, <1>4, <1>5, <1>6, <1>7, <1>8 DEF CertifyNext, Report

LEMMA OutcomeType ==
  ASSUME OutcomeHeld
  PROVE  /\ outcome.exit \in 0 .. 3
         /\ outcome.written \in {"none", "rejected", "v1", "v2", "v3"}
         /\ outcome.leaked \in BOOLEAN /\ outcome.audit \in 0 .. 2
<1>1. ExitStatus \in 0 .. 3
  BY DEF ExitStatus
<1>2. ASSUME outcome = None \/ outcome = Exits(2)
      PROVE  /\ outcome.exit \in {0, 2} /\ outcome.written = "none"
             /\ outcome.leaked = FALSE /\ outcome.audit = 0
  BY <1>2 DEF None, Exits
<1>3. ASSUME WrittenV1
      PROVE  outcome.exit \in 0 .. 3 /\ outcome.written = "v1"
             /\ outcome.leaked = FALSE /\ outcome.audit = 0
  BY <1>1, <1>3 DEF WrittenV1
<1>4. ASSUME NEW request \in Requests, WrittenV2(request)
      PROVE  outcome.exit \in 0 .. 3 /\ outcome.written = "v2"
             /\ outcome.leaked = FALSE /\ outcome.audit = 0
  BY <1>1, <1>4 DEF WrittenV2
<1>5. ASSUME NEW request \in Requests, WrittenV3(request)
      PROVE  outcome.exit \in 0 .. 3 /\ outcome.written = "v3"
             /\ outcome.leaked \in BOOLEAN /\ outcome.audit \in 0 .. 2
  <2>1. \A b, faults : verifyExit(b, faults, HostKey) \in 0 .. 2
    BY DEF verifyExit
  <2>2. QED
    BY <1>1, <1>5, <2>1 DEF WrittenV3
<1>6. ASSUME NEW request \in Requests, RefusedV3(request)
      PROVE  outcome.exit = 2 /\ outcome.written = "rejected"
             /\ outcome.leaked \in BOOLEAN /\ outcome.audit = 0
  BY <1>6 DEF RefusedV3, Exits, None
<1>7. QED
  <2>1. \/ outcome = None \/ outcome = Exits(2) \/ WrittenV1
        \/ \E request \in Requests :
             WrittenV2(request) \/ WrittenV3(request) \/ RefusedV3(request)
    BY DEF OutcomeHeld
  <2>2. {0, 2} \subseteq 0 .. 3 /\ 0 \in 0 .. 2
    OBVIOUS
  <2>3. QED
    BY <1>2, <1>3, <1>4, <1>5, <1>6, <2>1, <2>2

RunInv == StagesTyped /\ DerivedHeld /\ OutcomeHeld

LEMMA RunHolds ==
  /\ CertifyInit => RunInv
  /\ RunInv /\ [CertifyNext]_certVars => RunInv'
<1>1. ASSUME CertifyInit PROVE RunInv
  BY <1>1 DEF CertifyInit, RunInv, StagesTyped, DerivedHeld, Released, OutcomeHeld, None
<1>2. ASSUME RunInv, [CertifyNext]_certVars PROVE RunInv'
  BY <1>2, StagesStep, DerivedStep, OutcomeStep DEF RunInv, StagesTyped
<1>3. QED
  BY <1>1, <1>2

LEMMA RunInvariant == CertifySpec => []RunInv
BY RunHolds, PTL DEF CertifySpec

(* Every state of the run is of its type. *)
THEOREM CertifyTypeCorrect == CertifySpec => []CertifyTypeOK
<1>1. RunInv => CertifyTypeOK
  BY OutcomeType DEF RunInv, StagesTyped, CertifyTypeOK
<1>2. QED
  BY <1>1, RunInvariant, PTL

-----------------------------------------------------------------------------
(* The v3 bundle.                                                          *)

RelaxedFor(request) ==
  profilesRelaxedBy(request.relaxations, Claimed)
    \cup profilesDeniedByObservedRelaxation(Rows, Claimed)

(* What is in it, and that its seals are the ones its keys make.           *)
LEMMA BundleV3Facts ==
  ASSUME NEW request, NEW b, b = BundleV3(request)
  PROVE  /\ b.rows = Rows /\ b.totals = TotalsOf(Rows) /\ b.document = document
         /\ b.docDigest = documentDigest(document, request.leaks) /\ b.major = target
         /\ b.claims = [p \in Claimed \ DEPRECATED_PROFILE_ALIASES |->
                          [tier |-> request.tier,
                           certified |-> CertifiedFlag(p, RelaxedFor(request))]]
         /\ b.assertions = SumOfRows(Rows) /\ b.relaxations = request.relaxations
         /\ b.leaks = {}
         /\ b.witness = witnessDigest(b) /\ b.signature = signedBy(HostKey, b)
         /\ request.tier = "independent" => b.verifierSignature = signedBy(VerifierKey, b)
<1> DEFINE claims == [p \in Claimed \ DEPRECATED_PROFILE_ALIASES |->
                        [tier |-> request.tier,
                         certified |-> CertifiedFlag(p, RelaxedFor(request))]]
           draft == [rows |-> Rows, totals |-> TotalsOf(Rows), document |-> document,
                     docDigest |-> documentDigest(document, request.leaks),
                     claims |-> claims,
                     assertions |-> SumOfRows(Rows), relaxations |-> request.relaxations,
                     deployment |-> "served", build |-> "build", suite |-> "version",
                     major |-> target, leaks |-> request.leaks,
                     witness |-> NoDetail, signature |-> Unsigned,
                     verifierSignature |-> Unsigned]
           sealed == sealBundleV3(draft, HostKey)
<1>1. b = IF request.tier = "independent"
          THEN [sealed EXCEPT !.verifierSignature = signedBy(VerifierKey, sealed)]
          ELSE sealed
  BY Zenon DEF BundleV3, RelaxedFor
<1> DEFINE clean == [draft EXCEPT !.leaks = {}]
           w == [clean EXCEPT !.witness = witnessDigest(clean)]
<1>2. sealed = [w EXCEPT !.signature = signedBy(HostKey, w)]
  BY Zenon DEF sealBundleV3, Attest, scrubEvidence
<1> HIDE DEF claims, sealed
<1>3. /\ w.rows = Rows /\ w.totals = TotalsOf(Rows) /\ w.document = document
      /\ w.docDigest = documentDigest(document, request.leaks) /\ w.major = target
      /\ w.claims = claims /\ w.assertions = SumOfRows(Rows)
      /\ w.relaxations = request.relaxations /\ w.leaks = {}
      /\ w.witness = witnessDigest(clean)
  OBVIOUS
<1>4. witnessDigest(clean) = witnessDigest(w)
  BY DEF witnessDigest
<1> DEFINE same == {"rows", "totals", "document", "docDigest", "claims", "assertions",
                    "relaxations", "deployment", "build", "suite", "major", "leaks", "witness"}
<1>5. /\ \A k \in same : sealed[k] = w[k]
      /\ sealed.signature = signedBy(HostKey, w)
      /\ b.signature = sealed.signature
      /\ \A k \in same : b[k] = sealed[k]
      /\ request.tier = "independent" => b.verifierSignature = signedBy(VerifierKey, sealed)
  BY <1>1, <1>2
<1>6. /\ b.rows = w.rows /\ b.totals = w.totals /\ b.document = w.document
      /\ b.docDigest = w.docDigest /\ b.claims = w.claims /\ b.assertions = w.assertions
      /\ b.relaxations = w.relaxations /\ b.deployment = w.deployment /\ b.build = w.build
      /\ b.suite = w.suite /\ b.major = w.major /\ b.leaks = w.leaks /\ b.witness = w.witness
      /\ sealed.docDigest = w.docDigest /\ sealed.build = w.build
      /\ sealed.suite = w.suite /\ sealed.witness = w.witness
  BY <1>5
<1> HIDE DEF w, clean, draft
<1>7. \A key : signedBy(key, b) = signedBy(key, w) /\ signedBy(key, sealed) = signedBy(key, w)
  BY <1>6 DEF signedBy, attestationPayload
<1>8. witnessDigest(b) = witnessDigest(w)
  BY <1>6 DEF witnessDigest
<1>9. QED
  BY <1>3, <1>4, <1>5, <1>6, <1>7, <1>8 DEF claims

LEMMA CertifiedInV3 ==
  ASSUME NEW request, NEW b, b = BundleV3(request), NEW p \in CertifiedIn(b)
  PROVE  p \in Claimed \ DEPRECATED_PROFILE_ALIASES /\ CertifiedFlag(p, RelaxedFor(request))
<1>1. b.claims = [q \in Claimed \ DEPRECATED_PROFILE_ALIASES |->
                    [tier |-> request.tier,
                     certified |-> CertifiedFlag(q, RelaxedFor(request))]]
  BY BundleV3Facts
<1>2. QED
  BY <1>1 DEF CertifiedIn

(* A bundle that was written is one that OutcomeHeld speaks of.            *)
LEMMA WrittenMarks ==
  /\ outcome = Exits(2) \/ outcome = None => outcome.written = "none"
  /\ WrittenV1 => outcome.written = "v1"
  /\ \A request : /\ WrittenV2(request) => outcome.written = "v2"
                  /\ WrittenV3(request) => outcome.written = "v3"
                  /\ RefusedV3(request) => outcome.written = "rejected"
<1>1. outcome = Exits(2) \/ outcome = None => outcome.written = "none"
  BY DEF Exits, None
<1>2. WrittenV1 => outcome.written = "v1"
  BY DEF WrittenV1
<1>3. ASSUME NEW request PROVE WrittenV2(request) => outcome.written = "v2"
  BY DEF WrittenV2
<1>4. ASSUME NEW request PROVE WrittenV3(request) => outcome.written = "v3"
  BY DEF WrittenV3
<1>5. ASSUME NEW request PROVE RefusedV3(request) => outcome.written = "rejected"
  BY DEF RefusedV3, Exits, None
<1>6. QED
  BY <1>1, <1>2, <1>3, <1>4, <1>5

LEMMA WrittenAs ==
  ASSUME OutcomeHeld
  PROVE  /\ outcome.written = "v3" => \E request \in Requests : WrittenV3(request)
         /\ outcome.written = "v2" => \E request \in Requests : WrittenV2(request)
         /\ outcome.written = "rejected" => \E request \in Requests : RefusedV3(request)
BY WrittenMarks DEF OutcomeHeld

(* A reader certifies no more than the bundle's own flags.                 *)
LEMMA CertifiedOfV3 ==
  ASSUME NEW request, WrittenV3(request), NEW p \in outcome.certified
  PROVE  p \in Claimed /\ CertifiedFlag(p, RelaxedFor(request))
<1> DEFINE b == BundleV3(request)
<1>1. outcome.certified = certifiedProfilesV3(b, verifyBundleV3(b, HostKey, VerifierKey))
  BY DEF WrittenV3
<1>2. p \in CertifiedIn(b)
  BY <1>1 DEF certifiedProfilesV3
<1>3. QED
  BY <1>2, CertifiedInV3

(* An observed relaxation denies the profiles that own the family.         *)
THEOREM RelaxationsDeny == CertifySpec => []ObservedRelaxationDenies
<1>1. ASSUME RunInv PROVE ObservedRelaxationDenies
  <2> SUFFICES ASSUME RegistryFound, NEW w \in UNDECLARED_RELAXATION_WITNESSES,
                      outcome.written = "v3", w.id \in DOMAIN Rows,
                      Rows[w.id].disposition = "executed-fail",
                      NEW p \in outcome.certified \cap DOMAIN Registry,
                      w.family \in Registry[p].families
               PROVE  FALSE
    BY DEF ObservedRelaxationDenies
  <2>1. PICK request \in Requests : WrittenV3(request)
    BY <1>1, WrittenAs DEF RunInv
  <2>2. p \in Claimed /\ CertifiedFlag(p, RelaxedFor(request))
    BY <2>1, CertifiedOfV3
  <2> DEFINE seen == {v \in UNDECLARED_RELAXATION_WITNESSES :
                        v.id \in DOMAIN Rows /\ Rows[v.id].disposition = "executed-fail"}
             families == {v.family : v \in seen}
  <2>3. w.family \in Registry[p].families \cap families
    OBVIOUS
  <2> HIDE DEF seen, families
  <2>4. p \in profilesRelaxedBy(families, Claimed)
    BY <2>2, <2>3 DEF profilesRelaxedBy
  <2>5. p \in profilesDeniedByObservedRelaxation(Rows, Claimed)
    BY <2>4, Zenon DEF profilesDeniedByObservedRelaxation, families, seen
  <2>6. QED
    BY <2>2, <2>5, Zenon DEF CertifiedFlag, RelaxedFor
<1>2. QED
  BY <1>1, RunInvariant, PTL

(* What the emitter forgives itself, no published bundle needs forgiven.   *)
LEMMA NothingForgiven ==
  ASSUME NEW request, WrittenV3(request)
  PROVE  verifyBundleV3(BundleV3(request), HostKey, VerifierKey) = {}
<1> DEFINE b == BundleV3(request)
           relaxed == profilesRelaxedBy(b.relaxations, DOMAIN b.claims)
           observed == profilesDeniedByObservedRelaxation(b.rows, DOMAIN b.claims)
           plain == RowRejections(b)
                    \cup When(b.witness # witnessDigest(b), "witness-digest")
                    \cup When(b.assertions # SumOfRows(b.rows), "assertion-count")
                    \cup When(b.signature.key = NoKey, "signature-missing")
                    \cup When(/\ b.signature.key # NoKey /\ HostKey # NoKey
                              /\ b.signature # signedBy(HostKey, b), "signature-invalid")
           named == About("undeclared-relaxation-observed", (CertifiedIn(b) \cap observed) \ relaxed)
                    \cup About("relaxed-profile-certified", CertifiedIn(b) \cap relaxed)
           left == When(TotalsOf(b.rows)["blocked"] > 0 /\ CertifiedIn(b) \ relaxed # {},
                        "blocked-certified")
<1>1. \A key : verifyBundleV3(b, HostKey, key) =
                plain \cup IndependentRejections(b, key) \cup named \cup left
                      \cup DerivabilityRejections(b)
  BY Zenon DEF verifyBundleV3
<1>2. {r \in verifyBundleV3(b, HostKey, NoKey) : r.kind \notin Forgiven} = {}
  BY DEF WrittenV3, Defects
<1>3. /\ b.rows = Rows /\ b.claims = [p \in Claimed \ DEPRECATED_PROFILE_ALIASES |->
                          [tier |-> request.tier,
                           certified |-> CertifiedFlag(p, RelaxedFor(request))]]
      /\ b.signature = signedBy(HostKey, b)
      /\ request.tier = "independent" => b.verifierSignature = signedBy(VerifierKey, b)
  BY BundleV3Facts
<1>4. \A p \in CertifiedIn(b) : CertifiedFlag(p, RelaxedFor(request))
  BY CertifiedInV3
<1> HIDE DEF b
<1>5. left = {}
  <2>1. CASE CertifiedIn(b) = {}
    BY <2>1 DEF When
  <2>2. CASE CertifiedIn(b) # {}
    <3>1. TotalsOf(b.rows)["blocked"] = 0
      BY <1>3, <1>4, <2>2 DEF CertifiedFlag
    <3>2. QED
      BY <3>1 DEF When
  <2>3. QED
    BY <2>1, <2>2
<1>6. \A r \in plain : r.kind \notin Forgiven
  BY DEF RowRejections, When, Rejection, Forgiven
<1>7. \A r \in named : r.kind \notin Forgiven
  BY DEF About, Forgiven
<1>8. \A r \in DerivabilityRejections(b) : r.kind \notin Forgiven
  BY DEF DerivabilityRejections, About, Rejection, Forgiven
<1> HIDE DEF plain, named, left
<1>9. plain = {} /\ named = {} /\ DerivabilityRejections(b) = {}
  BY <1>1, <1>2, <1>6, <1>7, <1>8
<1>10. IndependentRejections(b, VerifierKey) = {}
  <2>1. CASE ProfilesWith(b, "independent") = {}
    BY <2>1 DEF IndependentRejections
  <2>2. CASE ProfilesWith(b, "independent") # {}
    <3>1. request.tier = "independent"
      BY <1>3, <2>2 DEF ProfilesWith
    <3>2. b.verifierSignature = signedBy(VerifierKey, b) /\ VerifierKey # NoKey
      BY <1>3, <3>1, CertificationAssumption
    <3>3. b.verifierSignature.key # NoKey
      BY <3>2 DEF signedBy
    <3>4. b.verifierSignature.key # b.signature.key
      <4>1. SUFFICES ASSUME b.verifierSignature.key = b.signature.key PROVE FALSE
        OBVIOUS
      <4>2. IndependentRejections(b, NoKey) = {Rejection("independent-self-signed")}
        BY <2>2, <3>3, <4>1, Zenon DEF IndependentRejections
      <4>3. Rejection("independent-self-signed").kind \notin Forgiven
        BY DEF Rejection, Forgiven
      <4>4. QED
        BY <1>1, <1>2, <4>2, <4>3
    <3>5. QED
      BY <2>2, <3>2, <3>3, <3>4, Zenon DEF IndependentRejections, When
  <2>3. QED
    BY <2>1, <2>2
<1>11. verifyBundleV3(b, HostKey, VerifierKey) = {}
  BY <1>1, <1>5, <1>9, <1>10
<1>12. QED
  BY <1>11 DEF b

(* A bundle published as a certificate verifies, with the keys it was      *)
(* signed with.                                                            *)
THEOREM CertificatesVerify == CertifySpec => []PublishedBundleVerifies
<1>1. ASSUME RunInv PROVE PublishedBundleVerifies
  <2> SUFFICES ASSUME outcome.written = "v3"
               PROVE  outcome.audit = IF target = 2 /\ ~RegistryFound THEN 2 ELSE 0
    BY DEF PublishedBundleVerifies
  <2>1. PICK request \in Requests : WrittenV3(request)
    BY <1>1, WrittenAs DEF RunInv
  <2> DEFINE b == BundleV3(request)
  <2>2. verifyBundleV3(b, HostKey, VerifierKey) = {}
    BY <2>1, NothingForgiven
  <2>3. outcome.audit = verifyExit(b, {}, HostKey)
    BY <2>1, <2>2 DEF WrittenV3
  <2>4. HostKey # NoKey
    BY CertificationAssumption
  <2>5. DerivabilityRejections(b) = {}
    BY <2>2, Zenon DEF verifyBundleV3
  <2>6. b.docDigest = documentDigest(b.document, b.leaks)
    BY <2>5, Zenon DEF DerivabilityRejections
  <2>7. b.major = target
    BY BundleV3Facts
  <2> HIDE DEF b
  <2>8. QED
    BY <2>3, <2>4, <2>6, <2>7 DEF verifyExit, derivabilityChecked
<1>2. QED
  BY <1>1, RunInvariant, PTL

-----------------------------------------------------------------------------
(* The rows.                                                               *)

FileIdsIn(heard, major) == {requirementIdForFile(f, major) : f \in DOMAIN heard}
FloorsOf(claimed, major) ==
  IF major = 2 THEN {}
  ELSE {PROFILE_FLOOR_SCENARIOS[p] : p \in CatalogProfiles \cap {CanonicalOf(c) : c \in claimed}}
PrefixesOf(claimed, major) == UNION {floor.prefixes : floor \in FloorsOf(claimed, major)}
AnyOfsOf(claimed, major) == UNION {floor.anyOf : floor \in FloorsOf(claimed, major)}
GroupIdsOf(claimed, major) ==
  {requirementIdForPrefix(g) : g \in PrefixesOf(claimed, major)}
    \cup {requirementIdForAnyOf(g) : g \in AnyOfsOf(claimed, major)}
ItIdsIn(heard, rec, claimed, major) ==
  {id \in DOMAIN rec \ (FileIdsIn(heard, major) \cup GroupIdsOf(claimed, major)) :
     rec[id].file \in DOMAIN heard}
PerFile(heard, rec, major) ==
  {<<f, DerivedFileRow(f, requirementIdForFile(f, major), heard[f], rec, DOMAIN rec # {})>> :
     f \in DOMAIN heard}

RowsAre(rows, heard, rec, claimed, major) ==
  /\ DOMAIN rows = FileIdsIn(heard, major) \cup GroupIdsOf(claimed, major)
                    \cup ItIdsIn(heard, rec, claimed, major)
  /\ \A id \in ItIdsIn(heard, rec, claimed, major) :
       rows[id] = Row({rec[id].file}, rec[id].disposition, rec[id].detail, rec[id].count)
  /\ \A id \in FileIdsIn(heard, major) :
       \E f \in DOMAIN heard :
         /\ requirementIdForFile(f, major) = id
         /\ rows[id] = DerivedFileRow(f, id, heard[f], rec, DOMAIN rec # {})
  /\ \A id \in GroupIdsOf(claimed, major) \ FileIdsIn(heard, major) :
       \/ \E g \in PrefixesOf(claimed, major) :
            /\ requirementIdForPrefix(g) = id
            /\ rows[id] = PrefixRow(g, PerFile(heard, rec, major))
       \/ \E g \in AnyOfsOf(claimed, major) :
            /\ requirementIdForAnyOf(g) = id
            /\ rows[id] = AnyOfRow(g, PerFile(heard, rec, major))

LEMMA RowFacts ==
  \A heard, rec, claimed, major :
    RowsAre(DerivedRows(heard, rec, claimed, major), heard, rec, claimed, major)
<1> TAKE heard, rec, claimed, major
<1> DEFINE rows == DerivedRows(heard, rec, claimed, major)
<1> DEFINE files == FileIdsIn(heard, major)
           prefixes == PrefixesOf(claimed, major)
           anyOfs == AnyOfsOf(claimed, major)
           groups == GroupIdsOf(claimed, major)
           its == ItIdsIn(heard, rec, claimed, major)
           perFile == PerFile(heard, rec, major)
           ofFile(f) == DerivedFileRow(f, requirementIdForFile(f, major), heard[f], rec,
                                       DOMAIN rec # {})
           rowOf(id) ==
             IF id \in its
             THEN Row({rec[id].file}, rec[id].disposition, rec[id].detail, rec[id].count)
             ELSE IF id \in files
             THEN ofFile(CHOOSE f \in DOMAIN heard : requirementIdForFile(f, major) = id)
             ELSE IF \E g \in prefixes : requirementIdForPrefix(g) = id
             THEN PrefixRow(CHOOSE g \in prefixes : requirementIdForPrefix(g) = id, perFile)
             ELSE AnyOfRow(CHOOSE g \in anyOfs : requirementIdForAnyOf(g) = id, perFile)
<1>1. rows = [id \in files \cup groups \cup its |-> rowOf(id)]
  BY Zenon DEF DerivedRows, FileIdsIn, PrefixesOf, AnyOfsOf, GroupIdsOf, ItIdsIn, PerFile, FloorsOf
<1>2. its \cap files = {} /\ its \cap groups = {}
  BY Zenon DEF ItIdsIn
<1> HIDE DEF its, rows
<1>3. \A id \in its :
        rowOf(id) = Row({rec[id].file}, rec[id].disposition, rec[id].detail, rec[id].count)
  BY Zenon
<1>4. ASSUME NEW id \in files
      PROVE  \E f \in DOMAIN heard :
               requirementIdForFile(f, major) = id
               /\ rowOf(id) = DerivedFileRow(f, id, heard[f], rec, DOMAIN rec # {})
  <2> DEFINE f == CHOOSE f \in DOMAIN heard : requirementIdForFile(f, major) = id
  <2>1. f \in DOMAIN heard /\ requirementIdForFile(f, major) = id
    BY <1>4, Zenon DEF FileIdsIn
  <2>2. rowOf(id) = ofFile(f)
    BY <1>2, <1>4, Zenon
  <2> HIDE DEF f
  <2>3. rowOf(id) = DerivedFileRow(f, id, heard[f], rec, DOMAIN rec # {})
    BY <2>1, <2>2, Zenon
  <2> HIDE DEF rowOf
  <2>4. QED
    BY <2>1, <2>3
<1>5. ASSUME NEW id \in groups \ files
      PROVE  \/ \E g \in prefixes :
                  requirementIdForPrefix(g) = id /\ rowOf(id) = PrefixRow(g, perFile)
             \/ \E g \in anyOfs :
                  requirementIdForAnyOf(g) = id /\ rowOf(id) = AnyOfRow(g, perFile)
  <2>1. CASE \E g \in prefixes : requirementIdForPrefix(g) = id
    <3> DEFINE g == CHOOSE g \in prefixes : requirementIdForPrefix(g) = id
    <3>1. g \in prefixes /\ requirementIdForPrefix(g) = id
      BY <2>1, Zenon
    <3>2. rowOf(id) = PrefixRow(g, perFile)
      BY <1>2, <1>5, <2>1, Zenon
    <3> HIDE DEF g, rowOf
    <3>3. QED
      BY <3>1, <3>2
  <2>2. CASE ~\E g \in prefixes : requirementIdForPrefix(g) = id
    <3> DEFINE g == CHOOSE g \in anyOfs : requirementIdForAnyOf(g) = id
    <3>1. g \in anyOfs /\ requirementIdForAnyOf(g) = id
      BY <1>5, <2>2, Zenon DEF GroupIdsOf
    <3>2. rowOf(id) = AnyOfRow(g, perFile)
      BY <1>2, <1>5, <2>2, Zenon
    <3> HIDE DEF g, rowOf
    <3>3. QED
      BY <3>1, <3>2
  <2>3. QED
    BY <2>1, <2>2
<1> HIDE DEF rowOf
<1>6. DOMAIN rows = files \cup groups \cup its
  BY <1>1
<1>7. \A id \in files \cup groups \cup its : rows[id] = rowOf(id)
  BY <1>1
<1>8. RowsAre(rows, heard, rec, claimed, major)
  BY <1>3, <1>4, <1>5, <1>6, <1>7, Zenon DEF its, RowsAre
<1>9. QED
  BY <1>8 DEF rows

LEMMA IdTags ==
  /\ \A f : requirementIdForScenario(f)[1] = "floor"
  /\ \A g : requirementIdForPrefix(g)[1] = "any" /\ requirementIdForAnyOf(g)[1] = "anyof"
  /\ \A f, m : requirementIdForFile(f, m)[1] \in {"floor", "scenario"}
  /\ \A id : IsGroup(id) <=> id[1] \in {"any", "anyof"}
BY DEF requirementIdForScenario, requirementIdForPrefix, requirementIdForAnyOf,
       requirementIdForFile, IsGroup

(* A reader accepts the row of a floor file only if the ledger had it: from *)
(* the report alone comes a failure, a blocked row, or a pass of which      *)
(* nothing says that it asserted anything.                                  *)
LEMMA AcceptedIsRecorded ==
  ASSUME NEW heard, NEW rec, NEW claimed, NEW major, NEW rows,
         rows = DerivedRows(heard, rec, claimed, major),
         \A f \in DOMAIN heard : heard[f] \in ReportStates,
         NEW f, FileFloorMet(rows, f)
  PROVE  requirementIdForScenario(f) \in DOMAIN rec
<1> DEFINE id == requirementIdForScenario(f)
<1>1. /\ id \in DOMAIN rows
      /\ ~FloorRejected(rows[id]) /\ rows[id].disposition \in CERTIFIABLE
  BY Zenon DEF FileFloorMet
<1>2. SUFFICES ASSUME id \notin DOMAIN rec PROVE FALSE
  OBVIOUS
<1>3. id \notin ItIdsIn(heard, rec, claimed, major)
  BY <1>2 DEF ItIdsIn
<1>4. id \notin GroupIdsOf(claimed, major)
  BY IdTags DEF GroupIdsOf
<1> HIDE DEF id
<1>5. /\ DOMAIN rows = FileIdsIn(heard, major) \cup GroupIdsOf(claimed, major)
                         \cup ItIdsIn(heard, rec, claimed, major)
      /\ \A i \in FileIdsIn(heard, major) :
           \E g \in DOMAIN heard :
             /\ requirementIdForFile(g, major) = i
             /\ rows[i] = DerivedFileRow(g, i, heard[g], rec, DOMAIN rec # {})
  <2>1. RowsAre(rows, heard, rec, claimed, major)
    BY RowFacts
  <2>2. QED
    BY <2>1, Zenon DEF RowsAre
<1>6. PICK g \in DOMAIN heard :
        rows[id] = DerivedFileRow(g, id, heard[g], rec, DOMAIN rec # {})
  <2>1. id \in FileIdsIn(heard, major)
    BY <1>1, <1>3, <1>4, <1>5
  <2>2. QED
    BY <1>5, <2>1, Zenon
<1>7. \/ /\ rows[id].disposition = "executed-pass" /\ rows[id].count = Unstated
      \/ rows[id].disposition \in {"executed-fail", "blocked"}
  BY <1>2, <1>6 DEF DerivedFileRow, Row, ReportStates
<1>8. CASE rows[id].disposition = "executed-pass" /\ rows[id].count = Unstated
  <2>1. ~WitnessedRow(rows[id])
    BY <1>8 DEF WitnessedRow, Unstated
  <2>2. QED
    BY <1>1, <1>8, <2>1 DEF FloorRejected
<1>9. CASE rows[id].disposition \in {"executed-fail", "blocked"}
  BY <1>1, <1>9 DEF CERTIFIABLE
<1>10. QED
  BY <1>7, <1>8, <1>9

(* What satisfies a reader of a v2 bundle leaves the emitter nothing to    *)
(* object to.                                                              *)
LEMMA AcceptedNotBlocking ==
  ASSUME NEW rows, NEW rec, NEW id, id \in DOMAIN rows,
         ~FloorRejected(rows[id]), rows[id].disposition \in CERTIFIABLE,
         id \in DOMAIN rec \/ IsGroup(id)
  PROVE  ~Blocking(id, rows, rec, 1)
<1>1. ~Vacuous(rows[id])
  <2>1. SUFFICES ASSUME Vacuous(rows[id]) PROVE FALSE
    OBVIOUS
  <2>2. CASE rows[id].disposition = "executed-pass" /\ rows[id].count = 0
    <3>1. ~WitnessedRow(rows[id])
      BY <2>2 DEF WitnessedRow
    <3>2. QED
      BY <2>2, <3>1 DEF FloorRejected
  <2>3. CASE rows[id].disposition = "blocked" /\ rows[id].detail = "unclassified-return"
    BY <2>3 DEF FloorRejected
  <2>4. QED
    BY <2>1, <2>2, <2>3 DEF Vacuous
<1>2. QED
  BY <1>1 DEF Blocking, Unclassified

LEMMA PassIsAccepted ==
  ASSUME NEW row, WitnessedRow(row)
  PROVE  ~FloorRejected(row) /\ row.disposition \in CERTIFIABLE
BY DEF WitnessedRow, FloorRejected, CERTIFIABLE

(* No v1 profile derives from a document without the v1 core.              *)
LEMMA NoCoreNoProfile ==
  ASSUME NEW doc, ~isCore(doc), NEW p
  PROVE  ~profileDerivable(doc, p, 1)
<1>1. ~isCoreStandard(doc)
  BY Zenon DEF isCoreStandard
<1>2. agentPlatformStatus(doc) = "none"
  BY Zenon DEF agentPlatformStatus, isAgentPlatformFull, isAgentPlatformPartial
<1>3. deriveProfiles(doc) = {}
  BY Zenon DEF deriveProfiles, isInterrupts, isStream, isSecrets, isProviderPolicy, isReplayFork,
               isFixtures, isMemory, isTriggerBridge
<1>4. 1 # 2
  OBVIOUS
<1>5. QED
  BY <1>1, <1>2, <1>3, <1>4, Zenon DEF profileDerivable

(* A document was captured of a host, at the target major.                 *)
Captured ==
  stage \in {"running", "derived"} \/ outcome.written # "none" =>
    \E host \in Hosts : document = IF target = 2 THEN host.v2 ELSE host.v1

LEMMA CapturedStep ==
  ASSUME Captured, OutcomeHeld, [CertifyNext]_certVars,
         stage \in {"discovering", "running", "derived", "exited"}
  PROVE  Captured'
<1>1. CASE UNCHANGED certVars
  BY <1>1 DEF certVars, runVars, Captured
<1>2. CASE Discover
  BY <1>2 DEF Discover, Capture, Captured
<1>3. CASE DiscoveryFails
  BY <1>3 DEF DiscoveryFails, Captured, Exits, None
<1>4. ASSUME NEW f \in Files, Step(f) \/ FailToLoad(f) \/ WorkerDies(f) PROVE Captured'
  BY <1>4 DEF Step, FailToLoad, WorkerDies, runVars, Captured
<1>5. CASE Report
  BY <1>5 DEF Report, ReportMissing, VitestExits, Captured, Exits, None
<1>6. CASE Emit
  <2>1. stage = "derived" /\ UNCHANGED <<target, document>>
    BY <1>6, Zenon DEF Emit, EmitV1, EmitV2, EmitV3, NothingToSign, Exit
  <2>2. QED
    BY <2>1 DEF Captured
<1>7. QED
  BY <1>1, <1>2, <1>3, <1>4, <1>5, <1>6 DEF CertifyNext

(* What the reader of a v2 bundle certifies was certifiable to the emitter. *)
LEMMA ReaderOfV2 ==
  ASSUME RunInv, Captured, \A host \in Hosts : ~isCore(host.v2),
         NEW request, WrittenV2(request), NEW p \in outcome.certified,
         PROFILE_FLOOR_SCENARIOS[p].prefixes = {}
  PROVE  derived.verdicts[p].certifiable /\ p \notin Rejected
<1> DEFINE b == BundleV2(request.leaks)
           rows == derived.rows
           rec == derived.rec
           floor == PROFILE_FLOOR_SCENARIOS[p]
           ids == requirementsFor(p, document, 1)
<1>1. outcome.written = "v2" /\ p \in b.claims /\ certifiedV2(b, p)
  BY DEF WrittenV2
<1>2. /\ b.rows = rows /\ b.document = document
      /\ b.claims = Claimed \ (DEPRECATED_PROFILE_ALIASES \cup NotHeld)
  BY DEF BundleV2, scrubEvidence, Rows
<1>3. derived = DerivedFrom(report)
  BY <1>1 DEF RunInv, DerivedHeld, Released
<1>4. /\ rec = Rec /\ rows = DerivedRows(report, rec, Claimed, target)
      /\ derived.verdicts = Verdicts(Claimed, rows, rec, document, target)
  BY <1>3 DEF DerivedFrom
<1> HIDE DEF b, rows, rec
<1>5. /\ profileDerivable(document, p, 1) /\ HasFloor(p, 1)
      /\ \A f \in floorFilesFor(p, document) : FileFloorMet(rows, f)
      /\ \A g \in floor.anyOf : AnyOfFloorMet(rows, g)
      /\ floor.discoveryOnly \/ ids # {}
  BY <1>1, <1>2, Zenon DEF certifiedV2
<1>6. target = 1
  <2>1. PICK host \in Hosts : document = IF target = 2 THEN host.v2 ELSE host.v1
    BY <1>1 DEF Captured
  <2>2. target # 2
    BY <1>5, <2>1, NoCoreNoProfile
  <2>3. QED
    BY <2>2 DEF RunInv, StagesTyped
<1>7. p \in Claimed /\ p \notin DEPRECATED_PROFILE_ALIASES /\ p \notin NotHeld
  BY <1>1, <1>2
<1>8. p \in CatalogProfiles
  BY <1>5 DEF HasFloor
<1>9. derived.verdicts[p] = ProfileVerdict(p, rows, rec, document, 1)
  BY <1>4, <1>6, <1>7 DEF Verdicts
<1>10. RowsAre(rows, report, rec, Claimed, 1)
  BY <1>4, <1>6, RowFacts
<1>11. \A f \in DOMAIN report : report[f] \in ReportStates
  BY DEF RunInv, StagesTyped
<1>12. ASSUME NEW f \in floorFilesFor(p, document)
       PROVE  /\ requirementIdForScenario(f) \in DOMAIN rows
              /\ ~Blocking(requirementIdForScenario(f), rows, rec, 1)
  <2> DEFINE id == requirementIdForScenario(f)
  <2>1. FileFloorMet(rows, f)
    BY <1>5
  <2>2. /\ id \in DOMAIN rows
        /\ ~FloorRejected(rows[id]) /\ rows[id].disposition \in CERTIFIABLE
    BY <2>1, Zenon DEF FileFloorMet
  <2>3. rows = DerivedRows(report, rec, Claimed, 1)
    BY <1>4, <1>6
  <2>4. id \in DOMAIN rec
    BY <1>11, <2>1, <2>3, AcceptedIsRecorded
  <2>5. QED
    BY <2>2, <2>4, AcceptedNotBlocking
<1>13. ASSUME NEW g \in floor.anyOf
       PROVE  /\ requirementIdForAnyOf(g) \in DOMAIN rows
              /\ ~Blocking(requirementIdForAnyOf(g), rows, rec, 1)
  <2> DEFINE id == requirementIdForAnyOf(g)
  <2>1. CanonicalOf(p) = p
    BY <1>7 DEF CanonicalOf, DEPRECATED_PROFILE_ALIASES
  <2>2. floor \in FloorsOf(Claimed, 1)
    BY <1>7, <1>8, <2>1 DEF FloorsOf
  <2>3. id \in GroupIdsOf(Claimed, 1)
    BY <2>2 DEF GroupIdsOf, AnyOfsOf
  <2>4. id \in DOMAIN rows
    BY <1>10, <2>3, Zenon DEF RowsAre
  <2>5. AnyOfFloorMet(rows, g)
    BY <1>5
  <2>6. WitnessedRow(rows[id])
    BY <2>4, <2>5, Zenon DEF AnyOfFloorMet
  <2>7. IsGroup(id)
    BY IdTags
  <2>8. QED
    BY <2>4, <2>6, <2>7, PassIsAccepted, AcceptedNotBlocking
<1>14. floor.prefixes = {}
  OBVIOUS
<1>15. \A id \in ids : id \in DOMAIN rows /\ ~Blocking(id, rows, rec, 1)
  BY <1>12, <1>13, <1>14 DEF requirementsFor
<1>16. \A id \in ids : ~Unclassified(id, rows, rec)
  BY <1>15, Zenon DEF Blocking
<1> DEFINE open == {id \in ids : Unclassified(id, rows, rec)}
           blocking == {id \in ids : Blocking(id, rows, rec, 1)}
           witnessed == {id \in ids \cap DOMAIN rows : WitnessedRow(rows[id])}
           held == ids # {} /\ witnessed = ids
           judged == derived.verdicts[p]
<1>17. open = {} /\ blocking = {}
  BY <1>15, <1>16
<1>18. judged.notHeld = (floor.runtimeDerived /\ ~held)
  BY <1>5, <1>9 DEF ProfileVerdict
<1>19. ~(floor.runtimeDerived /\ ~held)
  BY <1>7, <1>18 DEF NotHeld
<1> HIDE DEF open, blocking, held
<1>20. /\ judged.unclassified = open
       /\ judged.certifiable = IF floor.runtimeDerived THEN held
                                ELSE floor.discoveryOnly \/ (ids # {} /\ blocking = {})
  BY <1>5, <1>9, <1>19 DEF ProfileVerdict, open, blocking, held
<1>21. p \notin Rejected
  BY <1>17, <1>20 DEF Rejected
<1>22. judged.certifiable
  BY <1>5, <1>17, <1>19, <1>20
<1>23. QED
  BY <1>21, <1>22

(* No bundle certifies, to who reads it, what the emitter's own verdict    *)
(* refuses. A v2 root has no v1 core to derive a v1 profile from.          *)
THEOREM ReaderAgreesWithEmitter ==
  ASSUME \A host \in Hosts : ~isCore(host.v2)
  PROVE  CertifySpec => []VerifierAgreesWithEmitter
<1>1. CertifyInit => RunInv /\ Captured
  BY RunHolds DEF CertifyInit, Captured, None
<1>2. RunInv /\ Captured /\ [CertifyNext]_certVars => RunInv' /\ Captured'
  BY RunHolds, CapturedStep DEF RunInv, StagesTyped
<1>3. ASSUME RunInv, Captured PROVE VerifierAgreesWithEmitter
  <2> SUFFICES ASSUME outcome.written \in {"v2", "v3"}, NEW p \in outcome.certified,
                      outcome.written = "v2" => PROFILE_FLOOR_SCENARIOS[p].prefixes = {}
               PROVE  derived.verdicts[p].certifiable /\ p \notin Rejected
    BY DEF VerifierAgreesWithEmitter
  <2>1. CASE outcome.written = "v2"
    <3>1. PICK request \in Requests : WrittenV2(request)
      BY <1>3, <2>1, WrittenAs DEF RunInv
    <3>2. QED
      BY <1>3, <2>1, <3>1, ReaderOfV2
  <2>2. CASE outcome.written = "v3"
    <3>1. PICK request \in Requests : WrittenV3(request)
      BY <1>3, <2>2, WrittenAs DEF RunInv
    <3>2. CertifiedFlag(p, RelaxedFor(request))
      BY <3>1, CertifiedOfV3
    <3>3. QED
      BY <3>2, Zenon DEF CertifiedFlag
  <2>3. QED
    BY <2>1, <2>2
<1>4. QED
  BY <1>1, <1>2, <1>3, PTL DEF CertifySpec

-----------------------------------------------------------------------------
(* The lines of the ledger. A step of a file records at most once, under    *)
(* the file's own id (the scenario itself, or afterAll when there is no row *)
(* yet) or under an id that is no file's.                                   *)
FileRowIds == {FileIds[g] : g \in Files}

AsideRow(c) == c.id \notin FileRowIds /\ (c.disposition = "executed-pass" => c.count > 0)
OwnRow(f, c) == c.id = FileIds[f] /\ ~c.fold /\ ~c.evidence
SelfRow(f, c) ==
  /\ OwnRow(f, c) /\ \E d \in SelfVerdicts[f] : ClassifySelf(f, d)
  /\ c.file = NoFile /\ c.count = NoCount /\ c.detail = Verdict(c.disposition).detail
HookRow(f, c) ==
  /\ OwnRow(f, c) /\ ~HasRequirement(f, FileIds[f]) /\ c.file = f
  /\ c.disposition = "executed-pass" => c.count > 0

StepCall(f, c) ==
  /\ c.writer = f /\ Explained(c)
  /\ AsideRow(c) \/ SelfRow(f, c) \/ HookRow(f, c)

LEMMA VerdictExplained ==
  \A d \in Dispositions : Verdict(d).disposition = d /\ Explained(Verdict(d))
BY VerdictType DEF Verdict

LEMMA SelfCalls ==
  ASSUME RecorderTypeOK, NEW f \in Files, NEW d \in SelfVerdicts[f], ClassifySelf(f, d)
  PROVE  \E c \in OwnCalls :
           c.writer = f /\ Explained(c) /\ RecordRequirement(c) /\ SelfRow(f, c)
<1> DEFINE c == CallOf(f, FileIds[f], Verdict(d), NoCount, NoFile, FALSE)
<1>1. d \in Dispositions /\ FileIds[f] \in Ids
  BY RecorderAssumption
<1>2. RecordRequirement(c)
  BY DEF ClassifySelf
<1>3. c \in OwnCalls
  BY <1>1, RowCalls
<1>4. /\ c.writer = f /\ c.id = FileIds[f] /\ c.disposition = d /\ c.detail = Verdict(d).detail
      /\ c.fold = FALSE /\ c.evidence = FALSE /\ c.file = NoFile /\ c.count = NoCount
  BY <1>1, VerdictExplained DEF CallOf
<1>5. Explained(c)
  BY <1>1, <1>4, VerdictExplained DEF Explained
<1> HIDE DEF c
<1>6. SelfRow(f, c)
  BY <1>4 DEF SelfRow, OwnRow
<1>7. QED
  BY <1>2, <1>3, <1>4, <1>5, <1>6

LEMMA StepCalls ==
  ASSUME LedgerInv, RecorderTypeOK, LegsInTurn, NEW f \in Files, Windowed(f), FileStep(f)
  PROVE  UNCHANGED vars \/ \E c \in OwnCalls : RecordRequirement(c) /\ StepCall(f, c)
<1>1. /\ LaneId \in Ids \ FileRowIds /\ GateIds \cap FileRowIds = {}
      /\ ReqIds \cap FileRowIds = {} /\ FileIds[f] \in Ids
      /\ \A n \in 1 .. Legs[f] : DefaultIds[f][n] \notin FileRowIds
  BY RecorderAssumption, FileRowsApart, IdsApart DEF FileRowIds
<1>2. ASSUME NEW id \in GateIds, BehaviorGate(f, id)
      PROVE  \E c \in OwnCalls : RecordRequirement(c) /\ StepCall(f, c)
  <2> DEFINE d == IF id \in OptedOut THEN "skipped" ELSE "inapplicable"
             c == CallOf(f, id, Verdict(d), NoCount, NoFile, FALSE)
  <2>1. d \in Dispositions /\ d # "executed-pass"
    BY DEF Dispositions
  <2>2. RecordRequirement(c)
    BY <1>2 DEF BehaviorGate
  <2> HIDE DEF d
  <2>3. c \in OwnCalls
    BY <2>1, RowCalls
  <2>4. c.writer = f /\ c.id = id /\ c.disposition = d /\ c.detail = Verdict(d).detail
    BY <2>1, VerdictExplained DEF CallOf
  <2>5. Explained(c)
    BY <2>1, <2>4, VerdictExplained DEF Explained
  <2> HIDE DEF c
  <2>6. AsideRow(c)
    BY <1>1, <2>1, <2>4 DEF AsideRow
  <2>7. QED
    BY <2>2, <2>3, <2>4, <2>5, <2>6 DEF StepCall
<1>3. ASSUME NEW d \in SelfVerdicts[f], ClassifySelf(f, d)
      PROVE  \E c \in OwnCalls : RecordRequirement(c) /\ StepCall(f, c)
  BY <1>3, SelfCalls DEF StepCall
<1>4. ASSUME SkipOffLane(f), ~UNCHANGED vars
      PROVE  \E c \in OwnCalls : RecordRequirement(c) /\ StepCall(f, c)
  <2> DEFINE c == CallOf(f, LaneId, Verdict("inapplicable"), NoCount, f, FALSE)
  <2>0. "inapplicable" \in Dispositions
    BY DEF Dispositions
  <2>1. RecordRequirement(c)
    BY <1>4 DEF SkipOffLane, TryRecord
  <2>2. c \in OwnCalls
    BY RowCalls
  <2>3. /\ c.writer = f /\ c.id = LaneId /\ c.disposition = "inapplicable"
        /\ c.detail = Verdict("inapplicable").detail
    BY <2>0, VerdictExplained DEF CallOf
  <2>4. Explained(c)
    BY <2>0, <2>3, VerdictExplained DEF Explained
  <2> HIDE DEF c
  <2>5. AsideRow(c)
    BY <1>1, <2>3 DEF AsideRow
  <2>6. QED
    BY <2>1, <2>2, <2>3, <2>4, <2>5 DEF StepCall
<1>5. ASSUME RecordLeg(f), ~UNCHANGED vars
      PROVE  \E c \in OwnCalls : RecordRequirement(c) /\ StepCall(f, c)
  <2> DEFINE v == AttachObservation(LegVerdict(f), pending[f] # {})
             c == CallOf(f, RowIdOf(f), v, calls[f], f, TRUE)
  <2>1. phase[f] = "ended" /\ Current(f) <= Legs[f] /\ RecordRequirement(c)
    BY <1>5 DEF RecordLeg, Finish, LegsInTurn, TryRecord
  <2>2. c \in OwnCalls /\ c.writer = f /\ c.disposition = v.disposition /\ c.id = RowIdOf(f)
        /\ Explained(c)
    BY <2>1, LegCall
  <2>3. c.count = calls[f]
    BY DEF CallOf
  <2>4. v.disposition = LegVerdict(f).disposition
    BY LegVerdictType, AttachType
  <2>5. RowIdOf(f) \notin FileRowIds
    <3>1. Current(f) \in 1 .. Legs[f]
      BY <2>1, LegConduct
    <3>2. RowIdOf(f) \in ReqIds \cup {DefaultIds[f][m] : m \in 1 .. Legs[f]}
      BY <3>1 DEF RowIdOf, RecorderTypeOK
    <3>3. QED
      BY <1>1, <3>2
  <2>6. v.disposition = "executed-pass" => calls[f] > 0
    BY <2>1, <2>4, LegVerdictAccounts DEF Windowed
  <2> HIDE DEF c, v
  <2>7. AsideRow(c)
    BY <2>2, <2>3, <2>5, <2>6 DEF AsideRow
  <2>8. QED
    BY <2>1, <2>2, <2>7 DEF StepCall
<1>6. ASSUME AfterAll(f), ~UNCHANGED vars
      PROVE  \E c \in OwnCalls : RecordRequirement(c) /\ StepCall(f, c)
  <2> DEFINE v == FileVerdict(f)
             c == CallOf(f, FileIds[f], v, fileCalls[f], f, FALSE)
  <2>1. ~HasRequirement(f, FileIds[f]) /\ RecordRequirement(c)
    BY <1>6 DEF AfterAll, TryRecord
  <2>2. c \in OwnCalls
    BY RowCalls
  <2>3. /\ c.writer = f /\ c.id = FileIds[f] /\ c.disposition = v.disposition
        /\ c.detail = v.detail /\ c.count = fileCalls[f] /\ c.fold = FALSE /\ c.evidence = FALSE
        /\ c.file = f
    BY DEF CallOf
  <2>4. Explained(c)
    BY <2>3, FileVerdictType DEF Explained
  <2>5. v.disposition = "executed-pass" => fileCalls[f] > 0
    BY FileVerdictWitnessed
  <2> HIDE DEF c, v
  <2>6. HookRow(f, c)
    BY <2>1, <2>3, <2>5 DEF HookRow, OwnRow
  <2>7. QED
    BY <2>1, <2>2, <2>3, <2>4, <2>6 DEF StepCall
<1>7. QED
  BY <1>2, <1>3, <1>4, <1>5, <1>6
     DEF FileStep, Body, End, Hooks, Teardown, Expect, Observe, Note, Cite, EndBody, BeforeAll,
         BeginLeg, HideLeg, SkipUnrecorded

-----------------------------------------------------------------------------
(* What a recording does to memory and sink.                               *)
LEMMA RecordingWrites ==
  ASSUME LedgerInv, NEW c \in OwnCalls, RecordRequirement(c)
  PROVE  /\ EntryFor(c) \in Entry /\ EntryFor(c).id = c.id /\ EntryFor(c) # Absent
         /\ c.writer \in Files /\ c.id \in Ids
         /\ ledger'[c.writer][c.id] = EntryFor(c)
         /\ \A g \in Files, id \in Ids :
              (g # c.writer \/ id # c.id) => ledger'[g][id] = ledger[g][id]
         /\ \/ sink' = Append(sink, EntryFor(c)) /\ faithful' = faithful
            \/ /\ sink' = sink /\ ~faithful'[c.writer]
               /\ \A g \in Files \ {c.writer} : faithful'[g] = faithful[g]
<1> DEFINE e == EntryFor(c)
           w == c.writer
<1>1. c \in CallType /\ c.file \in {w, NoFile} /\ w \in Files /\ c.id \in Ids
  BY DEF OwnCalls, CallType
<1>2. LedgerTypeOK /\ Keyed /\ ~Contradicts(c)
  BY DEF LedgerInv, RecordRequirement
<1>3. e \in Entry /\ e.id = c.id /\ e # Absent
  BY <1>1, <1>2, EntryForFacts, ConstantsAssumption
<1>4. ledger' = [ledger EXCEPT ![w][c.id] = e] /\ AppendToSink(w, e)
  BY DEF RecordRequirement
<1> HIDE DEF e
<1>5. /\ ledger'[w][c.id] = e
      /\ \A g \in Files, id \in Ids : (g # w \/ id # c.id) => ledger'[g][id] = ledger[g][id]
  BY <1>1, <1>2, <1>4 DEF LedgerTypeOK
<1>6. \/ sink' = Append(sink, e) /\ faithful' = faithful
      \/ /\ sink' = sink /\ ~faithful'[w]
         /\ \A g \in Files \ {w} : faithful'[g] = faithful[g]
  BY <1>1, <1>2, <1>4 DEF AppendToSink, LedgerTypeOK
<1>7. QED
  BY <1>1, <1>3, <1>5, <1>6 DEF e

LEMMA LinesWritten ==
  ASSUME LedgerInv, NEW c \in OwnCalls, RecordRequirement(c)
  PROVE  /\ \A i \in DOMAIN sink' :
              (i \in DOMAIN sink /\ sink'[i] = sink[i]) \/ sink'[i] = EntryFor(c)
         /\ \A id : id # c.id =>
              /\ LinesOf(sink', id) = LinesOf(sink, id)
              /\ \A i \in LinesOf(sink, id) : sink'[i] = sink[i]
         /\ \A i \in LinesOf(sink', c.id) :
              (i \in LinesOf(sink, c.id) /\ sink'[i] = sink[i]) \/ sink'[i] = EntryFor(c)
         /\ faithful'[c.writer] => LinesOf(sink', c.id) # {}
<1> DEFINE e == EntryFor(c)
<1>1. sink \in Seq(Entry) /\ e \in Entry /\ e.id = c.id
  BY RecordingWrites DEF LedgerInv, LedgerTypeOK
<1>2. \/ sink' = Append(sink, e)
      \/ sink' = sink /\ ~faithful'[c.writer]
  BY RecordingWrites
<1> HIDE DEF e
<1>3. CASE sink' = sink /\ ~faithful'[c.writer]
  BY <1>3 DEF LinesOf, e
<1>4. CASE sink' = Append(sink, e)
  <2> DEFINE n == Len(sink) + 1
  <2>1. /\ DOMAIN sink' = DOMAIN sink \cup {n} /\ n \notin DOMAIN sink /\ sink'[n] = e
        /\ \A i \in DOMAIN sink : sink'[i] = sink[i]
    BY <1>1, <1>4
  <2> HIDE DEF n
  <2>2. \A id : LinesOf(sink', id) = LinesOf(sink, id) \cup (IF e.id = id THEN {n} ELSE {})
    BY <1>1, <2>1 DEF LinesOf
  <2>3. \A id : LinesOf(sink, id) \subseteq DOMAIN sink
    BY DEF LinesOf
  <2>4. QED
    BY <1>1, <2>1, <2>2, <2>3 DEF e
<1>5. QED
  BY <1>2, <1>3, <1>4

(* What the sink says under a file's own id is what that file holds; a     *)
(* pass the file did not give itself counts an assertion.                  *)
SelfEntry(f, e) ==
  /\ e.id = FileIds[f] /\ e.detail = Verdict(e.disposition).detail
  /\ e.count = NoCount /\ e.file = NoFile /\ ~e.evidence

FileLines(f) ==
  /\ \A i \in LinesOf(sink, FileIds[f]) :
       HasRequirement(f, FileIds[f]) /\ sink[i] = FileRow(f)
  /\ faithful[f] /\ HasRequirement(f, FileIds[f]) => LinesOf(sink, FileIds[f]) # {}

FileRowSound(f) ==
  /\ HasRequirement(f, FileIds[f]) /\ SelfClassified(f) => SelfEntry(f, FileRow(f))
  /\ HasRequirement(f, FileIds[f]) /\ ~SelfClassified(f) =>
       /\ FileRow(f).disposition = "executed-pass" => FileRow(f).count > 0
       /\ FileRow(f).file = f
  /\ Closed(f) => HasRequirement(f, FileIds[f])

(* Every row gives a reason unless it passes, and a test's pass counts.    *)
Sound(e) ==
  /\ Explained(e)
  /\ e.id \notin FileRowIds => (e.disposition = "executed-pass" => e.count > 0)

RowsSound ==
  /\ \A f \in Files, id \in Ids : HasRequirement(f, id) => Sound(ledger[f][id])
  /\ \A i \in DOMAIN sink : Sound(sink[i])

Evidence == RowsSound /\ \A f \in Files : FileLines(f) /\ FileRowSound(f)

LEMMA EntrySound ==
  ASSUME LedgerInv, RowsSound, NEW f \in Files, NEW c \in OwnCalls,
         RecordRequirement(c), StepCall(f, c)
  PROVE  Sound(EntryFor(c))
<1> DEFINE prior == ledger[c.writer][c.id]
           e == NewEntry(c)
<1>1. /\ c \in CallType /\ c.writer \in Files /\ c.id \in Ids
      /\ c.count \in Nat \cup {NoCount} /\ c.disposition \in Dispositions
  BY DEF OwnCalls, CallType
<1>2. /\ e.id = c.id /\ e.disposition = c.disposition /\ e.detail = c.detail /\ e.count = c.count
  BY DEF NewEntry
<1>3. Sound(e)
  BY <1>1, <1>2 DEF StepCall, AsideRow, SelfRow, HookRow, OwnRow, Sound, Explained, FileRowIds
<1> HIDE DEF e
<1>4. CASE ~(HasRequirement(c.writer, c.id) /\ c.fold)
  BY <1>3, <1>4 DEF EntryFor, e
<1>5. CASE HasRequirement(c.writer, c.id) /\ c.fold
  <2> DEFINE keep == NoMoreCertifiable(prior.disposition, e.disposition)
             winner == IF keep THEN prior ELSE e
             loser == IF keep THEN e ELSE prior
  <2>1. Sound(prior) /\ prior \in Entry /\ prior.id = c.id
    BY <1>1, <1>5 DEF RowsSound, LedgerInv, LedgerTypeOK, Keyed, HasRequirement
  <2>2. /\ EntryFor(c).id = prior.id /\ EntryFor(c).disposition = winner.disposition
        /\ EntryFor(c).detail = IF winner.detail # NoDetail THEN winner.detail ELSE loser.detail
        /\ EntryFor(c).count = AddCounts(prior.count, e.count)
    BY <1>5 DEF EntryFor, FoldEntries, e
  <2>3. Explained(EntryFor(c))
    BY <1>3, <2>1, <2>2 DEF Sound, Explained
  <2>4. c.id \notin FileRowIds
    BY <1>5 DEF StepCall, AsideRow, SelfRow, HookRow, OwnRow
  <2>5. prior.count \in Nat \cup {NoCount} /\ e.count \in Nat \cup {NoCount}
    BY <1>1, <1>2, <2>1 DEF Entry
  <2>6. winner.disposition = "executed-pass" => prior.count > 0 \/ e.count > 0
    BY <1>2, <1>3, <2>1, <2>4 DEF Sound
  <2>7. prior.count > 0 \/ e.count > 0 => AddCounts(prior.count, e.count) > 0
    BY <2>5 DEF AddCounts, Counted, NoCount
  <2>8. QED
    BY <2>2, <2>3, <2>6, <2>7 DEF Sound
<1>6. QED
  BY <1>4, <1>5

LEMMA RowsSoundStep ==
  ASSUME LedgerInv, RowsSound, NEW f \in Files,
         UNCHANGED vars \/ \E c \in OwnCalls : RecordRequirement(c) /\ StepCall(f, c)
  PROVE  RowsSound'
<1>1. CASE UNCHANGED vars
  BY <1>1 DEF RowsSound, vars, ledgerVars, HasRequirement
<1>2. ASSUME NEW c \in OwnCalls, RecordRequirement(c), StepCall(f, c) PROVE RowsSound'
  <2>1. Sound(EntryFor(c))
    BY <1>2, EntrySound
  <2>2. \A i \in DOMAIN sink' : Sound(sink'[i])
    BY <1>2, <2>1, LinesWritten DEF RowsSound
  <2>3. ASSUME NEW g \in Files, NEW id \in Ids, ledger'[g][id] # Absent
        PROVE  Sound(ledger'[g][id])
    BY <1>2, <2>1, <2>3, RecordingWrites DEF RowsSound, HasRequirement
  <2>4. QED
    BY <2>2, <2>3 DEF RowsSound, HasRequirement, Sound, Explained
<1>3. QED
  BY <1>1, <1>2

(* The other files' rows and lines stand. *)
LEMMA OtherFileLines ==
  ASSUME LedgerInv, RecorderTypeOK, LegsInTurn, NEW f \in Files, FileStep(f),
         UNCHANGED vars \/ \E c \in OwnCalls : RecordRequirement(c) /\ StepCall(f, c),
         NEW g \in Files \ {f}, FileLines(g), FileRowSound(g)
  PROVE  FileLines(g)' /\ FileRowSound(g)'
<1>1. Standing(g) /\ FileIds[g] \in Ids
  BY OthersStand, RecorderAssumption DEF FileStep
<1>2. /\ ledger'[g][FileIds[g]] = ledger[g][FileIds[g]]
      /\ SelfClassified(g)' = SelfClassified(g) /\ Closed(g)' = Closed(g)
  BY <1>1 DEF Standing, SelfClassified, Closed
<1>3. /\ HasRequirement(g, FileIds[g])' = HasRequirement(g, FileIds[g])
      /\ FileRow(g)' = FileRow(g)
  BY <1>2 DEF HasRequirement, FileRow
<1>4. FileRowSound(g)'
  BY <1>2, <1>3 DEF FileRowSound, SelfEntry
<1>5. /\ LinesOf(sink', FileIds[g]) = LinesOf(sink, FileIds[g])
      /\ \A i \in LinesOf(sink, FileIds[g]) : sink'[i] = sink[i]
      /\ faithful'[g] = faithful[g]
  <2>1. CASE UNCHANGED vars
    BY <2>1 DEF vars, ledgerVars, historyVars
  <2>2. ASSUME NEW c \in OwnCalls, RecordRequirement(c), StepCall(f, c)
        PROVE  /\ LinesOf(sink', FileIds[g]) = LinesOf(sink, FileIds[g])
               /\ \A i \in LinesOf(sink, FileIds[g]) : sink'[i] = sink[i]
               /\ faithful'[g] = faithful[g]
    <3>1. c.id # FileIds[g] /\ c.writer = f
      BY <2>2, IdsApart DEF StepCall, AsideRow, SelfRow, HookRow, OwnRow, FileRowIds
    <3>2. QED
      BY <2>2, <3>1, LinesWritten, RecordingWrites
  <2>3. QED
    BY <2>1, <2>2
<1>6. FileLines(g)'
  BY <1>3, <1>5 DEF FileLines
<1>7. QED
  BY <1>4, <1>6

(* The scenario records its own row: the first time, or the same again.    *)
LEMMA SelfFileLines ==
  ASSUME LedgerInv, RecorderTypeOK, LegsInTurn, FileRowAwaited, NEW f \in Files, FileStep(f),
         NEW d \in SelfVerdicts[f], ClassifySelf(f, d), FileLines(f), FileRowSound(f)
  PROVE  FileLines(f)' /\ FileRowSound(f)'
<1> DEFINE id == FileIds[f]
<1>1. PICK c \in OwnCalls :
        c.writer = f /\ Explained(c) /\ RecordRequirement(c) /\ SelfRow(f, c)
  BY SelfCalls
<1>2. /\ c.id = id /\ ~c.fold /\ ~c.evidence /\ c.file = NoFile /\ c.count = NoCount
      /\ c.detail = Verdict(c.disposition).detail
  BY <1>1 DEF SelfRow, OwnRow
<1>3. /\ EntryFor(c) = NewEntry(c) /\ EntryFor(c).disposition = c.disposition
      /\ SelfEntry(f, EntryFor(c))
  BY <1>1, <1>2 DEF EntryFor, NewEntry, SelfEntry
<1>4. ledger'[f][id] = EntryFor(c) /\ EntryFor(c) # Absent /\ EntryFor(c) \in Entry
  BY <1>1, <1>2, RecordingWrites
<1>5. ASSUME HasRequirement(f, id) PROVE EntryFor(c) = ledger[f][id]
  <2>1. phase[f] # "closed"
    BY DEF ClassifySelf
  <2>2. SelfEntry(f, FileRow(f))
    BY <1>5, <2>1 DEF FileRowAwaited, FileRowSound
  <2>3. ledger[f][id].disposition = c.disposition
    BY <1>1, <1>2, <1>5 DEF RecordRequirement, Contradicts
  <2>4. ledger[f][id] \in Entry
    BY <1>5, RecorderAssumption DEF LedgerInv, LedgerTypeOK, HasRequirement
  <2>5. \A e1, e2 \in Entry : SelfEntry(f, e1) /\ SelfEntry(f, e2)
          /\ e1.disposition = e2.disposition => e1 = e2
    BY DEF SelfEntry, Entry
  <2>6. QED
    BY <1>3, <1>4, <2>2, <2>3, <2>4, <2>5 DEF FileRow
<1>6. FileLines(f)'
  <2>1. \A i \in LinesOf(sink', id) : sink'[i] = EntryFor(c)
    BY <1>1, <1>2, <1>5, LinesWritten DEF FileLines, FileRow
  <2>2. faithful'[f] => LinesOf(sink', id) # {}
    BY <1>1, <1>2, LinesWritten
  <2>3. HasRequirement(f, id)' /\ FileRow(f)' = EntryFor(c)
    BY <1>4 DEF HasRequirement, FileRow
  <2>4. QED
    BY <2>1, <2>2, <2>3 DEF FileLines
<1>7. FileRowSound(f)'
  <2>1. SelfClassified(f)'
    BY SelfStays DEF FileStep
  <2>2. HasRequirement(f, id)' /\ SelfEntry(f, FileRow(f))'
    BY <1>3, <1>4 DEF HasRequirement, FileRow, SelfEntry
  <2>3. QED
    BY <2>1, <2>2 DEF FileRowSound
<1>8. QED
  BY <1>6, <1>7

(* afterAll leaves no file without a row. *)
LEMMA ClosingWrites ==
  ASSUME LedgerInv, RecorderTypeOK, NEW f \in Files, AfterAll(f)
  PROVE  HasRequirement(f, FileIds[f])'
<1>1. FileIds[f] \in Ids
  BY RecorderAssumption
<1>2. CASE HasRequirement(f, FileIds[f])
  BY <1>2 DEF AfterAll, HasRequirement, vars, ledgerVars
<1>3. CASE ~HasRequirement(f, FileIds[f])
  <2> DEFINE c == CallOf(f, FileIds[f], FileVerdict(f), fileCalls[f], f, FALSE)
  <2>1. TryRecord(c)
    BY <1>3 DEF AfterAll
  <2>2. ~Refused(c)
    BY <1>3, FileVerdictType DEF Refused, Contradicts, Unexplained, Explained, CallOf
  <2>3. c \in OwnCalls /\ c.writer = f /\ c.id = FileIds[f]
    BY RowCalls DEF CallOf
  <2> HIDE DEF c
  <2>4. RecordRequirement(c)
    BY <2>1, <2>2 DEF TryRecord
  <2>5. QED
    BY <2>3, <2>4, RecordingWrites DEF HasRequirement
<1>4. QED
  BY <1>2, <1>3

LEMMA HookFileLines ==
  ASSUME LedgerInv, RecorderTypeOK, LegsInTurn, SelfRowHeld, NEW f \in Files, FileStep(f),
         ~\E d \in SelfVerdicts[f] : ClassifySelf(f, d),
         UNCHANGED vars \/ \E c \in OwnCalls : RecordRequirement(c) /\ StepCall(f, c),
         FileLines(f), FileRowSound(f)
  PROVE  FileLines(f)' /\ FileRowSound(f)'
<1> DEFINE id == FileIds[f]
<1>1. /\ SelfClassified(f)' <=> SelfClassified(f)
      /\ Closed(f)' => Closed(f) \/ AfterAll(f)
      /\ id \in Ids
  <2>1. SelfClassified(f) => SelfClassified(f)'
    BY SelfStays DEF FileStep
  <2>2. SelfClassified(f)' => SelfClassified(f)
    BY SelfOnlyByRecording DEF FileStep
  <2>3. Closed(f)' => Closed(f) \/ AfterAll(f)
    BY PhaseSteps DEF FileStep, Hooks, Closed
  <2>4. QED
    BY <2>1, <2>2, <2>3, RecorderAssumption
<1>2. Closed(f)' => HasRequirement(f, id)' \/ Closed(f)
  BY <1>1, ClosingWrites
<1>3. ASSUME /\ FileRow(f)' = FileRow(f)
             /\ LinesOf(sink', id) = LinesOf(sink, id)
             /\ \A i \in LinesOf(sink, id) : sink'[i] = sink[i]
             /\ faithful'[f] => faithful[f]
      PROVE  FileLines(f)' /\ FileRowSound(f)'
  <2>1. HasRequirement(f, id)' = HasRequirement(f, id)
    BY <1>3 DEF HasRequirement, FileRow
  <2>2. FileLines(f)'
    BY <1>3, <2>1 DEF FileLines
  <2>3. FileRowSound(f)'
    BY <1>1, <1>2, <1>3, <2>1 DEF FileRowSound, SelfEntry
  <2>4. QED
    BY <2>2, <2>3
<1>4. CASE UNCHANGED vars
  BY <1>3, <1>4 DEF vars, ledgerVars, historyVars, FileRow
<1>5. ASSUME NEW c \in OwnCalls, RecordRequirement(c), StepCall(f, c)
      PROVE  FileLines(f)' /\ FileRowSound(f)'
  <2>1. c.writer = f /\ (AsideRow(c) \/ HookRow(f, c))
    BY <1>5 DEF StepCall, SelfRow
  <2>2. CASE AsideRow(c)
    <3>1. c.id # id
      BY <2>2 DEF AsideRow, FileRowIds
    <3>2. FileRow(f)' = FileRow(f)
      BY <1>1, <1>5, <3>1, RecordingWrites DEF FileRow
    <3>3. faithful'[f] => faithful[f]
      BY <1>5, <2>1, RecordingWrites
    <3>4. QED
      BY <1>3, <1>5, <3>1, <3>2, <3>3, LinesWritten
  <2>3. CASE HookRow(f, c)
    <3>1. /\ c.id = id /\ ~c.fold /\ c.file = f /\ ~HasRequirement(f, id)
          /\ c.disposition = "executed-pass" => c.count > 0
      BY <2>3 DEF HookRow, OwnRow
    <3>2. ~SelfClassified(f)
      BY <3>1 DEF SelfRowHeld
    <3>3. EntryFor(c).disposition = c.disposition /\ EntryFor(c).count = c.count
          /\ EntryFor(c).file = f
      BY <3>1 DEF EntryFor, NewEntry
    <3>4. FileRow(f)' = EntryFor(c) /\ HasRequirement(f, id)'
      BY <1>5, <2>1, <3>1, RecordingWrites DEF FileRow, HasRequirement
    <3>5. \A i \in LinesOf(sink', id) : sink'[i] = EntryFor(c)
      BY <1>5, <3>1, LinesWritten DEF FileLines
    <3>6. faithful'[f] => LinesOf(sink', id) # {}
      BY <1>5, <2>1, <3>1, LinesWritten
    <3>7. FileLines(f)'
      BY <3>4, <3>5, <3>6 DEF FileLines
    <3>8. FileRowSound(f)'
      BY <1>1, <3>1, <3>2, <3>3, <3>4 DEF FileRowSound
    <3>9. QED
      BY <3>7, <3>8
  <2>4. QED
    BY <2>1, <2>2, <2>3
<1>6. QED
  BY <1>4, <1>5

RecordsInv == RecorderInv /\ TraceInv /\ Evidence

LEMMA RecordsInvStep ==
  RecordsInv /\ [CertifyNext]_certVars => RecordsInv'
<1> SUFFICES ASSUME RecordsInv, [CertifyNext]_certVars PROVE Evidence'
  BY RecordsHold DEF RecordsInv
<1>1. CASE UNCHANGED allVars
  <2>1. UNCHANGED vars /\ UNCHANGED <<phase, did>>
    BY <1>1 DEF allVars, recorderVars
  <2>2. UNCHANGED <<ledger, sink, faithful>>
    BY <2>1 DEF vars, ledgerVars, historyVars
  <2>3. RowsSound'
    BY <2>2 DEF RecordsInv, Evidence, RowsSound, HasRequirement
  <2>4. ASSUME NEW g \in Files PROVE FileLines(g)' /\ FileRowSound(g)'
    BY <2>1, <2>2 DEF RecordsInv, Evidence, FileLines, FileRowSound, SelfEntry, HasRequirement, FileRow,
                      SelfClassified, Closed
  <2>5. QED
    BY <2>3, <2>4 DEF Evidence
<1>2. ASSUME NEW f \in Files, FileStep(f) PROVE Evidence'
  <2>1. /\ LedgerInv /\ RecorderTypeOK /\ LegsInTurn /\ FileRowAwaited /\ SelfRowHeld
        /\ Windowed(f)
    BY DEF RecordsInv, RecorderInv, TraceInv, Traced
  <2>2. UNCHANGED vars \/ \E c \in OwnCalls : RecordRequirement(c) /\ StepCall(f, c)
    BY <1>2, <2>1, StepCalls
  <2>3. RowsSound'
    BY <2>1, <2>2, RowsSoundStep DEF RecordsInv, Evidence
  <2>4. \A g \in Files \ {f} : FileLines(g)' /\ FileRowSound(g)'
    BY <1>2, <2>1, <2>2, OtherFileLines DEF RecordsInv, Evidence
  <2>5. FileLines(f)' /\ FileRowSound(f)'
    BY <1>2, <2>1, <2>2, SelfFileLines, HookFileLines DEF RecordsInv, Evidence
  <2>6. QED
    BY <2>3, <2>4, <2>5 DEF Evidence
<1>3. QED
  BY <1>1, <1>2, RunSteps

LEMMA RecordsInvInit == CertifyInit => RecordsInv
<1> SUFFICES ASSUME CertifyInit PROVE Evidence
  BY RecordsHold DEF RecordsInv
<1>1. RecorderInit /\ LedgerInit
  BY DEF CertifyInit, RecorderInit
<1>2. /\ sink = << >> /\ \A f \in Files, id \in Ids : ~HasRequirement(f, id)
      /\ \A f \in Files : FileIds[f] \in Ids /\ ~Closed(f)
  BY <1>1, RecorderAssumption DEF LedgerInit, RecorderInit, HasRequirement, Closed
<1>3. QED
  BY <1>2 DEF Evidence, RowsSound, FileLines, FileRowSound, LinesOf

LEMMA RecordsInvariant == CertifySpec => [](RunInv /\ RecordsInv)
<1>1. CertifyInit => RunInv /\ RecordsInv
  BY RunHolds, RecordsInvInit
<1>2. RunInv /\ RecordsInv /\ [CertifyNext]_certVars => RunInv' /\ RecordsInv'
  BY RunHolds, RecordsInvStep
<1>3. QED
  BY <1>1, <1>2, PTL DEF CertifySpec

-----------------------------------------------------------------------------
(* The ledger as the certifier has it. The id of a file's own row and the  *)
(* requirement it stands for determine one another.                        *)
LEMMA FileMinted ==
  ASSUME NEW f \in Files
  PROVE  MintedId(FileIds[f]) = requirementIdForFile(f, target)
<1> DEFINE h == CHOOSE g \in Files : FileIds[g] = FileIds[f]
<1>1. h \in Files /\ FileIds[h] = FileIds[f]
  OBVIOUS
<1>2. h = f
  BY <1>1, IdsApart
<1>3. MintedId(FileIds[f]) = requirementIdForFile(h, target)
  BY Zenon DEF MintedId
<1>4. QED
  BY <1>2, <1>3

LEMMA MintedFor ==
  ASSUME NEW id \in Ids, NEW f, MintedId(id) = requirementIdForFile(f, target)
  PROVE  f \in Files /\ id = FileIds[f]
<1>1. CASE \E g \in Files : FileIds[g] = id
  <2>1. PICK g \in Files : FileIds[g] = id
    BY <1>1
  <2>2. requirementIdForFile(g, target) = requirementIdForFile(f, target)
    BY <2>1, FileMinted
  <2>3. requirementIdForFile(g, target)[2] = g /\ requirementIdForFile(f, target)[2] = f
    BY DEF requirementIdForFile, requirementIdForScenario
  <2>4. QED
    BY <2>1, <2>2, <2>3
<1>2. CASE ~\E g \in Files : FileIds[g] = id
  <2>1. MintedId(id) = ReqOf[id]
    BY <1>2 DEF MintedId
  <2>2. MintedId(id)[1] \in {"floor", "scenario"}
    BY IdTags
  <2>3. QED
    BY <2>1, <2>2, IdsApart
<1>3. QED
  BY <1>1, <1>2

LEMMA RecFacts ==
  /\ \A id \in DOMAIN Rec : \E i \in Ids :
       /\ LinesOf(sink, i) # {} /\ MintedId(i) = id
       /\ Rec[id] = ReadRow(sink, i)
  /\ \A i \in Ids : LinesOf(sink, i) # {} => MintedId(i) \in DOMAIN Rec
<1> DEFINE read == ReadLedgerFile(sink)
           minted == {MintedId(i) : i \in DOMAIN read}
<1>1. /\ DOMAIN read = {i \in Ids : LinesOf(sink, i) # {}}
      /\ \A i \in DOMAIN read : read[i] = ReadRow(sink, i)
  BY DEF ReadLedgerFile
<1> HIDE DEF read
<1>2. Rec = [id \in minted |-> read[CHOOSE i \in DOMAIN read : MintedId(i) = id]]
  BY Zenon DEF Rec, read
<1>3. ASSUME NEW id \in DOMAIN Rec
      PROVE  \E i \in Ids : /\ LinesOf(sink, i) # {} /\ MintedId(i) = id
                            /\ Rec[id] = ReadRow(sink, i)
  <2> DEFINE i == CHOOSE i \in DOMAIN read : MintedId(i) = id
  <2>1. i \in DOMAIN read /\ MintedId(i) = id
    BY <1>2, <1>3
  <2>2. Rec[id] = read[i]
    BY <1>2, <1>3
  <2> HIDE DEF i
  <2>3. QED
    BY <1>1, <2>1, <2>2
<1>4. ASSUME NEW i \in Ids, LinesOf(sink, i) # {} PROVE MintedId(i) \in DOMAIN Rec
  BY <1>1, <1>2, <1>4
<1>5. QED
  BY <1>3, <1>4

(* rc.55: a file that recorded its row, of which no line was lost, is      *)
(* never judged by the report instead.                                     *)
LEMMA FileRecorded ==
  ASSUME RecordsInv, NEW f \in Files, Closed(f), faithful[f]
  PROVE  requirementIdForFile(f, target) \in DOMAIN Rec
<1>1. FileIds[f] \in Ids /\ LinesOf(sink, FileIds[f]) # {}
  BY RecorderAssumption DEF RecordsInv, Evidence, FileLines, FileRowSound
<1>2. QED
  BY <1>1, FileMinted, RecFacts

THEOREM RecordedRowsCount == CertifySpec => []RecordedRowsAreUsed
<1>1. ASSUME RunInv, RecordsInv PROVE RecordedRowsAreUsed
  <2> SUFFICES ASSUME stage = "derived", NEW f \in DOMAIN report, Closed(f), faithful[f]
               PROVE  requirementIdForFile(f, target) \in DOMAIN derived.rec
    BY DEF RecordedRowsAreUsed
  <2>1. f \in Files
    BY <1>1 DEF RunInv, StagesTyped
  <2>2. derived = DerivedFrom(report)
    BY <1>1 DEF RunInv, DerivedHeld, Released
  <2>3. derived.rec = Rec
    BY <2>2 DEF DerivedFrom
  <2>4. QED
    BY <1>1, <2>1, <2>3, FileRecorded
<1>2. QED
  BY <1>1, RecordsInvariant, PTL

-----------------------------------------------------------------------------
(* The row read for an id has the word of one of its lines, and counts     *)
(* when that line does.                                                    *)
LEMMA FilesFinite ==
  ASSUME LedgerInv, NEW id \in Ids
  PROVE  IsFiniteSet(FilesOf(sink, id))
<1>1. FilesOf(sink, id) \subseteq Files \cup {NoFile}
  BY FilesOfFacts DEF LedgerInv, LedgerTypeOK
<1>2. IsFiniteSet(Files \cup {NoFile})
  BY CertificationAssumption, FS_AddElement
<1>3. QED
  BY <1>1, <1>2, FS_Subset

LEMMA ReadRowFacts ==
  ASSUME LedgerInv, NEW id \in Ids, LinesOf(sink, id) # {}
  PROVE  \E i \in LinesOf(sink, id) :
           LET row == ReadRow(sink, id)
           IN  /\ row.disposition = sink[i].disposition
               /\ row.detail = sink[i].detail /\ row.file = sink[i].file
               /\ sink[i].count > 0 => row.count > 0
<1> DEFINE F == FilesOf(sink, id)
           d == DecidingFile(sink, id)
           rowOf(g) == RowOfFile(sink, id, g)
<1>1. sink \in Seq(Entry) /\ BestLine(sink) /\ BestFile(sink)
  BY DEF LedgerInv, LedgerTypeOK
<1>2. d \in F
  BY <1>1 DEF DecidingFile, BestFile
<1>3. \A g \in F : rowOf(g) \in Entry /\ \E i \in LinesIn(sink, id, g) : rowOf(g) = sink[i]
  BY <1>1, FilesOfFacts, RowRank
<1>4. PICK i \in LinesIn(sink, id, d) : rowOf(d) = sink[i]
  BY <1>2, <1>3
<1>5. i \in LinesOf(sink, id) /\ rowOf(d) \in Entry
  BY <1>2, <1>3, <1>4 DEF LinesIn
<1>6. /\ ReadRow(sink, id).disposition = rowOf(d).disposition
      /\ ReadRow(sink, id).detail = rowOf(d).detail /\ ReadRow(sink, id).file = rowOf(d).file
      /\ ReadRow(sink, id).count = SummedCount(sink, id)
  BY <1>5 DEF ReadRow, Entry
<1>7. ASSUME rowOf(d).count > 0 PROVE SummedCount(sink, id) > 0
  <2> DEFINE w == [g \in F |-> Counted(rowOf(g).count)]
  <2>1. \A g \in F : rowOf(g).count \in Nat \cup {NoCount}
    BY <1>3 DEF Entry
  <2>2. \A g \in F : Counted(rowOf(g).count) \in Nat
    BY <2>1 DEF Counted
  <2>3. IsFiniteSet(F)
    BY FilesFinite
  <2>4. ~\A g \in F : rowOf(g).count = NoCount
    BY <1>2, <1>7 DEF NoCount
  <2>5. SummedCount(sink, id) = MapThenSumSet(LAMBDA g : Counted(RowOfFile(sink, id, g).count), F)
    BY <2>4, Zenon DEF SummedCount
  <2>6. SummedCount(sink, id) = SumOver(w, F)
    <3>1. MapThenSumSet(LAMBDA g : Counted(RowOfFile(sink, id, g).count), F) =
            SumOver([g \in F |-> Counted(RowOfFile(sink, id, g).count)], F)
      BY <2>2, <2>3, SummedIsSum
    <3>2. QED
      BY <2>5, <3>1, Zenon
  <2>7. \A g \in F : w[g] \in Nat
    BY <2>2
  <2>8. w[d] > 0
    BY <1>2, <1>7, <2>1 DEF Counted, NoCount
  <2> HIDE DEF w, F
  <2>9. SumOver(w, F) > 0
    BY <1>2, <2>3, <2>7, <2>8, SumPositive
  <2>10. QED
    BY <2>6, <2>9
<1>8. QED
  BY <1>4, <1>5, <1>6, <1>7

(* The count it has is one.                                                *)
LEMMA ReadRowCount ==
  ASSUME LedgerInv, NEW id \in Ids, LinesOf(sink, id) # {}
  PROVE  ReadRow(sink, id).count \in Nat \cup {NoCount}
<1> DEFINE F == FilesOf(sink, id)
           rowOf(g) == RowOfFile(sink, id, g)
           w == [g \in F |-> Counted(rowOf(g).count)]
<1>1. sink \in Seq(Entry) /\ BestLine(sink) /\ BestFile(sink)
  BY DEF LedgerInv, LedgerTypeOK
<1>2. \A g \in F : rowOf(g) \in Entry
  BY <1>1, FilesOfFacts, RowRank
<1>3. DecidingFile(sink, id) \in F
  BY <1>1 DEF DecidingFile, BestFile
<1>4. ReadRow(sink, id).count = SummedCount(sink, id)
  BY <1>2, <1>3 DEF ReadRow, Entry
<1>5. \A g \in F : Counted(rowOf(g).count) \in Nat
  BY <1>2 DEF Entry, Counted
<1>6. IsFiniteSet(F)
  BY FilesFinite
<1>7. MapThenSumSet(LAMBDA g : Counted(RowOfFile(sink, id, g).count), F) = SumOver(w, F)
  BY <1>5, <1>6, SummedIsSum
<1>8. SumOver(w, F) \in Nat
  <2>1. \A g \in F : w[g] \in Nat
    BY <1>5
  <2> HIDE DEF w, F
  <2>2. QED
    BY <1>6, <2>1, SumOverFacts
<1> HIDE DEF w
<1>9. SummedCount(sink, id) \in Nat \cup {NoCount}
  BY <1>7, <1>8, Zenon DEF SummedCount
<1>10. QED
  BY <1>4, <1>9

-----------------------------------------------------------------------------
(* What a group's row counts is a sum over its files.                      *)
CountsOf(pairs) == [pair \in pairs |-> Assertions(pair[2])]

LEMMA SumOfIsSum ==
  ASSUME NEW S, IsFiniteSet(S), \A pair \in S : Assertions(pair[2]) \in Nat
  PROVE  SumOf(S) = SumOver(CountsOf(S), S)
<1> DEFINE w == CountsOf(S)
           A(g) == [s \in SUBSET S |->
                      IF s = {} THEN 0
                      ELSE Assertions((CHOOSE x \in s : TRUE)[2]) + g[s \ {CHOOSE x \in s : TRUE}]]
           G == CHOOSE g : g = A(g)
           H == Sums(w, S)
<1>1. SumOf(S) = G[S]
  BY Zenon DEF SumOf, MapThenSumSet, MapThenFoldSet
<1>2. \A x \in S : w[x] = Assertions(x[2]) /\ w[x] \in Nat
  BY DEF CountsOf
<1>3. /\ H \in [SUBSET S -> Nat]
      /\ \A s \in SUBSET S : H[s] = SumStep(w, s, H)
  <2> HIDE DEF w
  <2>1. QED
    BY <1>2, SumsFacts
<1> HIDE DEF w
<1>4. \A g : \A s \in SUBSET S : SumStep(w, s, g) = A(g)[s]
  <2>1. ASSUME NEW g, NEW s \in SUBSET S PROVE SumStep(w, s, g) = A(g)[s]
    <3>1. CASE s = {}
      BY <3>1 DEF SumStep
    <3>2. CASE s # {}
      <4>1. PickOf(s) \in S
        BY <3>2, PickFacts
      <4>2. w[PickOf(s)] = Assertions(PickOf(s)[2])
        BY <1>2, <4>1
      <4>3. QED
        BY <3>2, <4>2 DEF SumStep, PickOf
    <3>3. QED
      BY <3>1, <3>2
  <2>2. QED
    BY <2>1
<1>5. H = A(H)
  <2>1. \A s \in SUBSET S : H[s] = A(H)[s]
    BY <1>3, <1>4
  <2> DEFINE B == A(H)
  <2>2. B = [s \in SUBSET S |-> B[s]]
    OBVIOUS
  <2>3. H = [s \in SUBSET S |-> H[s]] /\ \A s \in SUBSET S : H[s] = B[s]
    BY <1>3, <2>1
  <2> HIDE DEF A, B, H
  <2>4. H = B
    BY <2>2, <2>3
  <2>5. QED
    BY <2>4 DEF B
<1>6. G = A(G)
  BY <1>5
<1>7. \A s \in SUBSET S : G[s] = SumStep(w, s, G)
  <2>1. \A s \in SUBSET S : G[s] = A(G)[s]
    <3> HIDE DEF G, A
    <3>1. QED
      BY <1>6
  <2> HIDE DEF G, A
  <2>2. QED
    BY <1>4, <2>1, Zenon
<1>8. G[S] = H[S]
  <2>1. \A x \in S : w[x] = w[x]
    OBVIOUS
  <2>2. IsFiniteSet(S) /\ \A s \in SUBSET S : H[s] = SumStep(w, s, H)
    BY <1>3
  <2> HIDE DEF G, H
  <2>3. \A s \in SUBSET S : G[s] = H[s]
    BY <1>2, <1>7, <2>1, <2>2, SumsAgree
  <2>4. QED
    BY <2>3
<1>9. QED
  BY <1>1, <1>8 DEF SumOver, w

(* A sum over rows that count is one that counts. *)
LEMMA SumCounts ==
  ASSUME NEW S, IsFiniteSet(S), S # {}, \A pair \in S : pair[2].count \in Nat \ {0}
  PROVE  SumOf(S) > 0
<1>1. \A pair \in S : Assertions(pair[2]) \in Nat /\ Assertions(pair[2]) > 0
  BY DEF Assertions
<1>2. SumOf(S) = SumOver(CountsOf(S), S)
  BY <1>1, SumOfIsSum
<1>3. \A pair \in S : CountsOf(S)[pair] \in Nat /\ CountsOf(S)[pair] > 0
  BY <1>1 DEF CountsOf
<1>4. SumOver(CountsOf(S), S) > 0
  BY <1>3, SumPositive
<1>5. QED
  BY <1>2, <1>4

-----------------------------------------------------------------------------
(* A bundle of a run that lost nothing has no defect.                       *)

SoundRow(row) ==
  StatesReason(row) /\ (row.disposition = "executed-pass" => WitnessedRow(row))

(* No line, no worker and no file was lost, and no scenario passed itself. *)
NothingLost ==
  \A f \in MajorFiles[target] :
    /\ faithful[f] /\ gone[f] = "no"
    /\ ~(SelfClassified(f) /\ FileRow(f).disposition = "executed-pass")

CountedRow(row) ==
  /\ row.disposition # "executed-pass" => row.detail # NoDetail
  /\ row.disposition = "executed-pass" => row.count \in Nat \ {0}

LEMMA CountedIsSound ==
  ASSUME NEW row, CountedRow(row)
  PROVE  SoundRow(row)
<1>1. row.disposition = "executed-pass" => row.count > 0
  BY DEF CountedRow
<1>2. QED
  BY <1>1 DEF CountedRow, SoundRow, StatesReason, WitnessedRow

(* The requirement of a file of the run. *)
LEMMA FileRequirement ==
  ASSUME RecordsInv, NothingLost, NEW f \in MajorFiles[target], f \in Files, Closed(f)
  PROVE  LET id == requirementIdForFile(f, target)
         IN  id \in DOMAIN Rec /\ CountedRow(Rec[id])
<1> DEFINE id == requirementIdForFile(f, target)
<1>1. faithful[f] /\ ~(SelfClassified(f) /\ FileRow(f).disposition = "executed-pass")
  BY DEF NothingLost
<1>2. id \in DOMAIN Rec
  BY <1>1, FileRecorded
<1>3. PICK i \in Ids : LinesOf(sink, i) # {} /\ MintedId(i) = id /\ Rec[id] = ReadRow(sink, i)
  BY <1>2, RecFacts
<1>4. i = FileIds[f]
  BY <1>3, MintedFor
<1>5. LedgerInv
  BY DEF RecordsInv, RecorderInv
<1>6. PICK k \in LinesOf(sink, i) :
        /\ Rec[id].disposition = sink[k].disposition
        /\ Rec[id].detail = sink[k].detail
        /\ sink[k].count > 0 => Rec[id].count > 0
  BY <1>3, <1>5, ReadRowFacts
<1>7. Rec[id].count \in Nat \cup {NoCount}
  BY <1>3, <1>5, ReadRowCount
<1>8. HasRequirement(f, FileIds[f]) /\ sink[k] = FileRow(f)
  BY <1>4, <1>6 DEF RecordsInv, Evidence, FileLines
<1>9. Explained(sink[k])
  <2>1. k \in DOMAIN sink
    BY <1>6 DEF LinesOf
  <2>2. QED
    BY <2>1 DEF RecordsInv, Evidence, RowsSound, Sound
<1>10. Rec[id].disposition = "executed-pass" => Rec[id].count > 0
  <2>1. Rec[id].disposition = "executed-pass" => ~SelfClassified(f)
    BY <1>1, <1>6, <1>8
  <2>2. Rec[id].disposition = "executed-pass" => FileRow(f).count > 0
    BY <1>6, <1>8, <2>1 DEF RecordsInv, Evidence, FileRowSound
  <2>3. QED
    BY <1>6, <1>8, <2>2
<1>11. QED
  BY <1>2, <1>6, <1>7, <1>9, <1>10 DEF CountedRow, Explained, NoCount

(* Any other requirement that has a row. *)
LEMMA AsideRequirement ==
  ASSUME RecordsInv, NEW id \in DOMAIN Rec,
         Rec[id].file \in MajorFiles[target], Rec[id].file \in Files,
         \A f \in MajorFiles[target] : requirementIdForFile(f, target) # id
  PROVE  CountedRow(Rec[id])
<1>1. PICK i \in Ids : LinesOf(sink, i) # {} /\ MintedId(i) = id /\ Rec[id] = ReadRow(sink, i)
  BY RecFacts
<1>2. LedgerInv
  BY DEF RecordsInv, RecorderInv
<1>3. PICK k \in LinesOf(sink, i) :
        /\ Rec[id].disposition = sink[k].disposition
        /\ Rec[id].detail = sink[k].detail /\ Rec[id].file = sink[k].file
        /\ sink[k].count > 0 => Rec[id].count > 0
  BY <1>1, <1>2, ReadRowFacts
<1>4. Rec[id].count \in Nat \cup {NoCount}
  BY <1>1, <1>2, ReadRowCount
<1>5. k \in DOMAIN sink /\ sink[k].id = i
  BY <1>3 DEF LinesOf
<1>6. Sound(sink[k])
  BY <1>5 DEF RecordsInv, Evidence, RowsSound
<1>7. i \notin FileRowIds
  <2> SUFFICES ASSUME NEW g \in Files, i = FileIds[g] PROVE FALSE
    BY DEF FileRowIds
  <2>1. HasRequirement(g, FileIds[g]) /\ sink[k] = FileRow(g)
    BY <1>3 DEF RecordsInv, Evidence, FileLines
  <2>2. FileRow(g).file \in {g, NoFile}
    BY <2>1 DEF RecordsInv, Evidence, FileRowSound, SelfEntry
  <2>3. Rec[id].file = g
    BY <1>3, <2>1, <2>2, ConstantsAssumption
  <2>4. id = requirementIdForFile(g, target)
    BY <1>1, FileMinted
  <2>5. QED
    BY <2>3, <2>4
<1>8. Rec[id].disposition = "executed-pass" => Rec[id].count > 0
  BY <1>3, <1>5, <1>6, <1>7 DEF Sound
<1>9. QED
  BY <1>3, <1>4, <1>6, <1>8 DEF CountedRow, Sound, Explained, NoCount

(* The row of a group of files whose rows count. *)
LEMMA GroupRowSound ==
  ASSUME NEW perFile, IsFiniteSet(perFile), \A pair \in perFile : CountedRow(pair[2]), NEW g
  PROVE  SoundRow(PrefixRow(g, perFile)) /\ SoundRow(AnyOfRow(g, perFile))
<1> DEFINE matching == {pair \in perFile : pair[1] \in g.files}
           passes == Having(matching, "executed-pass")
           witnessed == WitnessedIn(matching)
<1>1. "why" # NoDetail
  BY ReasonsAreDetails DEF Reasons
<1>2. passes \subseteq perFile /\ witnessed \subseteq passes
  BY DEF Having, WitnessedIn
<1>3. \A pair \in passes : pair[2].count \in Nat \ {0}
  BY DEF Having, CountedRow
<1>4. passes # {} => SumOf(passes) > 0
  <2>1. IsFiniteSet(passes)
    BY <1>2, FS_Subset
  <2> HIDE DEF passes
  <2>2. QED
    BY <1>3, <2>1, SumCounts
<1>5. witnessed # {} => SumOf(witnessed) > 0
  <2>1. IsFiniteSet(witnessed) /\ \A pair \in witnessed : pair[2].count \in Nat \ {0}
    BY <1>2, <1>3, FS_Subset
  <2> HIDE DEF witnessed
  <2>2. QED
    BY <2>1, SumCounts
<1>6. \A d \in {"executed-fail", "blocked"} : SoundRow(Row(g.files, d, "why", Unstated))
  BY <1>1 DEF SoundRow, StatesReason, Row
<1>7. \A n : n > 0 => SoundRow(Row(g.files, "executed-pass", NoDetail, n))
  BY DEF SoundRow, StatesReason, WitnessedRow, Row
<1>8. \/ passes # {} /\ PrefixRow(g, perFile) = Row(g.files, "executed-pass", NoDetail, SumOf(passes))
      \/ \E d \in {"executed-fail", "blocked"} :
           PrefixRow(g, perFile) = Row(g.files, d, "why", Unstated)
  BY Zenon DEF PrefixRow
<1>9. \/ /\ witnessed # {}
         /\ AnyOfRow(g, perFile) = Row(g.files, "executed-pass", NoDetail, SumOf(witnessed))
      \/ \E d \in {"executed-fail", "blocked"} :
           AnyOfRow(g, perFile) = Row(g.files, d, "why", Unstated)
  BY Zenon DEF AnyOfRow
<1> HIDE DEF passes, witnessed
<1>10. SoundRow(PrefixRow(g, perFile))
  BY <1>4, <1>6, <1>7, <1>8
<1>11. SoundRow(AnyOfRow(g, perFile))
  BY <1>5, <1>6, <1>7, <1>9
<1>12. QED
  BY <1>10, <1>11

LEMMA PerFileFinite ==
  ASSUME NEW heard, NEW rec, NEW major, IsFiniteSet(DOMAIN heard)
  PROVE  IsFiniteSet(PerFile(heard, rec, major))
<1> DEFINE pairOf == [f \in DOMAIN heard |->
              <<f, DerivedFileRow(f, requirementIdForFile(f, major), heard[f], rec,
                                  DOMAIN rec # {})>>]
           P == PerFile(heard, rec, major)
<1>1. P = {pairOf[f] : f \in DOMAIN heard}
  BY DEF PerFile
<1>2. pairOf \in [DOMAIN heard -> P] /\ \A pair \in P : \E f \in DOMAIN heard : pairOf[f] = pair
  BY <1>1
<1>3. pairOf \in Surjection(DOMAIN heard, P)
  BY <1>2, Zenon DEF Surjection
<1> HIDE DEF pairOf, P
<1>4. IsFiniteSet(P)
  BY <1>3, FS_Surjection
<1>5. QED
  BY <1>4 DEF P

LEMMA RowsOfRun ==
  ASSUME RecordsInv, NothingLost, MajorFiles[target] \subseteq Files,
         \A f \in MajorFiles[target] : Closed(f),
         NEW heard, DOMAIN heard = MajorFiles[target],
         NEW rows, rows = DerivedRows(heard, Rec, Claimed, target)
  PROVE  \A id \in DOMAIN rows : SoundRow(rows[id])
<1> DEFINE P == PerFile(heard, Rec, target)
           its == ItIdsIn(heard, Rec, Claimed, target)
           files == FileIdsIn(heard, target)
           groups == GroupIdsOf(Claimed, target)
<1>1. RowsAre(rows, heard, Rec, Claimed, target)
  BY RowFacts
<1>2. DOMAIN rows = files \cup groups \cup its
  BY <1>1, Zenon DEF RowsAre
<1>3. ASSUME NEW f \in MajorFiles[target]
      PROVE  LET id  == requirementIdForFile(f, target)
                 row == DerivedFileRow(f, id, heard[f], Rec, DOMAIN Rec # {})
             IN  CountedRow(row)
  <2> DEFINE id == requirementIdForFile(f, target)
             row == DerivedFileRow(f, id, heard[f], Rec, DOMAIN Rec # {})
  <2>1. f \in Files /\ Closed(f)
    OBVIOUS
  <2>2. id \in DOMAIN Rec /\ CountedRow(Rec[id])
    BY <2>1, FileRequirement
  <2> HIDE DEF id
  <2>3. row = Row({f}, Rec[id].disposition, Rec[id].detail, Rec[id].count)
    BY <2>2, Zenon DEF DerivedFileRow
  <2>4. CountedRow(row)
    BY <2>2, <2>3 DEF CountedRow, Row
  <2>5. QED
    BY <2>4 DEF id
<1>4. ASSUME NEW id \in its PROVE SoundRow(rows[id])
  <2>1. id \in DOMAIN Rec /\ id \notin files /\ Rec[id].file \in MajorFiles[target]
    BY <1>4 DEF ItIdsIn
  <2>2. \A f \in MajorFiles[target] : requirementIdForFile(f, target) # id
    BY <2>1 DEF FileIdsIn
  <2>3. CountedRow(Rec[id])
    BY <2>1, <2>2, AsideRequirement
  <2>4. rows[id] = Row({Rec[id].file}, Rec[id].disposition, Rec[id].detail, Rec[id].count)
    BY <1>1, <1>4, Zenon DEF RowsAre
  <2>5. CountedRow(rows[id])
    BY <2>3, <2>4 DEF CountedRow, Row
  <2>6. QED
    BY <2>5, CountedIsSound
<1>5. ASSUME NEW id \in files PROVE SoundRow(rows[id])
  <2>1. PICK f \in DOMAIN heard :
          /\ requirementIdForFile(f, target) = id
          /\ rows[id] = DerivedFileRow(f, id, heard[f], Rec, DOMAIN Rec # {})
    BY <1>1, <1>5, Zenon DEF RowsAre
  <2>2. CountedRow(rows[id])
    BY <1>3, <2>1
  <2>3. QED
    BY <2>2, CountedIsSound
<1>6. ASSUME NEW id \in groups \ files PROVE SoundRow(rows[id])
  <2>1. IsFiniteSet(P)
    <3>1. IsFiniteSet(DOMAIN heard)
      BY CertificationAssumption, FS_Subset
    <3>2. QED
      BY <3>1, PerFileFinite
  <2>2. \A pair \in P : CountedRow(pair[2])
    BY <1>3 DEF PerFile
  <2>3. \E g : rows[id] = PrefixRow(g, P) \/ rows[id] = AnyOfRow(g, P)
    BY <1>1, <1>6, Zenon DEF RowsAre
  <2>4. QED
    BY <2>1, <2>2, <2>3, GroupRowSound
<1> HIDE DEF its, files, groups
<1>7. QED
  BY <1>2, <1>4, <1>5, <1>6

(* What the emitter lists as certified, it may certify. *)
LEMMA RelaxedGrows ==
  ASSUME NEW families, NEW A, NEW B, A \subseteq B
  PROVE  profilesRelaxedBy(families, A) \subseteq profilesRelaxedBy(families, B)
BY DEF profilesRelaxedBy

LEMMA ClaimDerives ==
  ASSUME target \in 1 .. 2, NEW p \in Claimed
  PROVE  profileDerivable(document, p, target)
<1>1. CASE target = 2
  <2>1. p \in v2ProfileIds(document)
    BY <1>1, Zenon DEF Claimed, claimedProfiles
  <2>2. target # 1
    BY <1>1
  <2>3. profileDerivable(document, p, target) = (p \in v2ProfileIds(document))
    BY <1>1, <2>2, Zenon DEF profileDerivable
  <2>4. QED
    BY <2>1, <2>3, Zenon
<1>2. CASE target = 1
  <2>1. target # 2
    BY <1>2
  <2>2. \/ p \in deriveProfiles(document)
        \/ p = "openwop-core-standard" /\ isCoreStandard(document)
        \/ p = "openwop-agent-platform" /\ agentPlatformStatus(document) # "none"
    BY <2>1, Zenon DEF Claimed, claimedProfiles
  <2>3. /\ "openwop-core-standard" \notin deriveProfiles(document)
        /\ "openwop-agent-platform" \notin deriveProfiles(document)
    BY DEF deriveProfiles
  <2>4. CASE p = "openwop-core-standard"
    <3>1. isCoreStandard(document)
      BY <2>2, <2>3, <2>4
    <3>2. profileDerivable(document, p, target) = isCoreStandard(document)
      BY <1>2, <2>1, <2>4, Zenon DEF profileDerivable
    <3>3. QED
      BY <3>1, <3>2, Zenon
  <2>5. CASE p = "openwop-agent-platform"
    <3>1. agentPlatformStatus(document) # "none"
      BY <2>2, <2>3, <2>5
    <3>2. p # "openwop-core-standard"
      BY <2>5
    <3>3. profileDerivable(document, p, target) = (agentPlatformStatus(document) # "none")
      BY <1>2, <2>1, <2>5, <3>2, Zenon DEF profileDerivable
    <3>4. QED
      BY <3>1, <3>3, Zenon
  <2>6. CASE p # "openwop-core-standard" /\ p # "openwop-agent-platform"
    <3>1. p \in deriveProfiles(document)
      BY <2>2, <2>6
    <3>2. profileDerivable(document, p, target) = (p \in deriveProfiles(document))
      BY <1>2, <2>1, <2>6, Zenon DEF profileDerivable
    <3>3. QED
      BY <3>1, <3>2, Zenon
  <2>7. QED
    BY <2>4, <2>5, <2>6
<1>3. QED
  BY <1>1, <1>2

LEMMA NoDefects ==
  ASSUME NEW request, HostKey # VerifierKey, target \in 1 .. 2,
         "document" \notin request.leaks, \A id \in DOMAIN Rows : SoundRow(Rows[id])
  PROVE  Defects(BundleV3(request)) = {}
<1> DEFINE b == BundleV3(request)
           relaxed == profilesRelaxedBy(b.relaxations, DOMAIN b.claims)
           observed == profilesDeniedByObservedRelaxation(b.rows, DOMAIN b.claims)
           plain == RowRejections(b)
                    \cup When(b.witness # witnessDigest(b), "witness-digest")
                    \cup When(b.assertions # SumOfRows(b.rows), "assertion-count")
                    \cup When(b.signature.key = NoKey, "signature-missing")
                    \cup When(/\ b.signature.key # NoKey /\ HostKey # NoKey
                              /\ b.signature # signedBy(HostKey, b), "signature-invalid")
           named == About("undeclared-relaxation-observed", (CertifiedIn(b) \cap observed) \ relaxed)
                    \cup About("relaxed-profile-certified", CertifiedIn(b) \cap relaxed)
           left == When(TotalsOf(b.rows)["blocked"] > 0 /\ CertifiedIn(b) \ relaxed # {},
                        "blocked-certified")
<1>1. verifyBundleV3(b, HostKey, NoKey) =
        plain \cup IndependentRejections(b, NoKey) \cup named \cup left
              \cup DerivabilityRejections(b)
  BY Zenon DEF verifyBundleV3
<1>2. /\ b.rows = Rows /\ b.totals = TotalsOf(Rows) /\ b.document = document
      /\ b.docDigest = documentDigest(document, request.leaks) /\ b.major = target
      /\ b.claims = [p \in Claimed \ DEPRECATED_PROFILE_ALIASES |->
                          [tier |-> request.tier,
                           certified |-> CertifiedFlag(p, RelaxedFor(request))]]
      /\ b.assertions = SumOfRows(Rows) /\ b.relaxations = request.relaxations
      /\ b.leaks = {} /\ b.witness = witnessDigest(b) /\ b.signature = signedBy(HostKey, b)
      /\ request.tier = "independent" => b.verifierSignature = signedBy(VerifierKey, b)
  BY BundleV3Facts, SMTT(30)
<1>3. \A p \in CertifiedIn(b) : p \in Claimed /\ CertifiedFlag(p, RelaxedFor(request))
  BY CertifiedInV3
<1>4. HostKey # NoKey /\ VerifierKey # NoKey
  BY CertificationAssumption
<1> HIDE DEF b
<1>5. plain = {}
  <2>1. \A id \in DOMAIN b.rows :
          /\ StatesReason(b.rows[id])
          /\ b.rows[id].disposition = "executed-pass" => WitnessedRow(b.rows[id])
    BY <1>2 DEF SoundRow
  <2>2. RowRejections(b) = {}
    BY <1>2, <2>1, Zenon DEF RowRejections, When
  <2>3. b.signature.key = HostKey
    BY <1>2 DEF signedBy
  <2>4. QED
    BY <1>2, <1>4, <2>2, <2>3 DEF When
<1>6. named = {}
  <2>1. DOMAIN b.claims \subseteq Claimed
    BY <1>2
  <2>2. relaxed \subseteq RelaxedFor(request)
    BY <1>2, <2>1, RelaxedGrows DEF RelaxedFor
  <2>3. observed \subseteq RelaxedFor(request)
    <3>1. observed \subseteq profilesDeniedByObservedRelaxation(Rows, Claimed)
      BY <1>2, <2>1, RelaxedGrows, Zenon DEF profilesDeniedByObservedRelaxation
    <3>2. QED
      BY <3>1 DEF RelaxedFor
  <2> HIDE DEF relaxed, observed
  <2>4. CertifiedIn(b) \cap observed = {} /\ CertifiedIn(b) \cap relaxed = {}
    BY <1>3, <2>2, <2>3 DEF CertifiedFlag
  <2>5. QED
    BY <2>4 DEF About
<1>7. \A r \in left : r.kind \in Forgiven
  BY DEF When, Rejection, Forgiven
<1>8. \A r \in IndependentRejections(b, NoKey) : r.kind \in Forgiven
  <2>1. CASE ProfilesWith(b, "independent") = {}
    BY <2>1 DEF IndependentRejections
  <2>2. CASE ProfilesWith(b, "independent") # {}
    <3>1. request.tier = "independent"
      BY <1>2, <2>2 DEF ProfilesWith
    <3>2. b.verifierSignature.key = VerifierKey /\ b.signature.key = HostKey
      BY <1>2, <3>1 DEF signedBy
    <3>3. IndependentRejections(b, NoKey) = {Rejection("independent-unverifiable")}
      BY <1>4, <2>2, <3>2, Zenon DEF IndependentRejections
    <3>4. QED
      BY <3>3 DEF Rejection, Forgiven
  <2>3. QED
    BY <2>1, <2>2
<1>9. DerivabilityRejections(b) = {}
  <2>1. b.docDigest = documentDigest(b.document, b.leaks)
    BY <1>2 DEF documentDigest
  <2>2. \A p \in CertifiedIn(b) : profileDerivable(b.document, p, b.major)
    BY <1>2, <1>3, ClaimDerives
  <2>3. About("profile-not-derivable",
              {p \in CertifiedIn(b) : ~profileDerivable(b.document, p, b.major)}) = {}
    BY <2>2, Zenon DEF About
  <2>4. QED
    BY <2>1, <2>3, Zenon DEF DerivabilityRejections
<1> HIDE DEF plain, named, left
<1>10. Defects(b) = {}
  BY <1>1, <1>5, <1>6, <1>7, <1>8, <1>9 DEF Defects
<1>11. QED
  BY <1>10 DEF b

(* The mark of an emitter defect is no emitter defect: a bundle is refused *)
(* only when something was lost on the way, a scenario passed itself or    *)
(* the captured document held a secret. The two keys have to differ, as    *)
(* one key cannot attest independently of itself.                          *)
THEOREM DefectsAreLosses ==
  ASSUME HostKey # VerifierKey
  PROVE  CertifySpec => []OnlyLostRowsAreDefects
<1>1. ASSUME RunInv, RecordsInv PROVE OnlyLostRowsAreDefects
  <2> SUFFICES ASSUME outcome.written = "rejected", ~outcome.leaked, NothingLost
               PROVE  FALSE
    BY DEF OnlyLostRowsAreDefects, NothingLost
  <2>1. PICK request \in Requests : RefusedV3(request)
    BY <1>1, WrittenAs DEF RunInv
  <2>2. "document" \notin request.leaks
    <3>1. outcome.leaked = ("document" \in request.leaks)
      BY <2>1 DEF RefusedV3, Exits, None
    <3>2. QED
      BY <3>1
  <2>3. target \in 1 .. 2 /\ MajorFiles[target] \subseteq Files
    BY <1>1, CertificationAssumption DEF RunInv, StagesTyped
  <2>4. /\ \A f \in MajorFiles[target] : Settled(f)
        /\ \E died \in SUBSET {f \in Files : gone[f] = "died"} :
             report = [f \in MajorFiles[target] \ died |-> StateInReport(f)]
        /\ derived = DerivedFrom(report)
    BY <1>1 DEF RunInv, DerivedHeld, Released
  <2>5. \A f \in MajorFiles[target] : gone[f] = "no" /\ Closed(f)
    BY <2>4 DEF NothingLost, Settled
  <2>6. DOMAIN report = MajorFiles[target]
    <3>1. PICK died \in SUBSET {f \in Files : gone[f] = "died"} :
            report = [f \in MajorFiles[target] \ died |-> StateInReport(f)]
      BY <2>4
    <3>2. MajorFiles[target] \ died = MajorFiles[target]
      BY <2>5
    <3>3. QED
      BY <3>1, <3>2
  <2>7. Rows = DerivedRows(report, Rec, Claimed, target)
    BY <2>4 DEF DerivedFrom, Rows
  <2>8. \A id \in DOMAIN Rows : SoundRow(Rows[id])
    BY <1>1, <2>3, <2>5, <2>6, <2>7, RowsOfRun
  <2>9. Defects(BundleV3(request)) = {}
    BY <2>2, <2>3, <2>8, NoDefects
  <2>10. QED
    BY <2>1, <2>9 DEF RefusedV3
<1>2. QED
  BY <1>1, RecordsInvariant, PTL

-----------------------------------------------------------------------------
(* The run seen as a certifier.                                            *)

Stands == [f \in Files |-> StandingOf(f)]
Issued ==
  IF outcome.written \in {"v2", "v3"}
  THEN {ClaimOf(p, document, target, outcome.written) : p \in outcome.certified}
  ELSE {}

Earned(claim) ==
  /\ \A f \in claim.files : Stands[f] \in
       {"witnessed", "inapplicable"} \cup (IF claim.strict THEN {} ELSE {"withheld"})
  /\ \A g \in claim.groups : \E f \in g : Stands[f] = "witnessed"
  /\ \A f \in claim.clean : Stands[f] # "failed"
  /\ claim.strict => \E f \in claim.files : Stands[f] = "witnessed"

LEMMA HonestSettles ==
  ASSUME NEW f \in Files, Stands[f] = "open",
         \E s \in {"witnessed", "inapplicable", "withheld", "failed", "denied"} :
           Stands' = [Stands EXCEPT ![f] = s],
         Issued' = Issued
  PROVE  Honest!Next
<1>1. Honest!Settle(f)
  BY DEF Honest!Settle, Honest!Standings, Stands, Issued
<1>2. QED
  BY <1>1 DEF Honest!Next

LEMMA HonestIssues ==
  ASSUME Stands' = Stands, Issued = {}, Issued' \subseteq {claim \in AllClaims : Earned(claim)}
  PROVE  Honest!Next
<1>1. \A claim : Honest!Earned(claim) <=> Earned(claim)
  BY Zenon DEF Honest!Earned, Honest!Accepted, Earned, Stands
<1>2. Honest!Issue
  BY <1>1, Zenon DEF Honest!Issue, Honest!NoCertificate, Stands, Issued
<1>3. QED
  BY <1>2 DEF Honest!Next

LEMMA HonestStutters ==
  ASSUME Stands' = Stands, Issued' = Issued
  PROVE  UNCHANGED Honest!vars
BY DEF Honest!vars, Stands, Issued

LEMMA HonestStart ==
  ASSUME CertifyInit
  PROVE  Honest!Init
<1>1. \A f \in Files : ~Settled(f)
  BY DEF CertifyInit, RecorderInit, Settled, Closed
<1>2. \A f \in Files : StandingOf(f) = "open"
  BY <1>1, Zenon DEF StandingOf
<1>3. Issued = {}
  BY DEF CertifyInit, None, Issued
<1>4. QED
  BY <1>2, <1>3, Zenon DEF Honest!Init, Honest!NoCertificate, Issued

-----------------------------------------------------------------------------
(* A file of the other major is never run, a file that is over has all its *)
(* tests behind it, and one that was lost never gets there.                *)
NotRun(f) == phase[f] = "loading" /\ gone[f] = "no" /\ ~HasRequirement(f, FileIds[f])
RunToItsEnd(f) ==
  /\ stage = "discovering" \/ f \notin MajorFiles[target] => NotRun(f)
  /\ Closed(f) => gone[f] = "no" /\ DOMAIN tasks[f] = LegsOf(f)

(* What a file stands for, and whether it is settled, is its own affair.   *)
LEMMA StandsAlone ==
  ASSUME NEW f, phase'[f] = phase[f], gone'[f] = gone[f], tasks'[f] = tasks[f],
         did'[f] = did[f], ledger'[f] = ledger[f]
  PROVE  /\ StandingOf(f)' = StandingOf(f)
         /\ RunToItsEnd(f) /\ UNCHANGED <<stage, target>> => RunToItsEnd(f)'
<1>1. /\ Settled(f)' <=> Settled(f)
      /\ Closed(f)' <=> Closed(f)
      /\ SelfClassified(f)' <=> SelfClassified(f)
      /\ FileRow(f)' = FileRow(f) /\ LegsOf(f)' = LegsOf(f)
      /\ HasRequirement(f, FileIds[f])' <=> HasRequirement(f, FileIds[f])
  BY DEF Settled, Closed, SelfClassified, FileRow, LegsOf, HasRequirement
<1>2. FailedWithCause(f)' <=> FailedWithCause(f)
  BY <1>1 DEF FailedWithCause
<1>3. StandingOf(f)' = StandingOf(f)
  BY <1>1, <1>2, Zenon DEF StandingOf
<1>4. RunToItsEnd(f) /\ UNCHANGED <<stage, target>> => RunToItsEnd(f)'
  BY <1>1 DEF RunToItsEnd, NotRun
<1>5. QED
  BY <1>3, <1>4

(* A settled file takes no step. *)
LEMMA SettledRests ==
  ASSUME RecorderTypeOK, NEW f \in Files, FileStep(f), Alive(f)
  PROVE  ~Settled(f) /\ stage = "running" /\ f \in MajorFiles[target]
BY PhaseSteps DEF FileStep, Hooks, Alive, Settled, Closed

LEMMA ClosedInFull ==
  ASSUME RecorderTypeOK, NEW f \in Files, FileStep(f), ~Closed(f), Closed(f)'
  PROVE  DOMAIN tasks'[f] = LegsOf(f)
<1>1. AfterAll(f) /\ tasks'[f] = tasks[f]
  BY PhaseSteps DEF FileStep, Hooks, Closed
<1>2. Current(f) > Legs[f] /\ Len(tasks[f]) <= Legs[f] /\ tasks[f] \in Seq(Tasks)
  BY <1>1 DEF AfterAll, RecorderTypeOK
<1>3. QED
  BY <1>1, <1>2, LegConduct DEF Current, LegsOf

(* The steps of the run, as its files feel them. *)
LEMMA FilesMove ==
  ASSUME RecordsInv, StagesTyped, [CertifyNext]_certVars
  PROVE  \/ UNCHANGED <<allVars, gone>>
         \/ \E f \in Files :
              /\ stage = "running" /\ f \in MajorFiles[target] /\ ~Settled(f)
              /\ UNCHANGED <<stage, target, document, report, derived, outcome>>
              /\ \/ FileStep(f) /\ UNCHANGED gone
                 \/ UNCHANGED allVars /\ \E lost \in {"unloaded", "died"} :
                                           gone' = [gone EXCEPT ![f] = lost]
<1>1. CASE UNCHANGED certVars
  BY <1>1 DEF certVars, runVars
<1>2. CASE Discover \/ DiscoveryFails
  BY <1>2 DEF Discover, Capture, DiscoveryFails
<1>3. ASSUME NEW f \in Files, Step(f)
      PROVE  /\ stage = "running" /\ f \in MajorFiles[target] /\ ~Settled(f)
             /\ UNCHANGED <<stage, target, document, report, derived, outcome>>
             /\ FileStep(f) /\ UNCHANGED gone
  <2>1. FileStep(f) /\ Alive(f) /\ UNCHANGED runVars
    BY <1>3 DEF Step, FileStep
  <2>2. RecorderTypeOK
    BY DEF RecordsInv, RecorderInv
  <2>3. QED
    BY <2>1, <2>2, SettledRests DEF runVars
<1>4. ASSUME NEW f \in Files, FailToLoad(f) \/ WorkerDies(f)
      PROVE  /\ stage = "running" /\ f \in MajorFiles[target] /\ ~Settled(f)
             /\ UNCHANGED <<stage, target, document, report, derived, outcome>>
             /\ UNCHANGED allVars
             /\ \E lost \in {"unloaded", "died"} : gone' = [gone EXCEPT ![f] = lost]
  BY <1>4 DEF FailToLoad, WorkerDies, Alive, Settled, Closed
<1>5. CASE Report
  BY <1>5 DEF Report, ReportMissing, VitestExits
<1>6. CASE Emit
  BY <1>6, Zenon DEF Emit, EmitV1, EmitV2, EmitV3, NothingToSign, Exit
<1>7. QED
  BY <1>1, <1>2, <1>3, <1>4, <1>5, <1>6 DEF CertifyNext

(* A step on which no file moves, and one on which one does. *)
LEMMA FilesRest ==
  ASSUME UNCHANGED <<allVars, gone>>
  PROVE  /\ Stands' = Stands
         /\ \A f : /\ phase'[f] = phase[f] /\ gone'[f] = gone[f] /\ tasks'[f] = tasks[f]
                   /\ did'[f] = did[f] /\ ledger'[f] = ledger[f]
<1>1. \A f : /\ phase'[f] = phase[f] /\ gone'[f] = gone[f] /\ tasks'[f] = tasks[f]
             /\ did'[f] = did[f] /\ ledger'[f] = ledger[f]
  BY DEF allVars, vars, ledgerVars, recorderVars, resultVars
<1>2. \A f : StandingOf(f)' = StandingOf(f)
  BY <1>1, StandsAlone
<1>3. QED
  BY <1>1, <1>2, Zenon DEF Stands

LEMMA OneFileMoves ==
  ASSUME RecordsInv, StagesTyped, NEW f \in Files,
         \/ FileStep(f) /\ UNCHANGED gone
         \/ UNCHANGED allVars /\ \E lost \in {"unloaded", "died"} :
                                    gone' = [gone EXCEPT ![f] = lost]
  PROVE  \A g \in Files \ {f} :
           /\ phase'[g] = phase[g] /\ gone'[g] = gone[g] /\ tasks'[g] = tasks[g]
           /\ did'[g] = did[g] /\ ledger'[g] = ledger[g]
<1>1. CASE FileStep(f) /\ UNCHANGED gone
  <2>1. RecorderTypeOK /\ LegsInTurn
    BY DEF RecordsInv, RecorderInv
  <2>2. \A g \in Files \ {f} : Standing(g)
    BY <1>1, <2>1, OthersStand DEF FileStep
  <2>3. QED
    BY <1>1, <2>2 DEF Standing
<1>2. CASE UNCHANGED allVars /\ \E lost \in {"unloaded", "died"} : gone' = [gone EXCEPT ![f] = lost]
  <2>1. UNCHANGED <<phase, tasks, did, ledger>>
    BY <1>2 DEF allVars, vars, ledgerVars, recorderVars, resultVars
  <2>2. \A g \in Files \ {f} : gone'[g] = gone[g]
    BY <1>2 DEF StagesTyped
  <2>3. QED
    BY <2>1, <2>2
<1>3. QED
  BY <1>1, <1>2

EndsHeld == \A f \in Files : RunToItsEnd(f)

LEMMA EndsHeldStep ==
  ASSUME RecordsInv, StagesTyped, StagesTyped', EndsHeld, [CertifyNext]_certVars
  PROVE  EndsHeld'
<1>1. CASE UNCHANGED <<allVars, gone>>
  <2>1. \A f : /\ phase'[f] = phase[f] /\ gone'[f] = gone[f] /\ tasks'[f] = tasks[f]
               /\ did'[f] = did[f] /\ ledger'[f] = ledger[f]
    BY <1>1, FilesRest
  <2>2. CASE stage = "discovering"
    <3>1. \A f \in Files : NotRun(f)'
      BY <2>1, <2>2 DEF EndsHeld, RunToItsEnd, NotRun, HasRequirement
    <3>2. QED
      BY <3>1 DEF EndsHeld, RunToItsEnd, NotRun, Closed
  <2>3. CASE stage # "discovering"
    <3>1. target' = target /\ stage' # "discovering"
      BY <2>3 DEF CertifyNext, Discover, Capture, DiscoveryFails, Step, FailToLoad, WorkerDies,
                  Alive, Report, ReportMissing, VitestExits, Emit, EmitV1, EmitV2, EmitV3,
                  NothingToSign, Exit, certVars, runVars
    <3>2. ASSUME NEW f \in Files PROVE RunToItsEnd(f)'
      BY <2>1, <3>1 DEF EndsHeld, RunToItsEnd, NotRun, HasRequirement, Closed, LegsOf
    <3>3. QED
      BY <3>2 DEF EndsHeld
  <2>4. QED
    BY <2>2, <2>3
<1>2. ASSUME NEW f \in Files,
             stage = "running", f \in MajorFiles[target], ~Settled(f),
             UNCHANGED <<stage, target, document, report, derived, outcome>>,
             \/ FileStep(f) /\ UNCHANGED gone
             \/ UNCHANGED allVars /\ \E lost \in {"unloaded", "died"} :
                                       gone' = [gone EXCEPT ![f] = lost]
      PROVE  EndsHeld'
  <2>1. ASSUME NEW g \in Files \ {f} PROVE RunToItsEnd(g)'
    BY <1>2, <2>1, OneFileMoves, StandsAlone DEF EndsHeld
  <2>2. stage' = "running" /\ f \in MajorFiles[target']
    BY <1>2
  <2>3. ASSUME Closed(f)' PROVE gone'[f] = "no" /\ DOMAIN tasks'[f] = LegsOf(f)
    <3>1. FileStep(f) /\ gone' = gone
      BY <1>2, <2>3 DEF Settled, Closed, allVars, recorderVars
    <3>2. DOMAIN tasks'[f] = LegsOf(f)
      BY <1>2, <2>3, <3>1, ClosedInFull DEF RecordsInv, RecorderInv, Settled
    <3>3. QED
      BY <1>2, <3>1, <3>2 DEF Settled
  <2>4. RunToItsEnd(f)'
    BY <2>2, <2>3 DEF RunToItsEnd, LegsOf
  <2>5. QED
    BY <2>1, <2>4 DEF EndsHeld
<1>3. QED
  BY <1>1, <1>2, FilesMove

LEMMA EndsHeldInit == CertifyInit => EndsHeld
<1> SUFFICES ASSUME CertifyInit, NEW f \in Files PROVE NotRun(f) /\ ~Closed(f)
  BY DEF EndsHeld, RunToItsEnd
<1>1. /\ phase = [g \in Files |-> "loading"] /\ gone = [g \in Files |-> "no"]
      /\ FileIds[f] \in Ids /\ LedgerInit
  BY RecorderAssumption DEF CertifyInit, RecorderInit
<1>2. QED
  BY <1>1 DEF LedgerInit, NotRun, Closed, HasRequirement

-----------------------------------------------------------------------------
(* What the ledger says of a file, the file stands for.                    *)

(* A row all of whose lines count nothing counts nothing. *)
LEMMA ReadUncounted ==
  ASSUME LedgerInv, NEW id \in Ids, LinesOf(sink, id) # {},
         \A i \in LinesOf(sink, id) : sink[i].count = NoCount
  PROVE  ReadRow(sink, id).count = NoCount
<1> DEFINE F == FilesOf(sink, id)
           rowOf(g) == RowOfFile(sink, id, g)
<1>1. sink \in Seq(Entry) /\ BestLine(sink) /\ BestFile(sink)
  BY DEF LedgerInv, LedgerTypeOK
<1>2. \A g \in F : rowOf(g) \in Entry /\ \E i \in LinesIn(sink, id, g) : rowOf(g) = sink[i]
  BY <1>1, FilesOfFacts, RowRank
<1>3. DecidingFile(sink, id) \in F
  BY <1>1 DEF DecidingFile, BestFile
<1>4. ReadRow(sink, id).count = SummedCount(sink, id)
  BY <1>2, <1>3 DEF ReadRow, Entry
<1>5. \A g \in F : RowOfFile(sink, id, g).count = NoCount
  BY <1>2 DEF LinesIn
<1>6. SummedCount(sink, id) = NoCount
  BY <1>5, Zenon DEF SummedCount
<1>7. QED
  BY <1>4, <1>6

(* The standing of a file by its own word, and by its tests.               *)
LEMMA StandsByItsWord ==
  ASSUME NEW f, Settled(f), SelfClassified(f)
  PROVE  LET d == FileRow(f).disposition
         IN  /\ d = "inapplicable" => StandingOf(f) = "inapplicable"
             /\ d = "skipped" => StandingOf(f) = "withheld"
             /\ d \notin {"inapplicable", "skipped"} => StandingOf(f) = "denied"
BY DEF StandingOf

LEMMA StandsByItsTests ==
  ASSUME NEW f, Closed(f), gone[f] = "no", ~SelfClassified(f)
  PROVE  StandingOf(f) =
           IF \E n \in LegsOf(f) : tasks[f][n].state = "fail"
           THEN IF FailedWithCause(f) THEN "failed" ELSE "denied"
           ELSE IF \E n \in LegsOf(f) : Witnessing(f, n) THEN "witnessed"
           ELSE IF "inapplicable" \in ReasonsOf(f) \/ f \in CoherenceFiles THEN "inapplicable"
           ELSE IF "skipped" \in ReasonsOf(f) \/ \E n \in LegsOf(f) : tasks[f][n].state = "skip"
           THEN "withheld" ELSE "denied"
BY DEF StandingOf, Settled, ReasonsOf, Witnessing

(* The row of a file that closed. *)
LEMMA BearsOut ==
  ASSUME NEW f, Closed(f), gone[f] = "no", ~SelfClassified(f), NEW d, Bears(f, d)
  PROVE  /\ d = "executed-pass" => StandingOf(f) = "witnessed"
         /\ d = "inapplicable" => StandingOf(f) \in {"witnessed", "inapplicable"}
         /\ d = "skipped" => StandingOf(f) \in {"witnessed", "inapplicable", "withheld"}
         /\ d # "executed-fail" => StandingOf(f) # "failed"
<1> DEFINE failing == \E n \in LegsOf(f) : tasks[f][n].state = "fail"
           witnessing == \E n \in LegsOf(f) : Witnessing(f, n)
           excused == "inapplicable" \in ReasonsOf(f) \/ f \in CoherenceFiles
           skipping == "skipped" \in ReasonsOf(f) \/ \E n \in LegsOf(f) : tasks[f][n].state = "skip"
<1>1. StandingOf(f) = IF failing THEN IF FailedWithCause(f) THEN "failed" ELSE "denied"
                      ELSE IF witnessing THEN "witnessed"
                      ELSE IF excused THEN "inapplicable"
                      ELSE IF skipping THEN "withheld" ELSE "denied"
  BY StandsByItsTests
<1>2. d \in CERTIFIABLE => ~failing
  BY DEF Bears
<1>3. d = "executed-pass" => witnessing
  BY DEF Bears
<1>4. d = "inapplicable" => excused
  BY DEF Bears
<1>5. d = "skipped" => witnessing \/ excused \/ skipping
  BY DEF Bears, SkippedItself
<1>6. d # "executed-fail" => ~FailedWithCause(f)
  BY DEF Bears, FailedWithCause, Witnessing
<1> HIDE DEF failing, witnessing, excused, skipping
<1>7. QED
  BY <1>1, <1>2, <1>3, <1>4, <1>5, <1>6 DEF CERTIFIABLE

AllSettled == stage # "discovering" /\ \A f \in MajorFiles[target] : Settled(f)

(* d, counting n assertions, is the word of the ledger on f.               *)
StandsTo(f, d, n) ==
  /\ d = "executed-pass" /\ n > 0 => StandingOf(f) = "witnessed"
  /\ d = "inapplicable" => StandingOf(f) \in {"witnessed", "inapplicable"}
  /\ d = "skipped" => StandingOf(f) \in {"witnessed", "inapplicable", "withheld"}
  /\ d # "executed-fail" => StandingOf(f) # "failed"

LEMMA RecordedStands ==
  ASSUME RecordsInv, EndsHeld, AllSettled,
         NEW f, requirementIdForFile(f, target) \in DOMAIN Rec
  PROVE  LET row == Rec[requirementIdForFile(f, target)]
         IN  f \in Files /\ f \in MajorFiles[target] /\ StandsTo(f, row.disposition, row.count)
<1> DEFINE id == requirementIdForFile(f, target)
<1>1. PICK i \in Ids : LinesOf(sink, i) # {} /\ MintedId(i) = id /\ Rec[id] = ReadRow(sink, i)
  BY RecFacts
<1>2. f \in Files /\ i = FileIds[f]
  BY <1>1, MintedFor
<1>3. LedgerInv /\ FileRowAwaited /\ FileRowsAccounted
  BY DEF RecordsInv, RecorderInv, TraceInv
<1>4. /\ HasRequirement(f, FileIds[f])
      /\ \A k \in LinesOf(sink, i) : sink[k] = FileRow(f)
  BY <1>1, <1>2 DEF RecordsInv, Evidence, FileLines
<1>5. f \in MajorFiles[target] /\ Settled(f)
  BY <1>2, <1>4 DEF EndsHeld, RunToItsEnd, NotRun, AllSettled
<1>6. Rec[id].disposition = FileRow(f).disposition
  BY <1>1, <1>3, <1>4, ReadRowFacts
<1>7. CASE SelfClassified(f)
  <2>1. FileRow(f).count = NoCount
    BY <1>2, <1>4, <1>7 DEF RecordsInv, Evidence, FileRowSound, SelfEntry
  <2>2. Rec[id].count = NoCount
    BY <1>1, <1>3, <1>4, <2>1, ReadUncounted
  <2>3. ~(Rec[id].count > 0)
    BY <2>2 DEF NoCount
  <2> HIDE DEF id
  <2>4. StandsTo(f, Rec[id].disposition, Rec[id].count)
    BY <1>5, <1>6, <1>7, <2>3, StandsByItsWord DEF StandsTo
  <2>5. QED
    BY <1>2, <1>5, <2>4 DEF id
<1>8. CASE ~SelfClassified(f)
  <2>1. Closed(f)
    BY <1>2, <1>3, <1>4, <1>8 DEF FileRowAwaited, Closed
  <2>2. gone[f] = "no"
    BY <1>2, <2>1 DEF EndsHeld, RunToItsEnd
  <2>3. Bears(f, FileRow(f).disposition)
    BY <1>2, <1>3, <1>8, <2>1 DEF FileRowsAccounted
  <2> HIDE DEF id
  <2>4. StandsTo(f, Rec[id].disposition, Rec[id].count)
    BY <1>6, <1>8, <2>1, <2>2, <2>3, BearsOut DEF StandsTo
  <2>5. QED
    BY <1>2, <1>5, <2>4 DEF id
<1>9. QED
  BY <1>7, <1>8

(* A file that stands for a failure is one that the report says failed.    *)
LEMMA UnrecordedStands ==
  ASSUME EndsHeld, AllSettled, NEW f \in Files,
         f \in MajorFiles[target] /\ gone[f] = "no" => StateInReport(f) # "failed"
  PROVE  StandingOf(f) # "failed"
<1>1. CASE ~Settled(f)
  BY <1>1 DEF StandingOf
<1>2. CASE Settled(f) /\ SelfClassified(f)
  BY <1>2, StandsByItsWord
<1>3. CASE Settled(f) /\ ~SelfClassified(f) /\ gone[f] # "no"
  BY <1>3 DEF StandingOf
<1>4. CASE Settled(f) /\ ~SelfClassified(f) /\ gone[f] = "no"
  <2>1. Closed(f)
    BY <1>4 DEF Settled
  <2>2. f \in MajorFiles[target] /\ DOMAIN tasks[f] = LegsOf(f)
    BY <2>1 DEF EndsHeld, RunToItsEnd, NotRun, Closed, AllSettled
  <2>3. ~\E n \in LegsOf(f) : tasks[f][n].state = "fail"
    BY <1>4, <2>2 DEF StateInReport
  <2>4. QED
    BY <1>4, <2>1, <2>3, StandsByItsTests
<1>5. QED
  BY <1>1, <1>2, <1>3, <1>4

-----------------------------------------------------------------------------
(* What the rows say, the files stand for.                                 *)

(* The report says of each file what its tests say, and leaves out none    *)
(* but of a worker that died.                                              *)
TrueReport(heard) ==
  /\ DOMAIN heard \subseteq MajorFiles[target] \cap Files
  /\ \A f \in DOMAIN heard : heard[f] = StateInReport(f)
  /\ \A f \in MajorFiles[target] \ DOMAIN heard : gone[f] = "died"

ReadAtEnd(rows) ==
  /\ RecordsInv /\ EndsHeld /\ AllSettled /\ target \in 1 .. 2
  /\ TrueReport(report) /\ rows = DerivedRows(report, Rec, Claimed, target)

RecordedRow(f) ==
  DerivedFileRow(f, requirementIdForFile(f, target), report[f], Rec, DOMAIN Rec # {})

LEMMA ReportedStands ==
  ASSUME NEW rows, ReadAtEnd(rows), NEW f \in DOMAIN report
  PROVE  /\ f \in Files
         /\ StandsTo(f, RecordedRow(f).disposition, RecordedRow(f).count)
         /\ RecordedRow(f).count \in Nat \cup {Unstated}
<1> DEFINE id == requirementIdForFile(f, target)
<1>1. f \in Files /\ report[f] = StateInReport(f)
  BY DEF ReadAtEnd, TrueReport
<1>2. CASE id \in DOMAIN Rec
  <2>1. /\ RecordedRow(f).disposition = Rec[id].disposition
        /\ RecordedRow(f).count = Rec[id].count
    BY <1>2 DEF RecordedRow, DerivedFileRow, Row
  <2>2. StandsTo(f, Rec[id].disposition, Rec[id].count)
    BY <1>2, RecordedStands DEF ReadAtEnd
  <2>3. PICK i \in Ids : LinesOf(sink, i) # {} /\ Rec[id] = ReadRow(sink, i)
    BY <1>2, RecFacts
  <2>4. Rec[id].count \in Nat \cup {NoCount}
    BY <2>3, ReadRowCount DEF ReadAtEnd, RecordsInv, RecorderInv
  <2>5. QED
    BY <1>1, <2>1, <2>2, <2>4 DEF NoCount, Unstated
<1>3. CASE id \notin DOMAIN Rec
  <2>1. /\ RecordedRow(f).disposition =
             (CASE report[f] = "passed" -> "executed-pass"
                [] report[f] = "failed" -> "executed-fail"
                [] report[f] = "skipped" -> "blocked")
        /\ RecordedRow(f).count = Unstated
    BY <1>1, <1>3 DEF RecordedRow, DerivedFileRow, Row, StateInReport
  <2>2. report[f] # "failed" => StandingOf(f) # "failed"
    BY <1>1, UnrecordedStands DEF ReadAtEnd
  <2>3. report[f] \in {"passed", "failed", "skipped"}
    BY <1>1 DEF StateInReport
  <2>4. ~(Unstated > 0)
    BY DEF Unstated
  <2>5. QED
    BY <1>1, <2>1, <2>2, <2>3, <2>4 DEF StandsTo
<1>4. QED
  BY <1>2, <1>3

LEMMA FileRowStands ==
  ASSUME NEW rows, ReadAtEnd(rows), NEW f, requirementIdForFile(f, target) \in DOMAIN rows
  PROVE  LET row == rows[requirementIdForFile(f, target)]
         IN  f \in Files /\ StandsTo(f, row.disposition, row.count)
<1> DEFINE id == requirementIdForFile(f, target)
<1>1. RowsAre(rows, report, Rec, Claimed, target)
  BY RowFacts DEF ReadAtEnd
<1>2. id \notin GroupIdsOf(Claimed, target)
  BY IdTags DEF GroupIdsOf
<1>3. CASE id \in FileIdsIn(report, target)
  <2>1. PICK g \in DOMAIN report :
          /\ requirementIdForFile(g, target) = id
          /\ rows[id] = DerivedFileRow(g, id, report[g], Rec, DOMAIN Rec # {})
    BY <1>1, <1>3, Zenon DEF RowsAre
  <2>2. g = f
    <3>1. requirementIdForFile(g, target)[2] = g /\ requirementIdForFile(f, target)[2] = f
      BY DEF requirementIdForFile, requirementIdForScenario
    <3>2. QED
      BY <2>1, <3>1
  <2>3. f \in DOMAIN report /\ rows[id] = RecordedRow(f)
    BY <2>1, <2>2 DEF RecordedRow
  <2>4. QED
    BY <2>3, ReportedStands
<1>4. CASE id \in ItIdsIn(report, Rec, Claimed, target)
  <2>1. id \in DOMAIN Rec
    BY <1>4 DEF ItIdsIn
  <2>2. rows[id] = Row({Rec[id].file}, Rec[id].disposition, Rec[id].detail, Rec[id].count)
    BY <1>1, <1>4, Zenon DEF RowsAre
  <2>3. rows[id].disposition = Rec[id].disposition /\ rows[id].count = Rec[id].count
    BY <2>2 DEF Row
  <2>4. f \in Files /\ StandsTo(f, Rec[id].disposition, Rec[id].count)
    BY <2>1, RecordedStands DEF ReadAtEnd
  <2>5. QED
    BY <2>3, <2>4
<1>5. DOMAIN rows = FileIdsIn(report, target) \cup GroupIdsOf(Claimed, target)
                     \cup ItIdsIn(report, Rec, Claimed, target)
  BY <1>1, Zenon DEF RowsAre
<1>6. QED
  BY <1>2, <1>3, <1>4, <1>5

(* A row a reader accepts: one that may count for a claim, and counts if   *)
(* it passes.                                                              *)
Accepting(row) ==
  row.disposition \in CERTIFIABLE /\ (row.disposition = "executed-pass" => WitnessedRow(row))

LEMMA AcceptedFile ==
  ASSUME NEW rows, ReadAtEnd(rows), NEW f, requirementIdForFile(f, target) \in DOMAIN rows,
         Accepting(rows[requirementIdForFile(f, target)])
  PROVE  LET row == rows[requirementIdForFile(f, target)]
         IN  /\ f \in Files
             /\ Stands[f] \in {"witnessed", "inapplicable", "withheld"}
             /\ row.disposition # "skipped" => Stands[f] \in {"witnessed", "inapplicable"}
             /\ WitnessedRow(row) => Stands[f] = "witnessed"
<1> DEFINE row == rows[requirementIdForFile(f, target)]
<1>1. f \in Files /\ StandsTo(f, row.disposition, row.count)
  BY FileRowStands
<1>2. Stands[f] = StandingOf(f)
  BY <1>1 DEF Stands
<1> HIDE DEF row
<1>3. Accepting(row)
  BY DEF row
<1>4. /\ Stands[f] \in {"witnessed", "inapplicable", "withheld"}
      /\ row.disposition # "skipped" => Stands[f] \in {"witnessed", "inapplicable"}
      /\ WitnessedRow(row) => Stands[f] = "witnessed"
  BY <1>1, <1>2, <1>3 DEF StandsTo, Accepting, CERTIFIABLE, WitnessedRow
<1>5. QED
  BY <1>1, <1>4 DEF row

-----------------------------------------------------------------------------
(* The rows of groups. *)

PairsRead == PerFile(report, Rec, target)

LEMMA PairFacts ==
  ASSUME NEW rows, ReadAtEnd(rows)
  PROVE  /\ IsFiniteSet(PairsRead)
         /\ \A pair \in PairsRead : pair[1] \in DOMAIN report /\ pair[2] = RecordedRow(pair[1])
         /\ \A f \in DOMAIN report : <<f, RecordedRow(f)>> \in PairsRead
<1>1. PairsRead = {<<f, RecordedRow(f)>> : f \in DOMAIN report}
  BY Zenon DEF PairsRead, PerFile, RecordedRow
<1>2. IsFiniteSet(DOMAIN report)
  BY CertificationAssumption, FS_Subset DEF ReadAtEnd, TrueReport
<1>3. IsFiniteSet(PairsRead)
  BY <1>2, PerFileFinite DEF PairsRead
<1>4. \A f \in DOMAIN report : <<f, RecordedRow(f)>> \in PairsRead
  BY <1>1
<1>5. \A pair \in PairsRead : pair[1] \in DOMAIN report /\ pair[2] = RecordedRow(pair[1])
  BY <1>1
<1>6. QED
  BY <1>3, <1>4, <1>5

LEMMA WitnessingPair ==
  ASSUME NEW rows, ReadAtEnd(rows), NEW pair \in PairsRead,
         pair[2].disposition = "executed-pass", pair[2].count > 0
  PROVE  pair[1] \in Files /\ Stands[pair[1]] = "witnessed"
<1>1. pair[1] \in DOMAIN report /\ pair[2] = RecordedRow(pair[1])
  BY PairFacts
<1>2. pair[1] \in Files /\ StandsTo(pair[1], pair[2].disposition, pair[2].count)
  BY <1>1, ReportedStands
<1>3. QED
  BY <1>2 DEF StandsTo, Stands

(* A prefix group that passed and counts has a file that did.              *)
LEMMA PrefixStands ==
  ASSUME NEW rows, ReadAtEnd(rows), NEW g, WitnessedRow(PrefixRow(g, PairsRead))
  PROVE  \E f \in g.files : f \in Files /\ Stands[f] = "witnessed"
<1> DEFINE matching == {pair \in PairsRead : pair[1] \in g.files}
           passes == Having(matching, "executed-pass")
<1>1. passes # {} /\ SumOf(passes) > 0
  BY DEF PrefixRow, WitnessedRow, Row
<1>2. passes \subseteq PairsRead /\ IsFiniteSet(passes)
  <2>1. passes \subseteq PairsRead
    BY DEF Having
  <2> HIDE DEF passes
  <2>2. QED
    BY <2>1, PairFacts, FS_Subset
<1>3. \A pair \in passes : pair[2].count \in Nat \cup {Unstated}
  BY <1>2, PairFacts, ReportedStands
<1>4. \A pair \in passes : Assertions(pair[2]) \in Nat
  BY <1>3 DEF Assertions, Unstated
<1>5. \E pair \in passes : Assertions(pair[2]) > 0
  <2> HIDE DEF passes
  <2>1. SumOf(passes) = SumOver(CountsOf(passes), passes)
    BY <1>2, <1>4, SumOfIsSum
  <2>2. \A pair \in passes : CountsOf(passes)[pair] = Assertions(pair[2])
    BY DEF CountsOf
  <2>3. SumOver(CountsOf(passes), passes) > 0
    BY <1>1, <2>1
  <2>4. \A pair \in passes : CountsOf(passes)[pair] \in Nat
    BY <1>4, <2>2
  <2>5. \E pair \in passes : CountsOf(passes)[pair] > 0
    BY <1>2, <2>3, <2>4, SumPositive
  <2>6. QED
    BY <2>2, <2>5
<1>6. PICK pair \in passes : Assertions(pair[2]) > 0
  BY <1>5
<1>7. pair[2].count > 0
  BY <1>3, <1>6 DEF Assertions, Unstated
<1>8. pair \in PairsRead /\ pair[1] \in g.files /\ pair[2].disposition = "executed-pass"
  BY <1>6 DEF Having
<1>9. QED
  BY <1>7, <1>8, WitnessingPair

(* An any-of group that passed has a file that did, and none that failed.  *)
LEMMA AnyOfStands ==
  ASSUME NEW rows, ReadAtEnd(rows), NEW g, g.files \subseteq Files,
         WitnessedRow(AnyOfRow(g, PairsRead))
  PROVE  /\ \E f \in g.files : f \in Files /\ Stands[f] = "witnessed"
         /\ \A f \in g.files : Stands[f] # "failed"
<1> DEFINE matching == {pair \in PairsRead : pair[1] \in g.files}
<1>1. Having(matching, "executed-fail") = {} /\ WitnessedIn(matching) # {}
  BY DEF AnyOfRow, WitnessedRow, Row
<1>2. PICK pair \in matching : pair[2].disposition = "executed-pass" /\ pair[2].count > 0
  BY <1>1 DEF WitnessedIn, Having
<1>3. pair[1] \in g.files /\ pair[1] \in Files /\ Stands[pair[1]] = "witnessed"
  BY <1>2, WitnessingPair
<1>4. ASSUME NEW f \in g.files PROVE StandingOf(f) # "failed"
  <2>1. CASE f \in DOMAIN report
    <3>1. <<f, RecordedRow(f)>> \in matching
      BY <1>4, <2>1, PairFacts
    <3>2. RecordedRow(f).disposition # "executed-fail"
      BY <1>1, <3>1 DEF Having
    <3>3. QED
      BY <2>1, <3>2, ReportedStands DEF StandsTo
  <2>2. CASE f \notin DOMAIN report
    <3>1. f \in MajorFiles[target] => gone[f] = "died"
      BY <2>2 DEF ReadAtEnd, TrueReport
    <3>2. QED
      BY <1>4, <3>1, UnrecordedStands DEF ReadAtEnd
  <2>3. QED
    BY <2>1, <2>2
<1>5. \A f \in g.files : Stands[f] # "failed"
  BY <1>4 DEF Stands
<1>6. QED
  BY <1>3, <1>5

(* The row under the id of a group of a claimed profile is that group's.   *)
LEMMA GroupRows ==
  ASSUME NEW rows, ReadAtEnd(rows), target = 1,
         NEW p \in CatalogProfiles, p \in Claimed, CanonicalOf(p) = p
  PROVE  LET floor == PROFILE_FLOOR_SCENARIOS[p]
         IN  /\ \A g \in floor.prefixes :
                  /\ requirementIdForPrefix(g) \in DOMAIN rows
                  /\ rows[requirementIdForPrefix(g)] = PrefixRow(g, PairsRead)
             /\ \A g \in floor.anyOf :
                  /\ requirementIdForAnyOf(g) \in DOMAIN rows
                  /\ rows[requirementIdForAnyOf(g)] = AnyOfRow(g, PairsRead)
<1> DEFINE floor == PROFILE_FLOOR_SCENARIOS[p]
           groups == GroupIdsOf(Claimed, 1)
           files == FileIdsIn(report, 1)
<1>1. RowsAre(rows, report, Rec, Claimed, 1)
  BY RowFacts DEF ReadAtEnd
<1>2. floor \in FloorsOf(Claimed, 1)
  BY DEF FloorsOf
<1>3. /\ groups \subseteq DOMAIN rows
      /\ \A id \in groups \ files :
           \/ \E g \in PrefixesOf(Claimed, 1) :
                requirementIdForPrefix(g) = id /\ rows[id] = PrefixRow(g, PairsRead)
           \/ \E g \in AnyOfsOf(Claimed, 1) :
                requirementIdForAnyOf(g) = id /\ rows[id] = AnyOfRow(g, PairsRead)
  BY <1>1, Zenon DEF RowsAre, PairsRead
<1>4. ASSUME NEW other \in FloorsOf(Claimed, 1)
      PROVE  \E q \in CatalogProfiles : other = PROFILE_FLOOR_SCENARIOS[q]
  BY <1>4 DEF FloorsOf
<1>5. ASSUME NEW g \in floor.prefixes
      PROVE  /\ requirementIdForPrefix(g) \in DOMAIN rows
             /\ rows[requirementIdForPrefix(g)] = PrefixRow(g, PairsRead)
  <2> DEFINE id == requirementIdForPrefix(g)
  <2>1. id \in groups \ files /\ id[1] = "any"
    BY <1>2, IdTags DEF GroupIdsOf, PrefixesOf, FileIdsIn
  <2>2. PICK h \in PrefixesOf(Claimed, 1) :
          requirementIdForPrefix(h) = id /\ rows[id] = PrefixRow(h, PairsRead)
    BY <1>3, <2>1, IdTags
  <2>3. h.id = g.id
    BY <2>2 DEF requirementIdForPrefix
  <2>4. PICK other \in FloorsOf(Claimed, 1) : h \in other.prefixes
    BY DEF PrefixesOf
  <2>5. h = g
    BY <1>4, <2>3, <2>4, GroupsApart
  <2>6. QED
    BY <1>3, <2>1, <2>2, <2>5
<1>6. ASSUME NEW g \in floor.anyOf
      PROVE  /\ requirementIdForAnyOf(g) \in DOMAIN rows
             /\ rows[requirementIdForAnyOf(g)] = AnyOfRow(g, PairsRead)
  <2> DEFINE id == requirementIdForAnyOf(g)
  <2>1. id \in groups \ files /\ id[1] = "anyof"
    BY <1>2, IdTags DEF GroupIdsOf, AnyOfsOf, FileIdsIn
  <2>2. PICK h \in AnyOfsOf(Claimed, 1) :
          requirementIdForAnyOf(h) = id /\ rows[id] = AnyOfRow(h, PairsRead)
    BY <1>3, <2>1, IdTags
  <2>3. h.id = g.id
    BY <2>2 DEF requirementIdForAnyOf
  <2>4. PICK other \in FloorsOf(Claimed, 1) : h \in other.anyOf
    BY DEF AnyOfsOf
  <2>5. h = g
    BY <1>4, <2>3, <2>4, GroupsApart
  <2>6. QED
    BY <1>3, <2>1, <2>2, <2>5
<1>7. QED
  BY <1>5, <1>6

-----------------------------------------------------------------------------
(* What was earned. *)

(* A file of a floor has the id of one. *)
LEMMA FloorFileIds ==
  /\ \A p \in CatalogProfiles : \A m : \A f \in floorMemberFiles(PROFILE_FLOOR_SCENARIOS[p]) :
       requirementIdForFile(f, m) = requirementIdForScenario(f)
  /\ RegistryFound => \A p \in DOMAIN Registry : \A f \in Registry[p].floor :
       requirementIdForFile(f, 2) = requirementIdForScenario(f)
<1>1. ASSUME NEW p \in CatalogProfiles, NEW m, NEW f \in floorMemberFiles(PROFILE_FLOOR_SCENARIOS[p])
      PROVE  requirementIdForFile(f, m) = requirementIdForScenario(f)
  <2>1. f \in UNION {floorMemberFiles(PROFILE_FLOOR_SCENARIOS[q]) : q \in CatalogProfiles}
    BY <1>1, Zenon
  <2>2. f \in floorScenarioFiles(m)
    BY <2>1, Zenon DEF floorScenarioFiles
  <2>3. QED
    BY <2>2 DEF requirementIdForFile
<1>2. ASSUME RegistryFound, NEW q \in DOMAIN Registry, NEW f \in Registry[q].floor
      PROVE  requirementIdForFile(f, 2) = requirementIdForScenario(f)
  <2> DEFINE catalog == UNION {floorMemberFiles(PROFILE_FLOOR_SCENARIOS[p]) : p \in CatalogProfiles}
             registry == UNION {Registry[p].floor : p \in DOMAIN Registry}
  <2>1. \A m : floorScenarioFiles(m) = catalog \cup (IF m = 2 /\ RegistryFound THEN registry ELSE {})
    BY Zenon DEF floorScenarioFiles
  <2>2. f \in registry
    BY <1>2
  <2> HIDE DEF catalog, registry
  <2>3. f \in floorScenarioFiles(2)
    BY <1>2, <2>1, <2>2
  <2>4. QED
    BY <2>3 DEF requirementIdForFile
<1>3. QED
  BY <1>1, <1>2

LEMMA FloorFilesFor ==
  ASSUME NEW p \in CatalogProfiles, NEW doc
  PROVE  /\ floorFilesFor(p, doc) \subseteq floorMemberFiles(PROFILE_FLOOR_SCENARIOS[p])
         /\ \A g \in PROFILE_FLOOR_SCENARIOS[p].anyOf : g.files \subseteq Files
<1>1. floorFilesFor(p, doc) \subseteq floorMemberFiles(PROFILE_FLOOR_SCENARIOS[p])
  BY Zenon DEF floorFilesFor, floorMemberFiles
<1>2. \A g \in PROFILE_FLOOR_SCENARIOS[p].anyOf :
        g.files \subseteq floorMemberFiles(PROFILE_FLOOR_SCENARIOS[p])
  <2> SUFFICES ASSUME NEW h \in PROFILE_FLOOR_SCENARIOS[p].anyOf, NEW f \in h.files
               PROVE  f \in floorMemberFiles(PROFILE_FLOOR_SCENARIOS[p])
    OBVIOUS
  <2> DEFINE alternatives == UNION {g.files : g \in PROFILE_FLOOR_SCENARIOS[p].anyOf}
  <2>1. f \in alternatives
    OBVIOUS
  <2>2. alternatives \subseteq floorMemberFiles(PROFILE_FLOOR_SCENARIOS[p])
    BY Zenon DEF floorMemberFiles
  <2>3. QED
    BY <2>1, <2>2
<1>3. QED
  BY <1>1, <1>2, FloorsExist

(* A v1 claim whose rows a reader accepts. *)
LEMMA FloorEarned ==
  ASSUME NEW rows, ReadAtEnd(rows), target = 1,
         NEW p \in CatalogProfiles, p \in Claimed, CanonicalOf(p) = p, NEW written,
         LET floor == PROFILE_FLOOR_SCENARIOS[p]
         IN  ~floor.discoveryOnly =>
               /\ \A f \in floorFilesFor(p, document) :
                    LET id == requirementIdForScenario(f)
                    IN  /\ id \in DOMAIN rows /\ Accepting(rows[id])
                        /\ floor.runtimeDerived => WitnessedRow(rows[id])
               /\ \A g \in floor.anyOf : WitnessedRow(rows[requirementIdForAnyOf(g)])
               /\ written = "v3" =>
                    \A g \in floor.prefixes : WitnessedRow(rows[requirementIdForPrefix(g)])
  PROVE  Earned(ClaimOf(p, document, 1, written))
<1> DEFINE floor == PROFILE_FLOOR_SCENARIOS[p]
           files == floorFilesFor(p, document)
           derived1 == IF floor.runtimeDerived THEN {{f} : f \in files} ELSE {}
           prefixed == IF written = "v3" THEN {g.files : g \in floor.prefixes} ELSE {}
           claim == ClaimOf(p, document, 1, written)
<1>1. CASE floor.discoveryOnly
  <2>1. claim = [files |-> {}, groups |-> {}, clean |-> {}, strict |-> FALSE]
    BY <1>1 DEF ClaimOf
  <2>2. QED
    BY <2>1 DEF Earned
<1>2. CASE ~floor.discoveryOnly
  <2>1. claim = [files |-> files, strict |-> FALSE, clean |-> UNION {g.files : g \in floor.anyOf},
                 groups |-> {g.files : g \in floor.anyOf} \cup derived1 \cup prefixed]
    BY <1>2 DEF ClaimOf
  <2>2. ASSUME NEW f \in files
        PROVE  /\ Stands[f] \in {"witnessed", "inapplicable", "withheld"}
               /\ floor.runtimeDerived => Stands[f] = "witnessed"
    <3>1. requirementIdForFile(f, target) = requirementIdForScenario(f)
      BY FloorFilesFor, FloorFileIds
    <3> DEFINE id == requirementIdForScenario(f)
    <3>2. /\ id \in DOMAIN rows /\ Accepting(rows[id])
          /\ floor.runtimeDerived => WitnessedRow(rows[id])
      BY <1>2
    <3>3. QED
      BY <3>1, <3>2, AcceptedFile
  <2>3. ASSUME NEW g \in floor.anyOf
        PROVE  /\ \E f \in g.files : Stands[f] = "witnessed"
               /\ \A f \in g.files : Stands[f] # "failed"
    <3>1. WitnessedRow(AnyOfRow(g, PairsRead))
      BY <1>2, GroupRows
    <3>2. g.files \subseteq Files
      BY FloorFilesFor
    <3>3. QED
      BY <3>1, <3>2, AnyOfStands
  <2>4. ASSUME written = "v3", NEW g \in floor.prefixes
        PROVE  \E f \in g.files : Stands[f] = "witnessed"
    <3>1. WitnessedRow(PrefixRow(g, PairsRead))
      BY <1>2, <2>4, GroupRows
    <3>2. QED
      BY <3>1, PrefixStands
  <2> HIDE DEF claim
  <2>5. claim.files = files /\ claim.strict = FALSE
        /\ claim.clean = UNION {g.files : g \in floor.anyOf}
        /\ claim.groups = {g.files : g \in floor.anyOf} \cup derived1 \cup prefixed
    BY <2>1
  <2>6. \A f \in claim.clean : Stands[f] # "failed"
    BY <2>3, <2>5
  <2>7. ASSUME NEW s \in claim.groups PROVE \E f \in s : Stands[f] = "witnessed"
    <3>1. CASE s \in {g.files : g \in floor.anyOf}
      BY <2>3, <3>1
    <3>2. CASE s \in derived1
      BY <2>2, <3>2
    <3>3. CASE s \in prefixed
      BY <2>4, <3>3
    <3>4. QED
      BY <2>5, <2>7, <3>1, <3>2, <3>3
  <2>8. Earned(claim)
    BY <2>2, <2>5, <2>6, <2>7 DEF Earned
  <2>9. QED
    BY <2>8 DEF claim
<1>3. QED
  BY <1>1, <1>2

(* A v2 claim whose rows leave the emitter nothing to object to.           *)
LEMMA RegistryEarned ==
  ASSUME NEW rows, ReadAtEnd(rows), target = 2, RegistryFound, NEW p \in DOMAIN Registry, NEW doc,
         NEW written,
         \A f \in Registry[p].floor :
           LET id == requirementIdForScenario(f)
           IN  id \in DOMAIN rows /\ Accepting(rows[id]) /\ rows[id].disposition # "skipped",
         \E f \in Registry[p].floor : WitnessedRow(rows[requirementIdForScenario(f)])
  PROVE  Earned(ClaimOf(p, doc, 2, written))
<1> DEFINE claim == ClaimOf(p, doc, 2, written)
<1>1. /\ claim.files = Registry[p].floor /\ claim.groups = {} /\ claim.clean = {}
      /\ claim.strict = TRUE
  BY DEF ClaimOf
<1>2. ASSUME NEW f \in Registry[p].floor
      PROVE  /\ Stands[f] \in {"witnessed", "inapplicable"}
             /\ WitnessedRow(rows[requirementIdForScenario(f)]) => Stands[f] = "witnessed"
  <2>1. requirementIdForFile(f, target) = requirementIdForScenario(f)
    BY FloorFileIds
  <2>2. QED
    BY <2>1, AcceptedFile
<1> HIDE DEF claim
<1>3. Earned(claim)
  BY <1>1, <1>2 DEF Earned
<1>4. QED
  BY <1>3 DEF claim

-----------------------------------------------------------------------------
(* What a certificate rests on, as it was read. *)

LEMMA ReadAtLast ==
  ASSUME RunInv, RecordsInv, EndsHeld, Released
  PROVE  /\ ReadAtEnd(Rows)
         /\ derived.verdicts = Verdicts(Claimed, Rows, Rec, document, target)
<1>1. /\ \A f \in MajorFiles[target] : Settled(f)
      /\ derived = DerivedFrom(report)
  BY DEF RunInv, DerivedHeld
<1>2. PICK died \in SUBSET {f \in Files : gone[f] = "died"} :
        report = [f \in MajorFiles[target] \ died |-> StateInReport(f)]
  BY DEF RunInv, DerivedHeld
<1>3. stage # "discovering"
  BY DEF RunInv, OutcomeHeld, Released, None
<1>4. target \in 1 .. 2 /\ MajorFiles[target] \subseteq Files
  BY CertificationAssumption DEF RunInv, StagesTyped
<1>5. TrueReport(report)
  BY <1>2, <1>4 DEF TrueReport
<1>6. /\ Rows = DerivedRows(report, Rec, Claimed, target)
      /\ derived.verdicts = Verdicts(Claimed, Rows, Rec, document, target)
  BY <1>1 DEF DerivedFrom, Rows
<1>7. ReadAtEnd(Rows)
  BY <1>1, <1>3, <1>4, <1>5, <1>6 DEF ReadAtEnd, AllSettled
<1>8. QED
  BY <1>6, <1>7

(* In a v3 bundle that was written every pass counts. *)
LEMMA PassesCount ==
  ASSUME NEW request, WrittenV3(request), NEW id \in DOMAIN Rows,
         Rows[id].disposition = "executed-pass"
  PROVE  WitnessedRow(Rows[id])
<1> DEFINE b == BundleV3(request)
           hollow == \E i \in DOMAIN b.rows : /\ b.rows[i].disposition = "executed-pass"
                                              /\ ~WitnessedRow(b.rows[i])
<1>1. b.rows = Rows
  BY BundleV3Facts
<1>2. RowRejections(b) = {}
  BY NothingForgiven DEF verifyBundleV3
<1> HIDE DEF b
<1>3. When(hollow, "vacuous-pass") \subseteq RowRejections(b)
  BY DEF RowRejections
<1>4. ~hollow
  BY <1>2, <1>3 DEF When
<1>5. QED
  BY <1>1, <1>4

(* What a verdict of certifiable says of the rows, at either major.        *)
LEMMA CertifiableV1 ==
  ASSUME NEW p, NEW rows, NEW rec, NEW doc, ProfileVerdict(p, rows, rec, doc, 1).certifiable
  PROVE  LET floor == PROFILE_FLOOR_SCENARIOS[p]
         IN  /\ p \in CatalogProfiles
             /\ ~floor.discoveryOnly => \A id \in requirementsFor(p, doc, 1) :
                  /\ id \in DOMAIN rows /\ rows[id].disposition \in CERTIFIABLE
                  /\ floor.runtimeDerived => WitnessedRow(rows[id])
<1> DEFINE ids == requirementsFor(p, doc, 1)
           blocking == {id \in ids : Blocking(id, rows, rec, 1)}
           witnessed == {id \in ids \cap DOMAIN rows : WitnessedRow(rows[id])}
           floor == PROFILE_FLOOR_SCENARIOS[p]
           held == ids # {} /\ witnessed = ids
<1>1. HasFloor(p, 1)
  BY DEF ProfileVerdict
<1>2. p \in CatalogProfiles
  BY <1>1 DEF HasFloor
<1>3. CASE floor.runtimeDerived
  <2>1. ProfileVerdict(p, rows, rec, doc, 1).certifiable = held
    BY <1>1, <1>3 DEF ProfileVerdict
  <2>2. held
    BY <2>1
  <2>3. QED
    BY <1>2, <1>3, <2>2, PassIsAccepted
<1>4. CASE ~floor.runtimeDerived
  <2> HIDE DEF blocking
  <2>1. ProfileVerdict(p, rows, rec, doc, 1).certifiable
          = (floor.discoveryOnly \/ (ids # {} /\ blocking = {}))
    BY <1>1, <1>4 DEF ProfileVerdict, blocking
  <2>2. floor.discoveryOnly \/ blocking = {}
    BY <2>1
  <2>3. QED
    BY <1>2, <1>4, <2>2 DEF Blocking, Unclassified, blocking
<1>5. QED
  BY <1>3, <1>4

LEMMA CertifiableV2 ==
  ASSUME NEW p, NEW rows, NEW rec, NEW doc, ProfileVerdict(p, rows, rec, doc, 2).certifiable
  PROVE  /\ RegistryFound /\ p \in DOMAIN Registry
         /\ \A f \in Registry[p].floor :
              LET id == requirementIdForScenario(f)
              IN  /\ id \in DOMAIN rows /\ rows[id].disposition \in CERTIFIABLE
                  /\ rows[id].disposition # "skipped"
         /\ \E f \in Registry[p].floor : WitnessedRow(rows[requirementIdForScenario(f)])
<1> DEFINE ids == requirementsFor(p, doc, 2)
           blocking == {id \in ids : Blocking(id, rows, rec, 2)}
           witnessed == {id \in ids \cap DOMAIN rows : WitnessedRow(rows[id])}
<1>1. HasFloor(p, 2)
  BY DEF ProfileVerdict
<1>2. ids # {} /\ blocking = {} /\ witnessed # {}
  BY <1>1 DEF ProfileVerdict
<1>3. ids = {requirementIdForScenario(f) : f \in Registry[p].floor}
  BY DEF requirementsFor
<1>4. RegistryFound /\ p \in DOMAIN Registry
  BY <1>1 DEF HasFloor
<1>5. \A id \in ids : /\ id \in DOMAIN rows /\ rows[id].disposition \in CERTIFIABLE
                      /\ rows[id].disposition # "skipped"
  BY <1>2 DEF Blocking, Unclassified
<1>6. \E id \in ids : WitnessedRow(rows[id])
  BY <1>2
<1> HIDE DEF ids
<1>7. QED
  BY <1>3, <1>4, <1>5, <1>6

-----------------------------------------------------------------------------
(* All that a written bundle certifies was earned. *)

LEMMA NotAnAlias ==
  \A p : p \notin DEPRECATED_PROFILE_ALIASES => CanonicalOf(p) = p
BY DEF CanonicalOf, DEPRECATED_PROFILE_ALIASES

(* A group's row excuses nothing. *)
LEMMA GroupsDecide ==
  \A g, pairs : /\ PrefixRow(g, pairs).disposition \notin {"skipped", "inapplicable"}
                /\ AnyOfRow(g, pairs).disposition \notin {"skipped", "inapplicable"}
<1> SUFFICES ASSUME NEW g, NEW pairs
             PROVE  /\ PrefixRow(g, pairs).disposition \notin {"skipped", "inapplicable"}
                    /\ AnyOfRow(g, pairs).disposition \notin {"skipped", "inapplicable"}
  OBVIOUS
<1>1. PrefixRow(g, pairs).disposition \in {"executed-pass", "executed-fail", "blocked"}
  BY DEF PrefixRow, Row
<1>2. AnyOfRow(g, pairs).disposition \in {"executed-pass", "executed-fail", "blocked"}
  BY DEF AnyOfRow, Row
<1>3. QED
  BY <1>1, <1>2

LEMMA EarnedV3 ==
  ASSUME RunInv, RecordsInv, EndsHeld, NEW request, WrittenV3(request),
         NEW p \in outcome.certified
  PROVE  /\ IF target = 2 THEN RegistryFound /\ p \in DOMAIN Registry ELSE p \in CatalogProfiles
         /\ Earned(ClaimOf(p, document, target, "v3"))
<1> DEFINE b == BundleV3(request)
<1>1. ReadAtEnd(Rows) /\ derived.verdicts = Verdicts(Claimed, Rows, Rec, document, target)
  BY ReadAtLast DEF WrittenV3, Released
<1>2. outcome.certified = certifiedProfilesV3(b, verifyBundleV3(b, HostKey, VerifierKey))
  BY DEF WrittenV3
<1>3. p \in CertifiedIn(b)
  BY <1>2 DEF certifiedProfilesV3
<1>4. p \in Claimed /\ p \notin DEPRECATED_PROFILE_ALIASES /\ CanonicalOf(p) = p
  BY <1>3, CertifiedInV3, NotAnAlias
<1>5. CertifiedFlag(p, RelaxedFor(request))
  BY <1>3, CertifiedInV3
<1>6. derived.verdicts[p].certifiable
  BY <1>5, Zenon DEF CertifiedFlag
<1>7. ProfileVerdict(p, Rows, Rec, document, target).certifiable
  BY <1>1, <1>4, <1>6 DEF Verdicts
<1>8. \A id \in DOMAIN Rows : Rows[id].disposition \in CERTIFIABLE => Accepting(Rows[id])
  BY PassesCount DEF Accepting
<1>9. \A id \in DOMAIN Rows :
        Rows[id].disposition \in CERTIFIABLE /\ IsGroup(id)
          /\ Rows[id].disposition \notin {"skipped", "inapplicable"} => WitnessedRow(Rows[id])
  BY <1>8 DEF Accepting, CERTIFIABLE
<1>10. CASE target = 2
  <2>1. /\ RegistryFound /\ p \in DOMAIN Registry
        /\ \A f \in Registry[p].floor :
             LET id == requirementIdForScenario(f)
             IN  /\ id \in DOMAIN Rows /\ Rows[id].disposition \in CERTIFIABLE
                 /\ Rows[id].disposition # "skipped"
        /\ \E f \in Registry[p].floor : WitnessedRow(Rows[requirementIdForScenario(f)])
    BY <1>7, <1>10, CertifiableV2
  <2>2. Earned(ClaimOf(p, document, 2, "v3"))
    BY <1>1, <1>8, <1>10, <2>1, RegistryEarned
  <2>3. QED
    BY <1>10, <2>1, <2>2
<1>11. CASE target = 1
  <2> DEFINE floor == PROFILE_FLOOR_SCENARIOS[p]
             ids == requirementsFor(p, document, 1)
  <2>1. /\ p \in CatalogProfiles
        /\ ~floor.discoveryOnly => \A id \in ids :
             /\ id \in DOMAIN Rows /\ Rows[id].disposition \in CERTIFIABLE
             /\ floor.runtimeDerived => WitnessedRow(Rows[id])
    BY <1>7, <1>11, CertifiableV1
  <2>2. ~floor.discoveryOnly =>
          ids = {requirementIdForScenario(f) : f \in floorFilesFor(p, document)}
                  \cup {requirementIdForPrefix(g) : g \in floor.prefixes}
                  \cup {requirementIdForAnyOf(g) : g \in floor.anyOf}
    BY DEF requirementsFor
  <2>3. /\ \A g \in floor.prefixes : Rows[requirementIdForPrefix(g)] = PrefixRow(g, PairsRead)
        /\ \A g \in floor.anyOf : Rows[requirementIdForAnyOf(g)] = AnyOfRow(g, PairsRead)
    BY <1>1, <1>4, <1>11, <2>1, GroupRows
  <2> HIDE DEF ids, floor
  <2>4. ASSUME ~floor.discoveryOnly
        PROVE  /\ \A f \in floorFilesFor(p, document) :
                    LET id == requirementIdForScenario(f)
                    IN  /\ id \in DOMAIN Rows /\ Accepting(Rows[id])
                        /\ floor.runtimeDerived => WitnessedRow(Rows[id])
               /\ \A g \in floor.prefixes : WitnessedRow(Rows[requirementIdForPrefix(g)])
               /\ \A g \in floor.anyOf : WitnessedRow(Rows[requirementIdForAnyOf(g)])
    <3>1. ASSUME NEW f \in floorFilesFor(p, document)
          PROVE  LET id == requirementIdForScenario(f)
                 IN  /\ id \in DOMAIN Rows /\ Accepting(Rows[id])
                     /\ floor.runtimeDerived => WitnessedRow(Rows[id])
      BY <1>8, <2>1, <2>2, <2>4
    <3>2. ASSUME NEW g \in floor.prefixes PROVE WitnessedRow(Rows[requirementIdForPrefix(g)])
      <4> DEFINE id == requirementIdForPrefix(g)
      <4>1. id \in DOMAIN Rows /\ Rows[id].disposition \in CERTIFIABLE /\ IsGroup(id)
        BY <2>1, <2>2, <2>4, IdTags
      <4>2. Rows[id].disposition \notin {"skipped", "inapplicable"}
        BY <2>3, GroupsDecide
      <4>3. QED
        BY <1>9, <4>1, <4>2
    <3>3. ASSUME NEW g \in floor.anyOf PROVE WitnessedRow(Rows[requirementIdForAnyOf(g)])
      <4> DEFINE id == requirementIdForAnyOf(g)
      <4>1. id \in DOMAIN Rows /\ Rows[id].disposition \in CERTIFIABLE /\ IsGroup(id)
        BY <2>1, <2>2, <2>4, IdTags
      <4>2. Rows[id].disposition \notin {"skipped", "inapplicable"}
        BY <2>3, GroupsDecide
      <4>3. QED
        BY <1>9, <4>1, <4>2
    <3>4. QED
      BY <3>1, <3>2, <3>3
  <2>5. Earned(ClaimOf(p, document, 1, "v3"))
    BY <1>1, <1>4, <1>11, <2>1, <2>4, FloorEarned DEF floor
  <2>6. QED
    BY <1>11, <2>1, <2>5
<1>12. QED
  BY <1>10, <1>11 DEF RunInv, StagesTyped

(* A v2 root has no v1 core, so a v2 bundle certifies v1 profiles alone.   *)
LEMMA EarnedV2 ==
  ASSUME RunInv, RecordsInv, EndsHeld, Captured, \A host \in Hosts : ~isCore(host.v2),
         NEW request, WrittenV2(request), NEW p \in outcome.certified
  PROVE  target = 1 /\ p \in CatalogProfiles /\ Earned(ClaimOf(p, document, 1, "v2"))
<1> DEFINE b == BundleV2(request.leaks)
           floor == PROFILE_FLOOR_SCENARIOS[p]
           ids == requirementsFor(p, document, 1)
<1>1. outcome.written = "v2" /\ p \in b.claims /\ certifiedV2(b, p)
  BY DEF WrittenV2
<1>2. /\ b.rows = Rows /\ b.document = document
      /\ b.claims = Claimed \ (DEPRECATED_PROFILE_ALIASES \cup NotHeld)
  BY DEF BundleV2, scrubEvidence
<1>3. ReadAtEnd(Rows) /\ derived.verdicts = Verdicts(Claimed, Rows, Rec, document, target)
  BY <1>1, ReadAtLast DEF Released
<1> HIDE DEF b
<1>4. /\ profileDerivable(document, p, 1) /\ HasFloor(p, 1)
      /\ \A f \in floorFilesFor(p, document) : FileFloorMet(Rows, f)
      /\ \A g \in floor.anyOf : AnyOfFloorMet(Rows, g)
  BY <1>1, <1>2, Zenon DEF certifiedV2
<1>5. target = 1
  <2>1. PICK host \in Hosts : document = IF target = 2 THEN host.v2 ELSE host.v1
    BY <1>1 DEF Captured
  <2>2. target # 2
    BY <1>4, <2>1, NoCoreNoProfile
  <2>3. QED
    BY <2>2 DEF RunInv, StagesTyped
<1>6. p \in Claimed /\ CanonicalOf(p) = p /\ p \notin NotHeld
  BY <1>1, <1>2, NotAnAlias
<1>7. p \in CatalogProfiles
  BY <1>4 DEF HasFloor
<1>8. floor.runtimeDerived => \A id \in ids : id \in DOMAIN Rows /\ WitnessedRow(Rows[id])
  <2> DEFINE witnessed == {id \in ids \cap DOMAIN Rows : WitnessedRow(Rows[id])}
             held == ids # {} /\ witnessed = ids
             judged == derived.verdicts[p]
  <2>1. judged = ProfileVerdict(p, Rows, Rec, document, 1)
    BY <1>3, <1>5, <1>6 DEF Verdicts
  <2>2. judged.notHeld = (floor.runtimeDerived /\ ~held)
    BY <1>4, <2>1 DEF ProfileVerdict
  <2>3. ~(floor.runtimeDerived /\ ~held)
    BY <1>6, <2>2 DEF NotHeld
  <2>4. QED
    BY <2>3
<1>9. ASSUME NEW f \in floorFilesFor(p, document), ~floor.discoveryOnly
      PROVE  LET id == requirementIdForScenario(f)
             IN  /\ id \in DOMAIN Rows /\ Accepting(Rows[id])
                 /\ floor.runtimeDerived => WitnessedRow(Rows[id])
  <2> DEFINE id == requirementIdForScenario(f)
  <2>1. id \in DOMAIN Rows /\ ~FloorRejected(Rows[id]) /\ Rows[id].disposition \in CERTIFIABLE
    BY <1>4, Zenon DEF FileFloorMet
  <2>2. Accepting(Rows[id])
    BY <2>1 DEF Accepting, FloorRejected
  <2>3. id \in ids
    BY <1>9 DEF requirementsFor
  <2>4. QED
    BY <1>8, <2>1, <2>2, <2>3
<1>10. ASSUME NEW g \in floor.anyOf PROVE WitnessedRow(Rows[requirementIdForAnyOf(g)])
  <2> DEFINE id == requirementIdForAnyOf(g)
  <2>1. id \in DOMAIN Rows
    BY <1>3, <1>5, <1>6, <1>7, GroupRows
  <2>2. AnyOfFloorMet(Rows, g)
    BY <1>4
  <2>3. QED
    BY <2>1, <2>2, Zenon DEF AnyOfFloorMet
<1>11. Earned(ClaimOf(p, document, 1, "v2"))
  BY <1>3, <1>5, <1>6, <1>7, <1>9, <1>10, FloorEarned
<1>12. QED
  BY <1>5, <1>7, <1>11

-----------------------------------------------------------------------------
(* Every step of a run is one of an honest certifier's. *)

LEMMA ClaimsKnown ==
  /\ \A host \in Hosts : \A q \in CatalogProfiles : \A w \in {"v2", "v3"} :
       ClaimOf(q, host.v1, 1, w) \in AllClaims
  /\ \A q \in DOMAIN Registry : ClaimOf(q, {}, 2, "v3") \in AllClaims
BY DEF AllClaims

AllEarned == Issued \subseteq {claim \in AllClaims : Earned(claim)}

LEMMA IssuedEarned ==
  ASSUME RunInv, RecordsInv, EndsHeld, Captured, \A host \in Hosts : ~isCore(host.v2)
  PROVE  AllEarned
<1> SUFFICES ASSUME outcome.written \in {"v2", "v3"}, NEW p \in outcome.certified
             PROVE  LET claim == ClaimOf(p, document, target, outcome.written)
                    IN  claim \in AllClaims /\ Earned(claim)
  BY DEF AllEarned, Issued
<1> DEFINE claim == ClaimOf(p, document, target, outcome.written)
<1>1. /\ IF target = 2 THEN p \in DOMAIN Registry ELSE p \in CatalogProfiles
      /\ Earned(claim)
  <2>1. CASE outcome.written = "v2"
    <3>1. PICK request \in Requests : WrittenV2(request)
      BY <2>1, WrittenAs DEF RunInv
    <3>2. target = 1 /\ p \in CatalogProfiles /\ Earned(ClaimOf(p, document, 1, "v2"))
      BY <3>1, EarnedV2
    <3>3. QED
      BY <2>1, <3>2
  <2>2. CASE outcome.written = "v3"
    <3>1. PICK request \in Requests : WrittenV3(request)
      BY <2>2, WrittenAs DEF RunInv
    <3>2. /\ IF target = 2 THEN p \in DOMAIN Registry ELSE p \in CatalogProfiles
          /\ Earned(ClaimOf(p, document, target, "v3"))
      BY <3>1, EarnedV3
    <3>3. QED
      BY <2>2, <3>2
  <2>3. QED
    BY <2>1, <2>2
<1>2. PICK host \in Hosts : document = IF target = 2 THEN host.v2 ELSE host.v1
  BY DEF Captured
<1>3. CASE target = 2
  <2>1. claim = ClaimOf(p, {}, 2, "v3")
    BY <1>3 DEF ClaimOf
  <2> HIDE DEF claim
  <2>2. claim \in AllClaims
    BY <1>1, <1>3, <2>1, ClaimsKnown
  <2>3. QED
    BY <1>1, <2>2 DEF claim
<1>4. CASE target = 1
  <2>1. ClaimOf(p, host.v1, 1, outcome.written) \in AllClaims
    BY <1>1, <1>4, ClaimsKnown
  <2>2. QED
    BY <1>1, <1>2, <1>4, <2>1
<1>5. QED
  BY <1>3, <1>4 DEF RunInv, StagesTyped

Opening(f) ==
  IF Settled(f)
  THEN StandingOf(f) \in {"witnessed", "inapplicable", "withheld", "failed", "denied"}
  ELSE StandingOf(f) = "open"

LEMMA StandingOpens ==
  ASSUME NEW f
  PROVE  Opening(f) /\ Opening(f)'
<1>1. Opening(f)
  <2>1. CASE ~Settled(f)
    BY <2>1, Zenon DEF StandingOf, Opening
  <2>2. CASE Settled(f) /\ SelfClassified(f)
    BY <2>2, StandsByItsWord DEF Opening
  <2>3. CASE Settled(f) /\ ~SelfClassified(f)
    BY <2>3 DEF StandingOf, Opening
  <2>4. QED
    BY <2>1, <2>2, <2>3
<1>2. Opening(f)'
  BY <1>1, PTL
<1>3. QED
  BY <1>1, <1>2

(* A file that moves settles, or stays open. *)
LEMMA MovingIsHonest ==
  ASSUME RecordsInv, StagesTyped, NEW f \in Files, ~Settled(f),
         UNCHANGED <<target, document, outcome>>,
         \/ FileStep(f) /\ UNCHANGED gone
         \/ UNCHANGED allVars /\ \E lost \in {"unloaded", "died"} :
                                   gone' = [gone EXCEPT ![f] = lost]
  PROVE  Honest!Next \/ UNCHANGED Honest!vars
<1>1. Issued' = Issued
  BY Zenon DEF Issued
<1>2. \A g \in Files \ {f} : StandingOf(g)' = StandingOf(g)
  BY OneFileMoves, StandsAlone
<1>3. Stands[f] = "open" /\ StandingOf(f) = "open"
  BY StandingOpens DEF Stands, Opening
<1>4. CASE ~Settled(f)'
  <2>1. StandingOf(f)' = "open"
    BY <1>4, StandingOpens DEF Opening
  <2>2. \A g \in Files : StandingOf(g)' = StandingOf(g)
    BY <1>2, <1>3, <2>1
  <2>3. Stands' = Stands
    BY <2>2, Zenon DEF Stands
  <2>4. QED
    BY <1>1, <2>3, HonestStutters
<1>5. CASE Settled(f)'
  <2>1. StandingOf(f)' \in {"witnessed", "inapplicable", "withheld", "failed", "denied"}
    BY <1>5, StandingOpens DEF Opening
  <2>2. Stands' = [Stands EXCEPT ![f] = StandingOf(f)']
    BY <1>2 DEF Stands
  <2>3. QED
    BY <1>1, <1>3, <2>1, <2>2, HonestSettles
<1>6. QED
  BY <1>4, <1>5

(* Any other step leaves every file as it stands; a certificate is issued  *)
(* on it, or nothing.                                                      *)
LEMMA RestingIsHonest ==
  ASSUME OutcomeHeld, StagesTyped, [CertifyNext]_certVars, UNCHANGED <<allVars, gone>>,
         AllEarned'
  PROVE  Honest!Next \/ UNCHANGED Honest!vars
<1>1. Stands' = Stands
  BY FilesRest
<1>2. CASE stage = "exited"
  <2>1. UNCHANGED certVars
    BY <1>2 DEF CertifyNext, Discover, Capture, DiscoveryFails, Step, FailToLoad, WorkerDies,
                Alive, Report, ReportMissing, VitestExits, Emit, EmitV1, EmitV2, EmitV3,
                NothingToSign, Exit
  <2>2. Issued' = Issued
    BY <2>1, Zenon DEF Issued, certVars, runVars
  <2>3. QED
    BY <1>1, <2>2, HonestStutters
<1>3. CASE stage # "exited"
  <2>1. Issued = {}
    BY <1>3 DEF OutcomeHeld, Issued, None
  <2>2. \A claim : Earned(claim)' <=> Earned(claim)
    BY <1>1, Zenon DEF Earned
  <2>3. Issued' \subseteq {claim \in AllClaims : Earned(claim)}
    BY <2>2 DEF AllEarned
  <2>4. QED
    BY <1>1, <2>1, <2>3, HonestIssues
<1>4. QED
  BY <1>2, <1>3

(* A run of the certifier, with whatever is lost on the way, is a run of   *)
(* an honest one: each file settles once and for all, and a v2 or v3       *)
(* bundle certifies what its rows, re-derived by who reads it, let it, and *)
(* that was earned. As above, a v2 root is taken to have no v1 core.       *)
THEOREM CertifierKeepsItsWord ==
  ASSUME \A host \in Hosts : ~isCore(host.v2)
  PROVE  CertifySpec => CertifierIsHonest
<1> DEFINE Inv == RunInv /\ RecordsInv /\ EndsHeld /\ Captured
<1>1. CertifyInit => Inv
  BY RunHolds, RecordsInvInit, EndsHeldInit DEF CertifyInit, Captured, None
<1>2. Inv /\ [CertifyNext]_certVars => Inv'
  BY RunHolds, RecordsInvStep, EndsHeldStep, CapturedStep DEF RunInv, StagesTyped
<1>3. Inv => AllEarned
  BY IssuedEarned
<1>4. Inv' => AllEarned'
  BY <1>3, PTL
<1>5. Inv /\ Inv' /\ [CertifyNext]_certVars => [Honest!Next]_Honest!vars
  <2> SUFFICES ASSUME Inv, Inv', [CertifyNext]_certVars
               PROVE  Honest!Next \/ UNCHANGED Honest!vars
    OBVIOUS
  <2>1. CASE UNCHANGED <<allVars, gone>>
    BY <1>4, <2>1, RestingIsHonest DEF RunInv
  <2>2. ASSUME NEW f \in Files, ~Settled(f),
               UNCHANGED <<stage, target, document, report, derived, outcome>>,
               \/ FileStep(f) /\ UNCHANGED gone
               \/ UNCHANGED allVars /\ \E lost \in {"unloaded", "died"} :
                                         gone' = [gone EXCEPT ![f] = lost]
        PROVE  Honest!Next \/ UNCHANGED Honest!vars
    BY <2>2, MovingIsHonest DEF RunInv
  <2>3. QED
    BY <2>1, <2>2, FilesMove DEF RunInv
<1> HIDE DEF Inv
<1>6. CertifySpec => []Inv
  BY <1>1, <1>2, PTL DEF CertifySpec
<1>7. CertifyInit => Honest!Init
  BY HonestStart
<1>8. QED
  BY <1>5, <1>6, <1>7, PTL DEF CertifySpec, CertifierIsHonest, Honest!Spec
=============================================================================
