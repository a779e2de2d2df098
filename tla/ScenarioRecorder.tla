-------------------------- MODULE ScenarioRecorder --------------------------
(***************************************************************************)
(* The hooks that turn a scenario file's tests into ledger rows (setup.ts, *)
(* with soft-skip.ts, behavior-gate.ts, requirement-ids.ts and             *)
(* row-observation.ts). vitest runs the tests of a file one after another  *)
(* in the file's own worker; here a test is called a leg. What a leg does  *)
(* in between is anything a scenario can do: gate on a profile, assert,    *)
(* note why it stops short, cite a requirement, classify itself.           *)
(***************************************************************************)
EXTENDS RequirementLedger, Resolution

CONSTANTS
  Legs,            \* Legs[f]: how many tests file f has
  DefaultIds,      \* DefaultIds[f][n]: the id leg n is recorded under unless it
                   \* cites another: the registry's id, else the title's own
  FileIds,         \* FileIds[f]: the id of the file's own row
  ReqIds,          \* ids a leg can cite with req()
  GateIds,         \* ids behaviorGate records under
  LaneId,          \* openwop.family.lane-target-major
  NoId,
  OptedOut,        \* gate ids the operator opted out of
  Strict,          \* OPENWOP_REQUIRE_BEHAVIOR
  OffLane,         \* files registered for other target majors only
  CoherenceFiles,  \* files whose subject is the corpus, outside the corpus gate
  TeardownFiles,   \* files with an afterEach of their own
  ObservingFiles,  \* files whose legs note what they saw
  SelfVerdicts,    \* SelfVerdicts[f]: dispositions f may record for itself
  NoteKinds,       \* the notes a leg can write
  MaxNotes,        \* bound on the notes of one leg
  MaxAsserts,      \* bound on the assertions of one leg
  MaxOwnRecords    \* bound on the recordings of one leg's body

ASSUME RecorderAssumption ==
  /\ Legs \in [Files -> Nat]
  /\ ReqIds \cup GateIds \cup {LaneId} \subseteq Ids
  /\ NoId \notin Ids
  /\ FileIds \in [Files -> Ids]
  /\ \A f \in Files : DefaultIds[f] \in [1 .. Legs[f] -> Ids]
  /\ OptedOut \subseteq GateIds
  /\ Strict \in BOOLEAN /\ BlockedStands \in BOOLEAN
  /\ OffLane \cup CoherenceFiles \cup TeardownFiles \cup ObservingFiles \subseteq Files
  /\ SelfVerdicts \in [Files -> SUBSET Dispositions]
  /\ NoteKinds \subseteq Notes
  /\ Reasons \subseteq Details
  /\ {MaxNotes, MaxAsserts, MaxOwnRecords} \subseteq Nat

(* A file's own row has an id of its own: openwop.floor.* or                *)
(* openwop.scenario.*, which no test, gate or lane guard records under.    *)
ASSUME FileRowsApart ==
  \A f \in Files :
    FileIds[f] \notin ReqIds \cup GateIds \cup {LaneId}
                     \cup {DefaultIds[f][n] : n \in 1 .. Legs[f]}

VARIABLES
  phase,      \* loading, between, running, ended, closed
  fileMark,   \* journal length when beforeAll ran
  legMark,    \* journal length when the leg's beforeEach ran
  noteMark,   \* note count when the leg's beforeEach ran
  notes,      \* the soft-skip notes of the file, in order
  explicit,   \* the id cited by req() and not yet taken
  pending,    \* observations noted and not yet taken, as the legs they are about
  calls,      \* assertions of the running leg
  verdict,    \* how the running leg ended
  tasks,      \* vitest's own record of the finished legs
  states,     \* the legs the per-test recorder collected
  fileCalls,  \* the assertions it counted
  did         \* history: did[f][n]: what leg n itself did, and the row it got;
              \* did[f][0]: what the file did while it was loaded

markVars   == <<fileMark, legMark, noteMark>>
legVars    == <<notes, explicit, pending, calls>>
resultVars == <<tasks, states, fileCalls>>
recorderVars == <<phase, markVars, legVars, verdict, resultVars, did>>
allVars == <<vars, recorderVars>>

(* The leg that is running, or has ended and is not yet torn down. *)
Current(f) == Len(tasks[f]) + 1

Since(s, mark) == SubSeq(s, mark + 1, Len(s))

(* The history of one leg. *)
Nothing ==
  [asserted |-> 0, noted |-> {}, gated |-> {}, cited |-> {},
   self |-> FALSE, rowId |-> NoId, row |-> "none", carries |-> {}]

-----------------------------------------------------------------------------
(* Variants: the legs of an id are not folded; the file is not named. *)
UnfoldedCallOf(f, id, v, n, file, fold) ==
  [writer |-> f, id |-> id, disposition |-> v.disposition, detail |-> v.detail,
   count |-> n, file |-> file, fold |-> FALSE, evidence |-> FALSE]
UnnamedCallOf(f, id, v, n, file, fold) ==
  [writer |-> f, id |-> id, disposition |-> v.disposition, detail |-> v.detail,
   count |-> n, file |-> NoFile, fold |-> fold, evidence |-> FALSE]

(* Recording. Hooks wrap recordRequirement in a try: a refusal is swallowed. *)
CallOf(f, id, v, n, file, fold) ==
  [writer |-> f, id |-> id, disposition |-> v.disposition, detail |-> v.detail,
   count |-> n, file |-> file, fold |-> fold, evidence |-> FALSE]

Refused(c) == Contradicts(c) \/ Unexplained(c)

TryRecord(c) == RecordRequirement(c) \/ (Refused(c) /\ UNCHANGED vars)

-----------------------------------------------------------------------------
BeforeAll(f) ==
  /\ phase[f] = "loading"
  /\ phase' = [phase EXCEPT ![f] = "between"]
  /\ fileMark' = [fileMark EXCEPT ![f] = Len(journal[f])]
  /\ UNCHANGED <<vars, legMark, noteMark, legVars, verdict, resultVars, did>>

(* Variants: a leg counts as recorded when it begins; a citation outlives  *)
(* its leg; the windows open once per file.                                *)
BeginLegAsRecorded(f) ==
  /\ phase[f] = "between" /\ Current(f) <= Legs[f] /\ f \notin OffLane
  /\ phase'    = [phase EXCEPT ![f] = "running"]
  /\ legMark'  = [legMark EXCEPT ![f] = Len(journal[f])]
  /\ noteMark' = [noteMark EXCEPT ![f] = Len(notes[f])]
  /\ explicit' = [explicit EXCEPT ![f] = NoId]
  /\ calls'    = [calls EXCEPT ![f] = 0]
  /\ states'   = [states EXCEPT ![f] = @ \cup {Current(f)}]
  /\ UNCHANGED <<vars, fileMark, notes, pending, verdict, tasks, fileCalls, did>>
BeginLegKeepingCitation(f) ==
  /\ phase[f] = "between" /\ Current(f) <= Legs[f] /\ f \notin OffLane
  /\ phase'    = [phase EXCEPT ![f] = "running"]
  /\ legMark'  = [legMark EXCEPT ![f] = Len(journal[f])]
  /\ noteMark' = [noteMark EXCEPT ![f] = Len(notes[f])]
  /\ calls'    = [calls EXCEPT ![f] = 0]
  /\ UNCHANGED <<vars, fileMark, notes, explicit, pending, verdict, resultVars, did>>
BeginLegInOpenWindow(f) ==
  /\ phase[f] = "between" /\ Current(f) <= Legs[f] /\ f \notin OffLane
  /\ phase'    = [phase EXCEPT ![f] = "running"]
  /\ explicit' = [explicit EXCEPT ![f] = NoId]
  /\ calls'    = [calls EXCEPT ![f] = 0]
  /\ UNCHANGED <<vars, markVars, notes, pending, verdict, resultVars, did>>

(* beforeEach on the right lane opens the leg's windows, and drops what a  *)
(* leg that never reached the recorder had cited.                          *)
BeginLeg(f) ==
  /\ phase[f] = "between" /\ Current(f) <= Legs[f] /\ f \notin OffLane
  /\ phase'    = [phase EXCEPT ![f] = "running"]
  /\ legMark'  = [legMark EXCEPT ![f] = Len(journal[f])]
  /\ noteMark' = [noteMark EXCEPT ![f] = Len(notes[f])]
  /\ explicit' = [explicit EXCEPT ![f] = NoId]
  /\ calls'    = [calls EXCEPT ![f] = 0]
  /\ UNCHANGED <<vars, fileMark, notes, pending, verdict, resultVars, did>>

(* beforeEach on the wrong lane says so twice, for the leg's row and for   *)
(* the file's, and skips before any window opens.                          *)
SkipOffLane(f) ==
  /\ phase[f] = "between" /\ Current(f) <= Legs[f] /\ f \in OffLane
  /\ TryRecord(CallOf(f, LaneId, Verdict("inapplicable"), NoCount, f, FALSE))
  /\ notes'   = [notes EXCEPT ![f] = Append(@, [kind |-> "inapplicable", conclusive |-> FALSE])]
  /\ phase'   = [phase EXCEPT ![f] = "ended"]
  /\ calls'   = [calls EXCEPT ![f] = 0]
  /\ verdict' = [verdict EXCEPT ![f] = [state |-> "skip", loss |-> FALSE]]
  /\ did' = [did EXCEPT ![f][Current(f)].noted = @ \cup {"inapplicable"}]
  /\ UNCHANGED <<markVars, explicit, pending, resultVars>>

-----------------------------------------------------------------------------
(* What a leg can do. *)
MayRecord(f) ==
  /\ phase[f] = "running"
  /\ Len(journal[f]) < legMark[f] + MaxOwnRecords

(* One expect call. When it does not hold, the body throws: EndBody.       *)
Expect(f) ==
  /\ phase[f] = "running" /\ calls[f] < MaxAsserts
  /\ calls' = [calls EXCEPT ![f] = @ + 1]
  /\ did' = [did EXCEPT ![f][Current(f)].asserted = @ + 1]
  /\ UNCHANGED <<vars, phase, markVars, notes, explicit, pending, verdict, resultVars>>

(* softSkip, seamAbsent, and with conclusive blockedDespiteAssertions.     *)
Note(f, note) ==
  /\ phase[f] = "running" /\ Len(notes[f]) < noteMark[f] + MaxNotes
  /\ notes' = [notes EXCEPT ![f] = Append(@, note)]
  /\ did' = [did EXCEPT ![f][Current(f)].noted = @ \cup {note.kind}]
  /\ UNCHANGED <<vars, phase, markVars, explicit, pending, calls, verdict, resultVars>>

(* behaviorGate on a profile the host does not advertise and the run does  *)
(* not require. (When it is advertised, or required, the gate only lets    *)
(* the leg go on, or fails it.)                                            *)
BehaviorGate(f, id) ==
  LET d == IF id \in OptedOut THEN "skipped" ELSE "inapplicable"
  IN  /\ MayRecord(f)
      /\ id \in OptedOut \/ ~Strict
      /\ RecordRequirement(CallOf(f, id, Verdict(d), NoCount, NoFile, FALSE))
      /\ did' = [did EXCEPT ![f][Current(f)].gated = @ \cup {d}]
      /\ UNCHANGED <<phase, markVars, legVars, verdict, resultVars>>

(* req() cites the requirement the leg is about. *)
Cite(f, id) ==
  /\ phase[f] = "running" /\ explicit[f] # id
  /\ explicit' = [explicit EXCEPT ![f] = id]
  /\ did' = [did EXCEPT ![f][Current(f)].cited = @ \cup {id}]
  /\ UNCHANGED <<vars, phase, markVars, notes, pending, calls, verdict, resultVars>>

(* noteObservation: what the leg saw, for its row. *)
Observe(f) ==
  /\ f \in ObservingFiles /\ phase[f] = "running" /\ Current(f) \notin pending[f]
  /\ pending' = [pending EXCEPT ![f] = @ \cup {Current(f)}]
  /\ UNCHANGED <<vars, phase, markVars, notes, explicit, calls, verdict, resultVars, did>>

(* A scenario records the row of its own file: in a leg, or at module scope *)
(* before any hook has run.                                                *)
ClassifySelf(f, d) ==
  LET n == IF phase[f] = "loading" THEN 0 ELSE Current(f)
  IN  /\ phase[f] \in {"loading", "running"}
      /\ Len(journal[f]) < legMark[f] + MaxOwnRecords
      /\ RecordRequirement(CallOf(f, FileIds[f], Verdict(d), NoCount, NoFile, FALSE))
      /\ did' = [did EXCEPT ![f][n].gated = @ \cup {d}, ![f][n].self = TRUE]
      /\ UNCHANGED <<phase, markVars, legVars, verdict, resultVars>>

(* The body returns, throws, or calls ctx.skip().                          *)
EndBody(f, task) ==
  /\ phase[f] = "running"
  /\ task.loss => task.state = "fail"
  /\ phase'   = [phase EXCEPT ![f] = "ended"]
  /\ verdict' = [verdict EXCEPT ![f] = task]
  /\ UNCHANGED <<vars, markVars, legVars, resultVars, did>>

-----------------------------------------------------------------------------
(* The leg's teardown. *)
Finish(f, task) ==
  /\ phase[f] = "ended"
  /\ phase' = [phase EXCEPT ![f] = "between"]
  /\ tasks' = [tasks EXCEPT ![f] = Append(@, task)]

(* The file's own afterEach runs before the recorder. If it throws, vitest *)
(* fails the leg with the first error it has and runs no further hook.     *)
HideLeg(f, loss) ==
  LET task == IF verdict[f].state = "fail" THEN verdict[f]
              ELSE [state |-> "fail", loss |-> loss]
  IN  /\ f \in TeardownFiles /\ verdict[f].state # "skip"
      /\ Finish(f, task)
      /\ UNCHANGED <<vars, markVars, legVars, verdict, states, fileCalls, did>>

(* Whether afterEach runs at all for a leg that called ctx.skip() is       *)
(* vitest's choice.                                                        *)
SkipUnrecorded(f) ==
  /\ verdict[f].state = "skip"
  /\ Finish(f, verdict[f])
  /\ UNCHANGED <<vars, markVars, legVars, verdict, states, fileCalls, did>>

(* afterEach: the leg's row. *)
RowIdOf(f) == IF explicit[f] # NoId THEN explicit[f] ELSE DefaultIds[f][Current(f)]

LegVerdict(f) ==
  IF f \in CoherenceFiles THEN Verdict("inapplicable")
  ELSE ResolveItRecord(verdict[f], calls[f], GateOf(Since(journal[f], legMark[f])),
                       Since(notes[f], noteMark[f]))

RecordLeg(f) ==
  LET v == AttachObservation(LegVerdict(f), pending[f] # {})
  IN  /\ Finish(f, verdict[f])
      /\ TryRecord(CallOf(f, RowIdOf(f), v, calls[f], f, TRUE))
      /\ states'    = [states EXCEPT ![f] = @ \cup {Current(f)}]
      /\ fileCalls' = [fileCalls EXCEPT ![f] = @ + calls[f]]
      /\ explicit'  = [explicit EXCEPT ![f] = NoId]
      /\ pending'   = [pending EXCEPT ![f] = {}]
      /\ did' = [did EXCEPT ![f][Current(f)].rowId = RowIdOf(f),
                            ![f][Current(f)].row = v.disposition,
                            ![f][Current(f)].carries = pending[f]]
      /\ UNCHANGED <<markVars, notes, calls, verdict>>

(* Variant: only the legs the recorder saw are known. *)
NoUnrecordedTests(f) == {}

(* afterAll: the file's row, unless the scenario has recorded it itself.   *)
(* Legs the recorder never saw are recovered from vitest's own record.     *)
UnrecordedTests(f) ==
  {n \in DOMAIN tasks[f] \ states[f] : tasks[f][n].state # "skip"}

FileVerdict(f) ==
  ResolveFileRecord([n \in states[f] \cup UnrecordedTests(f) |-> tasks[f][n]],
                    GateOf(Since(journal[f], fileMark[f])), fileCalls[f], notes[f],
                    f \in CoherenceFiles)

(* Variants: the row a scenario recorded itself is not looked for; and the *)
(* refusal of a second row is not caught.                                  *)
AfterAllRegardless(f) ==
  /\ phase[f] = "between" /\ Current(f) > Legs[f]
  /\ TryRecord(CallOf(f, FileIds[f], FileVerdict(f), fileCalls[f], f, FALSE))
  /\ phase' = [phase EXCEPT ![f] = "closed"]
  /\ UNCHANGED <<markVars, legVars, verdict, resultVars, did>>
AfterAllUncaught(f) ==
  /\ phase[f] = "between" /\ Current(f) > Legs[f]
  /\ RecordRequirement(CallOf(f, FileIds[f], FileVerdict(f), fileCalls[f], f, FALSE))
  /\ phase' = [phase EXCEPT ![f] = "closed"]
  /\ UNCHANGED <<markVars, legVars, verdict, resultVars, did>>

AfterAll(f) ==
  /\ phase[f] = "between" /\ Current(f) > Legs[f]
  /\ IF HasRequirement(f, FileIds[f]) THEN UNCHANGED vars
     ELSE TryRecord(CallOf(f, FileIds[f], FileVerdict(f), fileCalls[f], f, FALSE))
  /\ phase'     = [phase EXCEPT ![f] = "closed"]
  /\ states'    = [states EXCEPT ![f] = {}]
  /\ fileCalls' = [fileCalls EXCEPT ![f] = 0]
  /\ fileMark'  = [fileMark EXCEPT ![f] = 0]
  /\ legMark'   = [legMark EXCEPT ![f] = 0]
  /\ UNCHANGED <<noteMark, legVars, verdict, tasks, did>>

-----------------------------------------------------------------------------
RecorderInit ==
  /\ LedgerInit
  /\ phase = [f \in Files |-> "loading"]
  /\ fileMark = [f \in Files |-> 0]
  /\ legMark = [f \in Files |-> 0]
  /\ noteMark = [f \in Files |-> 0]
  /\ notes = [f \in Files |-> << >>]
  /\ explicit = [f \in Files |-> NoId]
  /\ pending = [f \in Files |-> {}]
  /\ calls = [f \in Files |-> 0]
  /\ verdict = [f \in Files |-> [state |-> "pass", loss |-> FALSE]]
  /\ tasks = [f \in Files |-> << >>]
  /\ states = [f \in Files |-> {}]
  /\ fileCalls = [f \in Files |-> 0]
  /\ did = [f \in Files |-> [n \in 0 .. Legs[f] |-> Nothing]]

Body(f) ==
  \/ Expect(f) \/ Observe(f)
  \/ \E note \in NoteKinds : Note(f, note)
  \/ \E id \in GateIds : BehaviorGate(f, id)
  \/ \E id \in ReqIds : Cite(f, id)
  \/ \E d \in SelfVerdicts[f] : ClassifySelf(f, d)

End(f) == \E task \in Tasks : EndBody(f, task)

Teardown(f) ==
  \/ \E loss \in BOOLEAN : HideLeg(f, loss)
  \/ SkipUnrecorded(f)
  \/ RecordLeg(f)

Hooks(f) == BeforeAll(f) \/ BeginLeg(f) \/ SkipOffLane(f) \/ Teardown(f) \/ AfterAll(f)

RecorderNext == \E f \in Files : Body(f) \/ End(f) \/ Hooks(f)

(* vitest calls the hooks, and its test timeout ends a body that does not  *)
(* end by itself. Nothing else of a body has to happen.                    *)
RecorderFairness == \A f \in Files : WF_allVars(Hooks(f) \/ End(f))

RecorderSpec == RecorderInit /\ [][RecorderNext]_allVars /\ RecorderFairness

-----------------------------------------------------------------------------
Phases == {"loading", "between", "running", "ended", "closed"}

Conduct ==
  [asserted : Nat, noted : SUBSET SoftSkipKinds, gated : SUBSET Dispositions,
   cited : SUBSET ReqIds, self : BOOLEAN, rowId : Ids \cup {NoId},
   row : Dispositions \cup {"none"}, carries : SUBSET Nat]

RecorderTypeOK ==
  /\ LedgerTypeOK
  /\ phase \in [Files -> Phases]
  /\ fileMark \in [Files -> Nat] /\ legMark \in [Files -> Nat] /\ noteMark \in [Files -> Nat]
  /\ notes \in [Files -> Seq(Notes)]
  /\ explicit \in [Files -> ReqIds \cup {NoId}]
  /\ pending \in [Files -> SUBSET Nat]
  /\ calls \in [Files -> Nat] /\ fileCalls \in [Files -> Nat]
  /\ verdict \in [Files -> Tasks]
  /\ tasks \in [Files -> Seq(Tasks)]
  /\ states \in [Files -> SUBSET Nat]
  /\ DOMAIN did = Files
  /\ \A f \in Files :
       /\ did[f] \in [0 .. Legs[f] -> Conduct]
       /\ fileMark[f] <= Len(journal[f]) /\ legMark[f] <= Len(journal[f])
       /\ noteMark[f] <= Len(notes[f])
       /\ states[f] \subseteq DOMAIN tasks[f] /\ Len(tasks[f]) <= Legs[f]

Closed(f) == phase[f] = "closed"
FileRow(f) == ledger[f][FileIds[f]]
LegsOf(f) == 1 .. Legs[f]
SelfClassified(f) == \E n \in 0 .. Legs[f] : did[f][n].self

(* A failed leg is never lost: the row of a file that did not classify     *)
(* itself is executed-fail as soon as one leg failed on anything but a     *)
(* lost response, hidden legs included, and is not certifiable if any did. *)
FailedLegDenies ==
  \A f \in Files : Closed(f) /\ ~SelfClassified(f) =>
    LET failed == {n \in LegsOf(f) : tasks[f][n].state = "fail"}
    IN  /\ failed # {} => FileRow(f).disposition \in {"executed-fail", "blocked"}
        /\ (\E n \in failed : ~tasks[f][n].loss) => FileRow(f).disposition = "executed-fail"

(* RFC 0148 A, the unclassified return: a file none of whose legs asserted *)
(* or gave a reason never gets a certifiable row. (Legs that called        *)
(* ctx.skip() and were recorded as skipped do count as a reason.)          *)
SilentFileBlocked ==
  \A f \in Files \ CoherenceFiles :
    (Closed(f) /\ ~SelfClassified(f) /\ \A n \in LegsOf(f) :
       /\ did[f][n].asserted = 0 /\ did[f][n].noted = {} /\ did[f][n].gated = {}
       /\ did[f][n].row # "skipped")
      => FileRow(f).disposition \notin CERTIFIABLE

(* A row that says executed-pass was witnessed: the leg's own row by an    *)
(* assertion of that leg, the file's row by an assertion of some recorded  *)
(* leg, with no leg failing.                                               *)
PassIsWitnessed ==
  \A f \in Files :
    /\ \A n \in LegsOf(f) : did[f][n].row = "executed-pass" =>
         did[f][n].asserted > 0 /\ tasks[f][n].state = "pass"
    /\ (Closed(f) /\ ~SelfClassified(f) /\ FileRow(f).disposition = "executed-pass") =>
         /\ \E n \in LegsOf(f) : did[f][n].row # "none" /\ did[f][n].asserted > 0
         /\ \A n \in LegsOf(f) : tasks[f][n].state # "fail"

(* A leg is excused by its own reasons only: a gate decision or a note of  *)
(* an earlier leg of the file, torn down in whatever way, does not excuse  *)
(* a later one.                                                            *)
ExcusedByOwnReason ==
  \A f \in Files \ CoherenceFiles : \A n \in LegsOf(f) :
    did[f][n].row \in {"skipped", "inapplicable"} =>
      \/ did[f][n].row \in did[f][n].noted \cup did[f][n].gated
      \/ did[f][n].row = "skipped" /\ tasks[f][n].state = "skip"

(* A leg's row is filed under an id the leg cited itself, or its default:  *)
(* a citation of a leg whose teardown hid it never lands on another leg.   *)
RowUnderOwnId ==
  \A f \in Files : \A n \in LegsOf(f) : did[f][n].row # "none" =>
    /\ did[f][n].rowId \in did[f][n].cited \cup {DefaultIds[f][n]}
    /\ did[f][n].cited # {} => did[f][n].rowId \in did[f][n].cited

(* Legs that share an id: the row of the id is at most as certifiable as   *)
(* every leg recorded under it, in memory and as the certifier reads it.   *)
NoLegRoundedUp ==
  \A f \in Files : \A n \in LegsOf(f) : did[f][n].row # "none" =>
    /\ HasRequirement(f, did[f][n].rowId)
    /\ NoMoreCertifiable(ledger[f][did[f][n].rowId].disposition, did[f][n].row)
    /\ faithful[f] =>
         NoMoreCertifiable(ReadRow(sink, did[f][n].rowId).disposition, did[f][n].row)

(* A scenario that classified itself wins outright, count and detail       *)
(* included: its row is the one it recorded, which names no file.          *)
SelfClassificationStands ==
  \A f \in Files : SelfClassified(f) =>
    FileRow(f).file = NoFile /\ FileRow(f).count = NoCount

(* Every file ends with a row for itself, whatever its legs and hooks do.  *)
EveryFileGetsARow ==
  <>(\A f \in Files : Closed(f) /\ HasRequirement(f, FileIds[f]))

-----------------------------------------------------------------------------
(* What the comments say and the hooks do not do. *)

(* soft-skip.ts: a file whose passes are all zero-assertion takes the      *)
(* noted disposition, "worst-first if mixed": "a file that could not check *)
(* one thing is not certifiable on the strength of another thing being     *)
(* inapplicable".                                                          *)
WorstNoteSpeaksForFile ==
  \A f \in Files \ CoherenceFiles :
    LET noted == UNION {did[f][n].noted : n \in LegsOf(f)}
    IN  (Closed(f) /\ ~SelfClassified(f) /\ noted # {} /\ \A n \in LegsOf(f) :
           /\ tasks[f][n].state = "pass"
           /\ did[f][n].asserted = 0 /\ did[f][n].gated = {})
          => FileRow(f).disposition = WorstNoted(noted)

(* setup.ts: an observation is taken whatever the disposition, "so a note  *)
(* never leaks into the next it".                                          *)
ObservationsStayWithTheirLeg ==
  \A f \in Files : \A n \in LegsOf(f) : did[f][n].carries \subseteq {n}
=============================================================================
