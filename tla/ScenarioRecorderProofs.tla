----------------------- MODULE ScenarioRecorderProofs -----------------------
(***************************************************************************)
(* Theorems about ScenarioRecorder, for any number of files and legs and   *)
(* for every order in which their hooks interleave.                        *)
(***************************************************************************)
EXTENDS ScenarioRecorder, RequirementLedgerProofs

(* What resolution returns, and what recordRequirement demands of it.      *)
VerdictsGiven == [disposition : Dispositions, detail : Reasons \cup {NoDetail}]
Explained(v) == v.disposition # "executed-pass" => v.detail # NoDetail

LEMMA ReasonsAreDetails ==
  NoDetail \notin Reasons /\ Reasons \subseteq Details
BY ConstantsAssumption, RecorderAssumption

LEMMA VerdictType ==
  /\ \A d \in Dispositions : Verdict(d) \in VerdictsGiven /\ Explained(Verdict(d))
  /\ \A d \in Dispositions : Verdict(d).disposition = d
  /\ PartialPass \in VerdictsGiven /\ Explained(PartialPass)
  /\ UnclassifiedReturn \in VerdictsGiven /\ Explained(UnclassifiedReturn)
<1>1. Reasons = {"why", "partial-witness", "observed", "unclassified-return"} /\ NoDetail \notin Reasons
  BY ReasonsAreDetails DEF Reasons
<1>2. {"executed-pass", "blocked"} \subseteq Dispositions
  BY DEF Dispositions
<1>3. \A d \in Dispositions : /\ Verdict(d).disposition = d
                              /\ Verdict(d).detail \in Reasons \cup {NoDetail}
                              /\ d # "executed-pass" => Verdict(d).detail = "why"
                              /\ Verdict(d) \in VerdictsGiven
  BY <1>1 DEF Verdict, VerdictsGiven
<1>4. PartialPass \in VerdictsGiven /\ Explained(PartialPass)
  BY <1>1, <1>2 DEF PartialPass, VerdictsGiven, Explained
<1>5. UnclassifiedReturn \in VerdictsGiven /\ Explained(UnclassifiedReturn)
  BY <1>1, <1>2 DEF UnclassifiedReturn, VerdictsGiven, Explained
<1>6. QED
  BY <1>1, <1>3, <1>4, <1>5 DEF Explained

LEMMA WorstNotedType ==
  ASSUME NEW kinds \in SUBSET SoftSkipKinds, kinds # {}
  PROVE  WorstNoted(kinds) \in kinds /\ WorstNoted(kinds) \in Dispositions
<1>1. \E k \in kinds : \A j \in kinds : SOFT_SKIP_RANK[k] <= SOFT_SKIP_RANK[j]
  <2>1. CASE "blocked" \in kinds
    BY <2>1 DEF SoftSkipKinds, SOFT_SKIP_RANK
  <2>2. CASE "blocked" \notin kinds /\ "skipped" \in kinds
    BY <2>2 DEF SoftSkipKinds, SOFT_SKIP_RANK
  <2>3. CASE kinds = {"inapplicable"}
    BY <2>3 DEF SoftSkipKinds, SOFT_SKIP_RANK
  <2>4. QED
    BY <2>1, <2>2, <2>3 DEF SoftSkipKinds
<1>2. WorstNoted(kinds) \in kinds
  BY <1>1 DEF WorstNoted
<1>3. QED
  BY <1>2 DEF SoftSkipKinds, Dispositions

LEMMA NotedKindType ==
  ASSUME NEW noted \in Seq(Notes), noted # << >>
  PROVE  NotedKind(noted) \in Dispositions
<1>1. 1 \in DOMAIN noted /\ \A i \in DOMAIN noted : noted[i] \in Notes
  OBVIOUS
<1>2. \A note \in Notes : note.kind \in SoftSkipKinds
  BY DEF Notes
<1>3. QED
  BY <1>1, <1>2, WorstNotedType DEF NotedKind

LEMMA GateType ==
  ASSUME NEW entries
  PROVE  GateOf(entries) \in {NoGate, "inapplicable", "skipped"}
BY DEF GateOf

(* A suffix of a sequence of notes is a sequence of notes.                 *)
LEMMA SinceType ==
  ASSUME NEW S, NEW s \in Seq(S), NEW mark \in 0 .. Len(s)
  PROVE  /\ Since(s, mark) \in Seq(S)
         /\ Len(Since(s, mark)) = Len(s) - mark
         /\ \A i \in 1 .. Len(s) - mark : Since(s, mark)[i] = s[mark + i]
BY DEF Since

LEMMA ItRecordType ==
  ASSUME NEW task \in Tasks, NEW n \in Nat, NEW gate \in {NoGate, "inapplicable", "skipped"},
         NEW noted \in Seq(Notes)
  PROVE  LET v == ResolveItRecord(task, n, gate, noted)
         IN  v \in VerdictsGiven /\ Explained(v)
<1>1. noted # << >> => NotedKind(noted) \in Dispositions
  BY NotedKindType
<1>2. {"executed-pass", "executed-fail", "skipped", "inapplicable", "blocked"} \subseteq Dispositions
  BY DEF Dispositions
<1>3. gate # NoGate => gate \in Dispositions
  BY <1>2
<1>4. task.state \in {"pass", "fail", "skip"}
  BY DEF Tasks, TestStates
<1> HIDE DEF Dispositions, VerdictsGiven, Explained, Verdict, PartialPass, NotedKind
<1>5. QED
  BY <1>1, <1>2, <1>3, <1>4, VerdictType DEF ResolveItRecord

LEMMA FileRecordType ==
  ASSUME NEW legs, NEW n, NEW gate \in {NoGate, "inapplicable", "skipped"},
         NEW noted \in Seq(Notes), NEW coherence \in BOOLEAN
  PROVE  LET v == ResolveFileRecord(legs, gate, n, noted, coherence)
         IN  v \in VerdictsGiven /\ Explained(v)
<1>1. noted # << >> => NotedKind(noted) \in Dispositions
  BY NotedKindType
<1>2. {"executed-pass", "executed-fail", "skipped", "inapplicable", "blocked"} \subseteq Dispositions
  BY DEF Dispositions
<1>3. FileDisposition(legs, gate, n) \in Dispositions
  BY <1>2 DEF FileDisposition
<1>4. QED
  BY <1>1, <1>2, <1>3, VerdictType DEF ResolveFileRecord

LEMMA AttachType ==
  ASSUME NEW v \in VerdictsGiven, Explained(v), NEW observed \in BOOLEAN
  PROVE  /\ AttachObservation(v, observed) \in VerdictsGiven
         /\ Explained(AttachObservation(v, observed))
         /\ AttachObservation(v, observed).disposition = v.disposition
<1>1. "observed" \in Reasons /\ NoDetail \notin Reasons
  BY ReasonsAreDetails DEF Reasons
<1>2. QED
  BY <1>1 DEF AttachObservation, VerdictsGiven, Explained

LEMMA LegVerdictType ==
  ASSUME RecorderTypeOK, NEW f \in Files
  PROVE  LegVerdict(f) \in VerdictsGiven /\ Explained(LegVerdict(f))
<1>1. Since(notes[f], noteMark[f]) \in Seq(Notes)
  BY SinceType DEF RecorderTypeOK
<1>2. verdict[f] \in Tasks /\ calls[f] \in Nat
  BY DEF RecorderTypeOK
<1>3. LET v == ResolveItRecord(verdict[f], calls[f], GateOf(Since(journal[f], legMark[f])),
                               Since(notes[f], noteMark[f]))
      IN  v \in VerdictsGiven /\ Explained(v)
  BY <1>1, <1>2, GateType, ItRecordType
<1>4. Verdict("inapplicable") \in VerdictsGiven /\ Explained(Verdict("inapplicable"))
  BY VerdictType DEF Dispositions
<1>5. QED
  BY <1>3, <1>4 DEF LegVerdict

LEMMA FileVerdictType ==
  ASSUME RecorderTypeOK, NEW f \in Files
  PROVE  FileVerdict(f) \in VerdictsGiven /\ Explained(FileVerdict(f))
<1>1. notes[f] \in Seq(Notes) /\ (f \in CoherenceFiles) \in BOOLEAN
  BY DEF RecorderTypeOK
<1>2. QED
  BY <1>1, GateType, FileRecordType DEF FileVerdict

-----------------------------------------------------------------------------
(* Every recording the hooks and the bodies make is one the ledger knows.  *)
OwnCalls == {c \in CallType : c.file \in {c.writer, NoFile}}

LEMMA VerdictDetails ==
  \A v \in VerdictsGiven :
    v.disposition \in Dispositions /\ v.detail \in Details \cup {NoDetail}
BY ReasonsAreDetails DEF VerdictsGiven

(* What a recording leaves behind in the memory of the workers.            *)
LedgerMoves ==
  \A f \in Files :
    /\ Len(journal[f]) <= Len(journal'[f])
    /\ said[f] \subseteq said'[f]
    /\ \A id \in Ids : HasRequirement(f, id) =>
         /\ HasRequirement(f, id)'
         /\ NoMoreCertifiable(ledger'[f][id].disposition, ledger[f][id].disposition)

LEMMA RecordingMoves ==
  ASSUME LedgerInv, NEW c \in OwnCalls, RecordRequirement(c)
  PROVE  /\ LedgerInv' /\ LedgerMoves
         /\ <<c.id, c.disposition>> \in said'[c.writer]
         /\ HasRequirement(c.writer, c.id)'
         /\ NoMoreCertifiable(ledger'[c.writer][c.id].disposition, c.disposition)
<1> DEFINE w == c.writer
           e == EntryFor(c)
<1>1. /\ c \in CallType /\ c.file \in {w, NoFile} /\ w \in Files /\ c.id \in Ids
      /\ c.disposition \in Dispositions
  BY DEF OwnCalls, CallType
<1>2. LedgerTypeOK /\ Keyed /\ ~Contradicts(c)
  BY DEF LedgerInv, RecordRequirement
<1>3. LedgerInv'
  BY <1>1, RecordKeepsInv
<1>4. /\ e \in Entry /\ e # Absent
      /\ NoMoreCertifiable(e.disposition, c.disposition)
      /\ HasRequirement(w, c.id) =>
           NoMoreCertifiable(e.disposition, ledger[w][c.id].disposition)
  BY <1>1, <1>2, EntryForFacts, ConstantsAssumption
<1>5. /\ ledger' = [ledger EXCEPT ![w][c.id] = e]
      /\ journal' = [journal EXCEPT ![w] = Append(@, e)]
      /\ said' = [said EXCEPT ![w] = @ \cup {<<c.id, c.disposition>>}]
  BY DEF RecordRequirement
<1>6. /\ ledger \in [Files -> [Ids -> Entry \cup {Absent}]]
      /\ journal \in [Files -> Seq(Entry)] /\ said \in [Files -> SUBSET (Ids \X Dispositions)]
  BY <1>2 DEF LedgerTypeOK
<1> HIDE DEF e
<1>7. ledger'[w][c.id] = e /\ <<c.id, c.disposition>> \in said'[w]
  BY <1>1, <1>5, <1>6
<1>8. ASSUME NEW f \in Files PROVE Len(journal[f]) <= Len(journal'[f]) /\ said[f] \subseteq said'[f]
  <2>1. journal[f] \in Seq(Entry) /\ Len(journal[f]) \in Nat
    BY <1>6
  <2>2. Len(Append(journal[f], e)) = Len(journal[f]) + 1
    BY <2>1, <1>4
  <2>3. QED
    BY <1>1, <1>5, <1>6, <2>1, <2>2
<1>9. ASSUME NEW f \in Files, NEW id \in Ids, HasRequirement(f, id)
      PROVE  /\ HasRequirement(f, id)'
             /\ NoMoreCertifiable(ledger'[f][id].disposition, ledger[f][id].disposition)
  <2>1. CASE f = w /\ id = c.id
    BY <1>4, <1>7, <1>9, <2>1 DEF HasRequirement
  <2>2. CASE ~(f = w /\ id = c.id)
    <3>1. ledger'[f][id] = ledger[f][id]
      BY <1>1, <1>5, <1>6, <2>2
    <3>2. ledger[f][id] \in Entry
      BY <1>6, <1>9 DEF HasRequirement
    <3>3. CERTIFIABILITY_RANK[ledger[f][id].disposition] \in 0 .. 4
      BY <3>2, RankType DEF Entry
    <3>4. QED
      BY <1>9, <3>1, <3>3 DEF HasRequirement, NoMoreCertifiable
  <2>3. QED
    BY <2>1, <2>2
<1>10. QED
  BY <1>3, <1>4, <1>7, <1>8, <1>9 DEF LedgerMoves, HasRequirement

LEMMA StutterMoves ==
  ASSUME LedgerInv, UNCHANGED vars
  PROVE  LedgerInv' /\ LedgerMoves
<1>1. UNCHANGED <<ledger, journal, sink, suspended, said, asserted, recordings, faithful>>
  BY DEF vars, ledgerVars, historyVars
<1>2. LedgerInv'
  BY <1>1 DEF LedgerInv, LedgerTypeOK, Keyed, SaidCovered, MemoryBelow, SinkAgreesWithMemory,
              HasRequirement
<1>3. ASSUME NEW f \in Files, NEW id \in Ids, HasRequirement(f, id)
      PROVE  NoMoreCertifiable(ledger[f][id].disposition, ledger[f][id].disposition)
  <2>1. ledger[f][id] \in Entry
    BY <1>3 DEF LedgerInv, LedgerTypeOK, HasRequirement
  <2>2. CERTIFIABILITY_RANK[ledger[f][id].disposition] \in 0 .. 4
    BY <2>1, RankType DEF Entry
  <2>3. QED
    BY <2>2 DEF NoMoreCertifiable
<1>4. \A f \in Files : Len(journal[f]) \in Nat
  BY DEF LedgerInv, LedgerTypeOK
<1>5. QED
  BY <1>1, <1>2, <1>3, <1>4 DEF LedgerMoves, HasRequirement

LEMMA TryMoves ==
  ASSUME LedgerInv, NEW c \in OwnCalls, TryRecord(c)
  PROVE  LedgerInv' /\ LedgerMoves
BY RecordingMoves, StutterMoves DEF TryRecord

(* The row of a leg folds and says why, so that it is never refused.       *)
LEMMA FoldMoves ==
  ASSUME LedgerInv, NEW c \in OwnCalls, c.fold, Explained(c), TryRecord(c)
  PROVE  /\ <<c.id, c.disposition>> \in said'[c.writer]
         /\ HasRequirement(c.writer, c.id)'
         /\ NoMoreCertifiable(ledger'[c.writer][c.id].disposition, c.disposition)
<1>1. ~Refused(c)
  BY DEF Refused, Contradicts, Unexplained, Explained
<1>2. QED
  BY <1>1, RecordingMoves DEF TryRecord

(* The calls of the hooks and of the bodies, one by one.                   *)
LEMMA RowCalls ==
  ASSUME RecorderTypeOK, NEW f \in Files
  PROVE  /\ CallOf(f, LaneId, Verdict("inapplicable"), NoCount, f, FALSE) \in OwnCalls
         /\ \A id \in GateIds \cup {FileIds[f]}, d \in Dispositions :
              CallOf(f, id, Verdict(d), NoCount, NoFile, FALSE) \in OwnCalls
         /\ CallOf(f, FileIds[f], FileVerdict(f), fileCalls[f], f, FALSE) \in OwnCalls
<1>1. /\ LaneId \in Ids /\ FileIds[f] \in Ids /\ GateIds \subseteq Ids
      /\ fileCalls[f] \in Nat
  BY RecorderAssumption DEF RecorderTypeOK
<1>2. Verdict("inapplicable") \in VerdictsGiven
  BY VerdictType DEF Dispositions
<1>3. CallOf(f, LaneId, Verdict("inapplicable"), NoCount, f, FALSE) \in OwnCalls
  BY <1>1, <1>2, VerdictDetails DEF CallOf, OwnCalls, CallType
<1>4. ASSUME NEW id \in GateIds \cup {FileIds[f]}, NEW d \in Dispositions
      PROVE  CallOf(f, id, Verdict(d), NoCount, NoFile, FALSE) \in OwnCalls
  <2>1. Verdict(d) \in VerdictsGiven /\ id \in Ids
    BY <1>1, VerdictType
  <2>2. QED
    BY <2>1, VerdictDetails DEF CallOf, OwnCalls, CallType
<1>5. CallOf(f, FileIds[f], FileVerdict(f), fileCalls[f], f, FALSE) \in OwnCalls
  BY <1>1, FileVerdictType, VerdictDetails DEF CallOf, OwnCalls, CallType
<1>6. QED
  BY <1>3, <1>4, <1>5

LEMMA LegCall ==
  ASSUME RecorderTypeOK, NEW f \in Files, Current(f) <= Legs[f]
  PROVE  LET v == AttachObservation(LegVerdict(f), pending[f] # {})
             c == CallOf(f, RowIdOf(f), v, calls[f], f, TRUE)
         IN  /\ v \in VerdictsGiven
             /\ RowIdOf(f) \in Ids
             /\ c \in OwnCalls /\ c.fold /\ Explained(c)
             /\ c.writer = f /\ c.id = RowIdOf(f) /\ c.disposition = v.disposition
<1> DEFINE v == AttachObservation(LegVerdict(f), pending[f] # {})
<1>1. v \in VerdictsGiven /\ Explained(v)
  BY LegVerdictType, AttachType
<1>2. Current(f) \in 1 .. Legs[f]
  BY RecorderAssumption DEF RecorderTypeOK, Current
<1>3. DefaultIds[f][Current(f)] \in Ids
  BY <1>2, RecorderAssumption, Z3
<1>4. RowIdOf(f) \in Ids
  BY <1>3, RecorderAssumption DEF RowIdOf, RecorderTypeOK
<1>5. calls[f] \in Nat
  BY DEF RecorderTypeOK
<1> HIDE DEF v
<1>6. LET c == CallOf(f, RowIdOf(f), v, calls[f], f, TRUE)
      IN  /\ c \in OwnCalls /\ c.fold /\ c.detail = v.detail
          /\ c.writer = f /\ c.id = RowIdOf(f) /\ c.disposition = v.disposition
  BY <1>4, <1>1, <1>5, VerdictDetails DEF CallOf, OwnCalls, CallType
<1>7. QED
  BY <1>1, <1>4, <1>6 DEF Explained, v

-----------------------------------------------------------------------------
(* A file is at a leg it has, and a leg it has not come to has done        *)
(* nothing: it is cited by none and has no row.                            *)
LegsInTurn ==
  \A f \in Files :
    /\ phase[f] \in {"running", "ended"} => Current(f) <= Legs[f]
    /\ phase[f] = "running" => f \notin OffLane
    /\ \A n \in LegsOf(f) : n >= Current(f) =>
         /\ did[f][n].row = "none"
         /\ (n > Current(f) \/ phase[f] \notin {"running", "ended"}) => did[f][n].cited = {}

LEMMA StepMoves ==
  ASSUME LedgerInv, RecorderTypeOK, LegsInTurn, NEW f \in Files,
         Body(f) \/ End(f) \/ Hooks(f)
  PROVE  LedgerInv' /\ LedgerMoves
<1>1. ASSUME UNCHANGED vars PROVE LedgerInv' /\ LedgerMoves
  BY <1>1, StutterMoves
<1>2. ASSUME NEW id \in GateIds, BehaviorGate(f, id) PROVE LedgerInv' /\ LedgerMoves
  <2> DEFINE d == IF id \in OptedOut THEN "skipped" ELSE "inapplicable"
  <2>1. d \in Dispositions
    BY DEF Dispositions
  <2>2. RecordRequirement(CallOf(f, id, Verdict(d), NoCount, NoFile, FALSE))
    BY <1>2 DEF BehaviorGate
  <2> HIDE DEF d
  <2>3. QED
    BY <2>1, <2>2, RowCalls, RecordingMoves
<1>3. ASSUME NEW d \in SelfVerdicts[f], ClassifySelf(f, d) PROVE LedgerInv' /\ LedgerMoves
  <2>1. d \in Dispositions
    BY RecorderAssumption
  <2>2. RecordRequirement(CallOf(f, FileIds[f], Verdict(d), NoCount, NoFile, FALSE))
    BY <1>3 DEF ClassifySelf
  <2>3. QED
    BY <2>1, <2>2, RowCalls, RecordingMoves
<1>4. ASSUME SkipOffLane(f) PROVE LedgerInv' /\ LedgerMoves
  BY <1>4, RowCalls, TryMoves DEF SkipOffLane
<1>5. ASSUME RecordLeg(f) PROVE LedgerInv' /\ LedgerMoves
  <2>1. Current(f) <= Legs[f]
    BY <1>5 DEF RecordLeg, Finish, LegsInTurn
  <2>2. TryRecord(CallOf(f, RowIdOf(f), AttachObservation(LegVerdict(f), pending[f] # {}),
                         calls[f], f, TRUE))
    BY <1>5 DEF RecordLeg
  <2>3. QED
    BY <2>1, <2>2, LegCall, TryMoves
<1>6. ASSUME AfterAll(f) PROVE LedgerInv' /\ LedgerMoves
  <2>1. CASE UNCHANGED vars
    BY <2>1, <1>1
  <2>2. CASE TryRecord(CallOf(f, FileIds[f], FileVerdict(f), fileCalls[f], f, FALSE))
    BY <2>2, RowCalls, TryMoves
  <2>3. QED
    BY <1>6, <2>1, <2>2 DEF AfterAll
<1>7. QED
  BY <1>1, <1>2, <1>3, <1>4, <1>5, <1>6
     DEF Body, End, Hooks, Teardown, Expect, Observe, Note, Cite, EndBody, BeforeAll, BeginLeg,
         HideLeg, SkipUnrecorded

(* The variables of a file keep their types. did is treated by itself: all *)
(* a step changes is what the current leg, or the loading of the file, did. *)
DidTyped == /\ DOMAIN did = Files
            /\ \A f \in Files : did[f] \in [0 .. Legs[f] -> Conduct]

LEMMA DidUpdate ==
  ASSUME DidTyped, NEW f \in Files, NEW n \in 0 .. Legs[f], NEW c \in Conduct,
         did' = [did EXCEPT ![f] = [did[f] EXCEPT ![n] = c]]
  PROVE  DidTyped'
<1>1. [did[f] EXCEPT ![n] = c] \in [0 .. Legs[f] -> Conduct]
  BY DEF DidTyped
<1>2. QED
  BY <1>1 DEF DidTyped

LEMMA DidStep ==
  ASSUME RecorderTypeOK, LegsInTurn, NEW f \in Files, Body(f) \/ End(f) \/ Hooks(f)
  PROVE  DidTyped'
<1> DEFINE n == Current(f)
           mine == did[f][n]
<1>1. DidTyped /\ n \in Nat \ {0} /\ Legs[f] \in Nat
  BY RecorderAssumption DEF RecorderTypeOK, DidTyped, Current
<1>2. phase[f] \in {"running", "ended"} => n \in 0 .. Legs[f] /\ mine \in Conduct
  BY <1>1 DEF LegsInTurn, DidTyped
<1> HIDE DEF n
<1>3. ASSUME UNCHANGED did PROVE DidTyped'
  BY <1>1, <1>3 DEF DidTyped
<1>4. ASSUME Expect(f) PROVE DidTyped'
  <2> DEFINE c == [mine EXCEPT !.asserted = @ + 1]
  <2>1. c \in Conduct /\ n \in 0 .. Legs[f]
    BY <1>2, <1>4 DEF Expect, Conduct
  <2>2. did' = [did EXCEPT ![f] = [did[f] EXCEPT ![n] = c]]
    BY <1>4 DEF Expect, n
  <2>3. QED
    BY <1>1, <2>1, <2>2, DidUpdate
<1>5. ASSUME NEW note \in NoteKinds, Note(f, note) PROVE DidTyped'
  <2> DEFINE c == [mine EXCEPT !.noted = @ \cup {note.kind}]
  <2>0. note.kind \in SoftSkipKinds
    BY RecorderAssumption DEF Notes
  <2>1. c \in Conduct /\ n \in 0 .. Legs[f]
    BY <2>0, <1>2, <1>5 DEF Note, Conduct
  <2>2. did' = [did EXCEPT ![f] = [did[f] EXCEPT ![n] = c]]
    BY <1>5 DEF Note, n
  <2>3. QED
    BY <1>1, <2>1, <2>2, DidUpdate
<1>6. ASSUME NEW id \in GateIds, BehaviorGate(f, id) PROVE DidTyped'
  <2> DEFINE d == IF id \in OptedOut THEN "skipped" ELSE "inapplicable"
             c == [mine EXCEPT !.gated = @ \cup {d}]
  <2>0. d \in Dispositions
    BY DEF Dispositions
  <2>1. c \in Conduct /\ n \in 0 .. Legs[f]
    BY <2>0, <1>2, <1>6 DEF BehaviorGate, MayRecord, Conduct
  <2>2. did' = [did EXCEPT ![f] = [did[f] EXCEPT ![n] = c]]
    BY <1>6 DEF BehaviorGate, n
  <2>3. QED
    BY <1>1, <2>1, <2>2, DidUpdate
<1>7. ASSUME NEW id \in ReqIds, Cite(f, id) PROVE DidTyped'
  <2> DEFINE c == [mine EXCEPT !.cited = @ \cup {id}]
  <2>1. c \in Conduct /\ n \in 0 .. Legs[f]
    BY <1>2, <1>7 DEF Cite, Conduct
  <2>2. did' = [did EXCEPT ![f] = [did[f] EXCEPT ![n] = c]]
    BY <1>7 DEF Cite, n
  <2>3. QED
    BY <1>1, <2>1, <2>2, DidUpdate
<1>8. ASSUME NEW d \in SelfVerdicts[f], ClassifySelf(f, d) PROVE DidTyped'
  <2> DEFINE m == IF phase[f] = "loading" THEN 0 ELSE n
             c == [did[f][m] EXCEPT !.gated = @ \cup {d}, !.self = TRUE]
  <2>0. d \in Dispositions
    BY RecorderAssumption
  <2>1. m \in 0 .. Legs[f]
    BY <1>1, <1>2, <1>8 DEF ClassifySelf
  <2> HIDE DEF m
  <2>2. did[f][m] \in Conduct
    BY <2>1, <1>1 DEF DidTyped
  <2>3. c \in Conduct
    BY <2>0, <2>2 DEF Conduct
  <2>4. did' = [did EXCEPT ![f] = [did[f] EXCEPT ![m] = c]]
    BY <1>1, <1>8, <2>1 DEF ClassifySelf, n, m, DidTyped
  <2>5. QED
    BY <1>1, <2>1, <2>3, <2>4, DidUpdate
<1>9. ASSUME SkipOffLane(f) PROVE DidTyped'
  <2> DEFINE c == [mine EXCEPT !.noted = @ \cup {"inapplicable"}]
  <2>1. n \in 0 .. Legs[f]
    BY <1>1, <1>9 DEF SkipOffLane, n
  <2>2. mine \in Conduct
    BY <1>1, <2>1 DEF DidTyped
  <2>3. c \in Conduct
    BY <2>2 DEF Conduct, SoftSkipKinds
  <2>4. did' = [did EXCEPT ![f] = [did[f] EXCEPT ![n] = c]]
    BY <1>9 DEF SkipOffLane, n
  <2>5. QED
    BY <1>1, <2>1, <2>3, <2>4, DidUpdate
<1>10. ASSUME RecordLeg(f) PROVE DidTyped'
  <2> DEFINE v == AttachObservation(LegVerdict(f), pending[f] # {})
             c == [mine EXCEPT !.rowId = RowIdOf(f), !.row = v.disposition,
                               !.carries = pending[f]]
  <2>1. n \in 0 .. Legs[f] /\ mine \in Conduct
    BY <1>2, <1>10 DEF RecordLeg, Finish
  <2>2. v \in VerdictsGiven /\ RowIdOf(f) \in Ids /\ pending[f] \in SUBSET Nat
    <3>1. Current(f) <= Legs[f]
      BY <1>1, <2>1 DEF n
    <3>2. v \in VerdictsGiven /\ RowIdOf(f) \in Ids
      BY <3>1, LegCall
    <3>3. QED
      BY <3>2 DEF RecorderTypeOK
  <2>3. did' = [did EXCEPT ![f] = [did[f] EXCEPT ![n] = c]]
    BY <1>1, <1>10, <2>1 DEF RecordLeg, n, DidTyped
  <2> HIDE DEF v
  <2>4. c \in Conduct
    BY <2>1, <2>2 DEF Conduct, VerdictsGiven
  <2>5. QED
    BY <1>1, <2>1, <2>3, <2>4, DidUpdate
<1>11. QED
  BY <1>3, <1>4, <1>5, <1>6, <1>7, <1>8, <1>9, <1>10
     DEF Body, End, Hooks, Teardown, Observe, EndBody, BeforeAll, BeginLeg,
         HideLeg, SkipUnrecorded, AfterAll

(* The marks stay within what they count, and the recorder knows only of    *)
(* tests that vitest has settled.                                          *)
JournalMarks ==
  \A f \in Files : fileMark[f] <= Len(journal[f]) /\ legMark[f] <= Len(journal[f])
NoteMarks == \A f \in Files : noteMark[f] <= Len(notes[f])
TasksFit == \A f \in Files : states[f] \subseteq DOMAIN tasks[f] /\ Len(tasks[f]) <= Legs[f]

PlainTyped ==
  /\ phase \in [Files -> Phases]
  /\ fileMark \in [Files -> Nat] /\ legMark \in [Files -> Nat] /\ noteMark \in [Files -> Nat]
  /\ notes \in [Files -> Seq(Notes)]
  /\ explicit \in [Files -> ReqIds \cup {NoId}]
  /\ pending \in [Files -> SUBSET Nat]
  /\ calls \in [Files -> Nat] /\ fileCalls \in [Files -> Nat]
  /\ verdict \in [Files -> Tasks]
  /\ tasks \in [Files -> Seq(Tasks)]
  /\ states \in [Files -> SUBSET Nat]

LEMMA TypeParts ==
  RecorderTypeOK <=>
    LedgerTypeOK /\ PlainTyped /\ DidTyped /\ JournalMarks /\ NoteMarks /\ TasksFit
BY DEF RecorderTypeOK, PlainTyped, DidTyped, JournalMarks, NoteMarks, TasksFit

LEMMA PlainStep ==
  ASSUME PlainTyped, LegsInTurn, NEW f \in Files, Body(f) \/ End(f) \/ Hooks(f)
  PROVE  PlainTyped'
<1> USE DEF PlainTyped, markVars, legVars, resultVars
<1>0. {"loading", "between", "running", "ended", "closed"} = Phases
  BY DEF Phases
<1>1. CASE Expect(f)
  BY <1>1 DEF Expect
<1>2. CASE Observe(f)
  <2>1. pending' \in [Files -> SUBSET Nat]
    BY <1>2 DEF Observe, Current
  <2>2. QED
    BY <1>2, <2>1 DEF Observe
<1>3. ASSUME NEW note \in NoteKinds, Note(f, note) PROVE PlainTyped'
  <2>1. note \in Notes
    BY RecorderAssumption
  <2>2. notes' \in [Files -> Seq(Notes)]
    BY <1>3, <2>1 DEF Note
  <2>3. QED
    BY <1>3, <2>2 DEF Note
<1>4. ASSUME NEW id \in GateIds, BehaviorGate(f, id) PROVE PlainTyped'
  BY <1>4 DEF BehaviorGate
<1>5. ASSUME NEW id \in ReqIds, Cite(f, id) PROVE PlainTyped'
  BY <1>5 DEF Cite
<1>6. ASSUME NEW d \in SelfVerdicts[f], ClassifySelf(f, d) PROVE PlainTyped'
  BY <1>6 DEF ClassifySelf
<1>7. ASSUME NEW task \in Tasks, EndBody(f, task) PROVE PlainTyped'
  BY <1>0, <1>7 DEF EndBody
<1>8. CASE BeforeAll(f)
  BY <1>0, <1>8 DEF BeforeAll
<1>9. CASE BeginLeg(f)
  BY <1>0, <1>9 DEF BeginLeg
<1>10. CASE SkipOffLane(f)
  <2> DEFINE note  == [kind |-> "inapplicable", conclusive |-> FALSE]
             skip  == [state |-> "skip", loss |-> FALSE]
  <2>1. note \in Notes /\ skip \in Tasks
    BY DEF Notes, SoftSkipKinds, Tasks, TestStates
  <2>2. notes' = [notes EXCEPT ![f] = Append(@, note)] /\ verdict' = [verdict EXCEPT ![f] = skip]
    BY <1>10 DEF SkipOffLane
  <2> HIDE DEF note, skip
  <2>3. notes' \in [Files -> Seq(Notes)] /\ verdict' \in [Files -> Tasks]
    BY <2>1, <2>2
  <2>4. QED
    BY <1>0, <1>10, <2>3 DEF SkipOffLane
<1>11. ASSUME NEW loss \in BOOLEAN, HideLeg(f, loss) PROVE PlainTyped'
  <2> DEFINE task == IF verdict[f].state = "fail" THEN verdict[f]
                     ELSE [state |-> "fail", loss |-> loss]
  <2>1. task \in Tasks /\ Finish(f, task)
    BY <1>11 DEF HideLeg, Tasks, TestStates
  <2> HIDE DEF task
  <2>2. tasks' \in [Files -> Seq(Tasks)] /\ phase' \in [Files -> Phases]
    BY <1>0, <2>1 DEF Finish
  <2>3. QED
    BY <1>11, <2>2 DEF HideLeg
<1>12. CASE SkipUnrecorded(f)
  BY <1>0, <1>12 DEF SkipUnrecorded, Finish
<1>13. CASE RecordLeg(f)
  <2>1. tasks' \in [Files -> Seq(Tasks)] /\ phase' \in [Files -> Phases]
    <3>1. Finish(f, verdict[f])
      BY <1>13 DEF RecordLeg
    <3>2. QED
      BY <1>0, <3>1 DEF Finish
  <2>2. states' \in [Files -> SUBSET Nat] /\ fileCalls' \in [Files -> Nat]
    <3>1. Current(f) \in Nat /\ states[f] \cup {Current(f)} \in SUBSET Nat
      BY DEF Current
    <3>2. /\ states' = [states EXCEPT ![f] = states[f] \cup {Current(f)}]
          /\ fileCalls' = [fileCalls EXCEPT ![f] = fileCalls[f] + calls[f]]
      BY <1>13 DEF RecordLeg
    <3>3. calls[f] \in Nat /\ fileCalls[f] \in Nat
      OBVIOUS
    <3>4. fileCalls[f] + calls[f] \in Nat
      BY <3>3
    <3>5. states' \in [Files -> SUBSET Nat]
      BY <3>1, <3>2
    <3>6. QED
      BY <3>2, <3>4, <3>5
  <2>3. /\ UNCHANGED <<fileMark, legMark, noteMark, notes, calls, verdict>>
        /\ explicit' = [explicit EXCEPT ![f] = NoId] /\ pending' = [pending EXCEPT ![f] = {}]
    BY <1>13 DEF RecordLeg
  <2>4. QED
    BY <2>1, <2>2, <2>3
<1>14. CASE AfterAll(f)
  BY <1>0, <1>14 DEF AfterAll
<1>15. QED
  BY <1>1, <1>2, <1>3, <1>4, <1>5, <1>6, <1>7, <1>8, <1>9, <1>10, <1>11, <1>12, <1>13, <1>14
     DEF Body, End, Hooks, Teardown

LEMMA JournalMarksStep ==
  ASSUME LedgerInv, LedgerInv', LedgerMoves, PlainTyped, JournalMarks, NEW f \in Files,
         Body(f) \/ End(f) \/ Hooks(f)
  PROVE  JournalMarks'
<1>1. \A g \in Files : /\ Len(journal[g]) \in Nat /\ Len(journal'[g]) \in Nat
                        /\ Len(journal[g]) <= Len(journal'[g])
  BY DEF LedgerInv, LedgerTypeOK, LedgerMoves
<1>2. \A g \in Files : /\ fileMark[g] \in Nat /\ legMark[g] \in Nat
                        /\ fileMark[g] <= Len(journal[g]) /\ legMark[g] <= Len(journal[g])
  BY DEF JournalMarks, PlainTyped
<1>3. \A g \in Files : fileMark[g] <= Len(journal'[g]) /\ legMark[g] <= Len(journal'[g])
  <2> SUFFICES ASSUME NEW g \in Files
               PROVE  fileMark[g] <= Len(journal'[g]) /\ legMark[g] <= Len(journal'[g])
    OBVIOUS
  <2> DEFINE a == Len(journal[g])
             b == Len(journal'[g])
  <2>1. /\ a \in Nat /\ b \in Nat /\ a <= b
        /\ fileMark[g] \in Nat /\ legMark[g] \in Nat /\ fileMark[g] <= a /\ legMark[g] <= a
    BY <1>1, <1>2
  <2> HIDE DEF a, b
  <2>2. fileMark[g] <= b /\ legMark[g] <= b
    BY <2>1
  <2>3. QED
    BY <2>2 DEF b
<1> USE DEF PlainTyped
<1>4. CASE UNCHANGED <<fileMark, legMark>>
  BY <1>3, <1>4 DEF JournalMarks
<1>5. CASE BeforeAll(f)
  <2>1. UNCHANGED <<journal, legMark>> /\ fileMark' = [fileMark EXCEPT ![f] = Len(journal[f])]
    BY <1>5 DEF BeforeAll, vars, ledgerVars
  <2>2. QED
    BY <1>1, <1>2, <2>1 DEF JournalMarks
<1>6. CASE BeginLeg(f)
  <2>1. UNCHANGED <<journal, fileMark>> /\ legMark' = [legMark EXCEPT ![f] = Len(journal[f])]
    BY <1>6 DEF BeginLeg, vars, ledgerVars
  <2>2. QED
    BY <1>1, <1>2, <2>1 DEF JournalMarks
<1>7. CASE AfterAll(f)
  <2>1. fileMark' = [fileMark EXCEPT ![f] = 0] /\ legMark' = [legMark EXCEPT ![f] = 0]
    BY <1>7 DEF AfterAll
  <2>2. QED
    BY <1>1, <1>3, <2>1 DEF JournalMarks
<1>8. QED
  BY <1>4, <1>5, <1>6, <1>7
     DEF Body, End, Hooks, Teardown, Expect, Observe, Note, BehaviorGate, Cite, ClassifySelf,
         EndBody, SkipOffLane, HideLeg, SkipUnrecorded, RecordLeg, Finish, markVars

LEMMA NoteMarksStep ==
  ASSUME PlainTyped, NoteMarks, NEW f \in Files, Body(f) \/ End(f) \/ Hooks(f)
  PROVE  NoteMarks'
<1>1. \A g \in Files : /\ noteMark[g] \in Nat /\ Len(notes[g]) \in Nat
                        /\ noteMark[g] <= Len(notes[g]) /\ notes[g] \in Seq(Notes)
  BY DEF PlainTyped, NoteMarks
<1>2. CASE UNCHANGED <<noteMark, notes>>
  BY <1>2 DEF NoteMarks
<1>3. ASSUME NEW note, notes' = [notes EXCEPT ![f] = Append(@, note)], UNCHANGED noteMark
      PROVE  NoteMarks'
  <2>1. Len(Append(notes[f], note)) = Len(notes[f]) + 1
    BY <1>1
  <2>2. QED
    BY <1>1, <1>3, <2>1 DEF NoteMarks, PlainTyped
<1>4. CASE BeginLeg(f)
  <2>1. noteMark' = [noteMark EXCEPT ![f] = Len(notes[f])] /\ UNCHANGED notes
    BY <1>4 DEF BeginLeg
  <2>2. QED
    BY <1>1, <2>1 DEF NoteMarks, PlainTyped
<1>5. ASSUME NEW note \in NoteKinds, Note(f, note) PROVE NoteMarks'
  BY <1>3, <1>5 DEF Note, markVars
<1>6. CASE SkipOffLane(f)
  BY <1>3, <1>6 DEF SkipOffLane, markVars
<1>7. QED
  BY <1>2, <1>4, <1>5, <1>6
     DEF Body, End, Hooks, Teardown, Expect, Observe, BehaviorGate, Cite, ClassifySelf,
         EndBody, BeforeAll, HideLeg, SkipUnrecorded, RecordLeg, AfterAll, Finish,
         markVars, legVars

LEMMA TasksFitStep ==
  ASSUME PlainTyped, LegsInTurn, TasksFit, NEW f \in Files, Body(f) \/ End(f) \/ Hooks(f)
  PROVE  TasksFit'
<1>1. \A g \in Files : /\ tasks[g] \in Seq(Tasks) /\ Len(tasks[g]) \in Nat
                        /\ DOMAIN tasks[g] = 1 .. Len(tasks[g])
                        /\ states[g] \subseteq DOMAIN tasks[g] /\ Len(tasks[g]) <= Legs[g]
                        /\ Legs[g] \in Nat
  <2>1. Legs \in [Files -> Nat]
    BY RecorderAssumption
  <2>2. \A g \in Files : tasks[g] \in Seq(Tasks)
    BY DEF PlainTyped
  <2>3. \A g \in Files : states[g] \subseteq DOMAIN tasks[g] /\ Len(tasks[g]) <= Legs[g]
    BY DEF TasksFit
  <2>4. \A g \in Files : Len(tasks[g]) \in Nat /\ DOMAIN tasks[g] = 1 .. Len(tasks[g])
    BY <2>2
  <2>5. QED
    BY <2>1, <2>2, <2>3, <2>4
<1>2. CASE UNCHANGED <<states, tasks>>
  BY <1>2 DEF TasksFit
<1>3. ASSUME NEW task, Finish(f, task)
      PROVE  /\ \A g \in Files : Len(tasks'[g]) <= Legs[g]
             /\ DOMAIN tasks'[f] = DOMAIN tasks[f] \cup {Current(f)}
             /\ \A g \in Files \ {f} : tasks'[g] = tasks[g]
  <2>1. Current(f) <= Legs[f] /\ tasks' = [tasks EXCEPT ![f] = Append(@, task)]
    BY <1>3 DEF Finish, LegsInTurn
  <2>2. /\ Len(Append(tasks[f], task)) = Len(tasks[f]) + 1
        /\ DOMAIN Append(tasks[f], task) = 1 .. Len(tasks[f]) + 1
    BY <1>1
  <2>3. tasks'[f] = Append(tasks[f], task) /\ \A g \in Files \ {f} : tasks'[g] = tasks[g]
    BY <2>1 DEF PlainTyped
  <2>4. Len(tasks'[f]) = Current(f) /\ DOMAIN tasks'[f] = 1 .. Current(f)
    BY <2>2, <2>3 DEF Current
  <2>5. QED
    BY <1>1, <2>1, <2>3, <2>4 DEF Current
<1>4. ASSUME NEW loss \in BOOLEAN, HideLeg(f, loss) PROVE TasksFit'
  <2>1. PICK task : Finish(f, task)
    BY <1>4 DEF HideLeg
  <2>2. UNCHANGED states
    BY <1>4 DEF HideLeg
  <2>3. QED
    BY <1>1, <1>3, <2>1, <2>2 DEF TasksFit
<1>5. CASE SkipUnrecorded(f)
  <2>1. Finish(f, verdict[f]) /\ UNCHANGED states
    BY <1>5 DEF SkipUnrecorded
  <2>2. QED
    BY <1>1, <1>3, <2>1 DEF TasksFit
<1>6. CASE RecordLeg(f)
  <2>1. Finish(f, verdict[f]) /\ states' = [states EXCEPT ![f] = @ \cup {Current(f)}]
    BY <1>6 DEF RecordLeg
  <2>2. \A g \in Files : states'[g] = IF g = f THEN states[g] \cup {Current(f)} ELSE states[g]
    BY <2>1 DEF PlainTyped
  <2>3. QED
    BY <1>1, <1>3, <2>1, <2>2 DEF TasksFit
<1>7. CASE AfterAll(f)
  <2>1. states' = [states EXCEPT ![f] = {}] /\ UNCHANGED tasks
    BY <1>7 DEF AfterAll
  <2>2. QED
    BY <1>1, <2>1 DEF TasksFit, PlainTyped
<1>8. QED
  BY <1>2, <1>4, <1>5, <1>6, <1>7
     DEF Body, End, Hooks, Teardown, Expect, Observe, Note, BehaviorGate, Cite, ClassifySelf,
         EndBody, BeforeAll, BeginLeg, SkipOffLane, resultVars

LEMMA TypeStep ==
  ASSUME LedgerInv, RecorderTypeOK, LegsInTurn, NEW f \in Files,
         Body(f) \/ End(f) \/ Hooks(f), LedgerInv', LedgerMoves
  PROVE  RecorderTypeOK'
<1>1. LedgerTypeOK'
  BY DEF LedgerInv
<1>2. PlainTyped /\ JournalMarks /\ NoteMarks /\ TasksFit
  BY TypeParts
<1>3. PlainTyped' /\ JournalMarks' /\ NoteMarks' /\ TasksFit' /\ DidTyped'
  BY <1>2, PlainStep, JournalMarksStep, NoteMarksStep, TasksFitStep, DidStep
<1>4. QED
  BY <1>1, <1>3 DEF RecorderTypeOK, PlainTyped, DidTyped, JournalMarks, NoteMarks, TasksFit

-----------------------------------------------------------------------------
(* A step of one file leaves the others where they are.                    *)
Standing(g) ==
  /\ phase'[g] = phase[g] /\ tasks'[g] = tasks[g] /\ did'[g] = did[g]
  /\ explicit'[g] = explicit[g] /\ ledger'[g] = ledger[g]

LEMMA RecordingTouches ==
  ASSUME LedgerTypeOK, NEW c \in OwnCalls, TryRecord(c)
  PROVE  \A g \in Files, id \in Ids :
           (g # c.writer \/ id # c.id) =>
             /\ g # c.writer => ledger'[g] = ledger[g]
             /\ ledger'[g][id] = ledger[g][id]
<1>1. CASE UNCHANGED vars
  BY <1>1 DEF vars, ledgerVars
<1>2. CASE RecordRequirement(c)
  <2>1. PICK e : ledger' = [ledger EXCEPT ![c.writer][c.id] = e]
    BY <1>2 DEF RecordRequirement
  <2>2. ledger \in [Files -> [Ids -> Entry \cup {Absent}]]
    BY DEF LedgerTypeOK
  <2>3. QED
    BY <2>1, <2>2
<1>3. QED
  BY <1>1, <1>2 DEF TryRecord

(* What a step records, if it records at all.                              *)
StepRecords(f, id) ==
  \/ UNCHANGED vars
  \/ \E c \in OwnCalls : c.writer = f /\ c.id = id /\ TryRecord(c)

LEMMA OtherRowsStand ==
  ASSUME LedgerTypeOK, NEW f \in Files, NEW id \in Ids, StepRecords(f, id)
  PROVE  /\ \A g \in Files \ {f} : ledger'[g] = ledger[g]
         /\ \A other \in Ids \ {id} : ledger'[f][other] = ledger[f][other]
<1>1. CASE UNCHANGED vars
  BY <1>1 DEF vars, ledgerVars
<1>2. CASE \E c \in OwnCalls : c.writer = f /\ c.id = id /\ TryRecord(c)
  <2>1. PICK c \in OwnCalls : c.writer = f /\ c.id = id /\ TryRecord(c)
    BY <1>2
  <2>2. QED
    BY <2>1, RecordingTouches
<1>3. QED
  BY <1>1, <1>2 DEF StepRecords

LEMMA LedgerSteps ==
  ASSUME RecorderTypeOK, LegsInTurn, NEW f \in Files
  PROVE  /\ \A id \in GateIds : BehaviorGate(f, id) => StepRecords(f, id)
         /\ \A d \in SelfVerdicts[f] : ClassifySelf(f, d) => StepRecords(f, FileIds[f])
         /\ SkipOffLane(f) => StepRecords(f, LaneId)
         /\ RecordLeg(f) => StepRecords(f, RowIdOf(f)) /\ Current(f) <= Legs[f]
         /\ AfterAll(f) => StepRecords(f, FileIds[f])
<1>1. ASSUME NEW id \in GateIds, BehaviorGate(f, id) PROVE StepRecords(f, id)
  <2> DEFINE d == IF id \in OptedOut THEN "skipped" ELSE "inapplicable"
             c == CallOf(f, id, Verdict(d), NoCount, NoFile, FALSE)
  <2>1. d \in Dispositions
    BY DEF Dispositions
  <2>2. RecordRequirement(c)
    BY <1>1 DEF BehaviorGate
  <2>3. c \in OwnCalls
    BY <2>1, RowCalls
  <2>4. c.writer = f /\ c.id = id
    BY DEF CallOf
  <2> HIDE DEF c
  <2>5. QED
    BY <2>2, <2>3, <2>4 DEF StepRecords, TryRecord
<1>2. ASSUME NEW d \in SelfVerdicts[f], ClassifySelf(f, d) PROVE StepRecords(f, FileIds[f])
  <2> DEFINE c == CallOf(f, FileIds[f], Verdict(d), NoCount, NoFile, FALSE)
  <2>1. d \in Dispositions
    BY RecorderAssumption
  <2>2. RecordRequirement(c)
    BY <1>2 DEF ClassifySelf
  <2>3. c \in OwnCalls
    BY <2>1, RowCalls
  <2>4. c.writer = f /\ c.id = FileIds[f]
    BY DEF CallOf
  <2> HIDE DEF c
  <2>5. QED
    BY <2>2, <2>3, <2>4 DEF StepRecords, TryRecord
<1>3. ASSUME SkipOffLane(f) PROVE StepRecords(f, LaneId)
  <2> DEFINE c == CallOf(f, LaneId, Verdict("inapplicable"), NoCount, f, FALSE)
  <2>1. TryRecord(c) /\ c \in OwnCalls
    BY <1>3, RowCalls DEF SkipOffLane
  <2>2. c.writer = f /\ c.id = LaneId
    BY DEF CallOf
  <2> HIDE DEF c
  <2>3. QED
    BY <2>1, <2>2 DEF StepRecords
<1>4. ASSUME RecordLeg(f) PROVE StepRecords(f, RowIdOf(f)) /\ Current(f) <= Legs[f]
  <2> DEFINE c == CallOf(f, RowIdOf(f), AttachObservation(LegVerdict(f), pending[f] # {}),
                         calls[f], f, TRUE)
  <2>1. Current(f) <= Legs[f]
    BY <1>4 DEF RecordLeg, Finish, LegsInTurn
  <2>2. TryRecord(c)
    BY <1>4 DEF RecordLeg
  <2>3. c \in OwnCalls /\ c.writer = f /\ c.id = RowIdOf(f)
    BY <2>1, LegCall
  <2> HIDE DEF c
  <2>4. QED
    BY <2>1, <2>2, <2>3 DEF StepRecords
<1>5. ASSUME AfterAll(f) PROVE StepRecords(f, FileIds[f])
  <2> DEFINE c == CallOf(f, FileIds[f], FileVerdict(f), fileCalls[f], f, FALSE)
  <2>1. UNCHANGED vars \/ TryRecord(c)
    BY <1>5 DEF AfterAll
  <2>2. c \in OwnCalls
    BY RowCalls
  <2>3. c.writer = f /\ c.id = FileIds[f]
    BY DEF CallOf
  <2> HIDE DEF c
  <2>4. QED
    BY <2>1, <2>2, <2>3 DEF StepRecords
<1>6. QED
  BY <1>1, <1>2, <1>3, <1>4, <1>5

LEMMA OthersStand ==
  ASSUME RecorderTypeOK, LegsInTurn, NEW f \in Files, Body(f) \/ End(f) \/ Hooks(f)
  PROVE  \A g \in Files \ {f} : Standing(g)
<1>1. \A g \in Files \ {f} : ledger'[g] = ledger[g]
  <2>1. RowIdOf(f) \in Ids \/ ~(Current(f) <= Legs[f])
    BY LegCall
  <2>2. GateIds \subseteq Ids /\ LaneId \in Ids /\ FileIds[f] \in Ids
    BY RecorderAssumption
  <2>3. UNCHANGED ledger \/ \E id \in Ids : StepRecords(f, id)
    BY <2>1, <2>2, LedgerSteps
       DEF Body, End, Hooks, Teardown, Expect, Observe, Note, Cite, EndBody, BeforeAll, BeginLeg,
           HideLeg, SkipUnrecorded, vars, ledgerVars
  <2>4. QED
    BY <2>3, OtherRowsStand DEF RecorderTypeOK
<1>2. \A g \in Files \ {f} :
        phase'[g] = phase[g] /\ tasks'[g] = tasks[g] /\ explicit'[g] = explicit[g]
  BY DEF RecorderTypeOK, Body, End, Hooks, Teardown, Expect, Observe, Note, BehaviorGate, Cite,
         ClassifySelf, EndBody, BeforeAll, BeginLeg, SkipOffLane, HideLeg, SkipUnrecorded,
         RecordLeg, AfterAll, Finish, markVars, legVars, resultVars
<1>3. \A g \in Files \ {f} : did'[g] = did[g]
  BY DEF RecorderTypeOK, Body, End, Hooks, Teardown, Expect, Observe, Note, BehaviorGate, Cite,
         ClassifySelf, EndBody, BeforeAll, BeginLeg, SkipOffLane, HideLeg, SkipUnrecorded,
         RecordLeg, AfterAll, Finish
<1>4. QED
  BY <1>1, <1>2, <1>3 DEF Standing

(* What a step makes of the rows and citations of the legs of its file.    *)
SameRows(f) ==
  \A n \in LegsOf(f) : did'[f][n].row = did[f][n].row /\ did'[f][n].rowId = did[f][n].rowId
SameCitations(f) == \A n \in LegsOf(f) : did'[f][n].cited = did[f][n].cited

LEMMA LegConduct ==
  ASSUME RecorderTypeOK, NEW f \in Files
  PROVE  /\ did[f] \in [0 .. Legs[f] -> Conduct] /\ DOMAIN did = Files
         /\ \A n \in 0 .. Legs[f] : did[f][n] \in Conduct
         /\ LegsOf(f) \subseteq 0 .. Legs[f] /\ Legs[f] \in Nat
         /\ Current(f) \in Nat \ {0} /\ Len(tasks[f]) \in Nat
BY RecorderAssumption DEF RecorderTypeOK, LegsOf, Current

LEMMA BodyRows ==
  ASSUME RecorderTypeOK, NEW f \in Files, Body(f) \/ SkipOffLane(f)
  PROVE  SameRows(f) /\ ((\E id \in ReqIds : Cite(f, id)) \/ SameCitations(f))
<1> DEFINE n == Current(f)
<1> USE LegConduct DEF SameRows, SameCitations, Conduct
<1>1. CASE Expect(f)
  BY <1>1 DEF Expect
<1>2. CASE Observe(f)
  BY <1>2 DEF Observe
<1>3. ASSUME NEW note \in NoteKinds, Note(f, note) PROVE SameRows(f) /\ SameCitations(f)
  BY <1>3 DEF Note
<1>4. ASSUME NEW id \in GateIds, BehaviorGate(f, id) PROVE SameRows(f) /\ SameCitations(f)
  BY <1>4 DEF BehaviorGate
<1>5. ASSUME NEW id \in ReqIds, Cite(f, id) PROVE SameRows(f)
  BY <1>5 DEF Cite
<1>6. ASSUME NEW d \in SelfVerdicts[f], ClassifySelf(f, d) PROVE SameRows(f) /\ SameCitations(f)
  BY <1>6 DEF ClassifySelf
<1>7. CASE SkipOffLane(f)
  BY <1>7 DEF SkipOffLane
<1>8. QED
  BY <1>1, <1>2, <1>3, <1>4, <1>5, <1>6, <1>7 DEF Body

(* How a step moves its file on. *)
LEMMA PhaseSteps ==
  ASSUME RecorderTypeOK, NEW f \in Files
  PROVE  /\ Body(f) => /\ phase[f] \in {"loading", "running"}
                       /\ phase'[f] = phase[f] /\ tasks'[f] = tasks[f]
         /\ End(f) => phase[f] = "running" /\ phase'[f] = "ended" /\ tasks'[f] = tasks[f]
         /\ BeforeAll(f) => phase'[f] = "between" /\ phase[f] = "loading" /\ tasks'[f] = tasks[f]
         /\ BeginLeg(f) => phase'[f] = "running" /\ phase[f] = "between" /\ tasks'[f] = tasks[f]
         /\ SkipOffLane(f) => phase'[f] = "ended" /\ phase[f] = "between" /\ tasks'[f] = tasks[f]
         /\ Teardown(f) => /\ phase[f] = "ended" /\ phase'[f] = "between"
                           /\ Len(tasks'[f]) = Len(tasks[f]) + 1
         /\ AfterAll(f) => phase[f] = "between" /\ phase'[f] = "closed" /\ tasks'[f] = tasks[f]
<1> USE DEF RecorderTypeOK
<1>1. Body(f) => /\ phase[f] \in {"loading", "running"}
                 /\ phase'[f] = phase[f] /\ tasks'[f] = tasks[f]
  BY DEF Body, Expect, Observe, Note, BehaviorGate, MayRecord, Cite, ClassifySelf, resultVars
<1>2. End(f) => phase[f] = "running" /\ phase'[f] = "ended" /\ tasks'[f] = tasks[f]
  BY DEF End, EndBody, resultVars
<1>3. BeforeAll(f) => phase'[f] = "between" /\ phase[f] = "loading" /\ tasks'[f] = tasks[f]
  BY DEF BeforeAll, resultVars
<1>4. BeginLeg(f) => phase'[f] = "running" /\ phase[f] = "between" /\ tasks'[f] = tasks[f]
  BY DEF BeginLeg, resultVars
<1>5. SkipOffLane(f) => phase'[f] = "ended" /\ phase[f] = "between" /\ tasks'[f] = tasks[f]
  BY DEF SkipOffLane, resultVars
<1>6. ASSUME NEW task, Finish(f, task)
      PROVE  /\ phase[f] = "ended" /\ phase'[f] = "between"
             /\ Len(tasks'[f]) = Len(tasks[f]) + 1
  BY <1>6 DEF Finish
<1>7. Teardown(f) => \E task : Finish(f, task)
  BY DEF Teardown, HideLeg, SkipUnrecorded, RecordLeg
<1>8. AfterAll(f) => phase[f] = "between" /\ phase'[f] = "closed" /\ tasks'[f] = tasks[f]
  BY DEF AfterAll
<1>9. QED
  BY <1>1, <1>2, <1>3, <1>4, <1>5, <1>6, <1>7, <1>8

LEMMA LegsInTurnStep ==
  ASSUME RecorderTypeOK, LegsInTurn, NEW f \in Files, Body(f) \/ End(f) \/ Hooks(f)
  PROVE  LegsInTurn'
<1> DEFINE Turn(g) ==
      /\ phase[g] \in {"running", "ended"} => Current(g) <= Legs[g]
      /\ phase[g] = "running" => g \notin OffLane
      /\ \A n \in LegsOf(g) : n >= Current(g) =>
           /\ did[g][n].row = "none"
           /\ (n > Current(g) \/ phase[g] \notin {"running", "ended"}) => did[g][n].cited = {}
<1>1. \A g \in Files : Turn(g)
  BY DEF LegsInTurn
<1>2. ASSUME NEW g \in Files \ {f} PROVE Turn(g)'
  BY <1>1, <1>2, OthersStand DEF Standing, Current, LegsOf
<1>3. Turn(f)'
  <2>1. Turn(f) /\ Current(f) \in Nat /\ LegsOf(f) \subseteq Nat
    BY <1>1, LegConduct
  <2>2. CASE Body(f)
    <3>1. phase'[f] = phase[f] /\ Current(f)' = Current(f)
      BY <2>2, PhaseSteps DEF Current
    <3>2. CASE SameRows(f) /\ SameCitations(f)
      BY <2>1, <3>1, <3>2 DEF SameRows, SameCitations
    <3>3. ASSUME NEW id \in ReqIds, Cite(f, id) PROVE Turn(f)'
      <4>1. phase[f] = "running" /\ SameRows(f)
        BY <2>2, <3>3, BodyRows DEF Cite
      <4>2. \A n \in LegsOf(f) : n # Current(f) => did'[f][n].cited = did[f][n].cited
        BY <3>3, LegConduct DEF Cite, Conduct
      <4>3. QED
        BY <2>1, <3>1, <4>1, <4>2 DEF SameRows
    <3>4. QED
      BY <2>2, <3>2, <3>3, BodyRows
  <2>3. CASE End(f) \/ BeforeAll(f) \/ AfterAll(f)
    <3>1. did'[f] = did[f]
      BY <2>3 DEF End, EndBody, BeforeAll, AfterAll
    <3>2. Current(f)' = Current(f)
      BY <2>3, PhaseSteps DEF Current
    <3>3. AfterAll(f) => Current(f) > Legs[f]
      BY DEF AfterAll
    <3>4. QED
      BY <2>1, <2>3, <3>1, <3>2, <3>3, PhaseSteps, LegConduct DEF LegsOf
  <2>4. CASE BeginLeg(f)
    <3>1. did'[f] = did[f] /\ Current(f) <= Legs[f] /\ f \notin OffLane
      BY <2>4 DEF BeginLeg
    <3>2. Current(f)' = Current(f)
      BY <2>4, PhaseSteps DEF Current
    <3>3. QED
      BY <2>1, <2>4, <3>1, <3>2, PhaseSteps
  <2>5. CASE SkipOffLane(f)
    <3>1. Current(f) <= Legs[f] /\ SameRows(f) /\ SameCitations(f)
      BY <2>5, BodyRows DEF SkipOffLane, Cite
    <3>2. Current(f)' = Current(f)
      BY <2>5, PhaseSteps DEF Current
    <3>3. QED
      BY <2>1, <2>5, <3>1, <3>2, PhaseSteps DEF SameRows, SameCitations
  <2>6. CASE Teardown(f)
    <3>1. \A n \in LegsOf(f) : n # Current(f) =>
            did'[f][n].row = did[f][n].row /\ did'[f][n].cited = did[f][n].cited
      BY <2>6, LegConduct, ZenonT(40) DEF Teardown, HideLeg, SkipUnrecorded, RecordLeg, Conduct
    <3>2. Current(f)' = Current(f) + 1
      BY <2>6, PhaseSteps, LegConduct DEF Current
    <3>3. QED
      BY <2>1, <2>6, <3>1, <3>2, PhaseSteps
  <2>7. QED
    BY <2>2, <2>3, <2>4, <2>5, <2>6 DEF Hooks
<1>4. QED
  BY <1>2, <1>3 DEF LegsInTurn

-----------------------------------------------------------------------------
(* While a leg is on, the citation in wait is one it made itself. A file   *)
(* off its lane never runs a body, so that none is ever made.              *)
CitationIsTheLegs ==
  \A f \in Files :
    /\ f \in OffLane => explicit[f] = NoId
    /\ phase[f] \in {"running", "ended"} =>
         IF explicit[f] = NoId THEN did[f][Current(f)].cited = {}
         ELSE explicit[f] \in did[f][Current(f)].cited

LEMMA CitationStep ==
  ASSUME RecorderTypeOK, LegsInTurn, CitationIsTheLegs, NEW f \in Files,
         Body(f) \/ End(f) \/ Hooks(f)
  PROVE  CitationIsTheLegs'
<1> DEFINE Own(g) ==
      /\ g \in OffLane => explicit[g] = NoId
      /\ phase[g] \in {"running", "ended"} =>
           IF explicit[g] = NoId THEN did[g][Current(g)].cited = {}
           ELSE explicit[g] \in did[g][Current(g)].cited
<1>1. \A g \in Files : Own(g)
  BY DEF CitationIsTheLegs
<1>2. ASSUME NEW g \in Files \ {f} PROVE Own(g)'
  BY <1>1, <1>2, OthersStand DEF Standing, Current
<1>3. Own(f)'
  <2>1. Own(f) /\ explicit[f] \in ReqIds \cup {NoId}
    BY <1>1 DEF RecorderTypeOK
  <2>2. phase[f] \in {"running", "ended"} => Current(f) \in LegsOf(f)
    BY LegConduct DEF LegsInTurn, LegsOf
  <2>3. CASE \E id \in ReqIds : Cite(f, id)
    <3>1. PICK id \in ReqIds : Cite(f, id)
      BY <2>3
    <3>2. phase[f] = "running" /\ explicit'[f] = id /\ f \notin OffLane
      BY <3>1 DEF Cite, RecorderTypeOK, LegsInTurn
    <3>3. id \in did'[f][Current(f)].cited
      BY <2>2, <3>1, <3>2, LegConduct DEF Cite, Conduct
    <3>4. Current(f)' = Current(f)
      BY <3>1, PhaseSteps DEF Current, Body
    <3>5. id # NoId
      BY RecorderAssumption
    <3>6. QED
      BY <3>2, <3>3, <3>4, <3>5
  <2>4. CASE Body(f) /\ ~(\E id \in ReqIds : Cite(f, id))
    <3>1. SameCitations(f) /\ phase'[f] = phase[f] /\ Current(f)' = Current(f)
      BY <2>4, BodyRows, PhaseSteps DEF Current
    <3>2. explicit'[f] = explicit[f]
      BY <2>4 DEF Body, Expect, Observe, Note, BehaviorGate, ClassifySelf, legVars
    <3>3. QED
      BY <2>1, <2>2, <3>1, <3>2 DEF SameCitations
  <2>5. CASE End(f)
    <3>1. did'[f] = did[f] /\ explicit'[f] = explicit[f] /\ Current(f)' = Current(f)
      BY <2>5, PhaseSteps DEF End, EndBody, legVars, Current
    <3>2. QED
      BY <2>1, <2>5, <3>1, PhaseSteps
  <2>6. CASE BeginLeg(f)
    <3>1. did'[f] = did[f] /\ explicit'[f] = NoId /\ Current(f)' = Current(f)
      BY <2>6, PhaseSteps DEF BeginLeg, Current, RecorderTypeOK
    <3>2. Current(f) \in LegsOf(f) /\ phase[f] = "between"
      BY <2>6, LegConduct DEF BeginLeg, LegsOf
    <3>3. did[f][Current(f)].cited = {}
      BY <3>2, LegConduct DEF LegsInTurn
    <3>4. QED
      BY <3>1, <3>3
  <2>7. CASE SkipOffLane(f)
    <3>1. /\ Current(f) \in LegsOf(f) /\ phase[f] = "between" /\ f \in OffLane
          /\ SameCitations(f) /\ Current(f)' = Current(f)
      <4>1. phase[f] = "between" /\ f \in OffLane /\ Current(f) <= Legs[f]
        BY <2>7 DEF SkipOffLane
      <4>2. SameCitations(f)
        BY <2>7, <4>1, BodyRows DEF Cite
      <4>3. Current(f)' = Current(f)
        BY <2>7, PhaseSteps DEF Current
      <4>4. QED
        BY <4>1, <4>2, <4>3, LegConduct DEF LegsOf
    <3>2. did[f][Current(f)].cited = {}
      BY <3>1, LegConduct DEF LegsInTurn
    <3>3. explicit'[f] = NoId
      BY <2>1, <2>7, <3>1 DEF SkipOffLane
    <3>4. QED
      BY <3>1, <3>2, <3>3 DEF SameCitations
  <2>8. CASE BeforeAll(f) \/ Teardown(f) \/ AfterAll(f)
    <3>1. phase'[f] \in {"between", "closed"}
      BY <2>8, PhaseSteps
    <3>2. explicit'[f] \in {explicit[f], NoId}
      BY <2>8 DEF BeforeAll, Teardown, HideLeg, SkipUnrecorded, RecordLeg, AfterAll, legVars,
                  RecorderTypeOK
    <3>3. QED
      BY <2>1, <3>1, <3>2
  <2>9. QED
    BY <2>3, <2>4, <2>5, <2>6, <2>7, <2>8 DEF Hooks
<1>4. QED
  BY <1>2, <1>3 DEF CitationIsTheLegs

(* Only RecordLeg gives a leg a row, and then only the current leg. *)
LEMMA OtherStepsKeepRows ==
  ASSUME RecorderTypeOK, NEW f \in Files, Body(f) \/ End(f) \/ Hooks(f), ~RecordLeg(f)
  PROVE  SameRows(f)
<1>1. CASE Body(f) \/ SkipOffLane(f)
  BY <1>1, BodyRows
<1>2. CASE ~(Body(f) \/ SkipOffLane(f))
  <2>1. did' = did
    BY <1>2 DEF End, EndBody, Hooks, BeforeAll, BeginLeg, Teardown, HideLeg, SkipUnrecorded,
                AfterAll
  <2>2. QED
    BY <2>1 DEF SameRows
<1>3. QED
  BY <1>1, <1>2

LEMMA RecordLegRows ==
  ASSUME RecorderTypeOK, LegsInTurn, NEW f \in Files, RecordLeg(f)
  PROVE  /\ Current(f) \in LegsOf(f)
         /\ did'[f][Current(f)].rowId = RowIdOf(f)
         /\ did'[f][Current(f)].row =
              AttachObservation(LegVerdict(f), pending[f] # {}).disposition
         /\ SameCitations(f)
         /\ \A n \in LegsOf(f) \ {Current(f)} :
              did'[f][n].row = did[f][n].row /\ did'[f][n].rowId = did[f][n].rowId
         /\ \A n \in 0 .. Legs[f] : did'[f][n].self = did[f][n].self
<1>1. Current(f) \in LegsOf(f)
  <2>1. Current(f) <= Legs[f]
    BY DEF RecordLeg, Finish, LegsInTurn
  <2>2. QED
    BY <2>1, LegConduct DEF LegsOf
<1>2. PICK d : did' = [did EXCEPT ![f][Current(f)].rowId = RowIdOf(f),
                                  ![f][Current(f)].row = d,
                                  ![f][Current(f)].carries = pending[f]]
               /\ d = AttachObservation(LegVerdict(f), pending[f] # {}).disposition
  BY DEF RecordLeg
<1> DEFINE n == Current(f)
           c == [did[f][n] EXCEPT !.rowId = RowIdOf(f), !.row = d, !.carries = pending[f]]
<1>3. n \in 0 .. Legs[f] /\ did[f][n] \in Conduct
  BY <1>1, LegConduct
<1>4. did' = [did EXCEPT ![f] = [did[f] EXCEPT ![n] = c]]
  BY <1>2, <1>3, LegConduct
<1> HIDE DEF n
<1>5. c.rowId = RowIdOf(f) /\ c.row = d /\ c.cited = did[f][n].cited /\ c.self = did[f][n].self
  BY <1>3 DEF Conduct
<1> HIDE DEF c
<1>6. did'[f][n] = c /\ \A m \in (0 .. Legs[f]) \ {n} : did'[f][m] = did[f][m]
  BY <1>3, <1>4, LegConduct
<1>7. QED
  BY <1>1, <1>2, <1>5, <1>6, LegConduct DEF SameCitations, n

LEMMA RowUnderOwnIdStep ==
  ASSUME RecorderTypeOK, LegsInTurn, CitationIsTheLegs, RowUnderOwnId, NEW f \in Files,
         Body(f) \/ End(f) \/ Hooks(f)
  PROVE  RowUnderOwnId'
<1> DEFINE Filed(g, n) ==
      did[g][n].row # "none" =>
        /\ did[g][n].rowId \in did[g][n].cited \cup {DefaultIds[g][n]}
        /\ did[g][n].cited # {} => did[g][n].rowId \in did[g][n].cited
<1>1. \A g \in Files : \A n \in LegsOf(g) : Filed(g, n)
  BY DEF RowUnderOwnId
<1>2. ASSUME NEW g \in Files \ {f}, NEW n \in LegsOf(g) PROVE Filed(g, n)'
  BY <1>1, <1>2, OthersStand DEF Standing
<1>3. ASSUME NEW n \in LegsOf(f) PROVE Filed(f, n)'
  <2>1. CASE RecordLeg(f)
    <3>1. CASE n # Current(f)
      BY <1>1, <2>1, <3>1, RecordLegRows DEF SameCitations
    <3>2. CASE n = Current(f)
      <4>1. /\ did'[f][n].rowId = RowIdOf(f)
            /\ did'[f][n].cited = did[f][n].cited
        BY <2>1, <3>2, RecordLegRows DEF SameCitations
      <4>2. phase[f] = "ended"
        BY <2>1 DEF RecordLeg, Finish
      <4>3. IF explicit[f] = NoId THEN did[f][n].cited = {} ELSE explicit[f] \in did[f][n].cited
        BY <3>2, <4>2 DEF CitationIsTheLegs
      <4>4. QED
        BY <3>2, <4>1, <4>3 DEF RowIdOf
    <3>3. QED
      BY <3>1, <3>2
  <2>2. CASE ~RecordLeg(f)
    <3>1. SameRows(f)
      BY <2>2, OtherStepsKeepRows
    <3>2. did[f][n].row # "none" => did'[f][n].cited = did[f][n].cited
      <4>1. CASE Body(f) \/ SkipOffLane(f)
        <5>1. CASE SameCitations(f)
          BY <5>1 DEF SameCitations
        <5>2. ASSUME NEW id \in ReqIds, Cite(f, id)
              PROVE  did[f][n].row # "none" => did'[f][n].cited = did[f][n].cited
          <6>1. did[f][n].row # "none" => n # Current(f)
            BY LegConduct DEF LegsInTurn
          <6>2. n # Current(f) => did'[f][n].cited = did[f][n].cited
            BY <5>2, LegConduct DEF Cite, Conduct
          <6>3. QED
            BY <6>1, <6>2
        <5>3. QED
          BY <4>1, <5>1, <5>2, BodyRows
      <4>2. CASE ~(Body(f) \/ SkipOffLane(f))
        BY <2>2, <4>2 DEF End, EndBody, Hooks, BeforeAll, BeginLeg, Teardown, HideLeg,
                          SkipUnrecorded, AfterAll
      <4>3. QED
        BY <4>1, <4>2
    <3>3. QED
      BY <1>1, <3>1, <3>2 DEF SameRows
  <2>3. QED
    BY <2>1, <2>2
<1>4. QED
  BY <1>2, <1>3 DEF RowUnderOwnId

-----------------------------------------------------------------------------
(* The row a leg got has been said and is held in memory, at most as       *)
(* certifiable as the leg was.                                             *)
Held(f, id, d) ==
  /\ id \in Ids /\ <<id, d>> \in said[f]
  /\ HasRequirement(f, id)
  /\ NoMoreCertifiable(ledger[f][id].disposition, d)

RowsHeld ==
  \A f \in Files : \A n \in LegsOf(f) :
    did[f][n].row # "none" => Held(f, did[f][n].rowId, did[f][n].row)

HeldNext(f, id, d) ==
  /\ id \in Ids /\ <<id, d>> \in said'[f]
  /\ ledger'[f][id] # Absent
  /\ NoMoreCertifiable(ledger'[f][id].disposition, d)

LEMMA HeldStays ==
  ASSUME LedgerInv, LedgerInv', LedgerMoves, NEW f \in Files, NEW id, NEW d, Held(f, id, d)
  PROVE  HeldNext(f, id, d)
<1>1. id \in Ids /\ d \in Dispositions
  BY DEF Held, LedgerInv, LedgerTypeOK
<1>2. HasRequirement(f, id)' /\ ledger[f][id] \in Entry /\ ledger'[f][id] \in Entry
  BY <1>1 DEF Held, LedgerMoves, LedgerInv, LedgerTypeOK, HasRequirement
<1>3. /\ CERTIFIABILITY_RANK[d] \in 0 .. 4
      /\ CERTIFIABILITY_RANK[ledger[f][id].disposition] \in 0 .. 4
      /\ CERTIFIABILITY_RANK[ledger'[f][id].disposition] \in 0 .. 4
  BY <1>1, <1>2, RankType DEF Entry
<1>4. /\ CERTIFIABILITY_RANK[ledger[f][id].disposition] <= CERTIFIABILITY_RANK[d]
      /\ CERTIFIABILITY_RANK[ledger'[f][id].disposition]
           <= CERTIFIABILITY_RANK[ledger[f][id].disposition]
  BY <1>1 DEF Held, LedgerMoves, NoMoreCertifiable
<1>5. CERTIFIABILITY_RANK[ledger'[f][id].disposition] <= CERTIFIABILITY_RANK[d]
  BY <1>3, <1>4
<1>6. <<id, d>> \in said'[f]
  BY DEF Held, LedgerMoves
<1>7. QED
  BY <1>1, <1>2, <1>5, <1>6 DEF HeldNext, HasRequirement, NoMoreCertifiable

LEMMA RowsHeldStep ==
  ASSUME LedgerInv, LedgerInv', LedgerMoves, RecorderTypeOK, LegsInTurn, RowsHeld,
         NEW f \in Files, Body(f) \/ End(f) \/ Hooks(f)
  PROVE  RowsHeld'
<1>1. ASSUME NEW g \in Files, NEW n \in LegsOf(g),
             did'[g][n].row = did[g][n].row, did'[g][n].rowId = did[g][n].rowId
      PROVE  did'[g][n].row # "none" => HeldNext(g, did'[g][n].rowId, did'[g][n].row)
  <2>1. did[g][n].row # "none" => Held(g, did[g][n].rowId, did[g][n].row)
    BY DEF RowsHeld
  <2>2. PICK id, d : id = did[g][n].rowId /\ d = did[g][n].row
    OBVIOUS
  <2>3. Held(g, id, d) => HeldNext(g, id, d)
    BY HeldStays
  <2>4. QED
    BY <1>1, <2>1, <2>2, <2>3
<1>2. ASSUME NEW g \in Files \ {f}, NEW n \in LegsOf(g)
      PROVE  did'[g][n].row = did[g][n].row /\ did'[g][n].rowId = did[g][n].rowId
  BY OthersStand DEF Standing
<1>3. ASSUME RecordLeg(f)
      PROVE  \A n \in LegsOf(f) : n = Current(f) => HeldNext(f, did'[f][n].rowId, did'[f][n].row)
  <2> DEFINE v == AttachObservation(LegVerdict(f), pending[f] # {})
             c == CallOf(f, RowIdOf(f), v, calls[f], f, TRUE)
  <2> SUFFICES ASSUME NEW m \in LegsOf(f), m = Current(f)
               PROVE  HeldNext(f, did'[f][m].rowId, did'[f][m].row)
    OBVIOUS
  <2>1. TryRecord(c) /\ Current(f) <= Legs[f]
    BY <1>3 DEF RecordLeg, Finish, LegsInTurn
  <2>2. /\ c \in OwnCalls /\ c.fold /\ Explained(c) /\ RowIdOf(f) \in Ids
        /\ c.writer = f /\ c.id = RowIdOf(f) /\ c.disposition = v.disposition
    BY <2>1, LegCall
  <2>3. did'[f][m].rowId = RowIdOf(f) /\ did'[f][m].row = v.disposition
    BY <1>3, RecordLegRows
  <2>4. PICK k : k = c
    OBVIOUS
  <2> HIDE DEF c, v
  <2>5. /\ k \in OwnCalls /\ k.fold /\ Explained(k) /\ TryRecord(k) /\ k.id \in Ids
        /\ k.writer = f /\ k.id = did'[f][m].rowId /\ k.disposition = did'[f][m].row
    BY <2>1, <2>2, <2>3, <2>4
  <2>6. /\ <<k.id, k.disposition>> \in said'[k.writer]
        /\ HasRequirement(k.writer, k.id)'
        /\ NoMoreCertifiable(ledger'[k.writer][k.id].disposition, k.disposition)
    BY <2>5, FoldMoves
  <2>7. QED
    BY <2>5, <2>6 DEF HeldNext, HasRequirement
<1>4. ASSUME NEW n \in LegsOf(f)
      PROVE  did'[f][n].row # "none" => HeldNext(f, did'[f][n].rowId, did'[f][n].row)
  <2>1. CASE RecordLeg(f) /\ n = Current(f)
    BY <1>3, <2>1
  <2>2. CASE RecordLeg(f) /\ n # Current(f)
    BY <1>1, <2>2, RecordLegRows
  <2>3. CASE ~RecordLeg(f)
    BY <1>1, <2>3, OtherStepsKeepRows DEF SameRows
  <2>4. QED
    BY <2>1, <2>2, <2>3
<1>5. QED
  BY <1>1, <1>2, <1>4 DEF RowsHeld, Held, HeldNext, HasRequirement

-----------------------------------------------------------------------------
(* What a failed test makes of its file's row. *)
LEMMA FailedTestSpeaks ==
  ASSUME NEW T, NEW gate, NEW n, NEW i \in DOMAIN T, T[i].state = "fail"
  PROVE  /\ FileDisposition(T, gate, n) \in {"blocked", "executed-fail"}
         /\ ~T[i].loss => FileDisposition(T, gate, n) = "executed-fail"
<1>1. i \in {j \in DOMAIN T : T[j].state = "fail"}
  OBVIOUS
<1>2. QED
  BY <1>1, Zenon DEF FileDisposition

LEMMA FailedTestDecides ==
  ASSUME NEW T, NEW gate, NEW n, NEW noted, NEW coherence,
         NEW i \in DOMAIN T, T[i].state = "fail"
  PROVE  ResolveFileRecord(T, gate, n, noted, coherence) = Verdict(FileDisposition(T, gate, n))
<1> DEFINE d == FileDisposition(T, gate, n)
<1>1. d # "executed-pass"
  BY FailedTestSpeaks
<1>2. ~(\A j \in DOMAIN T : T[j].state # "fail") /\ ~(\A j \in DOMAIN T : T[j].state = "skip")
  BY SMT
<1> HIDE DEF d
<1>3. QED
  BY <1>1, <1>2, Zenon DEF ResolveFileRecord, d

LEMMA FileVerdictDenies ==
  ASSUME RecorderTypeOK, NEW f \in Files, NEW n \in DOMAIN tasks[f], tasks[f][n].state = "fail"
  PROVE  /\ FileVerdict(f).disposition \in {"blocked", "executed-fail"}
         /\ ~tasks[f][n].loss => FileVerdict(f).disposition = "executed-fail"
<1> DEFINE T == [m \in states[f] \cup UnrecordedTests(f) |-> tasks[f][m]]
           gate == GateOf(Since(journal[f], fileMark[f]))
           d == FileDisposition(T, gate, fileCalls[f])
<1>1. n \in states[f] \cup UnrecordedTests(f)
  BY DEF UnrecordedTests
<1>2. n \in DOMAIN T /\ T[n] = tasks[f][n]
  BY <1>1
<1>3. FileVerdict(f) = ResolveFileRecord(T, gate, fileCalls[f], notes[f], f \in CoherenceFiles)
  BY DEF FileVerdict
<1> HIDE DEF T, gate
<1>4. FileVerdict(f) = Verdict(d)
  BY <1>2, <1>3, FailedTestDecides
<1>5. d \in {"blocked", "executed-fail"} /\ (~tasks[f][n].loss => d = "executed-fail")
  BY <1>2, FailedTestSpeaks
<1>6. Verdict(d).disposition = d
  BY DEF Verdict
<1>7. QED
  BY <1>4, <1>5, <1>6

(* Until the file's row is written nothing but the scenario itself has     *)
(* recorded under its id.                                                  *)
FileRowAwaited ==
  \A f \in Files :
    (phase[f] # "closed" /\ ~SelfClassified(f)) => ~HasRequirement(f, FileIds[f])

LEMMA SelfStays ==
  ASSUME RecorderTypeOK, LegsInTurn, NEW f \in Files, Body(f) \/ End(f) \/ Hooks(f)
  PROVE  /\ SelfClassified(f) => SelfClassified(f)'
         /\ (\E d \in SelfVerdicts[f] : ClassifySelf(f, d)) => SelfClassified(f)'
<1>1. ASSUME \A n \in 0 .. Legs[f] : did[f][n].self => did'[f][n].self
      PROVE  SelfClassified(f) => SelfClassified(f)'
  BY <1>1 DEF SelfClassified
<1> DEFINE n == Current(f)
<1>2. CASE RecordLeg(f)
  <2>1. ~\E d \in SelfVerdicts[f] : ClassifySelf(f, d)
    BY <1>2 DEF RecordLeg, Finish, ClassifySelf
  <2>2. QED
    BY <1>1, <1>2, <2>1, RecordLegRows
<1>3. ASSUME NEW d \in SelfVerdicts[f], ClassifySelf(f, d)
      PROVE  SelfClassified(f)'
  <2> DEFINE m == IF phase[f] = "loading" THEN 0 ELSE Current(f)
  <2>1. m \in 0 .. Legs[f]
    BY <1>3, LegConduct DEF ClassifySelf, LegsInTurn
  <2> HIDE DEF m
  <2>2. did' = [did EXCEPT ![f] = [did[f] EXCEPT ![m] =
                  [did[f][m] EXCEPT !.gated = @ \cup {d}, !.self = TRUE]]]
    BY <1>3, <2>1, LegConduct DEF ClassifySelf, m
  <2>3. did'[f][m] = [did[f][m] EXCEPT !.gated = @ \cup {d}, !.self = TRUE]
    BY <2>1, <2>2, LegConduct
  <2>4. did[f][m] \in Conduct
    BY <2>1, LegConduct
  <2>5. did'[f][m].self = TRUE
    BY <2>3, <2>4 DEF Conduct
  <2>6. QED
    BY <2>1, <2>5 DEF SelfClassified
<1>4. CASE ~RecordLeg(f) /\ ~\E d \in SelfVerdicts[f] : ClassifySelf(f, d)
  <2> SUFFICES SelfClassified(f) => SelfClassified(f)'
    BY <1>4
  <2> USE LegConduct DEF Conduct
  <2>1. CASE Expect(f)
    BY <1>1, <2>1 DEF Expect
  <2>2. ASSUME NEW note \in NoteKinds, Note(f, note)
        PROVE  SelfClassified(f) => SelfClassified(f)'
    BY <1>1, <2>2 DEF Note
  <2>3. ASSUME NEW id \in GateIds, BehaviorGate(f, id)
        PROVE  SelfClassified(f) => SelfClassified(f)'
    BY <1>1, <2>3 DEF BehaviorGate
  <2>4. ASSUME NEW id \in ReqIds, Cite(f, id)
        PROVE  SelfClassified(f) => SelfClassified(f)'
    BY <1>1, <2>4 DEF Cite
  <2>5. CASE SkipOffLane(f)
    BY <1>1, <2>5 DEF SkipOffLane
  <2>6. CASE UNCHANGED did
    BY <2>6 DEF SelfClassified
  <2>7. QED
    BY <1>4, <2>1, <2>2, <2>3, <2>4, <2>5, <2>6
       DEF Body, End, Hooks, Teardown, Observe, EndBody, BeforeAll, BeginLeg,
           HideLeg, SkipUnrecorded, AfterAll
<1>5. QED
  BY <1>2, <1>3, <1>4

(* Nothing but the scenario's own recording and afterAll touches the row. *)
LEMMA FileRowUntouched ==
  ASSUME RecorderTypeOK, LegsInTurn, NEW f \in Files, Body(f) \/ End(f) \/ Hooks(f),
         ~AfterAll(f), ~\E d \in SelfVerdicts[f] : ClassifySelf(f, d)
  PROVE  FileRow(f)' = FileRow(f)
<1>1. /\ GateIds \subseteq Ids /\ LaneId \in Ids /\ FileIds[f] \in Ids
      /\ FileIds[f] \notin GateIds /\ FileIds[f] # LaneId
  BY RecorderAssumption, FileRowsApart
<1>2. ASSUME RecordLeg(f)
      PROVE  StepRecords(f, RowIdOf(f)) /\ RowIdOf(f) \in Ids \ {FileIds[f]}
  <2>1. StepRecords(f, RowIdOf(f)) /\ Current(f) <= Legs[f]
    BY <1>2, LedgerSteps
  <2>2. RowIdOf(f) \in Ids
    BY <2>1, LegCall
  <2>3. Current(f) \in 1 .. Legs[f]
    BY <2>1, LegConduct
  <2>4. RowIdOf(f) \in ReqIds \cup {DefaultIds[f][m] : m \in 1 .. Legs[f]}
    BY <2>3 DEF RowIdOf, RecorderTypeOK
  <2>5. QED
    BY <2>1, <2>2, <2>4, FileRowsApart
<1>3. UNCHANGED ledger \/ \E id \in Ids \ {FileIds[f]} : StepRecords(f, id)
  BY <1>1, <1>2, LedgerSteps
     DEF Body, End, Hooks, Teardown, Expect, Observe, Note, Cite, EndBody, BeforeAll, BeginLeg,
         HideLeg, SkipUnrecorded, vars, ledgerVars
<1>4. QED
  BY <1>1, <1>3, OtherRowsStand DEF RecorderTypeOK, FileRow

LEMMA FileRowAwaitedStep ==
  ASSUME RecorderTypeOK, LegsInTurn, FileRowAwaited, NEW f \in Files,
         Body(f) \/ End(f) \/ Hooks(f)
  PROVE  FileRowAwaited'
<1>1. ASSUME NEW g \in Files \ {f}
      PROVE  ((phase[g] # "closed" /\ ~SelfClassified(g)) => ~HasRequirement(g, FileIds[g]))'
  BY <1>1, OthersStand DEF FileRowAwaited, Standing, SelfClassified, HasRequirement
<1>2. ASSUME phase'[f] # "closed", ~SelfClassified(f)' PROVE ~HasRequirement(f, FileIds[f])'
  <2>1. phase[f] # "closed" /\ ~AfterAll(f)
    BY <1>2, PhaseSteps DEF Hooks
  <2>2. ~SelfClassified(f) /\ ~\E d \in SelfVerdicts[f] : ClassifySelf(f, d)
    BY <1>2, SelfStays
  <2>3. ~HasRequirement(f, FileIds[f])
    BY <2>1, <2>2 DEF FileRowAwaited
  <2>4. FileRow(f)' = FileRow(f)
    BY <2>1, <2>2, FileRowUntouched
  <2>5. QED
    BY <2>3, <2>4 DEF HasRequirement, FileRow
<1>3. QED
  BY <1>1, <1>2 DEF FileRowAwaited

(* Unless the scenario has classified itself, afterAll writes the verdict. *)
LEMMA FileRowWritten ==
  ASSUME RecorderTypeOK, LegsInTurn, FileRowAwaited, NEW f \in Files,
         Body(f) \/ End(f) \/ Hooks(f), Closed(f)', ~SelfClassified(f)'
  PROVE  /\ AfterAll(f) /\ phase[f] = "between" /\ tasks'[f] = tasks[f]
         /\ LegsOf(f) = DOMAIN tasks[f]
         /\ FileRow(f).disposition' = FileVerdict(f).disposition
<1>1. AfterAll(f) /\ phase[f] = "between" /\ tasks'[f] = tasks[f]
  BY PhaseSteps DEF Closed, Hooks
<1>2. ~SelfClassified(f) /\ ~HasRequirement(f, FileIds[f])
  BY <1>1, SelfStays DEF FileRowAwaited
<1> DEFINE c == CallOf(f, FileIds[f], FileVerdict(f), fileCalls[f], f, FALSE)
<1>3. TryRecord(c)
  BY <1>1, <1>2 DEF AfterAll
<1>4. ~Refused(c)
  BY <1>2, FileVerdictType DEF Refused, Contradicts, Unexplained, Explained, CallOf
<1>5. ledger' = [ledger EXCEPT ![f][FileIds[f]] = NewEntry(c)]
  BY <1>2, <1>3, <1>4 DEF TryRecord, RecordRequirement, EntryFor, CallOf
<1>6. NewEntry(c).disposition = FileVerdict(f).disposition
  BY DEF NewEntry, CallOf
<1> HIDE DEF c
<1>7. FileRow(f)' = NewEntry(c)
  BY <1>5, RecorderAssumption DEF RecorderTypeOK, LedgerTypeOK, FileRow
<1>8. LegsOf(f) = DOMAIN tasks[f]
  <2>1. Current(f) > Legs[f] /\ Len(tasks[f]) <= Legs[f] /\ tasks[f] \in Seq(Tasks)
    BY <1>1 DEF AfterAll, RecorderTypeOK
  <2>2. QED
    BY <2>1, LegConduct DEF Current, LegsOf
<1>9. QED
  BY <1>1, <1>6, <1>7, <1>8

LEMMA FailedLegDeniesStep ==
  ASSUME RecorderTypeOK, LegsInTurn, FileRowAwaited, FailedLegDenies, NEW f \in Files,
         Body(f) \/ End(f) \/ Hooks(f)
  PROVE  FailedLegDenies'
<1> DEFINE Denied(g, d) ==
      LET failed == {n \in LegsOf(g) : tasks[g][n].state = "fail"}
      IN  /\ failed # {} => d \in {"executed-fail", "blocked"}
          /\ (\E n \in failed : ~tasks[g][n].loss) => d = "executed-fail"
<1>1. \A g \in Files : Closed(g) /\ ~SelfClassified(g) => Denied(g, FileRow(g).disposition)
  BY DEF FailedLegDenies
<1>2. ASSUME NEW g \in Files \ {f}
      PROVE  (Closed(g) /\ ~SelfClassified(g) => Denied(g, FileRow(g).disposition))'
  BY <1>1, <1>2, OthersStand DEF Standing, Closed, SelfClassified, FileRow
<1>3. ASSUME Closed(f)', ~SelfClassified(f)' PROVE Denied(f, FileRow(f).disposition)'
  <2>1. /\ tasks'[f] = tasks[f] /\ LegsOf(f) = DOMAIN tasks[f]
        /\ FileRow(f).disposition' = FileVerdict(f).disposition
    BY <1>3, FileRowWritten
  <2>2. Denied(f, FileVerdict(f).disposition)
    BY <2>1, FileVerdictDenies
  <2>3. QED
    BY <2>1, <2>2
<1>4. QED
  BY <1>2, <1>3 DEF FailedLegDenies

-----------------------------------------------------------------------------
(* The inductive invariant of the recorder. *)
RecorderInv ==
  /\ LedgerInv
  /\ RecorderTypeOK
  /\ LegsInTurn
  /\ CitationIsTheLegs
  /\ RowUnderOwnId
  /\ RowsHeld
  /\ FileRowAwaited
  /\ FailedLegDenies

LEMMA RecorderInvInit == RecorderInit => RecorderInv
<1> SUFFICES ASSUME RecorderInit PROVE RecorderInv
  OBVIOUS
<1>1. LedgerInv /\ LedgerTypeOK
  BY LedgerInvInit DEF RecorderInit, LedgerInv
<1>2. Nothing \in Conduct
  BY DEF Nothing, Conduct
<1>3. RecorderTypeOK
  <2>1. \A f \in Files : Len(journal[f]) \in Nat /\ Legs[f] \in Nat
    BY <1>1, RecorderAssumption DEF LedgerTypeOK
  <2>2. DidTyped
    BY <1>2 DEF RecorderInit, DidTyped
  <2>3. PlainTyped
    BY DEF RecorderInit, PlainTyped, Phases, Tasks, TestStates
  <2>4. JournalMarks /\ NoteMarks /\ TasksFit
    BY <2>1 DEF RecorderInit, JournalMarks, NoteMarks, TasksFit
  <2>5. QED
    BY <1>1, <2>2, <2>3, <2>4, TypeParts
<1>4. \A f \in Files : /\ phase[f] = "loading" /\ explicit[f] = NoId
                        /\ \A n \in 0 .. Legs[f] : did[f][n] = Nothing
  BY DEF RecorderInit
<1>5. \A f \in Files : \A n \in LegsOf(f) : did[f][n].row = "none" /\ did[f][n].cited = {}
  BY <1>3, <1>4, LegConduct DEF Nothing
<1>6. LegsInTurn /\ CitationIsTheLegs
  BY <1>4, <1>5 DEF LegsInTurn, CitationIsTheLegs
<1>7. RowUnderOwnId /\ RowsHeld
  BY <1>5 DEF RowUnderOwnId, RowsHeld
<1>8. FileRowAwaited /\ FailedLegDenies
  <2>1. \A f \in Files : ~HasRequirement(f, FileIds[f])
    BY RecorderAssumption DEF RecorderInit, LedgerInit, HasRequirement
  <2>2. QED
    BY <1>4, <2>1 DEF FileRowAwaited, FailedLegDenies, Closed
<1>9. QED
  BY <1>1, <1>3, <1>6, <1>7, <1>8 DEF RecorderInv

LEMMA RecorderInvStep == RecorderInv /\ [RecorderNext]_allVars => RecorderInv'
<1> SUFFICES ASSUME RecorderInv, [RecorderNext]_allVars PROVE RecorderInv'
  OBVIOUS
<1>1. CASE UNCHANGED allVars
  <2>1. UNCHANGED vars /\ UNCHANGED <<phase, fileMark, legMark, noteMark, notes, explicit, pending,
          calls, verdict, tasks, states, fileCalls, did>>
    BY <1>1 DEF allVars, recorderVars, markVars, legVars, resultVars
  <2>2. UNCHANGED <<ledger, journal, sink, suspended, said, asserted, recordings, faithful>>
    BY <2>1 DEF vars, ledgerVars, historyVars
  <2>3. LedgerInv'
    BY <2>1, StutterMoves DEF RecorderInv
  <2>4. RecorderTypeOK'
    BY <2>1, <2>2, <2>3 DEF RecorderInv, RecorderTypeOK, LedgerInv
  <2>5. (LegsInTurn /\ CitationIsTheLegs /\ RowUnderOwnId)'
    BY <2>1 DEF RecorderInv, LegsInTurn, CitationIsTheLegs, RowUnderOwnId, Current, LegsOf
  <2>6. (RowsHeld /\ FileRowAwaited /\ FailedLegDenies)'
    BY <2>1, <2>2 DEF RecorderInv, RowsHeld, Held, FileRowAwaited, FailedLegDenies, HasRequirement,
                      SelfClassified, Closed, FileRow, LegsOf
  <2>7. QED
    BY <2>3, <2>4, <2>5, <2>6 DEF RecorderInv
<1>2. ASSUME NEW f \in Files, Body(f) \/ End(f) \/ Hooks(f) PROVE RecorderInv'
  <2> USE DEF RecorderInv
  <2>1. LedgerInv' /\ LedgerMoves
    BY <1>2, StepMoves
  <2>2. RecorderTypeOK'
    BY <1>2, <2>1, TypeStep
  <2>3. LegsInTurn' /\ CitationIsTheLegs' /\ RowUnderOwnId'
    BY <1>2, LegsInTurnStep, CitationStep, RowUnderOwnIdStep
  <2>4. RowsHeld'
    BY <1>2, <2>1, RowsHeldStep
  <2>5. FileRowAwaited' /\ FailedLegDenies'
    BY <1>2, FileRowAwaitedStep, FailedLegDeniesStep
  <2>6. QED
    BY <2>1, <2>2, <2>3, <2>4, <2>5
<1>3. QED
  BY <1>1, <1>2 DEF RecorderNext

LEMMA RecorderInvariant == RecorderSpec => []RecorderInv
BY RecorderInvInit, RecorderInvStep, PTL DEF RecorderSpec

-----------------------------------------------------------------------------
(* What a leg has done while it is on is what its windows hold: its         *)
(* assertions are the calls counted since beforeEach, and every note and    *)
(* every recording since the leg's marks is one of its own. A leg that has  *)
(* not begun has asserted nothing, and one off its lane was skipped.        *)
Begun(f, n) == n < Current(f) \/ (n = Current(f) /\ phase[f] \in {"running", "ended"})

Windowed(g) ==
  /\ \A n \in LegsOf(g) : ~Begun(g, n) => did[g][n].asserted = 0
  /\ phase[g] \in {"running", "ended"} =>
       LET mine == did[g][Current(g)]
       IN  /\ calls[g] = mine.asserted
           /\ g \notin OffLane =>
                /\ \A i \in noteMark[g] + 1 .. Len(notes[g]) : notes[g][i].kind \in mine.noted
                /\ \A i \in legMark[g] + 1 .. Len(journal[g]) :
                     journal[g][i].disposition \in mine.gated
           /\ g \in OffLane => verdict[g].state = "skip" /\ "inapplicable" \in mine.noted

(* The row a leg got is one its own conduct accounts for. *)
Accounted(f, n) ==
  /\ did[f][n].row = "executed-pass" => did[f][n].asserted > 0 /\ tasks[f][n].state = "pass"
  /\ (f \notin CoherenceFiles /\ did[f][n].row \in {"skipped", "inapplicable"}) =>
       \/ did[f][n].row \in did[f][n].noted \cup did[f][n].gated
       \/ did[f][n].row = "skipped" /\ tasks[f][n].state = "skip"

RowsAccounted ==
  \A f \in Files : \A n \in LegsOf(f) : did[f][n].row # "none" => Accounted(f, n)

(* What afterAll goes by comes from the legs: an assertion it counts from a *)
(* recorded leg that made it, a note from a leg that wrote it, and an       *)
(* excuse in the journal from a leg that noted it, recorded it or got it.   *)
Excused(f, n, d) == d \in did[f][n].noted \cup did[f][n].gated \cup {did[f][n].row}
ExcuseGiven(g, d) == \E n \in LegsOf(g) : Excused(g, n, d)

Witnessing(g, n) == did[g][n].row # "none" /\ did[g][n].asserted > 0

CallsHeld(g) ==
  /\ fileCalls[g] > 0 => \E n \in LegsOf(g) : n < Current(g) /\ Witnessing(g, n)
  /\ phase[g] # "closed" => \A n \in LegsOf(g) : Witnessing(g, n) => fileCalls[g] > 0

NotesHeld(g) ==
  \A i \in DOMAIN notes[g] : \E n \in LegsOf(g) : notes[g][i].kind \in did[g][n].noted

(* What folds an inapplicable recording into one that was skipped may be   *)
(* older than the window.                                                  *)
ExcuseWindow(g) ==
  \A i \in fileMark[g] + 1 .. Len(journal[g]) :
    /\ journal[g][i].disposition = "inapplicable" => ExcuseGiven(g, "inapplicable")
    /\ journal[g][i].disposition = "skipped" =>
         ExcuseGiven(g, "skipped") \/ ExcuseGiven(g, "inapplicable")

ExcusesHeld(g) ==
  phase[g] \in {"between", "running", "ended"} => ExcuseWindow(g)

(* The row a scenario recorded for itself is there. *)
SelfRowHeld ==
  \A f \in Files : SelfClassified(f) =>
    /\ HasRequirement(f, FileIds[f])
    /\ FileRow(f).file = NoFile /\ FileRow(f).count = NoCount

-----------------------------------------------------------------------------
(* What a recording adds to the journal of its worker.                     *)
LEMMA TryJournals ==
  ASSUME LedgerInv, NEW c \in OwnCalls, TryRecord(c)
  PROVE  /\ \A g \in Files \ {c.writer} : journal'[g] = journal[g]
         /\ \/ journal'[c.writer] = journal[c.writer]
            \/ \E e \in Entry :
                 /\ journal'[c.writer] = Append(journal[c.writer], e)
                 /\ NoMoreCertifiable(e.disposition, c.disposition)
                 /\ ~c.fold => e.disposition = c.disposition
<1>1. CASE UNCHANGED vars
  BY <1>1 DEF vars, ledgerVars
<1>2. CASE RecordRequirement(c)
  <2> DEFINE e == EntryFor(c)
  <2>1. c \in CallType /\ c.file \in {c.writer, NoFile} /\ c.writer \in Files
    BY DEF OwnCalls, CallType
  <2>2. journal' = [journal EXCEPT ![c.writer] = Append(@, e)]
    BY <1>2 DEF RecordRequirement
  <2>3. e \in Entry /\ NoMoreCertifiable(e.disposition, c.disposition)
    BY <1>2, <2>1, EntryForFacts DEF RecordRequirement, LedgerInv
  <2>4. ~c.fold => e.disposition = c.disposition
    BY DEF EntryFor, NewEntry
  <2> HIDE DEF e
  <2>5. QED
    BY <2>1, <2>2, <2>3, <2>4 DEF LedgerInv, LedgerTypeOK
<1>3. QED
  BY <1>1, <1>2 DEF TryRecord

(* What each action of a file adds to its journal; the others' stay.       *)
Journals(f, d, fold) ==
  \/ journal'[f] = journal[f]
  \/ \E e \in Entry : /\ journal'[f] = Append(journal[f], e)
                      /\ NoMoreCertifiable(e.disposition, d)
                      /\ ~fold => e.disposition = d

LEMMA JournalSteps ==
  ASSUME LedgerInv, RecorderTypeOK, LegsInTurn, NEW f \in Files
  PROVE  /\ \A id \in GateIds : BehaviorGate(f, id) =>
              Journals(f, IF id \in OptedOut THEN "skipped" ELSE "inapplicable", FALSE)
         /\ \A d \in SelfVerdicts[f] : ClassifySelf(f, d) => Journals(f, d, FALSE)
         /\ SkipOffLane(f) => Journals(f, "inapplicable", FALSE)
         /\ RecordLeg(f) =>
              Journals(f, AttachObservation(LegVerdict(f), pending[f] # {}).disposition, TRUE)
<1>1. ASSUME NEW c \in OwnCalls, TryRecord(c), c.writer = f
      PROVE  Journals(f, c.disposition, c.fold)
  BY <1>1, TryJournals DEF Journals
<1>2. ASSUME NEW id \in GateIds, NEW d \in Dispositions,
             RecordRequirement(CallOf(f, id, Verdict(d), NoCount, NoFile, FALSE))
      PROVE  Journals(f, d, FALSE)
  <2> DEFINE c == CallOf(f, id, Verdict(d), NoCount, NoFile, FALSE)
  <2>1. c \in OwnCalls /\ TryRecord(c)
    BY <1>2, RowCalls DEF TryRecord
  <2>2. c.writer = f /\ c.disposition = d /\ c.fold = FALSE
    BY VerdictType DEF CallOf
  <2> HIDE DEF c
  <2>3. QED
    BY <1>1, <2>1, <2>2
<1>3. ASSUME NEW id \in GateIds, BehaviorGate(f, id)
      PROVE  Journals(f, IF id \in OptedOut THEN "skipped" ELSE "inapplicable", FALSE)
  <2>1. (IF id \in OptedOut THEN "skipped" ELSE "inapplicable") \in Dispositions
    BY DEF Dispositions
  <2>2. QED
    BY <1>2, <1>3, <2>1 DEF BehaviorGate
<1>4. ASSUME NEW d \in SelfVerdicts[f], ClassifySelf(f, d) PROVE Journals(f, d, FALSE)
  <2> DEFINE c == CallOf(f, FileIds[f], Verdict(d), NoCount, NoFile, FALSE)
  <2>0. d \in Dispositions
    BY RecorderAssumption
  <2>1. c \in OwnCalls /\ TryRecord(c)
    BY <1>4, <2>0, RowCalls DEF TryRecord, ClassifySelf
  <2>2. c.writer = f /\ c.disposition = d /\ c.fold = FALSE
    BY <2>0, VerdictType DEF CallOf
  <2> HIDE DEF c
  <2>3. QED
    BY <1>1, <2>1, <2>2
<1>5. ASSUME SkipOffLane(f) PROVE Journals(f, "inapplicable", FALSE)
  <2> DEFINE c == CallOf(f, LaneId, Verdict("inapplicable"), NoCount, f, FALSE)
  <2>1. c \in OwnCalls /\ TryRecord(c)
    BY <1>5, RowCalls DEF SkipOffLane
  <2>2. c.writer = f /\ c.disposition = "inapplicable" /\ c.fold = FALSE
    BY DEF CallOf, Verdict
  <2> HIDE DEF c
  <2>3. QED
    BY <1>1, <2>1, <2>2
<1>6. ASSUME RecordLeg(f)
      PROVE  Journals(f, AttachObservation(LegVerdict(f), pending[f] # {}).disposition, TRUE)
  <2> DEFINE v == AttachObservation(LegVerdict(f), pending[f] # {})
             c == CallOf(f, RowIdOf(f), v, calls[f], f, TRUE)
  <2>1. Current(f) <= Legs[f] /\ TryRecord(c)
    BY <1>6 DEF RecordLeg, Finish, LegsInTurn
  <2>2. c \in OwnCalls /\ c.writer = f /\ c.disposition = v.disposition /\ c.fold = TRUE
    <3>1. c \in OwnCalls /\ c.writer = f /\ c.disposition = v.disposition
      BY <2>1, LegCall
    <3>2. QED
      BY <3>1 DEF CallOf
  <2> HIDE DEF c, v
  <2>3. Journals(f, v.disposition, TRUE)
    BY <1>1, <2>1, <2>2
  <2>4. QED
    BY <2>3 DEF v
<1>7. QED
  BY <1>3, <1>4, <1>5, <1>6

(* The rest of what a step of one file leaves alone in the others.         *)
WindowStands(g) ==
  /\ journal'[g] = journal[g] /\ notes'[g] = notes[g] /\ verdict'[g] = verdict[g]
  /\ fileMark'[g] = fileMark[g] /\ legMark'[g] = legMark[g] /\ noteMark'[g] = noteMark[g]
  /\ calls'[g] = calls[g] /\ fileCalls'[g] = fileCalls[g]

LEMMA OtherWindowsStand ==
  ASSUME LedgerInv, RecorderTypeOK, LegsInTurn, NEW f \in Files, Body(f) \/ End(f) \/ Hooks(f)
  PROVE  \A g \in Files \ {f} : WindowStands(g)
<1>1. \A g \in Files \ {f} : journal'[g] = journal[g]
  <2>1. RowIdOf(f) \in Ids \/ ~(Current(f) <= Legs[f])
    BY LegCall
  <2>2. GateIds \subseteq Ids /\ LaneId \in Ids /\ FileIds[f] \in Ids
    BY RecorderAssumption
  <2>3. UNCHANGED vars \/ \E id \in Ids : StepRecords(f, id)
    BY <2>1, <2>2, LedgerSteps
       DEF Body, End, Hooks, Teardown, Expect, Observe, Note, Cite, EndBody, BeforeAll, BeginLeg,
           HideLeg, SkipUnrecorded
  <2>4. UNCHANGED vars \/ \E c \in OwnCalls : c.writer = f /\ TryRecord(c)
    BY <2>3 DEF StepRecords
  <2>5. QED
    BY <2>4, TryJournals DEF vars, ledgerVars
<1>2. \A g \in Files \ {f} : /\ notes'[g] = notes[g] /\ verdict'[g] = verdict[g]
                              /\ calls'[g] = calls[g]
  BY DEF RecorderTypeOK, Body, End, Hooks, Teardown, Expect, Observe, Note, BehaviorGate, Cite,
         ClassifySelf, EndBody, BeforeAll, BeginLeg, SkipOffLane, HideLeg, SkipUnrecorded,
         RecordLeg, AfterAll, Finish, markVars, legVars, resultVars
<1>3. \A g \in Files \ {f} : /\ fileMark'[g] = fileMark[g] /\ legMark'[g] = legMark[g]
                              /\ noteMark'[g] = noteMark[g] /\ fileCalls'[g] = fileCalls[g]
  BY DEF RecorderTypeOK, Body, End, Hooks, Teardown, Expect, Observe, Note, BehaviorGate, Cite,
         ClassifySelf, EndBody, BeforeAll, BeginLeg, SkipOffLane, HideLeg, SkipUnrecorded,
         RecordLeg, AfterAll, Finish, markVars, legVars, resultVars
<1>4. QED
  BY <1>1, <1>2, <1>3 DEF WindowStands

(* A step of a file changes what its current leg did, and that only by     *)
(* adding to it. While the file loads, no leg of it has done anything.     *)
LEMMA ConductSteps ==
  ASSUME RecorderTypeOK, LegsInTurn, NEW f \in Files, Body(f) \/ End(f) \/ Hooks(f)
  PROVE  \A m \in LegsOf(f) :
           /\ (m # Current(f) \/ phase[f] = "loading") => did'[f][m] = did[f][m]
           /\ did[f][m].noted \subseteq did'[f][m].noted
           /\ did[f][m].gated \subseteq did'[f][m].gated
           /\ ~Expect(f) => did'[f][m].asserted = did[f][m].asserted
<1> USE LegConduct DEF Conduct
<1>0. \A m \in LegsOf(f) : did[f][m] \in Conduct /\ m # 0
  BY DEF LegsOf
<1>1. CASE Expect(f)
  BY <1>0, <1>1 DEF Expect
<1>2. ASSUME NEW note \in NoteKinds, Note(f, note)
      PROVE  \A m \in LegsOf(f) :
               /\ (m # Current(f) \/ phase[f] = "loading") => did'[f][m] = did[f][m]
               /\ did[f][m].noted \subseteq did'[f][m].noted
               /\ did[f][m].gated \subseteq did'[f][m].gated
               /\ did'[f][m].asserted = did[f][m].asserted
  BY <1>0, <1>2 DEF Note
<1>3. ASSUME NEW id \in GateIds, BehaviorGate(f, id)
      PROVE  \A m \in LegsOf(f) :
               /\ (m # Current(f) \/ phase[f] = "loading") => did'[f][m] = did[f][m]
               /\ did[f][m].noted \subseteq did'[f][m].noted
               /\ did[f][m].gated \subseteq did'[f][m].gated
               /\ did'[f][m].asserted = did[f][m].asserted
  BY <1>0, <1>3 DEF BehaviorGate, MayRecord
<1>4. ASSUME NEW id \in ReqIds, Cite(f, id)
      PROVE  \A m \in LegsOf(f) :
               /\ (m # Current(f) \/ phase[f] = "loading") => did'[f][m] = did[f][m]
               /\ did[f][m].noted \subseteq did'[f][m].noted
               /\ did[f][m].gated \subseteq did'[f][m].gated
               /\ did'[f][m].asserted = did[f][m].asserted
  BY <1>0, <1>4 DEF Cite
<1>5. ASSUME NEW d \in SelfVerdicts[f], ClassifySelf(f, d)
      PROVE  \A m \in LegsOf(f) :
               /\ (m # Current(f) \/ phase[f] = "loading") => did'[f][m] = did[f][m]
               /\ did[f][m].noted \subseteq did'[f][m].noted
               /\ did[f][m].gated \subseteq did'[f][m].gated
               /\ did'[f][m].asserted = did[f][m].asserted
  <2> DEFINE k == IF phase[f] = "loading" THEN 0 ELSE Current(f)
  <2>1. k \in 0 .. Legs[f] /\ did[f][k] \in Conduct
    BY <1>5 DEF ClassifySelf, LegsInTurn
  <2>2. did' = [did EXCEPT ![f] = [did[f] EXCEPT ![k] =
                  [did[f][k] EXCEPT !.gated = @ \cup {d}, !.self = TRUE]]]
    BY <1>5, <2>1 DEF ClassifySelf
  <2>3. /\ phase[f] = "loading" => k = 0
        /\ phase[f] # "loading" => k = Current(f)
    OBVIOUS
  <2> HIDE DEF k
  <2> DEFINE c == [did[f][k] EXCEPT !.gated = @ \cup {d}, !.self = TRUE]
  <2>4. c.noted = did[f][k].noted /\ c.gated = did[f][k].gated \cup {d}
        /\ c.asserted = did[f][k].asserted
    BY <2>1
  <2>5. did'[f][k] = c /\ \A m \in LegsOf(f) \ {k} : did'[f][m] = did[f][m]
    BY <2>1, <2>2
  <2> HIDE DEF c
  <2>6. QED
    BY <1>0, <2>3, <2>4, <2>5
<1>6. CASE SkipOffLane(f)
  BY <1>0, <1>6 DEF SkipOffLane
<1>7. CASE RecordLeg(f)
  <2> DEFINE n == Current(f)
  <2>1. PICK d : did' = [did EXCEPT ![f][Current(f)].rowId = RowIdOf(f),
                                    ![f][Current(f)].row = d,
                                    ![f][Current(f)].carries = pending[f]]
    BY <1>7 DEF RecordLeg
  <2>2. n \in 0 .. Legs[f] /\ did[f][n] \in Conduct /\ phase[f] = "ended"
    <3>1. n \in LegsOf(f) /\ phase[f] = "ended"
      BY <1>7, RecordLegRows DEF RecordLeg, Finish
    <3>2. QED
      BY <3>1
  <2> DEFINE c == [did[f][n] EXCEPT !.rowId = RowIdOf(f), !.row = d, !.carries = pending[f]]
  <2>3. did' = [did EXCEPT ![f] = [did[f] EXCEPT ![n] = c]]
    BY <2>1, <2>2
  <2>4. /\ c.noted = did[f][n].noted /\ c.gated = did[f][n].gated
        /\ c.asserted = did[f][n].asserted
    BY <2>2
  <2> HIDE DEF c
  <2>5. did'[f][n] = c /\ \A m \in LegsOf(f) \ {n} : did'[f][m] = did[f][m]
    BY <2>2, <2>3
  <2>6. QED
    BY <2>2, <2>4, <2>5
<1>8. CASE did' = did
  BY <1>8
<1>9. QED
  BY <1>1, <1>2, <1>3, <1>4, <1>5, <1>6, <1>7, <1>8
     DEF Body, End, Hooks, Teardown, Observe, EndBody, BeforeAll, BeginLeg,
         HideLeg, SkipUnrecorded, AfterAll

(* A suffix grows with its sequence. *)
LEMMA AppendSuffix ==
  ASSUME NEW S, NEW s \in Seq(S), NEW x \in S, NEW mark \in 0 .. Len(s), NEW t, t = Append(s, x),
         NEW i \in mark + 1 .. Len(t)
  PROVE  (i \in mark + 1 .. Len(s) /\ t[i] = s[i]) \/ t[i] = x
OBVIOUS

-----------------------------------------------------------------------------
LEMMA UnbegunStep ==
  ASSUME RecorderTypeOK, LegsInTurn, NEW f \in Files, Body(f) \/ End(f) \/ Hooks(f),
         \A n \in LegsOf(f) : ~Begun(f, n) => did[f][n].asserted = 0,
         NEW n \in LegsOf(f), ~Begun(f, n)'
  PROVE  did'[f][n].asserted = 0
<1>1. Current(f) \in Nat /\ n \in Nat /\ Len(tasks[f]) \in Nat
  BY LegConduct
<1>2. CASE Teardown(f)
  <2>1. Current(f)' = Current(f) + 1
    BY <1>1, <1>2, PhaseSteps DEF Current
  <2>2. ~Begun(f, n) /\ n # Current(f)
    BY <1>1, <2>1 DEF Begun
  <2>3. QED
    BY <2>2, ConductSteps
<1>3. CASE ~Teardown(f)
  <2>1. Current(f)' = Current(f)
    BY <1>3, PhaseSteps DEF Current, Hooks
  <2>2. ~Begun(f, n)
    BY <1>1, <1>3, <2>1, PhaseSteps DEF Begun, Hooks
  <2>3. CASE Expect(f)
    <3>1. n # Current(f)
      BY <2>2, <2>3 DEF Begun, Expect
    <3>2. QED
      BY <2>2, <3>1, ConductSteps
  <2>4. QED
    BY <2>2, <2>3, ConductSteps
<1>4. QED
  BY <1>2, <1>3

LEMMA WindowedStep ==
  ASSUME LedgerInv, RecorderTypeOK, LegsInTurn, NEW f \in Files, Body(f) \/ End(f) \/ Hooks(f),
         Windowed(f)
  PROVE  Windowed(f)'
<1> DEFINE n == Current(f)
           NoteWindow == \A i \in noteMark[f] + 1 .. Len(notes[f]) :
                           notes[f][i].kind \in did[f][Current(f)].noted
           JournalWindow == \A i \in legMark[f] + 1 .. Len(journal[f]) :
                              journal[f][i].disposition \in did[f][Current(f)].gated
<1>1. /\ n \in Nat /\ Len(tasks[f]) \in Nat
      /\ phase[f] \in {"running", "ended"} => n \in LegsOf(f)
      /\ \A m \in LegsOf(f) : did[f][m] \in Conduct /\ m \in 0 .. Legs[f]
      /\ did[f] \in [0 .. Legs[f] -> Conduct] /\ DOMAIN did = Files
      /\ phase[f] = "running" => f \notin OffLane
  BY LegConduct DEF LegsInTurn, LegsOf
<1>2. /\ notes[f] \in Seq(Notes) /\ noteMark[f] \in 0 .. Len(notes[f])
      /\ journal[f] \in Seq(Entry) /\ legMark[f] \in 0 .. Len(journal[f])
      /\ notes \in [Files -> Seq(Notes)] /\ calls \in [Files -> Nat] /\ verdict \in [Files -> Tasks]
  BY DEF RecorderTypeOK, LedgerTypeOK
<1>3. \A m \in LegsOf(f) : (~Begun(f, m))' => did'[f][m].asserted = 0
  BY UnbegunStep DEF Windowed
<1>4. CASE Body(f) /\ phase[f] = "running"
  <2>1. /\ phase'[f] = "running" /\ n' = n /\ n \in LegsOf(f) /\ f \notin OffLane
        /\ calls[f] = did[f][n].asserted /\ NoteWindow /\ JournalWindow
    BY <1>1, <1>4, PhaseSteps DEF Current, Windowed
  <2> HIDE DEF n, NoteWindow, JournalWindow
  <2> SUFFICES calls'[f] = did'[f][n].asserted /\ NoteWindow' /\ JournalWindow'
    BY <1>3, <2>1 DEF Windowed, n, NoteWindow, JournalWindow
  <2> USE DEF n
  <2>2. CASE Expect(f)
    <3>1. /\ calls'[f] = calls[f] + 1 /\ did'[f][n].asserted = did[f][n].asserted + 1
          /\ did'[f][n].noted = did[f][n].noted /\ did'[f][n].gated = did[f][n].gated
      BY <1>1, <1>2, <2>1, <2>2 DEF Expect, Conduct
    <3>2. UNCHANGED <<notes, journal, noteMark, legMark>>
      BY <2>2 DEF Expect, markVars, vars, ledgerVars
    <3>3. QED
      BY <2>1, <3>1, <3>2 DEF NoteWindow, JournalWindow
  <2>3. ASSUME NEW note \in NoteKinds, Note(f, note)
        PROVE  calls'[f] = did'[f][n].asserted /\ NoteWindow' /\ JournalWindow'
    <3>1. /\ did'[f][n].noted = did[f][n].noted \cup {note.kind}
          /\ did'[f][n].gated = did[f][n].gated /\ did'[f][n].asserted = did[f][n].asserted
      BY <1>1, <2>1, <2>3 DEF Note, Conduct
    <3>2. UNCHANGED <<calls, journal, noteMark, legMark>> /\ notes'[f] = Append(notes[f], note)
      BY <1>2, <2>3 DEF Note, markVars, vars, ledgerVars
    <3>3. note \in Notes
      BY RecorderAssumption
    <3>4. NoteWindow'
      <4>1. SUFFICES ASSUME NEW i \in noteMark[f] + 1 .. Len(notes'[f])
                     PROVE  notes'[f][i].kind \in did[f][n].noted \cup {note.kind}
        BY <2>1, <3>1, <3>2 DEF NoteWindow
      <4>2. (i \in noteMark[f] + 1 .. Len(notes[f]) /\ notes'[f][i] = notes[f][i])
              \/ notes'[f][i] = note
        BY <1>2, <3>2, <3>3, AppendSuffix
      <4>3. QED
        BY <2>1, <4>2 DEF NoteWindow
    <3>5. QED
      BY <2>1, <3>1, <3>2, <3>4 DEF JournalWindow
  <2>4. ASSUME NEW d, Journals(f, d, FALSE), UNCHANGED <<calls, notes, noteMark, legMark>>,
               did'[f][n].gated = did[f][n].gated \cup {d}, did'[f][n].noted = did[f][n].noted,
               did'[f][n].asserted = did[f][n].asserted
        PROVE  calls'[f] = did'[f][n].asserted /\ NoteWindow' /\ JournalWindow'
    <3>1. JournalWindow'
      <4>1. SUFFICES ASSUME NEW i \in legMark[f] + 1 .. Len(journal'[f])
                     PROVE  journal'[f][i].disposition \in did[f][n].gated \cup {d}
        BY <2>1, <2>4 DEF JournalWindow
      <4>2. CASE journal'[f] = journal[f]
        BY <2>1, <4>2 DEF JournalWindow
      <4>3. ASSUME NEW e \in Entry, journal'[f] = Append(journal[f], e), e.disposition = d
            PROVE  journal'[f][i].disposition \in did[f][n].gated \cup {d}
        <5>1. (i \in legMark[f] + 1 .. Len(journal[f]) /\ journal'[f][i] = journal[f][i])
                \/ journal'[f][i] = e
          BY <1>2, <4>3, AppendSuffix
        <5>2. QED
          BY <2>1, <4>3, <5>1 DEF JournalWindow
      <4>4. QED
        BY <2>4, <4>2, <4>3 DEF Journals
    <3>2. QED
      BY <2>1, <2>4, <3>1 DEF NoteWindow
  <2>5. ASSUME NEW id \in GateIds, BehaviorGate(f, id)
        PROVE  calls'[f] = did'[f][n].asserted /\ NoteWindow' /\ JournalWindow'
    <3> DEFINE d == IF id \in OptedOut THEN "skipped" ELSE "inapplicable"
    <3>1. Journals(f, d, FALSE)
      BY <2>5, JournalSteps
    <3>2. /\ did'[f][n].gated = did[f][n].gated \cup {d} /\ did'[f][n].noted = did[f][n].noted
          /\ did'[f][n].asserted = did[f][n].asserted
      BY <1>1, <2>1, <2>5 DEF BehaviorGate, Conduct
    <3>3. UNCHANGED <<calls, notes, noteMark, legMark>>
      BY <2>5 DEF BehaviorGate, legVars, markVars
    <3> HIDE DEF d
    <3>4. QED
      BY <2>4, <3>1, <3>2, <3>3
  <2>6. ASSUME NEW d \in SelfVerdicts[f], ClassifySelf(f, d)
        PROVE  calls'[f] = did'[f][n].asserted /\ NoteWindow' /\ JournalWindow'
    <3>1. Journals(f, d, FALSE)
      BY <2>6, JournalSteps
    <3>2. did' = [did EXCEPT ![f][n].gated = @ \cup {d}, ![f][n].self = TRUE]
      BY <1>4, <2>6 DEF ClassifySelf
    <3>3. /\ did'[f][n].gated = did[f][n].gated \cup {d} /\ did'[f][n].noted = did[f][n].noted
          /\ did'[f][n].asserted = did[f][n].asserted
      BY <1>1, <2>1, <3>2 DEF Conduct
    <3>4. UNCHANGED <<calls, notes, noteMark, legMark>>
      BY <2>6 DEF ClassifySelf, legVars, markVars
    <3>5. QED
      BY <2>4, <3>1, <3>3, <3>4
  <2>7. ASSUME Observe(f) \/ \E id \in ReqIds : Cite(f, id)
        PROVE  calls'[f] = did'[f][n].asserted /\ NoteWindow' /\ JournalWindow'
    <3>1. UNCHANGED <<calls, notes, journal, noteMark, legMark>>
      BY <2>7 DEF Observe, Cite, markVars, vars, ledgerVars
    <3>2. /\ did'[f][n].gated = did[f][n].gated /\ did'[f][n].noted = did[f][n].noted
          /\ did'[f][n].asserted = did[f][n].asserted
      <4>1. ASSUME NEW id \in ReqIds, Cite(f, id)
            PROVE  /\ did'[f][n].gated = did[f][n].gated /\ did'[f][n].noted = did[f][n].noted
                   /\ did'[f][n].asserted = did[f][n].asserted
        BY <1>1, <2>1, <4>1 DEF Cite, Conduct
      <4>2. QED
        BY <2>7, <4>1 DEF Observe
    <3>3. QED
      BY <2>1, <3>1, <3>2 DEF NoteWindow, JournalWindow
  <2>8. QED
    BY <1>4, <2>2, <2>3, <2>5, <2>6, <2>7 DEF Body
<1>5. CASE phase'[f] \notin {"running", "ended"}
  BY <1>3, <1>5 DEF Windowed
<1>6. CASE End(f)
  <2>1. /\ phase[f] = "running" /\ n' = n
        /\ UNCHANGED <<did, calls, notes, journal, noteMark, legMark>>
    BY <1>6, PhaseSteps DEF End, EndBody, legVars, markVars, vars, ledgerVars, Current
  <2>2. QED
    BY <1>1, <1>3, <2>1 DEF Windowed
<1>7. CASE BeginLeg(f)
  <2>1. /\ phase[f] = "between" /\ n' = n /\ n \in LegsOf(f) /\ f \notin OffLane
        /\ calls'[f] = 0 /\ noteMark'[f] = Len(notes[f]) /\ legMark'[f] = Len(journal[f])
        /\ UNCHANGED <<did, notes, journal>>
    <3>1. n' = n
      BY <1>7, PhaseSteps DEF Current
    <3>2. n \in LegsOf(f)
      BY <1>7, LegConduct DEF BeginLeg, LegsOf
    <3>3. QED
      BY <1>7, <3>1, <3>2 DEF BeginLeg, RecorderTypeOK, vars, ledgerVars
  <2>2. did[f][n].asserted = 0
    BY <1>1, <2>1 DEF Windowed, Begun
  <2>3. Len(notes[f]) \in Nat /\ Len(journal[f]) \in Nat
    BY <1>2
  <2>4. QED
    BY <1>3, <2>1, <2>2, <2>3 DEF Windowed
<1>8. CASE SkipOffLane(f)
  <2>1. phase[f] = "between" /\ n' = n /\ n \in LegsOf(f) /\ f \in OffLane
    <3>1. n' = n
      BY <1>8, PhaseSteps DEF Current
    <3>2. n \in LegsOf(f)
      BY <1>8, LegConduct DEF SkipOffLane, LegsOf
    <3>3. QED
      BY <1>8, <3>1, <3>2 DEF SkipOffLane
  <2>2. did[f][n].asserted = 0
    BY <1>1, <2>1 DEF Windowed, Begun
  <2>3. calls'[f] = 0 /\ verdict'[f].state = "skip"
    BY <1>2, <1>8 DEF SkipOffLane
  <2>4. "inapplicable" \in did'[f][n].noted /\ did'[f][n].asserted = did[f][n].asserted
    BY <1>1, <1>8, <2>1 DEF SkipOffLane, Conduct
  <2>5. QED
    BY <1>3, <2>1, <2>2, <2>3, <2>4 DEF Windowed
<1>9. QED
  BY <1>4, <1>5, <1>6, <1>7, <1>8, PhaseSteps DEF Hooks

-----------------------------------------------------------------------------
(* Who speaks when a test or a file is resolved. *)
LEMMA NotedSpeaks ==
  ASSUME NEW noted \in Seq(Notes), noted # << >>
  PROVE  /\ NotedKind(noted) \in SoftSkipKinds
         /\ \E i \in DOMAIN noted : noted[i].kind = NotedKind(noted)
<1> DEFINE kinds == {noted[i].kind : i \in DOMAIN noted}
<1>0. 1 \in DOMAIN noted /\ \A i \in DOMAIN noted : noted[i] \in Notes
  OBVIOUS
<1>1. \A i \in DOMAIN noted : noted[i].kind \in SoftSkipKinds
  BY <1>0 DEF Notes
<1>2. kinds \in SUBSET SoftSkipKinds /\ kinds # {}
  BY <1>0, <1>1
<1>3. NotedKind(noted) \in kinds
  BY <1>2, WorstNotedType DEF NotedKind
<1>4. QED
  BY <1>2, <1>3

LEMMA GateSpeaks ==
  ASSUME NEW S, NEW s \in Seq(S), NEW mark \in 0 .. Len(s), GateOf(Since(s, mark)) # NoGate
  PROVE  /\ GateOf(Since(s, mark)) \in {"skipped", "inapplicable"}
         /\ \E i \in mark + 1 .. Len(s) : s[i].disposition = GateOf(Since(s, mark))
<1> DEFINE t == Since(s, mark)
<1>1. t \in Seq(S) /\ Len(t) = Len(s) - mark /\ \A i \in 1 .. Len(s) - mark : t[i] = s[mark + i]
  BY SinceType
<1>2. DOMAIN t = 1 .. Len(s) - mark /\ Len(s) \in Nat
  BY <1>1
<1> HIDE DEF t
<1>3. /\ GateOf(t) \in {"skipped", "inapplicable"}
      /\ \E i \in DOMAIN t : t[i].disposition = GateOf(t)
  BY DEF GateOf, t
<1>4. PICK i \in 1 .. Len(s) - mark : t[i].disposition = GateOf(t)
  BY <1>2, <1>3
<1>5. mark + i \in mark + 1 .. Len(s) /\ s[mark + i].disposition = GateOf(t)
  BY <1>1, <1>2, <1>4
<1>6. QED
  BY <1>3, <1>5 DEF t

LEMMA ItRecordSpeaks ==
  ASSUME NEW task \in Tasks, NEW n \in Nat, NEW gate \in {NoGate, "inapplicable", "skipped"},
         NEW noted \in Seq(Notes)
  PROVE  LET d == ResolveItRecord(task, n, gate, noted).disposition
         IN  /\ d = "executed-pass" => task.state = "pass" /\ n > 0
             /\ d \in {"skipped", "inapplicable"} =>
                  \/ gate = d
                  \/ noted # << >> /\ NotedKind(noted) = d
                  \/ d = "skipped" /\ task.state = "skip"
<1>1. \A d : Verdict(d).disposition = d
  BY DEF Verdict
<1>2. PartialPass.disposition = "executed-pass"
  BY DEF PartialPass
<1>3. task.state \in {"pass", "fail", "skip"}
  BY DEF Tasks, TestStates
<1>4. noted # << >> => NotedKind(noted) \in {"blocked", "skipped", "inapplicable"}
  BY NotedSpeaks DEF SoftSkipKinds
<1> HIDE DEF Verdict, PartialPass, NotedKind
<1>5. QED
  BY <1>1, <1>2, <1>3, <1>4 DEF ResolveItRecord, NoGate

LEMMA LegVerdictAccounts ==
  ASSUME RecorderTypeOK, NEW f \in Files, Windowed(f), phase[f] = "ended"
  PROVE  LET d    == LegVerdict(f).disposition
             mine == did[f][Current(f)]
         IN  /\ d = "executed-pass" => mine.asserted > 0 /\ verdict[f].state = "pass"
             /\ (f \notin CoherenceFiles /\ d \in {"skipped", "inapplicable"}) =>
                  \/ d \in mine.noted \cup mine.gated
                  \/ d = "skipped" /\ verdict[f].state = "skip"
<1> DEFINE gate  == GateOf(Since(journal[f], legMark[f]))
           noted == Since(notes[f], noteMark[f])
           r     == ResolveItRecord(verdict[f], calls[f], gate, noted)
           mine  == did[f][Current(f)]
<1>1. /\ notes[f] \in Seq(Notes) /\ noteMark[f] \in 0 .. Len(notes[f])
      /\ journal[f] \in Seq(Entry) /\ legMark[f] \in 0 .. Len(journal[f])
      /\ verdict[f] \in Tasks /\ calls[f] \in Nat
  BY DEF RecorderTypeOK, LedgerTypeOK
<1>2. noted \in Seq(Notes) /\ gate \in {NoGate, "inapplicable", "skipped"}
  BY <1>1, SinceType, GateType
<1>3. /\ r.disposition = "executed-pass" => verdict[f].state = "pass" /\ calls[f] > 0
      /\ r.disposition \in {"skipped", "inapplicable"} =>
           \/ gate = r.disposition
           \/ noted # << >> /\ NotedKind(noted) = r.disposition
           \/ r.disposition = "skipped" /\ verdict[f].state = "skip"
  BY <1>1, <1>2, ItRecordSpeaks
<1>4. CASE f \in CoherenceFiles
  BY <1>4 DEF LegVerdict, Verdict
<1>5. CASE f \notin CoherenceFiles
  <2>1. LegVerdict(f) = r
    BY <1>5 DEF LegVerdict
  <2>2. calls[f] = mine.asserted
    BY DEF Windowed
  <2>3. CASE f \in OffLane
    <3>1. verdict[f].state = "skip" /\ "inapplicable" \in mine.noted
      BY <2>3 DEF Windowed
    <3>2. QED
      BY <1>3, <2>1, <2>2, <3>1
  <2>4. CASE f \notin OffLane
    <3>1. /\ \A i \in noteMark[f] + 1 .. Len(notes[f]) : notes[f][i].kind \in mine.noted
          /\ \A i \in legMark[f] + 1 .. Len(journal[f]) : journal[f][i].disposition \in mine.gated
      BY <2>4 DEF Windowed
    <3>2. gate # NoGate => gate \in mine.gated
      BY <1>1, <3>1, GateSpeaks
    <3>3. noted # << >> => NotedKind(noted) \in mine.noted
      <4>1. SUFFICES ASSUME noted # << >> PROVE NotedKind(noted) \in mine.noted
        OBVIOUS
      <4>2. PICK i \in DOMAIN noted : noted[i].kind = NotedKind(noted)
        BY <1>2, <4>1, NotedSpeaks
      <4>3. /\ Len(noted) = Len(notes[f]) - noteMark[f]
            /\ \A j \in 1 .. Len(notes[f]) - noteMark[f] : noted[j] = notes[f][noteMark[f] + j]
        BY <1>1, SinceType
      <4>4. i \in 1 .. Len(notes[f]) - noteMark[f]
        BY <1>2, <4>2, <4>3
      <4> HIDE DEF noted, mine
      <4>5. /\ noteMark[f] + i \in noteMark[f] + 1 .. Len(notes[f])
            /\ noted[i] = notes[f][noteMark[f] + i]
        BY <1>1, <4>3, <4>4
      <4>6. QED
        BY <3>1, <4>2, <4>5
    <3> HIDE DEF gate, noted, mine, r
    <3>4. NoGate \notin {"skipped", "inapplicable"}
      BY DEF NoGate
    <3>5. QED
      BY <1>3, <2>1, <2>2, <3>2, <3>3, <3>4 DEF mine, r
  <2>5. QED
    BY <2>3, <2>4
<1>6. QED
  BY <1>4, <1>5

(* A settled test stays as it was settled, and a recorded one as it ended. *)
LEMMA TasksStay ==
  ASSUME RecorderTypeOK, NEW f \in Files, Body(f) \/ End(f) \/ Hooks(f)
  PROVE  /\ \A m \in 1 .. Len(tasks[f]) : tasks'[f][m] = tasks[f][m]
         /\ RecordLeg(f) => tasks'[f][Current(f)] = verdict[f]
<1>1. tasks[f] \in Seq(Tasks) /\ tasks \in [Files -> Seq(Tasks)]
  BY DEF RecorderTypeOK
<1>2. ASSUME NEW task, Finish(f, task)
      PROVE  /\ \A m \in 1 .. Len(tasks[f]) : tasks'[f][m] = tasks[f][m]
             /\ tasks'[f][Current(f)] = task
  <2>1. tasks'[f] = Append(tasks[f], task)
    BY <1>1, <1>2 DEF Finish
  <2>2. QED
    BY <1>1, <2>1 DEF Current
<1>3. CASE Teardown(f)
  <2>1. (\E task : Finish(f, task)) /\ (RecordLeg(f) => Finish(f, verdict[f]))
    BY <1>3 DEF Teardown, HideLeg, SkipUnrecorded, RecordLeg
  <2>2. QED
    BY <1>2, <2>1
<1>4. CASE ~Teardown(f)
  <2>1. tasks'[f] = tasks[f]
    BY <1>4, PhaseSteps DEF Hooks
  <2>2. QED
    BY <1>4, <2>1 DEF Teardown
<1>5. QED
  BY <1>3, <1>4

LEMMA RowsAccountedStep ==
  ASSUME RecorderTypeOK, LegsInTurn, RowsAccounted, NEW f \in Files, Windowed(f),
         Body(f) \/ End(f) \/ Hooks(f)
  PROVE  RowsAccounted'
<1>1. ASSUME NEW g \in Files \ {f}, NEW n \in LegsOf(g), did'[g][n].row # "none"
      PROVE  Accounted(g, n)'
  BY <1>1, OthersStand DEF Standing, RowsAccounted, Accounted
<1>2. ASSUME NEW n \in LegsOf(f), did'[f][n].row # "none" PROVE Accounted(f, n)'
  <2>1. CASE RecordLeg(f) /\ n = Current(f)
    <3>1. phase[f] = "ended" /\ tasks'[f][n] = verdict[f]
      BY <1>2, <2>1, TasksStay DEF RecordLeg, Finish
    <3>2. did'[f][n].row = LegVerdict(f).disposition
      BY <2>1, RecordLegRows, LegVerdictType, AttachType
    <3>3. /\ did'[f][n].asserted = did[f][n].asserted
          /\ did'[f][n].noted = did[f][n].noted /\ did'[f][n].gated = did[f][n].gated
      <4>1. did[f][n] \in Conduct /\ n \in 0 .. Legs[f]
        BY <1>2, LegConduct
      <4>2. did' = [did EXCEPT ![f][n].rowId = RowIdOf(f),
                               ![f][n].row = AttachObservation(LegVerdict(f), pending[f] # {}).disposition,
                               ![f][n].carries = pending[f]]
        BY <2>1 DEF RecordLeg
      <4>3. QED
        BY <4>1, <4>2, LegConduct DEF Conduct
    <3>4. QED
      BY <2>1, <3>1, <3>2, <3>3, LegVerdictAccounts DEF Accounted
  <2>2. CASE ~(RecordLeg(f) /\ n = Current(f))
    <3>1. did'[f][n].row = did[f][n].row
      BY <1>2, <2>2, RecordLegRows, OtherStepsKeepRows DEF SameRows
    <3>2. n < Current(f) /\ n \in 1 .. Len(tasks[f])
      BY <1>2, <3>1, LegConduct DEF LegsInTurn, LegsOf, Current
    <3>3. did'[f][n] = did[f][n] /\ tasks'[f][n] = tasks[f][n]
      <4>1. n # Current(f)
        BY <3>2, LegConduct
      <4>2. QED
        BY <3>2, <4>1, ConductSteps, TasksStay
    <3>4. QED
      BY <1>2, <3>1, <3>3 DEF RowsAccounted, Accounted
  <2>3. QED
    BY <2>1, <2>2
<1>3. QED
  BY <1>1, <1>2 DEF RowsAccounted

(* An excuse, once given, stays; and a recording that excuses comes with    *)
(* one.                                                                    *)
LEMMA ExcuseStays ==
  ASSUME RecorderTypeOK, LegsInTurn, NEW f \in Files, Body(f) \/ End(f) \/ Hooks(f),
         NEW d \in {"skipped", "inapplicable"}, ExcuseGiven(f, d)
  PROVE  ExcuseGiven(f, d)'
<1>1. PICK m \in LegsOf(f) : Excused(f, m, d)
  BY DEF ExcuseGiven
<1>2. CASE d \in did[f][m].noted \cup did[f][m].gated
  <2>1. d \in did'[f][m].noted \cup did'[f][m].gated
    BY <1>2, ConductSteps
  <2>2. QED
    BY <2>1 DEF ExcuseGiven, Excused, LegsOf
<1>3. CASE did[f][m].row = d
  <2>1. m < Current(f)
    BY <1>3, LegConduct DEF LegsInTurn, LegsOf
  <2>2. did'[f][m] = did[f][m]
    BY <2>1, LegConduct, ConductSteps
  <2>3. QED
    BY <1>3, <2>2 DEF ExcuseGiven, Excused, LegsOf
<1>4. QED
  BY <1>1, <1>2, <1>3 DEF Excused

LEMMA EntryExcused ==
  ASSUME NEW e \in Entry, NEW d \in Dispositions, NoMoreCertifiable(e.disposition, d)
  PROVE  /\ e.disposition = "inapplicable" => d = "inapplicable"
         /\ e.disposition = "skipped" => d \in {"skipped", "inapplicable"}
BY DEF NoMoreCertifiable, CERTIFIABILITY_RANK, Dispositions, Entry

LEMMA JournalExcused ==
  ASSUME LedgerInv, RecorderTypeOK, LegsInTurn, NEW f \in Files, Body(f) \/ End(f) \/ Hooks(f),
         ExcuseWindow(f), UNCHANGED fileMark,
         NEW d \in Dispositions, NEW fold, Journals(f, d, fold),
         d \in {"skipped", "inapplicable"} => ExcuseGiven(f, d)'
  PROVE  ExcuseWindow(f)'
<1> DEFINE Spoken(row) ==
             /\ row.disposition = "inapplicable" => ExcuseGiven(f, "inapplicable")'
             /\ row.disposition = "skipped" =>
                  ExcuseGiven(f, "skipped")' \/ ExcuseGiven(f, "inapplicable")'
<1>1. journal[f] \in Seq(Entry) /\ fileMark[f] \in 0 .. Len(journal[f])
  BY DEF RecorderTypeOK, LedgerTypeOK
<1>2. SUFFICES ASSUME NEW i \in fileMark[f] + 1 .. Len(journal'[f]) PROVE Spoken(journal'[f][i])
  BY DEF ExcuseWindow
<1>3. \A x \in {"skipped", "inapplicable"} : ExcuseGiven(f, x) => ExcuseGiven(f, x)'
  BY ExcuseStays
<1>4. CASE i \in fileMark[f] + 1 .. Len(journal[f]) /\ journal'[f][i] = journal[f][i]
  BY <1>3, <1>4 DEF ExcuseWindow
<1>5. CASE journal'[f] = journal[f]
  BY <1>2, <1>4, <1>5
<1>6. ASSUME NEW e \in Entry, journal'[f] = Append(journal[f], e),
             NoMoreCertifiable(e.disposition, d)
      PROVE  Spoken(journal'[f][i])
  <2>1. (i \in fileMark[f] + 1 .. Len(journal[f]) /\ journal'[f][i] = journal[f][i])
          \/ journal'[f][i] = e
    BY <1>1, <1>6, AppendSuffix
  <2>2. Spoken(e)
    BY <1>6, EntryExcused
  <2>3. QED
    BY <1>4, <2>1, <2>2
<1>7. QED
  BY <1>5, <1>6 DEF Journals

LEMMA ExcusesStep ==
  ASSUME LedgerInv, RecorderTypeOK, LegsInTurn, NEW f \in Files, ExcusesHeld(f),
         Body(f) \/ End(f) \/ Hooks(f)
  PROVE  ExcusesHeld(f)'
<1> DEFINE n == Current(f)
<1>1. phase[f] \in {"running", "ended"} => /\ n \in LegsOf(f) /\ n \in 0 .. Legs[f]
                                           /\ did[f][n] \in Conduct
  BY LegConduct DEF LegsInTurn, LegsOf
<1>2. {"skipped", "inapplicable"} \subseteq Dispositions
  BY DEF Dispositions
<1>3. CASE BeforeAll(f)
  <2>1. UNCHANGED journal /\ fileMark'[f] = Len(journal[f]) /\ Len(journal[f]) \in Nat
    BY <1>3 DEF BeforeAll, vars, ledgerVars, RecorderTypeOK, LedgerTypeOK
  <2>2. QED
    BY <2>1 DEF ExcusesHeld, ExcuseWindow
<1>4. ASSUME phase[f] \in {"between", "running", "ended"}, UNCHANGED <<fileMark, journal>>
      PROVE  ExcusesHeld(f)'
  <2>1. ExcuseWindow(f)
    BY <1>4 DEF ExcusesHeld
  <2>2. \A x \in {"skipped", "inapplicable"} : ExcuseGiven(f, x) => ExcuseGiven(f, x)'
    BY ExcuseStays
  <2>3. QED
    BY <1>4, <2>1, <2>2 DEF ExcusesHeld, ExcuseWindow
<1>5. ASSUME NEW id \in GateIds, BehaviorGate(f, id) PROVE ExcusesHeld(f)'
  <2> DEFINE d == IF id \in OptedOut THEN "skipped" ELSE "inapplicable"
  <2>1. Journals(f, d, FALSE) /\ d \in Dispositions
    BY <1>2, <1>5, JournalSteps
  <2>2. UNCHANGED fileMark /\ phase[f] = "running"
    BY <1>5 DEF BehaviorGate, MayRecord, markVars
  <2>3. did'[f][n].gated = did[f][n].gated \cup {d}
    BY <1>1, <1>5, <2>2, LegConduct DEF BehaviorGate, Conduct
  <2> HIDE DEF d
  <2>4. ExcuseGiven(f, d)'
    BY <1>1, <2>2, <2>3 DEF ExcuseGiven, Excused, LegsOf
  <2>5. ExcuseWindow(f)
    BY <2>2 DEF ExcusesHeld
  <2>6. QED
    BY <2>1, <2>2, <2>4, <2>5, JournalExcused DEF ExcusesHeld
<1>6. ASSUME NEW d \in SelfVerdicts[f], ClassifySelf(f, d), phase[f] = "running"
      PROVE  ExcusesHeld(f)'
  <2>1. Journals(f, d, FALSE) /\ d \in Dispositions
    BY <1>6, JournalSteps, RecorderAssumption
  <2>2. UNCHANGED fileMark
    BY <1>6 DEF ClassifySelf, markVars
  <2>3. did'[f][n].gated = did[f][n].gated \cup {d}
    <3>1. did' = [did EXCEPT ![f][n].gated = @ \cup {d}, ![f][n].self = TRUE]
      BY <1>6 DEF ClassifySelf
    <3>2. QED
      BY <1>1, <1>6, <3>1, LegConduct DEF Conduct
  <2>4. ExcuseGiven(f, d)'
    BY <1>1, <1>6, <2>3 DEF ExcuseGiven, Excused, LegsOf
  <2>5. ExcuseWindow(f)
    BY <1>6 DEF ExcusesHeld
  <2>6. QED
    BY <2>1, <2>2, <2>4, <2>5, JournalExcused DEF ExcusesHeld
<1>7. CASE SkipOffLane(f)
  <2>1. Journals(f, "inapplicable", FALSE)
    BY <1>7, JournalSteps
  <2>2. UNCHANGED fileMark /\ phase[f] = "between" /\ n \in LegsOf(f)
    BY <1>7, LegConduct DEF SkipOffLane, markVars, LegsOf
  <2>3. "inapplicable" \in did'[f][n].noted
    <3>1. n \in 0 .. Legs[f] /\ did[f][n] \in Conduct
      BY <2>2, LegConduct
    <3>2. QED
      BY <1>7, <3>1, LegConduct DEF SkipOffLane, Conduct
  <2>4. ExcuseGiven(f, "inapplicable")'
    BY <2>2, <2>3 DEF ExcuseGiven, Excused, LegsOf
  <2>5. ExcuseWindow(f)
    BY <2>2 DEF ExcusesHeld
  <2>6. QED
    BY <1>2, <2>1, <2>2, <2>4, <2>5, JournalExcused DEF ExcusesHeld
<1>8. CASE RecordLeg(f)
  <2>0. PICK d : d = AttachObservation(LegVerdict(f), pending[f] # {}).disposition
    OBVIOUS
  <2>1. Journals(f, d, TRUE) /\ d \in Dispositions
    BY <1>8, <2>0, JournalSteps, LegVerdictType, AttachType DEF VerdictsGiven
  <2>2. UNCHANGED fileMark /\ phase[f] = "ended"
    BY <1>8 DEF RecordLeg, Finish, markVars
  <2>3. did'[f][n].row = d /\ n \in LegsOf(f)
    BY <1>8, <2>0, RecordLegRows
  <2> HIDE DEF n
  <2>4. ExcuseGiven(f, d)'
    BY <2>3 DEF ExcuseGiven, Excused, LegsOf
  <2>5. ExcuseWindow(f)
    BY <2>2 DEF ExcusesHeld
  <2>6. QED
    BY <2>1, <2>2, <2>4, <2>5, JournalExcused DEF ExcusesHeld
<1>9. CASE phase'[f] \in {"loading", "closed"}
  BY <1>9 DEF ExcusesHeld
<1>10. CASE Expect(f) \/ Observe(f) \/ (\E note \in NoteKinds : Note(f, note))
             \/ (\E id \in ReqIds : Cite(f, id)) \/ End(f)
  <2>1. phase[f] = "running" /\ UNCHANGED <<fileMark, journal>>
    BY <1>10 DEF Expect, Observe, Note, Cite, End, EndBody, markVars, vars, ledgerVars
  <2>2. QED
    BY <1>4, <2>1
<1>11. CASE BeginLeg(f) \/ SkipUnrecorded(f) \/ \E loss \in BOOLEAN : HideLeg(f, loss)
  <2>1. phase[f] \in {"between", "ended"} /\ UNCHANGED <<fileMark, journal>>
    BY <1>11 DEF BeginLeg, SkipUnrecorded, HideLeg, Finish, markVars, vars, ledgerVars
  <2>2. QED
    BY <1>4, <2>1
<1>12. ASSUME NEW d \in SelfVerdicts[f], ClassifySelf(f, d), phase[f] = "loading"
       PROVE  ExcusesHeld(f)'
  BY <1>9, <1>12 DEF ClassifySelf
<1>13. CASE AfterAll(f)
  BY <1>9, <1>13, PhaseSteps
<1>14. QED
  BY <1>3, <1>5, <1>6, <1>7, <1>8, <1>10, <1>11, <1>12, <1>13
     DEF Body, Hooks, Teardown, ClassifySelf

LEMMA CallsStep ==
  ASSUME RecorderTypeOK, LegsInTurn, NEW f \in Files, CallsHeld(f), Windowed(f),
         Body(f) \/ End(f) \/ Hooks(f)
  PROVE  CallsHeld(f)'
<1>1. /\ fileCalls \in [Files -> Nat] /\ fileCalls[f] \in Nat /\ calls[f] \in Nat
      /\ Current(f) \in Nat /\ LegsOf(f) \subseteq Nat
  <2>1. LegsOf(f) \subseteq Nat
    BY DEF LegsOf
  <2>2. QED
    BY <2>1, LegConduct DEF RecorderTypeOK
<1>2. Current(f) <= Current(f)' /\ Current(f)' \in Nat
  <2>1. Current(f)' \in {Current(f), Current(f) + 1}
    BY PhaseSteps, LegConduct DEF Hooks, Current
  <2>2. QED
    BY <1>1, <2>1
<1>3. ASSUME NEW n \in LegsOf(f), n < Current(f), Witnessing(f, n)
      PROVE  n < Current(f)' /\ Witnessing(f, n)'
  <2>1. n # Current(f) /\ n < Current(f)'
    BY <1>1, <1>2, <1>3
  <2>2. did'[f][n] = did[f][n]
    BY <2>1, ConductSteps
  <2>3. QED
    BY <1>3, <2>1, <2>2 DEF Witnessing
<1>4. ASSUME NEW n \in LegsOf(f), ~RecordLeg(f), Witnessing(f, n)' PROVE Witnessing(f, n)
  <2>1. did'[f][n].row = did[f][n].row
    BY <1>4, OtherStepsKeepRows DEF SameRows
  <2>2. n < Current(f) /\ n # Current(f)
    BY <1>1, <1>4, <2>1, LegConduct DEF LegsInTurn, Witnessing, LegsOf
  <2>3. did'[f][n] = did[f][n]
    BY <2>2, ConductSteps
  <2>4. QED
    BY <1>4, <2>3 DEF Witnessing
<1>5. CASE fileCalls'[f] = fileCalls[f] /\ ~RecordLeg(f) /\ ~AfterAll(f)
  <2>1. phase'[f] # "closed" => phase[f] # "closed"
    BY PhaseSteps DEF Hooks
  <2>2. QED
    BY <1>3, <1>4, <1>5, <2>1 DEF CallsHeld, LegsOf
<1>6. CASE RecordLeg(f)
  <2> DEFINE n == Current(f)
  <2>1. /\ fileCalls'[f] = fileCalls[f] + calls[f] /\ phase[f] = "ended"
        /\ calls[f] = did[f][n].asserted
    BY <1>1, <1>6 DEF RecordLeg, Finish, Windowed
  <2>2. n \in LegsOf(f) /\ n < Current(f)'
    <3>1. Current(f)' = Current(f) + 1
      BY <1>6, PhaseSteps, LegConduct DEF Teardown, Current
    <3>2. QED
      BY <1>1, <1>6, <3>1, RecordLegRows
  <2>3. did'[f][n].row # "none"
    <3>1. did'[f][n].row \in Dispositions
      BY <1>6, RecordLegRows, LegVerdictType, AttachType DEF VerdictsGiven
    <3>2. QED
      BY <3>1 DEF Dispositions
  <2>4. did'[f][n].asserted = calls[f]
    <3>1. did'[f][n].asserted = did[f][n].asserted
      BY <1>6, <2>2, ConductSteps DEF RecordLeg, Finish, Expect
    <3>2. QED
      BY <2>1, <3>1
  <2>5. fileCalls'[f] > 0 => \E m \in LegsOf(f) : m < Current(f)' /\ Witnessing(f, m)'
    <3>1. CASE fileCalls[f] > 0
      BY <1>3, <3>1 DEF CallsHeld
    <3>2. CASE calls[f] > 0
      BY <2>2, <2>3, <2>4, <3>2 DEF Witnessing
    <3>3. QED
      BY <1>1, <2>1, <3>1, <3>2
  <2>6. ASSUME NEW m \in LegsOf(f), Witnessing(f, m)' PROVE fileCalls'[f] > 0
    <3>1. CASE m = n
      BY <1>1, <2>1, <2>4, <2>6, <3>1 DEF Witnessing
    <3>2. CASE m # n
      <4>1. Witnessing(f, m)
        BY <2>6, <3>2, ConductSteps DEF Witnessing
      <4>2. fileCalls[f] > 0
        BY <2>1, <4>1 DEF CallsHeld
      <4>3. QED
        BY <1>1, <2>1, <4>2
    <3>3. QED
      BY <3>1, <3>2
  <2> HIDE DEF n
  <2>7. QED
    BY <2>5, <2>6 DEF CallsHeld, LegsOf
<1>7. CASE AfterAll(f)
  <2>1. fileCalls'[f] = 0 /\ phase'[f] = "closed"
    BY <1>1, <1>7, PhaseSteps DEF AfterAll
  <2>2. QED
    BY <2>1 DEF CallsHeld
<1>8. QED
  BY <1>5, <1>6, <1>7
     DEF Body, End, Hooks, Teardown, Expect, Observe, Note, BehaviorGate, Cite, ClassifySelf,
         EndBody, BeforeAll, BeginLeg, SkipOffLane, HideLeg, SkipUnrecorded, resultVars

LEMMA NotesStep ==
  ASSUME RecorderTypeOK, LegsInTurn, NEW f \in Files, NotesHeld(f), Body(f) \/ End(f) \/ Hooks(f)
  PROVE  NotesHeld(f)'
<1> DEFINE n == Current(f)
           Noted(k) == \E m \in LegsOf(f) : k \in did'[f][m].noted
<1>1. \A i \in DOMAIN notes[f] : Noted(notes[f][i].kind)
  BY ConductSteps DEF NotesHeld
<1>2. notes[f] \in Seq(Notes) /\ notes \in [Files -> Seq(Notes)]
  BY DEF RecorderTypeOK
<1>3. ASSUME NEW note \in Notes, notes'[f] = Append(notes[f], note), Noted(note.kind)
      PROVE  \A i \in DOMAIN notes'[f] : Noted(notes'[f][i].kind)
  <2> HIDE DEF Noted
  <2>1. \A i \in DOMAIN notes'[f] : \/ i \in DOMAIN notes[f] /\ notes'[f][i] = notes[f][i]
                                    \/ notes'[f][i] = note
    BY <1>2, <1>3
  <2>2. QED
    BY <1>1, <1>3, <2>1
<1>4. CASE notes'[f] = notes[f]
  BY <1>1, <1>4 DEF NotesHeld, LegsOf
<1>5. ASSUME NEW note \in NoteKinds, Note(f, note) PROVE NotesHeld(f)'
  <2>1. n \in LegsOf(f) /\ n \in 0 .. Legs[f] /\ did[f][n] \in Conduct
    BY <1>5, LegConduct DEF Note, LegsInTurn, LegsOf
  <2>2. note.kind \in did'[f][n].noted
    BY <1>5, <2>1, LegConduct DEF Note, Conduct
  <2>3. notes'[f] = Append(notes[f], note) /\ note \in Notes
    BY <1>2, <1>5, RecorderAssumption DEF Note
  <2>4. \A i \in DOMAIN notes'[f] : Noted(notes'[f][i].kind)
    BY <1>3, <2>1, <2>2, <2>3
  <2>5. QED
    BY <2>4 DEF NotesHeld, LegsOf
<1>6. CASE SkipOffLane(f)
  <2> DEFINE note == [kind |-> "inapplicable", conclusive |-> FALSE]
  <2>1. n \in LegsOf(f) /\ n \in 0 .. Legs[f] /\ did[f][n] \in Conduct
    BY <1>6, LegConduct DEF SkipOffLane, LegsOf
  <2>2. "inapplicable" \in did'[f][n].noted
    BY <1>6, <2>1, LegConduct DEF SkipOffLane, Conduct
  <2>3. notes'[f] = Append(notes[f], note) /\ note \in Notes
    BY <1>2, <1>6 DEF SkipOffLane, Notes, SoftSkipKinds
  <2>4. note.kind = "inapplicable"
    OBVIOUS
  <2> HIDE DEF note
  <2>5. \A i \in DOMAIN notes'[f] : Noted(notes'[f][i].kind)
    BY <1>3, <2>1, <2>2, <2>3, <2>4
  <2>6. QED
    BY <2>5 DEF NotesHeld, LegsOf
<1>7. QED
  BY <1>4, <1>5, <1>6
     DEF Body, End, Hooks, Teardown, Expect, Observe, BehaviorGate, Cite, ClassifySelf,
         EndBody, BeforeAll, BeginLeg, HideLeg, SkipUnrecorded, RecordLeg, AfterAll, legVars

(* A failure after an assertion the recorder counted is one.               *)
LEMMA CountedFailure ==
  ASSUME NEW T, NEW gate, NEW n \in Nat \ {0}, NEW noted, NEW coherence,
         NEW i \in DOMAIN T, T[i].state = "fail"
  PROVE  ResolveFileRecord(T, gate, n, noted, coherence).disposition = "executed-fail"
<1>1. \A d : Verdict(d).disposition = d
  BY DEF Verdict
<1>2. FileDisposition(T, gate, n) = "executed-fail"
  BY DEF FileDisposition
<1> HIDE DEF Verdict, FileDisposition
<1>3. QED
  BY <1>1, <1>2 DEF ResolveFileRecord

(* What the file's verdict rests on in the legs.                           *)
ReasonsOf(g) == UNION {did[g][n].noted \cup did[g][n].gated : n \in LegsOf(g)}
SkippedItself(g) ==
  \E n \in LegsOf(g) : tasks[g][n].state = "skip" /\ did[g][n].row = "skipped"

Bears(g, d) ==
  /\ d = "executed-pass" => \E n \in LegsOf(g) : Witnessing(g, n)
  /\ d = "inapplicable" => g \in CoherenceFiles \/ "inapplicable" \in ReasonsOf(g)
  /\ d = "skipped" =>
       \/ \E n \in LegsOf(g) : Witnessing(g, n)
       \/ ReasonsOf(g) \cap {"skipped", "inapplicable"} # {}
       \/ SkippedItself(g)
  /\ d \in CERTIFIABLE => \A n \in LegsOf(g) : tasks[g][n].state # "fail"
  /\ d # "executed-fail" => \A n \in LegsOf(g) :
       tasks[g][n].state = "fail" =>
         tasks[g][n].loss /\ \A m \in LegsOf(g) : ~Witnessing(g, m)

(* An excuse is a reason some leg gave, or a leg that skipped itself.      *)
LEMMA ExcuseIsReason ==
  ASSUME RowsAccounted, NEW f \in Files \ CoherenceFiles, NEW d \in {"skipped", "inapplicable"},
         ExcuseGiven(f, d)
  PROVE  d \in ReasonsOf(f) \/ (d = "skipped" /\ SkippedItself(f))
<1>1. PICK n \in LegsOf(f) : Excused(f, n, d)
  BY DEF ExcuseGiven
<1>2. did[f][n].row = d =>
        d \in did[f][n].noted \cup did[f][n].gated \/ (d = "skipped" /\ tasks[f][n].state = "skip")
  BY DEF RowsAccounted, Accounted
<1>3. QED
  BY <1>1, <1>2 DEF Excused, ReasonsOf, SkippedItself

(* The verdict of a file: it passes on an assertion, and is excused by its  *)
(* gate, by its notes or, if it is about the corpus and asserted nothing,   *)
(* by what it is.                                                           *)
LEMMA FileSpeaks ==
  ASSUME RecorderTypeOK, NEW f \in Files
  PROVE  LET gate == GateOf(Since(journal[f], fileMark[f]))
             T == [n \in states[f] \cup UnrecordedTests(f) |-> tasks[f][n]]
             d == FileVerdict(f).disposition
         IN  /\ d = "executed-pass" => fileCalls[f] # 0
             /\ d = "inapplicable" =>
                  f \in CoherenceFiles \/ gate = d \/ (notes[f] # << >> /\ NotedKind(notes[f]) = d)
             /\ d = "skipped" =>
                  /\ gate = d \/ (notes[f] # << >> /\ NotedKind(notes[f]) = d)
                  /\ f \in CoherenceFiles => fileCalls[f] # 0 \/ \E i \in DOMAIN T : T[i].state = "fail"
<1> DEFINE gate == GateOf(Since(journal[f], fileMark[f]))
           T == [n \in states[f] \cup UnrecordedTests(f) |-> tasks[f][n]]
<1>1. /\ notes[f] \in Seq(Notes) /\ fileCalls[f] \in Nat
      /\ journal[f] \in Seq(Entry) /\ fileMark[f] \in 0 .. Len(journal[f])
      /\ states[f] \subseteq DOMAIN tasks[f] /\ (f \in CoherenceFiles) \in BOOLEAN
  BY DEF RecorderTypeOK, LedgerTypeOK
<1>2. gate \in {NoGate, "inapplicable", "skipped"}
  BY GateType
<1>3. FileVerdict(f) = ResolveFileRecord(T, gate, fileCalls[f], notes[f], f \in CoherenceFiles)
  BY DEF FileVerdict
<1>4. \A x : Verdict(x).disposition = x
  BY DEF Verdict
<1>5. PartialPass.disposition = "executed-pass" /\ UnclassifiedReturn.disposition = "blocked"
  BY DEF PartialPass, UnclassifiedReturn
<1>6. notes[f] # << >> => NotedKind(notes[f]) \in {"blocked", "skipped", "inapplicable"}
  BY <1>1, NotedSpeaks DEF SoftSkipKinds
<1> HIDE DEF T, gate
<1>7. FileDisposition(T, gate, fileCalls[f]) \in {"blocked", "executed-fail", "executed-pass", gate}
      /\ (gate = NoGate => FileDisposition(T, gate, fileCalls[f]) # NoGate)
  BY DEF FileDisposition, NoGate
<1> HIDE DEF Verdict, PartialPass, NotedKind, FileDisposition, UnclassifiedReturn
<1>8. LET d == FileVerdict(f).disposition
      IN  /\ d = "executed-pass" => fileCalls[f] # 0
          /\ d = "inapplicable" =>
               f \in CoherenceFiles \/ gate = d \/ (notes[f] # << >> /\ NotedKind(notes[f]) = d)
          /\ d = "skipped" =>
               /\ gate = d \/ (notes[f] # << >> /\ NotedKind(notes[f]) = d)
               /\ f \in CoherenceFiles => fileCalls[f] # 0 \/ \E i \in DOMAIN T : T[i].state = "fail"
  BY <1>2, <1>3, <1>4, <1>5, <1>6, <1>7 DEF ResolveFileRecord
<1>9. QED
  BY <1>8, Zenon DEF T, gate

LEMMA FileVerdictWitnessed ==
  ASSUME RecorderTypeOK, NEW f \in Files, FileVerdict(f).disposition = "executed-pass"
  PROVE  fileCalls[f] > 0
<1>1. fileCalls[f] \in Nat /\ fileCalls[f] # 0
  BY FileSpeaks DEF RecorderTypeOK
<1>2. QED
  BY <1>1

LEMMA FileVerdictBears ==
  ASSUME RecorderTypeOK, RowsAccounted, NEW f \in Files, phase[f] = "between",
         LegsOf(f) = DOMAIN tasks[f], CallsHeld(f), NotesHeld(f), ExcusesHeld(f)
  PROVE  Bears(f, FileVerdict(f).disposition)
<1> DEFINE gate == GateOf(Since(journal[f], fileMark[f]))
           T == [n \in states[f] \cup UnrecordedTests(f) |-> tasks[f][n]]
           d == FileVerdict(f).disposition
<1>1. /\ notes[f] \in Seq(Notes) /\ fileCalls[f] \in Nat
      /\ journal[f] \in Seq(Entry) /\ fileMark[f] \in 0 .. Len(journal[f])
      /\ states[f] \subseteq DOMAIN tasks[f] /\ (f \in CoherenceFiles) \in BOOLEAN
  BY DEF RecorderTypeOK, LedgerTypeOK
<1>2. gate \in {NoGate, "inapplicable", "skipped"}
  BY GateType
<1>3. FileVerdict(f) = ResolveFileRecord(T, gate, fileCalls[f], notes[f], f \in CoherenceFiles)
  BY DEF FileVerdict
<1>4. /\ d = "executed-pass" => fileCalls[f] # 0
      /\ d = "inapplicable" =>
           f \in CoherenceFiles \/ gate = d \/ (notes[f] # << >> /\ NotedKind(notes[f]) = d)
      /\ d = "skipped" =>
           /\ gate = d \/ (notes[f] # << >> /\ NotedKind(notes[f]) = d)
           /\ f \in CoherenceFiles => fileCalls[f] # 0 \/ \E i \in DOMAIN T : T[i].state = "fail"
  BY FileSpeaks
<1>5. (\E n \in LegsOf(f) : Witnessing(f, n)) <=> fileCalls[f] # 0
  BY <1>1 DEF CallsHeld
<1>6. ASSUME NEW n \in LegsOf(f), tasks[f][n].state = "fail"
      PROVE  n \in DOMAIN T /\ T[n] = tasks[f][n] /\ d \in {"executed-fail", "blocked"}
             /\ (~tasks[f][n].loss \/ fileCalls[f] # 0 => d = "executed-fail")
  <2>1. n \in DOMAIN T /\ T[n] = tasks[f][n]
    BY <1>6 DEF UnrecordedTests
  <2>2. /\ d \in {"executed-fail", "blocked"}
        /\ ~tasks[f][n].loss => d = "executed-fail"
    BY <1>6, FileVerdictDenies
  <2>3. ASSUME fileCalls[f] # 0 PROVE d = "executed-fail"
    <3>1. fileCalls[f] \in Nat \ {0} /\ T[n].state = "fail"
      BY <1>1, <1>6, <2>1, <2>3
    <3> HIDE DEF T, gate
    <3>2. QED
      BY <1>3, <2>1, <3>1, CountedFailure
  <2>4. QED
    BY <2>1, <2>2, <2>3
<1>7. gate # NoGate => ExcuseGiven(f, gate) \/ (gate = "skipped" /\ ExcuseGiven(f, "inapplicable"))
  <2>1. ExcuseWindow(f)
    BY DEF ExcusesHeld
  <2>2. gate # NoGate =>
          /\ gate \in {"skipped", "inapplicable"}
          /\ \E i \in fileMark[f] + 1 .. Len(journal[f]) : journal[f][i].disposition = gate
    BY <1>1, GateSpeaks
  <2> HIDE DEF gate
  <2>3. QED
    BY <2>1, <2>2 DEF ExcuseWindow
<1>8. notes[f] # << >> => NotedKind(notes[f]) \in ReasonsOf(f)
  <2>1. notes[f] # << >> => \E i \in DOMAIN notes[f] : notes[f][i].kind = NotedKind(notes[f])
    BY <1>1, NotedSpeaks
  <2>2. QED
    BY <2>1 DEF NotesHeld, ReasonsOf
<1> HIDE DEF gate, T, d
<1>9. NoGate \notin {"skipped", "inapplicable"}
  BY DEF NoGate
<1>10. d = "inapplicable" => f \in CoherenceFiles \/ "inapplicable" \in ReasonsOf(f)
  BY <1>4, <1>7, <1>8, <1>9, ExcuseIsReason
<1>11. d = "skipped" =>
         \/ \E n \in LegsOf(f) : Witnessing(f, n)
         \/ ReasonsOf(f) \cap {"skipped", "inapplicable"} # {}
         \/ SkippedItself(f)
  <2>1. CASE f \in CoherenceFiles
    <3>1. ASSUME d = "skipped", NEW i \in DOMAIN T, T[i].state = "fail" PROVE FALSE
      <4>1. i \in LegsOf(f) /\ tasks[f][i].state = "fail"
        BY <1>1, <3>1 DEF T, UnrecordedTests
      <4>2. QED
        BY <1>6, <3>1, <4>1
    <3>2. QED
      BY <1>4, <1>5, <2>1, <3>1
  <2>2. CASE f \notin CoherenceFiles
    BY <1>4, <1>7, <1>8, <1>9, <2>2, ExcuseIsReason
  <2>3. QED
    BY <2>1, <2>2
<1>12. d \in CERTIFIABLE => \A n \in LegsOf(f) : tasks[f][n].state # "fail"
  BY <1>6 DEF CERTIFIABLE
<1>13. d # "executed-fail" => \A n \in LegsOf(f) :
         tasks[f][n].state = "fail" =>
           tasks[f][n].loss /\ \A m \in LegsOf(f) : ~Witnessing(f, m)
  BY <1>5, <1>6
<1>14. QED
  BY <1>4, <1>5, <1>10, <1>11, <1>12, <1>13 DEF Bears, d

-----------------------------------------------------------------------------
(* The file's row, once afterAll has written it. *)
FileRowsAccounted ==
  \A f \in Files : Closed(f) /\ ~SelfClassified(f) => Bears(f, FileRow(f).disposition)

LEMMA FileRowsStep ==
  ASSUME LedgerInv, RecorderTypeOK, LegsInTurn, FileRowAwaited, RowsAccounted, FileRowsAccounted,
         NEW f \in Files, CallsHeld(f), NotesHeld(f), ExcusesHeld(f),
         Body(f) \/ End(f) \/ Hooks(f)
  PROVE  FileRowsAccounted'
<1>1. ASSUME NEW g \in Files \ {f}, Closed(g)', ~SelfClassified(g)'
      PROVE  Bears(g, FileRow(g).disposition)'
  <2>1. /\ did'[g] = did[g] /\ tasks'[g] = tasks[g] /\ FileRow(g)' = FileRow(g)
        /\ Bears(g, FileRow(g).disposition)
    BY <1>1, OthersStand DEF Standing, FileRowsAccounted, Closed, SelfClassified, FileRow
  <2>2. ReasonsOf(g)' = ReasonsOf(g)
    BY <2>1, Zenon DEF ReasonsOf, LegsOf
  <2>3. QED
    BY <2>1, <2>2 DEF Bears, Witnessing, SkippedItself, LegsOf
<1>2. ASSUME Closed(f)', ~SelfClassified(f)' PROVE Bears(f, FileRow(f).disposition)'
  <2>1. /\ AfterAll(f) /\ phase[f] = "between" /\ tasks'[f] = tasks[f]
        /\ LegsOf(f) = DOMAIN tasks[f]
        /\ FileRow(f).disposition' = FileVerdict(f).disposition
    BY <1>2, FileRowWritten
  <2>2. did' = did
    BY <2>1 DEF AfterAll
  <2>3. Bears(f, FileVerdict(f).disposition)
    BY <2>1, FileVerdictBears
  <2>4. ReasonsOf(f)' = ReasonsOf(f)
    BY <2>2 DEF ReasonsOf, LegsOf
  <2>5. QED
    BY <2>1, <2>2, <2>3, <2>4 DEF Bears, Witnessing, SkippedItself, LegsOf
<1>3. QED
  BY <1>1, <1>2 DEF FileRowsAccounted

(* A scenario classifies itself by recording its row, and in no other way. *)
LEMMA SelfOnlyByRecording ==
  ASSUME RecorderTypeOK, LegsInTurn, NEW f \in Files, Body(f) \/ End(f) \/ Hooks(f),
         ~\E d \in SelfVerdicts[f] : ClassifySelf(f, d), SelfClassified(f)'
  PROVE  SelfClassified(f)
<1>1. ASSUME \A m \in 0 .. Legs[f] : did'[f][m].self = did[f][m].self
      PROVE  SelfClassified(f)
  BY <1>1 DEF SelfClassified
<1> USE LegConduct DEF Conduct
<1>2. CASE Expect(f)
  BY <1>1, <1>2 DEF Expect
<1>3. ASSUME NEW note \in NoteKinds, Note(f, note) PROVE SelfClassified(f)
  BY <1>1, <1>3 DEF Note
<1>4. ASSUME NEW id \in GateIds, BehaviorGate(f, id) PROVE SelfClassified(f)
  BY <1>1, <1>4 DEF BehaviorGate
<1>5. ASSUME NEW id \in ReqIds, Cite(f, id) PROVE SelfClassified(f)
  BY <1>1, <1>5 DEF Cite
<1>6. CASE SkipOffLane(f)
  BY <1>1, <1>6 DEF SkipOffLane
<1>7. CASE RecordLeg(f)
  BY <1>1, <1>7, RecordLegRows
<1>8. CASE UNCHANGED did
  BY <1>8 DEF SelfClassified
<1>9. QED
  BY <1>2, <1>3, <1>4, <1>5, <1>6, <1>7, <1>8
     DEF Body, End, Hooks, Teardown, Observe, EndBody, BeforeAll, BeginLeg,
         HideLeg, SkipUnrecorded, AfterAll

LEMMA SelfRowStep ==
  ASSUME LedgerInv, RecorderTypeOK, LegsInTurn, SelfRowHeld, NEW f \in Files,
         Body(f) \/ End(f) \/ Hooks(f)
  PROVE  SelfRowHeld'
<1> DEFINE Own(row) == row # Absent /\ row.file = NoFile /\ row.count = NoCount
<1>1. \A g \in Files : SelfClassified(g) => Own(FileRow(g))
  BY DEF SelfRowHeld, HasRequirement, FileRow
<1>2. ASSUME NEW g \in Files \ {f}, SelfClassified(g)' PROVE Own(FileRow(g))'
  BY <1>1, <1>2, OthersStand DEF Standing, SelfClassified, FileRow
<1>3. ASSUME SelfClassified(f)' PROVE Own(FileRow(f))'
  <2>1. ASSUME NEW d \in SelfVerdicts[f], ClassifySelf(f, d) PROVE Own(FileRow(f))'
    <3> DEFINE c == CallOf(f, FileIds[f], Verdict(d), NoCount, NoFile, FALSE)
    <3>1. d \in Dispositions /\ FileIds[f] \in Ids
      BY RecorderAssumption
    <3>2. c \in OwnCalls /\ RecordRequirement(c)
      BY <2>1, <3>1, RowCalls DEF ClassifySelf
    <3>3. ledger' = [ledger EXCEPT ![f][FileIds[f]] = NewEntry(c)]
      BY <3>2 DEF RecordRequirement, EntryFor, CallOf
    <3>4. NewEntry(c).file = NoFile /\ NewEntry(c).count = NoCount
      BY DEF NewEntry, CallOf
    <3>5. NewEntry(c) # Absent
      <4>1. NewEntry(c) = EntryFor(c)
        BY DEF EntryFor, CallOf
      <4>2. c \in CallType /\ c.file \in {c.writer, NoFile}
        BY <3>2 DEF OwnCalls
      <4>3. EntryFor(c) \in Entry
        BY <3>2, <4>2, EntryForFacts DEF RecordRequirement, LedgerInv
      <4>4. QED
        BY <4>1, <4>3, ConstantsAssumption
    <3> HIDE DEF c
    <3>6. FileRow(f)' = NewEntry(c)
      BY <3>1, <3>3 DEF RecorderTypeOK, LedgerTypeOK, FileRow
    <3>7. QED
      BY <3>4, <3>5, <3>6
  <2>2. ASSUME ~\E d \in SelfVerdicts[f] : ClassifySelf(f, d) PROVE Own(FileRow(f))'
    <3>1. SelfClassified(f) /\ Own(FileRow(f))
      BY <1>1, <1>3, <2>2, SelfOnlyByRecording
    <3>2. FileRow(f)' = FileRow(f)
      <4>1. CASE AfterAll(f)
        BY <3>1, <4>1 DEF AfterAll, HasRequirement, FileRow, vars, ledgerVars
      <4>2. CASE ~AfterAll(f)
        BY <2>2, <4>2, FileRowUntouched
      <4>3. QED
        BY <4>1, <4>2
    <3>3. QED
      BY <3>1, <3>2
  <2>3. QED
    BY <2>1, <2>2
<1>4. QED
  BY <1>2, <1>3 DEF SelfRowHeld, HasRequirement, FileRow

-----------------------------------------------------------------------------
(* What every row can be traced to, on top of RecorderInv. *)
Traced(g) == Windowed(g) /\ CallsHeld(g) /\ NotesHeld(g) /\ ExcusesHeld(g)

TraceInv ==
  /\ \A f \in Files : Traced(f)
  /\ RowsAccounted
  /\ FileRowsAccounted
  /\ SelfRowHeld

LEMMA TraceInvInit == RecorderInit => TraceInv
<1> SUFFICES ASSUME RecorderInit PROVE TraceInv
  OBVIOUS
<1>1. RecorderInv
  BY RecorderInvInit
<1>2. \A f \in Files : /\ phase[f] = "loading" /\ fileCalls[f] = 0 /\ notes[f] = << >>
                        /\ \A n \in 0 .. Legs[f] : did[f][n] = Nothing
  BY DEF RecorderInit
<1>3. \A f \in Files : \A n \in LegsOf(f) : n \in 0 .. Legs[f]
  BY <1>1, LegConduct DEF RecorderInv
<1>4. ASSUME NEW f \in Files PROVE Traced(f)
  <2>1. Windowed(f) /\ NotesHeld(f) /\ ExcusesHeld(f)
    BY <1>2, <1>3, <1>4 DEF Windowed, NotesHeld, ExcusesHeld, Nothing
  <2>2. CallsHeld(f)
    BY <1>2, <1>3, <1>4 DEF CallsHeld, Witnessing, Nothing
  <2>3. QED
    BY <2>1, <2>2 DEF Traced
<1>5. RowsAccounted
  BY <1>2, <1>3 DEF RowsAccounted, Nothing
<1>6. FileRowsAccounted
  BY <1>2 DEF FileRowsAccounted, Closed
<1>7. SelfRowHeld
  BY <1>2 DEF SelfRowHeld, SelfClassified, Nothing
<1>8. QED
  BY <1>4, <1>5, <1>6, <1>7 DEF TraceInv

LEMMA OthersTraced ==
  ASSUME LedgerInv, RecorderTypeOK, LegsInTurn, NEW f \in Files, Body(f) \/ End(f) \/ Hooks(f),
         NEW g \in Files \ {f}, Traced(g)
  PROVE  Traced(g)'
<1>1. Standing(g) /\ WindowStands(g)
  BY OthersStand, OtherWindowsStand
<1>2. Windowed(g)'
  BY <1>1 DEF Standing, WindowStands, Traced, Windowed, Begun, Current, LegsOf
<1>3. CallsHeld(g)' /\ NotesHeld(g)'
  BY <1>1 DEF Standing, WindowStands, Traced, CallsHeld, NotesHeld, Witnessing, Current, LegsOf
<1>4. ExcusesHeld(g)'
  BY <1>1 DEF Standing, WindowStands, Traced, ExcusesHeld, ExcuseWindow, ExcuseGiven, Excused, LegsOf
<1>5. QED
  BY <1>2, <1>3, <1>4 DEF Traced

LEMMA TraceInvStep == RecorderInv /\ TraceInv /\ [RecorderNext]_allVars => TraceInv'
<1> SUFFICES ASSUME RecorderInv, TraceInv, [RecorderNext]_allVars PROVE TraceInv'
  OBVIOUS
<1>1. CASE UNCHANGED allVars
  <2>1. UNCHANGED vars /\ UNCHANGED <<phase, fileMark, legMark, noteMark, notes, explicit, pending,
          calls, verdict, tasks, states, fileCalls, did>>
    BY <1>1 DEF allVars, recorderVars, markVars, legVars, resultVars
  <2>2. UNCHANGED <<ledger, journal>>
    BY <2>1 DEF vars, ledgerVars
  <2>3. ASSUME NEW f \in Files PROVE Traced(f)'
    <3>1. Windowed(f)'
      BY <2>1, <2>2 DEF TraceInv, Traced, Windowed, Begun, Current, LegsOf
    <3>2. CallsHeld(f)' /\ NotesHeld(f)' /\ ExcusesHeld(f)'
      BY <2>1, <2>2 DEF TraceInv, Traced, CallsHeld, NotesHeld, ExcusesHeld, ExcuseWindow,
                        ExcuseGiven, Excused, Witnessing, Current, LegsOf
    <3>3. QED
      BY <3>1, <3>2 DEF Traced
  <2>4. RowsAccounted'
    BY <2>1 DEF TraceInv, RowsAccounted, Accounted, LegsOf
  <2>5. FileRowsAccounted'
    <3>1. \A f \in Files : ReasonsOf(f)' = ReasonsOf(f) /\ FileRow(f)' = FileRow(f)
      BY <2>1, <2>2 DEF ReasonsOf, FileRow, LegsOf
    <3>2. QED
      BY <2>1, <2>2, <3>1 DEF TraceInv, FileRowsAccounted, Closed, SelfClassified, Bears,
                              Witnessing, SkippedItself, LegsOf
  <2>6. SelfRowHeld'
    BY <2>1, <2>2 DEF TraceInv, SelfRowHeld, SelfClassified, HasRequirement, FileRow
  <2>7. QED
    BY <2>3, <2>4, <2>5, <2>6 DEF TraceInv
<1>2. ASSUME NEW f \in Files, Body(f) \/ End(f) \/ Hooks(f) PROVE TraceInv'
  <2>1. LedgerInv /\ RecorderTypeOK /\ LegsInTurn /\ FileRowAwaited
    BY DEF RecorderInv
  <2>2. Windowed(f) /\ CallsHeld(f) /\ NotesHeld(f) /\ ExcusesHeld(f)
    BY DEF TraceInv, Traced
  <2>3. Traced(f)'
    BY <1>2, <2>1, <2>2, WindowedStep, CallsStep, NotesStep, ExcusesStep DEF Traced
  <2>4. \A g \in Files \ {f} : Traced(g)'
    BY <1>2, <2>1, OthersTraced DEF TraceInv
  <2>5. RowsAccounted'
    BY <1>2, <2>1, <2>2, RowsAccountedStep DEF TraceInv
  <2>6. FileRowsAccounted'
    BY <1>2, <2>1, <2>2, FileRowsStep DEF TraceInv
  <2>7. SelfRowHeld'
    BY <1>2, <2>1, SelfRowStep DEF TraceInv
  <2>8. QED
    BY <2>3, <2>4, <2>5, <2>6, <2>7 DEF TraceInv
<1>3. QED
  BY <1>1, <1>2 DEF RecorderNext

LEMMA TraceInvariant == RecorderSpec => [](RecorderInv /\ TraceInv)
<1>1. RecorderInv /\ TraceInv /\ [RecorderNext]_allVars => TraceInv'
  BY TraceInvStep
<1>2. QED
  BY <1>1, TraceInvInit, RecorderInvariant, PTL DEF RecorderSpec

-----------------------------------------------------------------------------
(* The hooks of setup.ts keep their marks within the journal and the       *)
(* notes, and know only of tests vitest has settled.                       *)
THEOREM RecorderTypeCorrect == RecorderSpec => []RecorderTypeOK
<1>1. RecorderInv => RecorderTypeOK
  BY DEF RecorderInv
<1>2. QED
  BY <1>1, RecorderInvariant, PTL

(* A test that failed, hidden by its own teardown or not, denies its file: *)
(* afterAll records executed-fail, or blocked when all that failed was a   *)
(* lost response, and nothing recorded before stands in the way.           *)
THEOREM FailureIsNeverLost == RecorderSpec => []FailedLegDenies
<1>1. RecorderInv => FailedLegDenies
  BY DEF RecorderInv
<1>2. QED
  BY <1>1, RecorderInvariant, PTL

(* req() and takeExplicitRequirementId: a citation names the row of the    *)
(* test that made it, and of no other.                                     *)
THEOREM CitationsStayHome == RecorderSpec => []RowUnderOwnId
<1>1. RecorderInv => RowUnderOwnId
  BY DEF RecorderInv
<1>2. QED
  BY <1>1, RecorderInvariant, PTL

(* However many tests share an id, in however many files: the row is at    *)
(* most as certifiable as each of them, in memory and for the reader.      *)
THEOREM SharedRowsNeverRoundUp == RecorderSpec => []NoLegRoundedUp
<1>1. RecorderInv => NoLegRoundedUp
  <2> SUFFICES ASSUME RecorderInv, NEW f \in Files, NEW n \in LegsOf(f), did[f][n].row # "none"
               PROVE  /\ HasRequirement(f, did[f][n].rowId)
                      /\ NoMoreCertifiable(ledger[f][did[f][n].rowId].disposition, did[f][n].row)
                      /\ faithful[f] =>
                           NoMoreCertifiable(ReadRow(sink, did[f][n].rowId).disposition,
                                             did[f][n].row)
    BY DEF NoLegRoundedUp
  <2>1. Held(f, did[f][n].rowId, did[f][n].row)
    BY DEF RecorderInv, RowsHeld
  <2>2. ReadNeverRoundsUp
    BY LedgerInvReads DEF RecorderInv
  <2>3. <<did[f][n].rowId, did[f][n].row>> \in said[f]
    BY <2>1 DEF Held
  <2>4. QED
    BY <2>1, <2>2, <2>3 DEF Held, ReadNeverRoundsUp
<1>2. QED
  BY <1>1, RecorderInvariant, PTL

(* recordItRequirement and afterAll: executed-pass is never written for a   *)
(* test that did not assert, nor for a file none of whose recorded tests    *)
(* asserted, or one of whose tests failed.                                  *)
THEOREM PassesAreWitnessed == RecorderSpec => []PassIsWitnessed
<1>1. RecorderInv /\ TraceInv => PassIsWitnessed
  <2> SUFFICES ASSUME TraceInv, NEW f \in Files
               PROVE  /\ \A n \in LegsOf(f) : did[f][n].row = "executed-pass" =>
                           did[f][n].asserted > 0 /\ tasks[f][n].state = "pass"
                      /\ (Closed(f) /\ ~SelfClassified(f) /\ FileRow(f).disposition = "executed-pass") =>
                           /\ \E n \in LegsOf(f) : Witnessing(f, n)
                           /\ \A n \in LegsOf(f) : tasks[f][n].state # "fail"
    BY DEF PassIsWitnessed, Witnessing
  <2>1. ASSUME NEW n \in LegsOf(f), did[f][n].row = "executed-pass"
        PROVE  did[f][n].asserted > 0 /\ tasks[f][n].state = "pass"
    BY <2>1 DEF TraceInv, RowsAccounted, Accounted
  <2>2. (Closed(f) /\ ~SelfClassified(f)) => Bears(f, FileRow(f).disposition)
    BY DEF TraceInv, FileRowsAccounted
  <2>3. QED
    BY <2>1, <2>2 DEF Bears, CERTIFIABLE
<1>2. QED
  BY <1>1, TraceInvariant, PTL

(* The marks beforeEach sets: a gate decision or a note speaks for the test *)
(* it was made in, whatever became of the tests before.                     *)
THEOREM ExcusesStayHome == RecorderSpec => []ExcusedByOwnReason
<1>1. RecorderInv /\ TraceInv => ExcusedByOwnReason
  BY DEF TraceInv, RowsAccounted, Accounted, ExcusedByOwnReason
<1>2. QED
  BY <1>1, TraceInvariant, PTL

(* resolveFileRecord's unclassified return: a file whose tests asserted     *)
(* nothing and gave no reason does not get a certifiable row, however few   *)
(* of its tests reached the recorder.                                       *)
THEOREM SilenceIsBlocked == RecorderSpec => []SilentFileBlocked
<1>1. RecorderInv /\ TraceInv => SilentFileBlocked
  <2> SUFFICES ASSUME RecorderInv, TraceInv, NEW f \in Files \ CoherenceFiles,
                      Closed(f), ~SelfClassified(f),
                      \A n \in LegsOf(f) :
                        /\ did[f][n].asserted = 0 /\ did[f][n].noted = {} /\ did[f][n].gated = {}
                        /\ did[f][n].row # "skipped"
               PROVE  FileRow(f).disposition \notin CERTIFIABLE
    BY DEF SilentFileBlocked
  <2>1. Bears(f, FileRow(f).disposition)
    BY DEF TraceInv, FileRowsAccounted
  <2>2. ReasonsOf(f) = {} /\ ~SkippedItself(f) /\ \A n \in LegsOf(f) : ~Witnessing(f, n)
    BY DEF ReasonsOf, SkippedItself, Witnessing
  <2>3. QED
    BY <2>1, <2>2 DEF Bears, CERTIFIABLE
<1>2. QED
  BY <1>1, TraceInvariant, PTL

(* afterAll's hasRequirement: the row a scenario recorded for itself is the *)
(* one that is left, and no hook adds a count or a file to it.              *)
THEOREM SelfRowsStand == RecorderSpec => []SelfClassificationStands
<1>1. RecorderInv /\ TraceInv => SelfClassificationStands
  BY DEF TraceInv, SelfRowHeld, SelfClassificationStands
<1>2. QED
  BY <1>1, TraceInvariant, PTL
(* The hooks and the bodies use the ledger only through recordRequirement: *)
(* with every call a file may make among Calls, the recorder is one of the *)
(* behaviours LedgerSpec allows, and all that is proved of it carries over.*)
THEOREM RecorderImplementsLedger ==
  ASSUME OwnCalls \subseteq Calls
  PROVE  RecorderSpec => LedgerSpec
<1>1. RecorderInit => LedgerInit
  BY DEF RecorderInit
<1>2. RecorderInv /\ [RecorderNext]_allVars => [LedgerNext]_vars
  <2> SUFFICES ASSUME RecorderInv, [RecorderNext]_allVars PROVE [LedgerNext]_vars
    OBVIOUS
  <2>1. CASE UNCHANGED allVars
    BY <2>1 DEF allVars
  <2>2. ASSUME NEW f \in Files, Body(f) \/ End(f) \/ Hooks(f) PROVE [LedgerNext]_vars
    <3>1. UNCHANGED vars \/ \E id : StepRecords(f, id)
      BY <2>2, LedgerSteps
         DEF RecorderInv, Body, End, Hooks, Teardown, Expect, Observe, Note, Cite, EndBody,
             BeforeAll, BeginLeg, HideLeg, SkipUnrecorded
    <3>2. ASSUME NEW c \in OwnCalls, TryRecord(c) PROVE [LedgerNext]_vars
      BY <3>2 DEF TryRecord, LedgerNext
    <3>3. QED
      BY <3>1, <3>2 DEF StepRecords
  <2>3. QED
    BY <2>1, <2>2 DEF RecorderNext
<1>3. QED
  BY <1>1, <1>2, RecorderInvariant, PTL DEF RecorderSpec, LedgerSpec
=============================================================================
