-------------------------- MODULE RequirementLedger --------------------------
(***************************************************************************)
(* The requirement execution ledger (requirement-ledger.ts).               *)
(*                                                                         *)
(* Every scenario file runs in a module graph of its own, so each file has *)
(* a private ledger and journal. All of them append to one JSONL sink,     *)
(* which a later process, the certifier, reads back and merges. The        *)
(* interleaving of the files is the order of the lines in the sink.        *)
(***************************************************************************)
EXTENDS Dispositions, Integers, Sequences, FiniteSetsExt

CONSTANTS
  Ids,            \* requirement ids
  Files,          \* scenario files; each is its own vitest worker
  NoFile,         \* a recording that names no scenario file ('' to the reader)
  FileOrder,      \* localeCompare on file names, as a rank; NoFile sorts first
  Details,        \* the reasons a recording can carry, besides NoDetail
  Absent,         \* no entry in the ledger
  Calls,          \* the recordings the callers can make
  AppendMayFail,  \* whether an append to the sink can fail (it is best-effort)
  LedgerTestFiles,\* files that exercise the ledger itself, on fixture rows
  MaxRecordings   \* bound on the recordings of one file

NoCount == -1     \* a recording with no assertionCount

Entry ==
  [id : Ids, disposition : Dispositions, detail : Details \cup {NoDetail},
   count : Nat \cup {NoCount}, file : Files \cup {NoFile}, evidence : BOOLEAN]

CallType ==
  [writer : Files, id : Ids, disposition : Dispositions,
   detail : Details \cup {NoDetail}, count : Nat \cup {NoCount},
   file : Files \cup {NoFile}, fold : BOOLEAN, evidence : BOOLEAN]

ASSUME ConstantsAssumption ==
  /\ NoFile \notin Files
  /\ NoDetail \notin Details
  /\ Absent \notin Entry
  /\ AppendMayFail \in BOOLEAN
  /\ MaxRecordings \in Nat
  /\ LedgerTestFiles \subseteq Files
  /\ FileOrder \in [Files \cup {NoFile} -> Nat]
  /\ \A f, g \in Files \cup {NoFile} : FileOrder[f] = FileOrder[g] => f = g

(* A file records for itself, or names no file at all. *)
ASSUME CallsAssumption ==
  /\ Calls \subseteq CallType
  /\ \A c \in Calls : c.file \in {c.writer, NoFile}

VARIABLES
  ledger,     \* ledger[f][id]: the entry file f holds for id, or Absent
  journal,    \* journal[f]: every recording of f, in call order
  sink,       \* the JSONL lines, in append order
  suspended,  \* suspended[f]: f runs the ledger's own tests, sink switched off
  \* History: what the callers said, for the properties only.
  said,       \* said[f]: the <<id, disposition>> pairs f has recorded
  asserted,   \* asserted[id]: assertions counted into id by folded recordings
  recordings, \* recordings[f]: how many recordings f has made
  faithful    \* faithful[f]: no line of f has gone missing from the sink

ledgerVars == <<ledger, journal, sink, suspended>>
historyVars == <<said, asserted, recordings, faithful>>
vars == <<ledgerVars, historyVars>>

-----------------------------------------------------------------------------
(* recordRequirement *)

HasRequirement(f, id) == ledger[f][id] # Absent

(* Variant: any later recording overwrites. *)
NeverContradicts(c) == FALSE

(* The two refusals: a contradiction nobody asked to fold, and anything    *)
(* other than a pass that does not say why.                                *)
Contradicts(c) ==
  /\ HasRequirement(c.writer, c.id)
  /\ ledger[c.writer][c.id].disposition # c.disposition
  /\ ~c.fold

Unexplained(c) == c.disposition # "executed-pass" /\ c.detail = NoDetail

NewEntry(c) ==
  [id |-> c.id, disposition |-> c.disposition, detail |-> c.detail,
   count |-> c.count, file |-> c.file,
   evidence |-> c.evidence /\ c.disposition = "executed-pass"]

Counted(n) == IF n = NoCount THEN 0 ELSE n

AddCounts(m, n) ==
  IF m = NoCount /\ n = NoCount THEN NoCount ELSE Counted(m) + Counted(n)

(* Variant: the leg that ends last decides. *)
LastLegWins(prior, entry) ==
  [entry EXCEPT !.count = AddCounts(prior.count, entry.count)]

(* The least certifiable leg wins and keeps its own detail; counts sum.    *)
FoldEntries(prior, entry) ==
  LET keepPrior == NoMoreCertifiable(prior.disposition, entry.disposition)
      winner    == IF keepPrior THEN prior ELSE entry
      loser     == IF keepPrior THEN entry ELSE prior
      kept      == IF winner.detail # NoDetail THEN winner.detail ELSE loser.detail
  IN  [id |-> prior.id, disposition |-> winner.disposition, detail |-> kept,
       count |-> AddCounts(prior.count, entry.count), file |-> winner.file,
       evidence |-> winner.evidence /\ winner.disposition = "executed-pass"]

EntryFor(c) ==
  IF HasRequirement(c.writer, c.id) /\ c.fold
  THEN FoldEntries(ledger[c.writer][c.id], NewEntry(c))
  ELSE NewEntry(c)

(* Variant: the line is written from the ledger before it is set. *)
AppendEarlierEntry(f, e) ==
  sink' = Append(sink, ledger[f][e.id]) /\ UNCHANGED faithful

(* A line reaches the sink unless the sink is switched off for this file   *)
(* or the append fails; the entry in memory stands either way.             *)
AppendToSink(f, e) ==
  \/ /\ ~suspended[f]
     /\ sink' = Append(sink, e)
     /\ UNCHANGED faithful
  \/ /\ suspended[f] \/ AppendMayFail
     /\ faithful' = [faithful EXCEPT ![f] = FALSE]
     /\ UNCHANGED sink

RecordRequirement(c) ==
  /\ recordings[c.writer] < MaxRecordings
  /\ ~Contradicts(c)
  /\ ~Unexplained(c)
  /\ LET e == EntryFor(c)
     IN  /\ ledger'  = [ledger EXCEPT ![c.writer][c.id] = e]
         /\ journal' = [journal EXCEPT ![c.writer] = Append(@, e)]
         /\ AppendToSink(c.writer, e)
  /\ said'     = [said EXCEPT ![c.writer] = @ \cup {<<c.id, c.disposition>>}]
  /\ asserted' = [asserted EXCEPT ![c.id] = @ + (IF c.fold THEN Counted(c.count) ELSE 0)]
  /\ recordings' = [recordings EXCEPT ![c.writer] = @ + 1]
  /\ UNCHANGED suspended

(* suspendSinkForFixtures, and the restore it returns. *)
SuspendSink(f) ==
  /\ f \in LedgerTestFiles
  /\ ~suspended[f]
  /\ suspended' = [suspended EXCEPT ![f] = TRUE]
  /\ UNCHANGED <<ledger, journal, sink, historyVars>>

RestoreSink(f) ==
  /\ suspended[f]
  /\ suspended' = [suspended EXCEPT ![f] = FALSE]
  /\ UNCHANGED <<ledger, journal, sink, historyVars>>

(* resetLedger: test support, called by files that hold the sink suspended. *)
ResetLedger(f) ==
  /\ suspended[f]
  /\ ledger'   = [ledger EXCEPT ![f] = [id \in Ids |-> Absent]]
  /\ journal'  = [journal EXCEPT ![f] = << >>]
  /\ said'     = [said EXCEPT ![f] = {}]
  /\ faithful' = [faithful EXCEPT ![f] = FALSE]
  /\ UNCHANGED <<sink, suspended, asserted, recordings>>

-----------------------------------------------------------------------------
(* readLedgerFile: the certifier's reading of a sequence of sink lines.    *)

LinesOf(lines, id) == {i \in DOMAIN lines : lines[i].id = id}
LinesIn(lines, id, file) == {i \in LinesOf(lines, id) : lines[i].file = file}
FilesOf(lines, id) == {lines[i].file : i \in LinesOf(lines, id)}

(* Variant: the first of the least certifiable lines. *)
EarliestLineBefore(lines, i, j) ==
  LET r == CERTIFIABILITY_RANK[lines[i].disposition]
      s == CERTIFIABILITY_RANK[lines[j].disposition]
  IN  r < s \/ (r = s /\ i <= j)

(* Pass 1, per (id, file): the last line among the least certifiable ones. *)
LineBefore(lines, i, j) ==
  LET r == CERTIFIABILITY_RANK[lines[i].disposition]
      s == CERTIFIABILITY_RANK[lines[j].disposition]
  IN  r < s \/ (r = s /\ i >= j)

RowOfFile(lines, id, file) ==
  LET own == LinesIn(lines, id, file)
  IN  lines[CHOOSE i \in own : \A j \in own : LineBefore(lines, i, j)]

(* Variants: the first file by name decides whatever it says; a tie goes   *)
(* to the file whose lines arrived first.                                  *)
FirstNameBefore(lines, id, f, g) == FileOrder[f] <= FileOrder[g]
FirstArrivalBefore(lines, id, f, g) ==
  LET r == CERTIFIABILITY_RANK[RowOfFile(lines, id, f).disposition]
      s == CERTIFIABILITY_RANK[RowOfFile(lines, id, g).disposition]
  IN  \/ r < s
      \/ r = s /\ \E i \in LinesIn(lines, id, f) : \A j \in LinesIn(lines, id, g) : i <= j

(* Pass 2, across files: the least certifiable file decides, ties go to    *)
(* the first file by name, and the counts of all files sum.                *)
FileBefore(lines, id, f, g) ==
  LET r == CERTIFIABILITY_RANK[RowOfFile(lines, id, f).disposition]
      s == CERTIFIABILITY_RANK[RowOfFile(lines, id, g).disposition]
  IN  r < s \/ (r = s /\ FileOrder[f] <= FileOrder[g])

DecidingFile(lines, id) ==
  CHOOSE f \in FilesOf(lines, id) :
    \A g \in FilesOf(lines, id) : FileBefore(lines, id, f, g)

(* Variant: the deciding file's own count. *)
DecidingCount(lines, id) == RowOfFile(lines, id, DecidingFile(lines, id)).count

SummedCount(lines, id) ==
  IF \A f \in FilesOf(lines, id) : RowOfFile(lines, id, f).count = NoCount
  THEN NoCount
  ELSE MapThenSumSet(LAMBDA f : Counted(RowOfFile(lines, id, f).count),
                     FilesOf(lines, id))

ReadRow(lines, id) ==
  [RowOfFile(lines, id, DecidingFile(lines, id)) EXCEPT !.count = SummedCount(lines, id)]

(* What the certifier reads: one row for every id that has a line.         *)
ReadLedgerFile(lines) ==
  [id \in {i \in Ids : LinesOf(lines, i) # {}} |-> ReadRow(lines, id)]

-----------------------------------------------------------------------------
LedgerInit ==
  /\ ledger    = [f \in Files |-> [id \in Ids |-> Absent]]
  /\ journal   = [f \in Files |-> << >>]
  /\ sink      = << >>
  /\ suspended = [f \in Files |-> FALSE]
  /\ said      = [f \in Files |-> {}]
  /\ asserted  = [id \in Ids |-> 0]
  /\ recordings = [f \in Files |-> 0]
  /\ faithful  = [f \in Files |-> TRUE]

LedgerNext ==
  \/ \E c \in Calls : RecordRequirement(c)
  \/ \E f \in Files : SuspendSink(f) \/ RestoreSink(f) \/ ResetLedger(f)

LedgerSpec == LedgerInit /\ [][LedgerNext]_vars

-----------------------------------------------------------------------------
LedgerTypeOK ==
  /\ ledger \in [Files -> [Ids -> Entry \cup {Absent}]]
  /\ journal \in [Files -> Seq(Entry)]
  /\ sink \in Seq(Entry)
  /\ suspended \in [Files -> BOOLEAN]
  /\ said \in [Files -> SUBSET (Ids \X Dispositions)]
  /\ asserted \in [Ids -> Nat]
  /\ recordings \in [Files -> Nat]
  /\ faithful \in [Files -> BOOLEAN]

(* "An unresolvable disagreement must never round toward certification":   *)
(* whatever the interleaving of the workers, the row the certifier reads   *)
(* for an id is at most as certifiable as everything any file recorded     *)
(* for it, overwritten and folded recordings included.                     *)
ReadNeverRoundsUp ==
  \A f \in Files : faithful[f] =>
    \A p \in said[f] :
      /\ LinesOf(sink, p[1]) # {}
      /\ NoMoreCertifiable(ReadRow(sink, p[1]).disposition, p[2])

(* recordRequirement's fold comment: the in-memory ledger and the file     *)
(* agree. What a worker holds for an id it attributes to its own file is   *)
(* exactly the row pass 1 of the reader extracts for that file.            *)
SinkAgreesWithMemory ==
  \A f \in Files, id \in Ids :
    (faithful[f] /\ HasRequirement(f, id)) =>
      (ledger[f][id].file = f =>
         LinesIn(sink, id, f) # {} /\ RowOfFile(sink, id, f) = ledger[f][id])

(* Ids that are recorded by folding legs only, each leg with its file and  *)
(* its count: the per-it rows.                                             *)
LegIds ==
  {id \in Ids : \A c \in Calls :
     c.id = id => c.fold /\ c.file = c.writer /\ c.count # NoCount}

(* The assertion count read for such an id is the sum over all the legs in *)
(* all the files: cumulative fold lines are not counted twice, and a       *)
(* second file's legs are not dropped.                                     *)
EveryAssertionCountedOnce ==
  (\A f \in Files : faithful[f]) =>
    \A id \in LegIds :
      LinesOf(sink, id) # {} => ReadRow(sink, id).count = asserted[id]

(* The orders in which the same lines could have been appended: those of   *)
(* one file stay as they are, those of several files fall as they may.     *)
Interleavings(lines) ==
  {order \in [DOMAIN lines -> DOMAIN lines] :
     /\ \A i \in DOMAIN lines : \E j \in DOMAIN lines : order[j] = i
     /\ \A i, j \in DOMAIN lines :
          i < j /\ lines[order[i]].file = lines[order[j]].file => order[i] < order[j]}

Reordered(lines, order) == [i \in DOMAIN lines |-> lines[order[i]]]

(* requirement-ledger.ts, pass 2: "so the row is the same on every run".   *)
(* How the workers' appends interleaved cannot be told from what the       *)
(* certifier reads.                                                        *)
InterleavingInvisible ==
  \A order \in Interleavings(sink) :
    ReadLedgerFile(Reordered(sink, order)) = ReadLedgerFile(sink)

(* A recorded requirement never becomes more certifiable in its worker and *)
(* is never forgotten, short of the test-support reset.                    *)
NeverMoreCertifiable ==
  [][\A f \in Files, id \in Ids :
       (HasRequirement(f, id) /\ ~suspended[f]) =>
         /\ ledger'[f][id] # Absent
         /\ NoMoreCertifiable(ledger'[f][id].disposition, ledger[f][id].disposition)]_vars
=============================================================================
