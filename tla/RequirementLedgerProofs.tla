----------------------- MODULE RequirementLedgerProofs -----------------------
(***************************************************************************)
(* Theorems about the requirement ledger, for any number of files, ids,    *)
(* recordings and lost lines.                                              *)
(***************************************************************************)
EXTENDS RequirementLedger, FiniteSetTheorems, WellFoundedInduction, TLAPS

-----------------------------------------------------------------------------
(* The rank of every disposition is a natural number below 5. *)
LEMMA RankType ==
  \A d \in Dispositions : CERTIFIABILITY_RANK[d] \in 0 .. 4
BY DEF Dispositions, CERTIFIABILITY_RANK

(* An entry in memory is filed under its own id, by its own file or by none. *)
Keyed ==
  \A f \in Files, id \in Ids :
    HasRequirement(f, id) =>
      ledger[f][id].id = id /\ ledger[f][id].file \in {f, NoFile}

(* What recordRequirement stores and appends: a well-formed entry for the  *)
(* id, no more certifiable than the recording, nor than what was there.    *)
LEMMA EntryForFacts ==
  ASSUME LedgerTypeOK, Keyed, NEW c \in CallType, c.file \in {c.writer, NoFile},
         ~Contradicts(c)
  PROVE  /\ EntryFor(c) \in Entry
         /\ EntryFor(c).id = c.id
         /\ EntryFor(c).file \in {c.writer, NoFile}
         /\ NoMoreCertifiable(EntryFor(c).disposition, c.disposition)
         /\ HasRequirement(c.writer, c.id) =>
              NoMoreCertifiable(EntryFor(c).disposition,
                                ledger[c.writer][c.id].disposition)
<1> DEFINE prior == ledger[c.writer][c.id]
<1>1. c \in CallType /\ c.file \in {c.writer, NoFile}
  OBVIOUS
<1>2. c.writer \in Files /\ c.id \in Ids /\ c.disposition \in Dispositions
  BY <1>1 DEF CallType
<1>3. /\ NewEntry(c) \in Entry
      /\ NewEntry(c).id = c.id
      /\ NewEntry(c).file = c.file
      /\ NewEntry(c).disposition = c.disposition
      /\ NewEntry(c).count = c.count
      /\ NewEntry(c).detail = c.detail
  BY <1>1 DEF NewEntry, CallType, Entry
<1>4. HasRequirement(c.writer, c.id) =>
        /\ prior \in Entry
        /\ prior.id = c.id
        /\ prior.file \in {c.writer, NoFile}
  BY <1>2 DEF LedgerTypeOK, Keyed, HasRequirement
<1>5. CASE HasRequirement(c.writer, c.id) /\ c.fold
  <2> DEFINE entry == NewEntry(c)
             keep == NoMoreCertifiable(prior.disposition, entry.disposition)
             winner == IF keep THEN prior ELSE entry
             loser == IF keep THEN entry ELSE prior
  <2>1. prior \in Entry /\ entry \in Entry
    BY <1>3, <1>4, <1>5
  <2>2. /\ winner \in Entry /\ loser \in Entry
        /\ winner.id = c.id
        /\ winner.file \in {c.writer, NoFile}
    BY <1>1, <1>3, <1>4, <1>5, <2>1
  <2>3. /\ NoMoreCertifiable(winner.disposition, c.disposition)
        /\ NoMoreCertifiable(winner.disposition, prior.disposition)
    <3>1. /\ CERTIFIABILITY_RANK[prior.disposition] \in Int
          /\ CERTIFIABILITY_RANK[entry.disposition] \in Int
      BY <2>1, RankType DEF Entry
    <3>2. QED
      BY <3>1, <1>3 DEF NoMoreCertifiable
  <2>4. AddCounts(prior.count, entry.count) \in Nat \cup {NoCount}
    BY <2>1 DEF AddCounts, Counted, Entry, NoCount
  <2>5. (IF winner.detail # NoDetail THEN winner.detail ELSE loser.detail)
          \in Details \cup {NoDetail}
    BY <2>2 DEF Entry
  <2>6. /\ EntryFor(c).id = prior.id
        /\ EntryFor(c).disposition = winner.disposition
        /\ EntryFor(c).file = winner.file
        /\ EntryFor(c) \in Entry
    <3>1. EntryFor(c) =
            [id |-> prior.id, disposition |-> winner.disposition,
             detail |-> IF winner.detail # NoDetail THEN winner.detail ELSE loser.detail,
             count |-> AddCounts(prior.count, entry.count), file |-> winner.file,
             evidence |-> winner.evidence /\ winner.disposition = "executed-pass"]
      BY <1>5 DEF EntryFor, FoldEntries
    <3> HIDE DEF winner, loser, entry, prior
    <3>2. QED
      BY <2>1, <2>2, <2>4, <2>5, <3>1 DEF Entry
  <2>7. QED
    BY <1>4, <1>5, <2>2, <2>3, <2>6
<1>6. CASE ~(HasRequirement(c.writer, c.id) /\ c.fold)
  <2>1. EntryFor(c) = NewEntry(c)
    BY <1>6 DEF EntryFor
  <2>2. NoMoreCertifiable(c.disposition, c.disposition)
    BY <1>2, RankType DEF NoMoreCertifiable
  <2>3. HasRequirement(c.writer, c.id) => prior.disposition = c.disposition
    BY <1>6 DEF Contradicts
  <2>4. QED
    BY <1>1, <1>3, <2>1, <2>2, <2>3
<1>7. QED
  BY <1>5, <1>6

-----------------------------------------------------------------------------
(***************************************************************************)
(* The reader. Both of its passes take the least of a non-empty set; that  *)
(* there is one follows by watching the sink grow line by line.            *)
(***************************************************************************)
BestLine(lines) ==
  \A id \in Ids, file \in Files \cup {NoFile} :
    LinesIn(lines, id, file) # {} =>
      \E i \in LinesIn(lines, id, file) :
        \A j \in LinesIn(lines, id, file) : LineBefore(lines, i, j)

BestFile(lines) ==
  \A id \in Ids :
    LinesOf(lines, id) # {} =>
      \E f \in FilesOf(lines, id) :
        \A g \in FilesOf(lines, id) : FileBefore(lines, id, f, g)

Rank(e) == CERTIFIABILITY_RANK[e.disposition]

LEMMA LineRank ==
  ASSUME NEW lines \in Seq(Entry)
  PROVE  \A i \in DOMAIN lines :
           /\ lines[i] \in Entry
           /\ CERTIFIABILITY_RANK[lines[i].disposition] \in 0 .. 4
<1>1. \A i \in DOMAIN lines : lines[i] \in Entry
  OBVIOUS
<1>2. \A e \in Entry : e.disposition \in Dispositions
  BY DEF Entry
<1>3. QED
  BY <1>1, <1>2, RankType

(* The row of a file is one of its lines, and none is less certifiable. *)
LEMMA RowOfFileFacts ==
  ASSUME NEW lines \in Seq(Entry), BestLine(lines),
         NEW id \in Ids, NEW file \in Files \cup {NoFile},
         LinesIn(lines, id, file) # {}
  PROVE  \E i \in LinesIn(lines, id, file) :
           /\ RowOfFile(lines, id, file) = lines[i]
           /\ \A j \in LinesIn(lines, id, file) : LineBefore(lines, i, j)
<1> DEFINE own == LinesIn(lines, id, file)
           best == CHOOSE i \in own : \A j \in own : LineBefore(lines, i, j)
<1>1. \E i \in own : \A j \in own : LineBefore(lines, i, j)
  BY DEF BestLine
<1>2. best \in own /\ \A j \in own : LineBefore(lines, best, j)
  <2> HIDE DEF own
  <2> QED BY <1>1
<1>3. RowOfFile(lines, id, file) = lines[best]
  BY DEF RowOfFile
<1>4. QED
  BY <1>2, <1>3

LEMMA RowRank ==
  ASSUME NEW lines \in Seq(Entry), BestLine(lines),
         NEW id \in Ids, NEW file \in Files \cup {NoFile},
         LinesIn(lines, id, file) # {}
  PROVE  /\ RowOfFile(lines, id, file) \in Entry
         /\ Rank(RowOfFile(lines, id, file)) \in 0 .. 4
         /\ \E i \in LinesIn(lines, id, file) :
              /\ RowOfFile(lines, id, file) = lines[i]
              /\ \A j \in LinesIn(lines, id, file) : Rank(lines[i]) <= Rank(lines[j])
<1>1. \A i \in LinesIn(lines, id, file) : lines[i] \in Entry /\ Rank(lines[i]) \in 0 .. 4
  BY LineRank DEF LinesIn, LinesOf, Rank
<1>2. PICK i \in LinesIn(lines, id, file) :
             /\ RowOfFile(lines, id, file) = lines[i]
             /\ \A j \in LinesIn(lines, id, file) : LineBefore(lines, i, j)
  BY RowOfFileFacts
<1>3. \A j \in LinesIn(lines, id, file) : Rank(lines[i]) <= Rank(lines[j])
  BY <1>1, <1>2 DEF LineBefore, Rank
<1>4. QED
  BY <1>1, <1>2, <1>3

LEMMA FilesOfFacts ==
  ASSUME NEW lines \in Seq(Entry), NEW id \in Ids
  PROVE  \A f \in FilesOf(lines, id) :
           /\ f \in Files \cup {NoFile}
           /\ LinesIn(lines, id, f) # {}
           /\ FileOrder[f] \in Nat
<1> SUFFICES ASSUME NEW f \in FilesOf(lines, id)
             PROVE  /\ f \in Files \cup {NoFile}
                    /\ LinesIn(lines, id, f) # {}
                    /\ FileOrder[f] \in Nat
  OBVIOUS
<1>1. PICK i \in LinesOf(lines, id) : f = lines[i].file
  BY DEF FilesOf
<1>2. lines[i] \in Entry
  BY LineRank DEF LinesOf
<1>3. f \in Files \cup {NoFile}
  BY <1>1, <1>2 DEF Entry
<1>4. i \in LinesIn(lines, id, f)
  BY <1>1 DEF LinesIn
<1>5. QED
  BY <1>3, <1>4, ConstantsAssumption

(* An appended line is seen by its own (id, file) and by no other. *)
LEMMA LinesAppend ==
  ASSUME NEW lines \in Seq(Entry), NEW e \in Entry, NEW id, NEW file
  PROVE  LET more == Append(lines, e)
             n    == Len(lines) + 1
         IN  /\ more \in Seq(Entry)
             /\ n \in Nat /\ more[n] = e
             /\ DOMAIN more = DOMAIN lines \cup {n}
             /\ n \notin DOMAIN lines
             /\ \A i \in DOMAIN lines : i \in Nat /\ i < n /\ more[i] = lines[i]
             /\ LinesIn(more, id, file) = LinesIn(lines, id, file)
                  \cup (IF e.id = id /\ e.file = file THEN {n} ELSE {})
             /\ LinesOf(more, id) = LinesOf(lines, id)
                  \cup (IF e.id = id THEN {n} ELSE {})
<1> DEFINE more == Append(lines, e)
           n == Len(lines) + 1
<1>1. /\ more \in Seq(Entry)
      /\ n \in Nat /\ more[n] = e
      /\ DOMAIN more = DOMAIN lines \cup {n}
      /\ n \notin DOMAIN lines
      /\ \A i \in DOMAIN lines : i \in Nat /\ i < n /\ more[i] = lines[i]
  OBVIOUS
<1> HIDE DEF more, n
<1>2. LinesOf(more, id) = LinesOf(lines, id) \cup (IF e.id = id THEN {n} ELSE {})
  BY <1>1 DEF LinesOf
<1>3. LinesIn(more, id, file) = LinesIn(lines, id, file)
        \cup (IF e.id = id /\ e.file = file THEN {n} ELSE {})
  BY <1>1, <1>2 DEF LinesIn, LinesOf
<1>4. QED
  BY <1>1, <1>2, <1>3 DEF more, n

LEMMA BestLineAppend ==
  ASSUME NEW lines \in Seq(Entry), NEW e \in Entry, BestLine(lines)
  PROVE  BestLine(Append(lines, e))
<1> DEFINE more == Append(lines, e)
           n == Len(lines) + 1
<1> SUFFICES ASSUME NEW id \in Ids, NEW file \in Files \cup {NoFile},
                    LinesIn(more, id, file) # {}
             PROVE  \E i \in LinesIn(more, id, file) :
                      \A j \in LinesIn(more, id, file) : LineBefore(more, i, j)
  BY DEF BestLine
<1>1. /\ n \in Nat /\ more[n] = e
      /\ \A i \in DOMAIN lines : i \in Nat /\ i < n /\ more[i] = lines[i]
      /\ LinesIn(more, id, file) = LinesIn(lines, id, file)
           \cup (IF e.id = id /\ e.file = file THEN {n} ELSE {})
  BY LinesAppend
<1>2. \A i \in LinesIn(lines, id, file) :
        /\ i \in DOMAIN lines
        /\ CERTIFIABILITY_RANK[lines[i].disposition] \in 0 .. 4
  BY LineRank DEF LinesIn, LinesOf
<1>3. CERTIFIABILITY_RANK[e.disposition] \in 0 .. 4
  BY RankType DEF Entry
<1> HIDE DEF more, n
<1>4. CASE LinesIn(lines, id, file) = {}
  <2>1. LinesIn(more, id, file) = {n}
    BY <1>1, <1>4
  <2>2. LineBefore(more, n, n)
    BY <1>1, <1>3 DEF LineBefore
  <2>3. QED BY <2>1, <2>2
<1>5. CASE LinesIn(lines, id, file) # {}
  <2>1. PICK b \in LinesIn(lines, id, file) :
               \A j \in LinesIn(lines, id, file) : LineBefore(lines, b, j)
    BY <1>5 DEF BestLine
  <2>2. \A j \in LinesIn(lines, id, file) : LineBefore(more, b, j)
    BY <1>1, <1>2, <2>1 DEF LineBefore
  <2>3. CASE ~(e.id = id /\ e.file = file)
    BY <1>1, <2>2, <2>3
  <2>4. CASE /\ e.id = id /\ e.file = file
             /\ CERTIFIABILITY_RANK[e.disposition] <= CERTIFIABILITY_RANK[lines[b].disposition]
    <3>1. \A j \in LinesIn(lines, id, file) : LineBefore(more, n, j)
      BY <1>1, <1>2, <1>3, <2>1, <2>4 DEF LineBefore
    <3>2. LineBefore(more, n, n)
      BY <1>1, <1>3 DEF LineBefore
    <3>3. LinesIn(more, id, file) = LinesIn(lines, id, file) \cup {n}
      BY <1>1, <2>4
    <3>4. QED BY <3>1, <3>2, <3>3
  <2>5. CASE /\ e.id = id /\ e.file = file
             /\ ~(CERTIFIABILITY_RANK[e.disposition] <= CERTIFIABILITY_RANK[lines[b].disposition])
    <3>1. LineBefore(more, b, n)
      BY <1>1, <1>2, <1>3, <2>1, <2>5 DEF LineBefore
    <3>2. QED BY <1>1, <2>1, <2>2, <2>5, <3>1
  <2>6. QED BY <2>3, <2>4, <2>5
<1>6. QED BY <1>4, <1>5

(* Appending e can only lower the rank of e's own row. *)
LEMMA RowAppend ==
  ASSUME NEW lines \in Seq(Entry), NEW e \in Entry, BestLine(lines),
         NEW id \in Ids, NEW file \in Files \cup {NoFile}
  PROVE  LET more == Append(lines, e)
             mine == e.id = id /\ e.file = file
         IN  /\ mine => /\ LinesIn(more, id, file) # {}
                        /\ Rank(RowOfFile(more, id, file)) <= Rank(e)
             /\ LinesIn(lines, id, file) # {} =>
                  Rank(RowOfFile(more, id, file)) <= Rank(RowOfFile(lines, id, file))
             /\ (LinesIn(lines, id, file) # {} /\ ~mine) =>
                  Rank(RowOfFile(more, id, file)) = Rank(RowOfFile(lines, id, file))
<1> DEFINE more == Append(lines, e)
           n == Len(lines) + 1
           mine == e.id = id /\ e.file = file
<1>1. /\ more \in Seq(Entry)
      /\ n \in Nat /\ more[n] = e
      /\ \A i \in DOMAIN lines : more[i] = lines[i]
      /\ LinesIn(more, id, file) = LinesIn(lines, id, file)
           \cup (IF mine THEN {n} ELSE {})
  BY LinesAppend
<1>2. BestLine(more)
  BY BestLineAppend
<1> HIDE DEF more, n, mine
<1>3. \A i \in LinesIn(lines, id, file) : more[i] = lines[i] /\ Rank(lines[i]) \in 0 .. 4
  BY <1>1, LineRank DEF LinesIn, LinesOf, Rank
<1>4. Rank(e) \in 0 .. 4
  BY RankType DEF Rank, Entry
<1>5. LinesIn(lines, id, file) # {} =>
        \E i \in LinesIn(lines, id, file) :
          /\ RowOfFile(lines, id, file) = lines[i]
          /\ \A j \in LinesIn(lines, id, file) : Rank(lines[i]) <= Rank(lines[j])
  BY RowRank
<1>6. LinesIn(more, id, file) # {} =>
        \E i \in LinesIn(more, id, file) :
          /\ RowOfFile(more, id, file) = more[i]
          /\ \A j \in LinesIn(more, id, file) : Rank(more[i]) <= Rank(more[j])
  BY <1>1, <1>2, RowRank
<1>7. mine => n \in LinesIn(more, id, file)
  BY <1>1
<1>8. mine => Rank(RowOfFile(more, id, file)) <= Rank(e)
  BY <1>1, <1>6, <1>7
<1>9. ASSUME LinesIn(lines, id, file) # {}
      PROVE  /\ Rank(RowOfFile(more, id, file)) <= Rank(RowOfFile(lines, id, file))
             /\ ~mine => Rank(RowOfFile(more, id, file)) = Rank(RowOfFile(lines, id, file))
  <2>1. PICK i \in LinesIn(lines, id, file) :
               /\ RowOfFile(lines, id, file) = lines[i]
               /\ \A j \in LinesIn(lines, id, file) : Rank(lines[i]) <= Rank(lines[j])
    BY <1>5, <1>9
  <2>2. i \in LinesIn(more, id, file)
    BY <1>1
  <2>3. PICK k \in LinesIn(more, id, file) :
               /\ RowOfFile(more, id, file) = more[k]
               /\ \A j \in LinesIn(more, id, file) : Rank(more[k]) <= Rank(more[j])
    BY <1>6, <2>2
  <2>4. Rank(more[k]) <= Rank(lines[i])
    BY <1>3, <2>2, <2>3
  <2>5. ~mine => k \in LinesIn(lines, id, file)
    BY <1>1
  <2>6. ~mine => Rank(lines[i]) <= Rank(more[k])
    BY <1>3, <2>1, <2>5
  <2>7. Rank(lines[i]) \in 0 .. 4 /\ (~mine => Rank(more[k]) \in 0 .. 4)
    BY <1>3, <2>5
  <2>8. QED
    BY <2>1, <2>3, <2>4, <2>6, <2>7
<1>10. QED
  BY <1>7, <1>8, <1>9 DEF more, mine

LEMMA BestFileAppend ==
  ASSUME NEW lines \in Seq(Entry), NEW e \in Entry, BestLine(lines), BestFile(lines)
  PROVE  BestFile(Append(lines, e))
<1> DEFINE more == Append(lines, e)
<1> SUFFICES ASSUME NEW id \in Ids, LinesOf(more, id) # {}
             PROVE  \E f \in FilesOf(more, id) :
                      \A g \in FilesOf(more, id) : FileBefore(more, id, f, g)
  BY DEF BestFile
<1> DEFINE h == e.file
           old(f) == Rank(RowOfFile(lines, id, f))
           new(f) == Rank(RowOfFile(more, id, f))
<1>1. /\ FilesOf(more, id) = FilesOf(lines, id) \cup (IF e.id = id THEN {h} ELSE {})
      /\ more \in Seq(Entry)
  <2> DEFINE n == Len(lines) + 1
  <2>1. /\ more \in Seq(Entry) /\ more[n] = e /\ n \notin DOMAIN lines
        /\ \A i \in DOMAIN lines : more[i] = lines[i]
        /\ LinesOf(more, id) = LinesOf(lines, id) \cup (IF e.id = id THEN {n} ELSE {})
    BY LinesAppend
  <2> HIDE DEF more, n
  <2>2. \A i \in LinesOf(lines, id) : more[i] = lines[i]
    BY <2>1 DEF LinesOf
  <2>3. QED BY <2>1, <2>2 DEF FilesOf
<1>2. \A f \in FilesOf(lines, id) :
        /\ f \in Files \cup {NoFile} /\ LinesIn(lines, id, f) # {}
        /\ FileOrder[f] \in Nat
  BY FilesOfFacts
<1>3. \A f \in FilesOf(more, id) :
        /\ f \in Files \cup {NoFile} /\ LinesIn(more, id, f) # {}
        /\ FileOrder[f] \in Nat
  BY <1>1, FilesOfFacts
<1>4. /\ \A f \in FilesOf(lines, id) : old(f) \in 0 .. 4
      /\ \A f \in FilesOf(more, id) : new(f) \in 0 .. 4
  <2>1. BestLine(more)
    BY BestLineAppend
  <2>2. QED
    BY <1>1, <1>2, <1>3, <2>1, RowRank
<1>5. \A f \in FilesOf(lines, id) :
        /\ new(f) <= old(f)
        /\ ~(e.id = id /\ f = h) => new(f) = old(f)
  BY <1>2, RowAppend
<1>6. \A f, g : FileBefore(more, id, f, g) <=>
                \/ new(f) < new(g)
                \/ new(f) = new(g) /\ FileOrder[f] <= FileOrder[g]
  BY DEF FileBefore, Rank
<1>7. \A f, g : FileBefore(lines, id, f, g) <=>
                \/ old(f) < old(g)
                \/ old(f) = old(g) /\ FileOrder[f] <= FileOrder[g]
  BY DEF FileBefore, Rank
<1> HIDE DEF more, old, new, h
<1>8. CASE FilesOf(lines, id) = {}
  <2>1. FilesOf(more, id) = {h}
    BY <1>1, <1>8 DEF FilesOf
  <2>2. QED BY <1>3, <1>4, <1>6, <2>1
<1>9. CASE FilesOf(lines, id) # {}
  <2>1. PICK b \in FilesOf(lines, id) :
               \A g \in FilesOf(lines, id) : FileBefore(lines, id, b, g)
    BY <1>9 DEF BestFile, FilesOf
  <2>2. CASE e.id # id
    BY <1>1, <1>5, <1>6, <1>7, <2>1, <2>2
  <2>3. CASE e.id = id /\ (b = h \/ FileBefore(more, id, b, h))
    <3>1. FileBefore(more, id, b, b)
      BY <1>1, <1>3, <1>4, <1>6, <2>1
    <3>2. FileBefore(more, id, b, h)
      BY <2>3, <3>1
    <3>3. \A g \in FilesOf(lines, id) : g # h => FileBefore(more, id, b, g)
      BY <1>1, <1>2, <1>4, <1>5, <1>6, <1>7, <2>1
    <3>4. \A g \in FilesOf(more, id) : FileBefore(more, id, b, g)
      BY <1>1, <3>2, <3>3
    <3>5. QED BY <1>1, <2>1, <3>4
  <2>4. CASE e.id = id /\ b # h /\ ~FileBefore(more, id, b, h)
    <3>1. h \in FilesOf(more, id) /\ b \in FilesOf(more, id)
      BY <1>1, <2>1, <2>4
    <3>2. FileBefore(more, id, h, b) /\ FileBefore(more, id, h, h)
      BY <1>3, <1>4, <1>6, <2>4, <3>1
    <3>3. \A g \in FilesOf(lines, id) : g # h => FileBefore(more, id, h, g)
      BY <1>1, <1>2, <1>3, <1>4, <1>5, <1>6, <1>7, <2>1, <2>4, <3>1, <3>2
    <3>4. \A g \in FilesOf(more, id) : FileBefore(more, id, h, g)
      BY <1>1, <3>2, <3>3
    <3>5. QED BY <3>1, <3>4
  <2>5. QED BY <2>2, <2>3, <2>4
<1>10. QED BY <1>8, <1>9

LEMMA ReadRank ==
  ASSUME NEW lines \in Seq(Entry), BestLine(lines), BestFile(lines),
         NEW id \in Ids, LinesOf(lines, id) # {}
  PROVE  Rank(ReadRow(lines, id)) \in 0 .. 4
<1>1. DecidingFile(lines, id) \in FilesOf(lines, id)
  BY DEF DecidingFile, BestFile
<1>2. /\ RowOfFile(lines, id, DecidingFile(lines, id)) \in Entry
      /\ Rank(RowOfFile(lines, id, DecidingFile(lines, id))) \in 0 .. 4
  BY <1>1, FilesOfFacts, RowRank
<1>3. QED
  BY <1>2 DEF ReadRow, Rank, Entry

(* The row read for an id is at most as certifiable as any of its lines. *)
LEMMA ReadMinimal ==
  ASSUME NEW lines \in Seq(Entry), BestLine(lines), BestFile(lines),
         NEW id \in Ids, NEW i \in LinesOf(lines, id)
  PROVE  Rank(ReadRow(lines, id)) <= Rank(lines[i])
<1> DEFINE d == DecidingFile(lines, id)
           f == lines[i].file
<1>1. f \in FilesOf(lines, id) /\ i \in LinesIn(lines, id, f)
  BY DEF FilesOf, LinesIn
<1>2. d \in FilesOf(lines, id) /\ FileBefore(lines, id, d, f)
  BY <1>1 DEF DecidingFile, BestFile
<1>3. /\ d \in Files \cup {NoFile} /\ LinesIn(lines, id, d) # {}
      /\ f \in Files \cup {NoFile} /\ LinesIn(lines, id, f) # {}
  BY <1>1, <1>2, FilesOfFacts
<1>4. /\ RowOfFile(lines, id, d) \in Entry
      /\ Rank(RowOfFile(lines, id, d)) \in 0 .. 4
  BY <1>3, RowRank
<1>5. Rank(RowOfFile(lines, id, f)) <= Rank(lines[i])
  BY <1>1, <1>3, RowRank
<1>6. /\ Rank(RowOfFile(lines, id, f)) \in 0 .. 4
      /\ Rank(lines[i]) \in 0 .. 4
  BY <1>3, RowRank, LineRank DEF LinesOf, Rank
<1>7. Rank(ReadRow(lines, id)) = Rank(RowOfFile(lines, id, d))
  BY <1>4 DEF ReadRow, Rank, Entry
<1>8. Rank(RowOfFile(lines, id, d)) <= Rank(RowOfFile(lines, id, f))
  BY <1>2, <1>4, <1>6 DEF FileBefore, Rank
<1>9. QED
  BY <1>4, <1>5, <1>6, <1>7, <1>8

(* The row of a file stays put when the appended line is not the file's own, *)
(* and is the appended line when nothing of the file ranks below it.         *)
LEMMA RowAfterAppend ==
  ASSUME NEW lines \in Seq(Entry), NEW e \in Entry, BestLine(lines),
         NEW id \in Ids, NEW file \in Files \cup {NoFile}
  PROVE  LET more == Append(lines, e)
             mine == e.id = id /\ e.file = file
         IN  /\ (~mine /\ LinesIn(lines, id, file) # {}) =>
                   RowOfFile(more, id, file) = RowOfFile(lines, id, file)
             /\ (mine /\ \A j \in LinesIn(lines, id, file) : Rank(e) <= Rank(lines[j])) =>
                   RowOfFile(more, id, file) = e
<1> DEFINE more == Append(lines, e)
           n == Len(lines) + 1
           mine == e.id = id /\ e.file = file
<1>1. /\ more \in Seq(Entry)
      /\ n \in Nat /\ more[n] = e
      /\ \A i \in DOMAIN lines : i \in Nat /\ i < n /\ more[i] = lines[i]
      /\ LinesIn(more, id, file) = LinesIn(lines, id, file)
           \cup (IF mine THEN {n} ELSE {})
  BY LinesAppend
<1>2. BestLine(more)
  BY BestLineAppend
<1>3. Rank(e) \in 0 .. 4
  BY RankType DEF Rank, Entry
<1> HIDE DEF more, n, mine
<1>4. \A i \in LinesIn(lines, id, file) :
        /\ i \in Nat /\ i < n /\ more[i] = lines[i] /\ Rank(lines[i]) \in 0 .. 4
  BY <1>1, LineRank DEF LinesIn, LinesOf, Rank
<1>5. ASSUME ~mine, LinesIn(lines, id, file) # {}
      PROVE  RowOfFile(more, id, file) = RowOfFile(lines, id, file)
  <2>1. PICK i \in LinesIn(lines, id, file) :
               /\ RowOfFile(lines, id, file) = lines[i]
               /\ \A j \in LinesIn(lines, id, file) : LineBefore(lines, i, j)
    BY <1>5, RowOfFileFacts
  <2>2. LinesIn(more, id, file) = LinesIn(lines, id, file)
    BY <1>1, <1>5
  <2>3. PICK k \in LinesIn(lines, id, file) :
               /\ RowOfFile(more, id, file) = more[k]
               /\ \A j \in LinesIn(lines, id, file) : LineBefore(more, k, j)
    BY <1>1, <1>2, <1>5, <2>2, RowOfFileFacts
  <2>4. i = k
    BY <1>4, <2>1, <2>3 DEF LineBefore, Rank
  <2>5. QED
    BY <1>4, <2>1, <2>3, <2>4
<1>6. ASSUME mine, \A j \in LinesIn(lines, id, file) : Rank(e) <= Rank(lines[j])
      PROVE  RowOfFile(more, id, file) = e
  <2>1. LinesIn(more, id, file) = LinesIn(lines, id, file) \cup {n}
    BY <1>1, <1>6
  <2>2. PICK k \in LinesIn(more, id, file) :
               /\ RowOfFile(more, id, file) = more[k]
               /\ \A j \in LinesIn(more, id, file) : LineBefore(more, k, j)
    BY <1>1, <1>2, <2>1, RowOfFileFacts
  <2>3. LineBefore(more, k, n)
    BY <2>1, <2>2
  <2>4. ASSUME k # n PROVE FALSE
    <3>1. k \in LinesIn(lines, id, file) /\ k < n /\ k \in Nat /\ n \in Nat
      BY <1>1, <1>4, <2>1, <2>4
    <3>2. Rank(more[n]) <= Rank(more[k])
      BY <1>1, <1>4, <1>6, <3>1
    <3>3. Rank(more[n]) \in Nat /\ Rank(more[k]) \in Nat
      BY <1>1, <1>3, <1>4, <3>1
    <3>4. Rank(more[k]) < Rank(more[n]) \/ k >= n
      BY <2>3 DEF LineBefore, Rank
    <3>5. QED
      BY <3>1, <3>2, <3>3, <3>4
  <2>5. QED
    BY <1>1, <2>2, <2>4
<1>7. QED
  BY <1>5, <1>6 DEF more, mine

-----------------------------------------------------------------------------
(***************************************************************************)
(* The inductive invariant. The properties of the reader speak of CHOSEN   *)
(* lines; what is inductive is that enough lines are there (SaidCovered),  *)
(* that memory never outranks the file's own lines (MemoryBelow, which     *)
(* makes the next own line the last of the least certifiable ones), and    *)
(* that the reader's choices exist.                                        *)
(***************************************************************************)
SaidCovered ==
  \A f \in Files : faithful[f] =>
    \A p \in said[f] :
      \E i \in LinesOf(sink, p[1]) : Rank(sink[i]) <= CERTIFIABILITY_RANK[p[2]]

MemoryBelow ==
  \A f \in Files, id \in Ids : faithful[f] =>
    \A i \in LinesIn(sink, id, f) :
      HasRequirement(f, id) /\ Rank(ledger[f][id]) <= Rank(sink[i])

LedgerInv ==
  /\ LedgerTypeOK
  /\ Keyed
  /\ SaidCovered
  /\ MemoryBelow
  /\ SinkAgreesWithMemory
  /\ BestLine(sink)
  /\ BestFile(sink)

LEMMA LedgerInvInit == LedgerInit => LedgerInv
<1> SUFFICES ASSUME LedgerInit PROVE LedgerInv
  OBVIOUS
<1>1. \A id, file : LinesOf(sink, id) = {} /\ LinesIn(sink, id, file) = {}
  BY DEF LedgerInit, LinesOf, LinesIn
<1>2. LedgerTypeOK
  BY DEF LedgerInit, LedgerTypeOK
<1>3. Keyed /\ SaidCovered /\ MemoryBelow /\ SinkAgreesWithMemory
  BY <1>1 DEF LedgerInit, Keyed, SaidCovered, MemoryBelow, SinkAgreesWithMemory,
              HasRequirement
<1>4. BestLine(sink) /\ BestFile(sink)
  BY <1>1 DEF BestLine, BestFile
<1>5. QED
  BY <1>2, <1>3, <1>4 DEF LedgerInv

(* The step that matters: one recording, whether its line lands or not.    *)
LEMMA RecordKeepsInv ==
  ASSUME LedgerInv, NEW c \in CallType, c.file \in {c.writer, NoFile},
         RecordRequirement(c)
  PROVE  LedgerInv'
<1> DEFINE w == c.writer
           e == EntryFor(c)
<1> USE DEF LedgerInv
<1>1. /\ c \in CallType /\ w \in Files /\ w # NoFile /\ c.id \in Ids
      /\ c.disposition \in Dispositions
      /\ Counted(c.count) \in Nat
  BY ConstantsAssumption DEF CallType, Counted, NoCount
<1>2. /\ e \in Entry /\ e.id = c.id /\ e.file \in {w, NoFile}
      /\ Rank(e) <= CERTIFIABILITY_RANK[c.disposition]
      /\ HasRequirement(w, c.id) => Rank(e) <= Rank(ledger[w][c.id])
      /\ e # Absent
  BY EntryForFacts, ConstantsAssumption
     DEF RecordRequirement, NoMoreCertifiable, Rank
<1>3. /\ ledger' = [ledger EXCEPT ![w][c.id] = e]
      /\ journal' = [journal EXCEPT ![w] = Append(@, e)]
      /\ AppendToSink(w, e)
      /\ said' = [said EXCEPT ![w] = @ \cup {<<c.id, c.disposition>>}]
      /\ asserted' = [asserted EXCEPT ![c.id] = @ + (IF c.fold THEN Counted(c.count) ELSE 0)]
      /\ recordings' = [recordings EXCEPT ![w] = @ + 1]
      /\ suspended' = suspended
  BY DEF RecordRequirement
<1> HIDE DEF e, w
<1>4. \A f \in Files, id \in Ids :
        ledger'[f][id] = IF f = w /\ id = c.id THEN e ELSE ledger[f][id]
  BY <1>1, <1>3 DEF LedgerTypeOK
<1>5. \/ /\ sink' = Append(sink, e) /\ faithful' = faithful
      \/ /\ sink' = sink /\ faithful' = [faithful EXCEPT ![w] = FALSE]
  BY <1>3 DEF AppendToSink
<1>6. sink \in Seq(Entry) /\ BestLine(sink) /\ faithful \in [Files -> BOOLEAN]
  BY DEF LedgerTypeOK
<1>7. LedgerTypeOK'
  <2>1. ledger' \in [Files -> [Ids -> Entry \cup {Absent}]]
    BY <1>1, <1>2, <1>3 DEF LedgerTypeOK
  <2>2. journal' \in [Files -> Seq(Entry)]
    BY <1>1, <1>2, <1>3 DEF LedgerTypeOK
  <2>3. sink' \in Seq(Entry) /\ faithful' \in [Files -> BOOLEAN]
    <3>1. Append(sink, e) \in Seq(Entry)
      BY <1>6, <1>2
    <3>2. [faithful EXCEPT ![w] = FALSE] \in [Files -> BOOLEAN]
      BY <1>6
    <3>3. QED BY <1>6, <1>5, <3>1, <3>2
  <2>4. said' \in [Files -> SUBSET (Ids \X Dispositions)]
    BY <1>1, <1>3 DEF LedgerTypeOK
  <2>5. asserted' \in [Ids -> Nat] /\ recordings' \in [Files -> Nat]
    BY <1>1, <1>3 DEF LedgerTypeOK
  <2>6. QED
    BY <1>3, <2>1, <2>2, <2>3, <2>4, <2>5 DEF LedgerTypeOK
<1>8. Keyed'
  BY <1>2, <1>4 DEF Keyed, HasRequirement
<1>9. BestLine(sink') /\ BestFile(sink')
  BY <1>6, <1>2, <1>5, BestLineAppend, BestFileAppend
<1>10. \A f \in Files : faithful'[f] =>
        /\ faithful[f]
        /\ f = w => sink' = Append(sink, e)
        /\ \/ sink' = sink
           \/ sink' = Append(sink, e)
  BY <1>6, <1>1, <1>5
<1>11. ASSUME sink' = Append(sink, e)
       PROVE  /\ sink'[Len(sink) + 1] = e
              /\ \A i \in DOMAIN sink : i \in DOMAIN sink' /\ sink'[i] = sink[i]
              /\ \A id, f : LinesIn(sink', id, f) = LinesIn(sink, id, f)
                   \cup (IF e.id = id /\ e.file = f THEN {Len(sink) + 1} ELSE {})
              /\ \A id : LinesOf(sink', id) = LinesOf(sink, id)
                   \cup (IF e.id = id THEN {Len(sink) + 1} ELSE {})
  BY <1>6, <1>2, <1>11, LinesAppend
<1>12. SaidCovered'
  <2> SUFFICES ASSUME NEW f \in Files, faithful'[f], NEW p \in said'[f]
               PROVE  \E i \in LinesOf(sink', p[1]) :
                        Rank(sink'[i]) <= CERTIFIABILITY_RANK[p[2]]
    BY DEF SaidCovered
  <2>1. CASE p \in said[f]
    <3>1. PICK i \in LinesOf(sink, p[1]) : Rank(sink[i]) <= CERTIFIABILITY_RANK[p[2]]
      BY <1>10, <2>1 DEF SaidCovered
    <3>2. i \in LinesOf(sink', p[1]) /\ sink'[i] = sink[i]
      BY <1>10, <1>11, <3>1 DEF LinesOf
    <3>3. QED BY <3>1, <3>2
  <2>2. CASE p \notin said[f]
    <3>1. f = w /\ p = <<c.id, c.disposition>>
      BY <1>1, <1>3, <2>2 DEF LedgerTypeOK
    <3>2. sink' = Append(sink, e)
      BY <1>10, <3>1
    <3>3. Len(sink) + 1 \in LinesOf(sink', c.id) /\ sink'[Len(sink) + 1] = e
      BY <1>2, <1>11, <3>2
    <3>4. QED BY <1>2, <3>1, <3>3
  <2>3. QED BY <2>1, <2>2
<1>13. \A f \in Files, id \in Ids : faithful'[f] =>
         \/ LinesIn(sink', id, f) = LinesIn(sink, id, f)
         \/ /\ f = w /\ id = c.id /\ e.file = w
            /\ LinesIn(sink', id, f) = LinesIn(sink, id, f) \cup {Len(sink) + 1}
            /\ sink'[Len(sink) + 1] = e
  <2> SUFFICES ASSUME NEW f \in Files, NEW id \in Ids, faithful'[f], sink' # sink
               PROVE  \/ LinesIn(sink', id, f) = LinesIn(sink, id, f)
                      \/ /\ f = w /\ id = c.id /\ e.file = w
                         /\ LinesIn(sink', id, f) = LinesIn(sink, id, f) \cup {Len(sink) + 1}
                         /\ sink'[Len(sink) + 1] = e
    OBVIOUS
  <2>1. /\ sink'[Len(sink) + 1] = e
        /\ LinesIn(sink', id, f) = LinesIn(sink, id, f)
             \cup (IF e.id = id /\ e.file = f THEN {Len(sink) + 1} ELSE {})
    BY <1>10, <1>11
  <2>2. CASE e.id = id /\ e.file = f
    BY <1>2, <2>1, <2>2, ConstantsAssumption
  <2>3. CASE ~(e.id = id /\ e.file = f)
    BY <2>1, <2>3
  <2>4. QED BY <2>2, <2>3
<1>14. \A f \in Files, id \in Ids : faithful'[f] =>
         \A i \in LinesIn(sink, id, f) : sink'[i] = sink[i] /\ Rank(sink[i]) \in 0 .. 4
  BY <1>6, <1>10, <1>11, LineRank DEF LinesIn, LinesOf, Rank
<1>15. Rank(e) \in 0 .. 4
  BY <1>2, RankType DEF Rank, Entry
<1>16. MemoryBelow'
  <2> SUFFICES ASSUME NEW f \in Files, NEW id \in Ids, faithful'[f],
                      NEW i \in LinesIn(sink', id, f)
               PROVE  ledger'[f][id] # Absent /\ Rank(ledger'[f][id]) <= Rank(sink'[i])
    BY DEF MemoryBelow, HasRequirement, Rank
  <2>1. CASE i \in LinesIn(sink, id, f)
    <3>1. ledger[f][id] # Absent /\ Rank(ledger[f][id]) <= Rank(sink[i])
      BY <1>10, <2>1 DEF MemoryBelow, HasRequirement
    <3>2. CASE f = w /\ id = c.id
      <4>1. ledger'[f][id] = e /\ Rank(e) <= Rank(ledger[f][id])
        BY <1>2, <1>4, <3>1, <3>2 DEF HasRequirement
      <4>2. Rank(ledger[f][id]) \in 0 .. 4
        BY <3>1, RankType DEF LedgerTypeOK, Entry, Rank
      <4>3. QED
        BY <1>2, <1>14, <1>15, <2>1, <3>1, <4>1, <4>2
    <3>3. CASE ~(f = w /\ id = c.id)
      BY <1>4, <1>14, <2>1, <3>1, <3>3
    <3>4. QED BY <3>2, <3>3
  <2>2. CASE i \notin LinesIn(sink, id, f)
    <3>1. f = w /\ id = c.id /\ sink'[i] = e
      BY <1>13, <2>2
    <3>2. QED BY <1>2, <1>4, <1>15, <3>1
  <2>3. QED BY <2>1, <2>2
<1>17. SinkAgreesWithMemory'
  <2> SUFFICES ASSUME NEW f \in Files, NEW id \in Ids, faithful'[f],
                      ledger'[f][id] # Absent, ledger'[f][id].file = f
               PROVE  LinesIn(sink', id, f) # {} /\ RowOfFile(sink', id, f) = ledger'[f][id]
    BY DEF SinkAgreesWithMemory, HasRequirement
  <2>1. CASE f = w /\ id = c.id
    <3>1. ledger'[f][id] = e /\ e.file = f /\ e.id = id /\ sink' = Append(sink, e)
      BY <1>2, <1>4, <1>10, <2>1
    <3>2. Len(sink) + 1 \in LinesIn(sink', id, f)
      BY <1>11, <3>1
    <3>3. \A j \in LinesIn(sink, id, f) : Rank(e) <= Rank(sink[j])
      <4>1. HasRequirement(w, c.id) => Rank(e) <= Rank(ledger[w][c.id])
        BY <1>2
      <4>2. \A j \in LinesIn(sink, id, f) :
              HasRequirement(f, id) /\ Rank(ledger[f][id]) <= Rank(sink[j])
        BY <1>10 DEF MemoryBelow
      <4>3. HasRequirement(f, id) => Rank(ledger[f][id]) \in 0 .. 4
        BY RankType DEF LedgerTypeOK, Entry, Rank, HasRequirement
      <4>4. QED
        BY <1>14, <1>15, <2>1, <4>1, <4>2, <4>3
    <3>4. RowOfFile(sink', id, f) = e
      BY <1>2, <3>1, <3>3, RowAfterAppend DEF LedgerTypeOK
    <3>5. QED BY <3>1, <3>2, <3>4
  <2>2. CASE ~(f = w /\ id = c.id)
    <3>1. /\ ledger'[f][id] = ledger[f][id]
          /\ LinesIn(sink, id, f) # {} /\ RowOfFile(sink, id, f) = ledger[f][id]
      BY <1>4, <1>10, <2>2 DEF SinkAgreesWithMemory, HasRequirement
    <3>2. LinesIn(sink', id, f) = LinesIn(sink, id, f)
      BY <1>13, <2>2
    <3>3. ~(e.id = id /\ e.file = f)
      BY <1>2, <2>2, ConstantsAssumption
    <3>4. RowOfFile(sink', id, f) = RowOfFile(sink, id, f)
      <4>1. RowOfFile(Append(sink, e), id, f) = RowOfFile(sink, id, f)
        BY <1>6, <1>2, <3>1, <3>3, RowAfterAppend
      <4>2. QED
        BY <1>10, <4>1
    <3>5. QED BY <3>1, <3>2, <3>4
  <2>3. QED BY <2>1, <2>2
<1>18. QED
  BY <1>7, <1>8, <1>9, <1>12, <1>16, <1>17

LEMMA LedgerInvStep == LedgerInv /\ [LedgerNext]_vars => LedgerInv'
<1> SUFFICES ASSUME LedgerInv, [LedgerNext]_vars PROVE LedgerInv'
  OBVIOUS
<1>1. ASSUME NEW c \in Calls, RecordRequirement(c) PROVE LedgerInv'
  BY <1>1, RecordKeepsInv, CallsAssumption
<1>2. ASSUME NEW f \in Files, SuspendSink(f) \/ RestoreSink(f) PROVE LedgerInv'
  <2>1. /\ UNCHANGED <<ledger, journal, sink, said, asserted, recordings, faithful>>
        /\ suspended \in [Files -> BOOLEAN] => suspended' \in [Files -> BOOLEAN]
    BY <1>2 DEF SuspendSink, RestoreSink, historyVars
  <2>2. LedgerTypeOK'
    BY <2>1 DEF LedgerInv, LedgerTypeOK
  <2>3. Keyed' /\ SaidCovered' /\ MemoryBelow' /\ SinkAgreesWithMemory'
    BY <2>1 DEF LedgerInv, Keyed, SaidCovered, MemoryBelow, SinkAgreesWithMemory,
                HasRequirement
  <2>4. BestLine(sink)' /\ BestFile(sink)'
    BY <2>1 DEF LedgerInv
  <2>5. QED
    BY <2>2, <2>3, <2>4 DEF LedgerInv
<1>3. ASSUME NEW f \in Files, ResetLedger(f) PROVE LedgerInv'
  <2>1. /\ sink' = sink /\ faithful' = [faithful EXCEPT ![f] = FALSE]
        /\ \A g \in Files : g # f => said'[g] = said[g] /\ ledger'[g] = ledger[g]
        /\ \A id \in Ids : ledger'[f][id] = Absent
    BY <1>3 DEF ResetLedger, LedgerInv, LedgerTypeOK
  <2>2. LedgerTypeOK'
    BY <1>3 DEF ResetLedger, LedgerInv, LedgerTypeOK
  <2>3. \A g \in Files : faithful'[g] => faithful[g] /\ g # f
    BY <2>1 DEF LedgerInv, LedgerTypeOK
  <2>4. Keyed'
    BY <2>1 DEF LedgerInv, Keyed, HasRequirement
  <2>5. SaidCovered' /\ MemoryBelow' /\ SinkAgreesWithMemory'
    BY <2>1, <2>3 DEF LedgerInv, SaidCovered, MemoryBelow, SinkAgreesWithMemory, HasRequirement
  <2>6. QED
    BY <2>1, <2>2, <2>4, <2>5 DEF LedgerInv
<1>4. CASE UNCHANGED vars
  BY <1>4 DEF vars, ledgerVars, historyVars, LedgerInv, LedgerTypeOK, Keyed,
     SaidCovered, MemoryBelow, SinkAgreesWithMemory, HasRequirement
<1>5. QED
  BY <1>1, <1>2, <1>3, <1>4 DEF LedgerNext

LEMMA LedgerInvariant == LedgerSpec => []LedgerInv
BY LedgerInvInit, LedgerInvStep, PTL DEF LedgerSpec

-----------------------------------------------------------------------------
(* Ledger, journals and sink only ever hold well-formed entries: what      *)
(* recordRequirement folds is again an entry.                              *)
THEOREM LedgerTypeCorrect == LedgerSpec => []LedgerTypeOK
<1>1. LedgerInv => LedgerTypeOK
  BY DEF LedgerInv
<1>2. QED
  BY <1>1, LedgerInvariant, PTL

(* Where the lines are covered, the reader's choice is no more certifiable *)
(* than any of them.                                                       *)
LEMMA LedgerInvReads == LedgerInv => ReadNeverRoundsUp
<1> SUFFICES ASSUME LedgerInv, NEW f \in Files, faithful[f], NEW p \in said[f]
             PROVE  /\ LinesOf(sink, p[1]) # {}
                    /\ NoMoreCertifiable(ReadRow(sink, p[1]).disposition, p[2])
  BY DEF ReadNeverRoundsUp
<1>1. p[1] \in Ids /\ p[2] \in Dispositions
  BY DEF LedgerInv, LedgerTypeOK
<1>2. PICK i \in LinesOf(sink, p[1]) : Rank(sink[i]) <= CERTIFIABILITY_RANK[p[2]]
  BY DEF LedgerInv, SaidCovered
<1>3. Rank(ReadRow(sink, p[1])) <= Rank(sink[i])
  BY <1>1, ReadMinimal DEF LedgerInv, LedgerTypeOK
<1>4. /\ Rank(sink[i]) \in 0 .. 4 /\ CERTIFIABILITY_RANK[p[2]] \in 0 .. 4
      /\ Rank(ReadRow(sink, p[1])) \in 0 .. 4
  BY <1>1, ReadRank, RankType, LineRank DEF LinesOf, LedgerInv, LedgerTypeOK, Rank
<1>5. QED
  BY <1>2, <1>3, <1>4 DEF NoMoreCertifiable, Rank

(* For any files and ids and however their appends interleave or get lost, *)
(* the row the certifier reads is at most as certifiable as anything a     *)
(* file with all its lines in the sink recorded for that id.               *)
THEOREM ReaderNeverRoundsUp == LedgerSpec => []ReadNeverRoundsUp
BY LedgerInvReads, LedgerInvariant, PTL

(* What a worker remembers for a row of its own is what the reader's first *)
(* pass extracts for that file.                                            *)
THEOREM SinkMirrorsMemory == LedgerSpec => []SinkAgreesWithMemory
<1>1. LedgerInv => SinkAgreesWithMemory
  BY DEF LedgerInv
<1>2. QED
  BY <1>1, LedgerInvariant, PTL

(* In its worker a requirement only ever loses certifiability.             *)
THEOREM LedgerNeverRoundsUp == LedgerSpec => NeverMoreCertifiable
<1> DEFINE A == \A f \in Files, id \in Ids :
                  (HasRequirement(f, id) /\ ~suspended[f]) =>
                    /\ ledger'[f][id] # Absent
                    /\ NoMoreCertifiable(ledger'[f][id].disposition,
                                         ledger[f][id].disposition)
<1>1. ASSUME LedgerInv, LedgerNext PROVE A
  <2> SUFFICES ASSUME NEW f \in Files, NEW id \in Ids, HasRequirement(f, id), ~suspended[f]
               PROVE  /\ ledger'[f][id] # Absent
                      /\ NoMoreCertifiable(ledger'[f][id].disposition,
                                           ledger[f][id].disposition)
    OBVIOUS
  <2>1. NoMoreCertifiable(ledger[f][id].disposition, ledger[f][id].disposition)
    <3>1. ledger[f][id] \in Entry
      BY <1>1 DEF LedgerInv, LedgerTypeOK, HasRequirement
    <3>2. CERTIFIABILITY_RANK[ledger[f][id].disposition] \in 0 .. 4
      BY <3>1, RankType DEF Entry
    <3>3. QED
      BY <3>2 DEF NoMoreCertifiable
  <2>2. CASE ledger'[f][id] = ledger[f][id]
    BY <2>1, <2>2 DEF HasRequirement
  <2>3. ASSUME NEW c \in Calls, RecordRequirement(c), ledger'[f][id] # ledger[f][id]
        PROVE  /\ ledger'[f][id] = EntryFor(c) /\ EntryFor(c) # Absent
               /\ NoMoreCertifiable(EntryFor(c).disposition, ledger[f][id].disposition)
    <3>1. c.writer \in Files /\ c.id \in Ids
      BY CallsAssumption DEF CallType
    <3>2. ledger' = [ledger EXCEPT ![c.writer][c.id] = EntryFor(c)] /\ ~Contradicts(c)
      BY <2>3 DEF RecordRequirement
    <3>3. f = c.writer /\ id = c.id /\ ledger'[f][id] = EntryFor(c)
      BY <1>1, <2>3, <3>1, <3>2 DEF LedgerInv, LedgerTypeOK
    <3>4. QED
      BY <1>1, <3>2, <3>3, EntryForFacts, CallsAssumption, ConstantsAssumption
         DEF LedgerInv
  <2>4. ASSUME NEW g \in Files, SuspendSink(g) \/ RestoreSink(g) \/ ResetLedger(g)
        PROVE  ledger'[f][id] = ledger[f][id]
    BY <1>1, <2>4 DEF SuspendSink, RestoreSink, ResetLedger, LedgerInv, LedgerTypeOK
  <2>5. QED
    BY <1>1, <2>2, <2>3, <2>4 DEF LedgerNext
<1>2. LedgerInv /\ [LedgerNext]_vars => [A]_vars
  BY <1>1
<1>3. QED
  BY <1>2, LedgerInvariant, PTL DEF LedgerSpec, NeverMoreCertifiable

-----------------------------------------------------------------------------
(* Sums over finite sets, as the community module folds them: one element  *)
(* after another, in the order of a choice.                                *)
PickOf(s) == CHOOSE x \in s : TRUE
SumStep(w, s, g) == IF s = {} THEN 0 ELSE w[PickOf(s)] + g[s \ {PickOf(s)}]
Sums(w, S) == CHOOSE g : g = [s \in SUBSET S |-> SumStep(w, s, g)]
SumOver(w, S) == Sums(w, S)[S]

(* The element counted first is one of the set. *)
LEMMA PickFacts == \A s : s # {} => PickOf(s) \in s
BY DEF PickOf

(* The least natural number of a set. *)
LEMMA LeastNat ==
  ASSUME NEW T, T \subseteq Nat, T # {}
  PROVE  \E n \in T : \A m \in T : n <= m
<1> DEFINE less == OpToRel(<, Nat)
<1>1. IsWellFoundedOn(less, Nat)
  BY NatLessThanWellFounded
<1>2. \A x, y \in Nat : y < x => <<y, x>> \in less
  BY DEF OpToRel
<1> HIDE DEF less
<1>3. PICK x \in T : \A y \in T : ~ (<<y, x>> \in less)
  BY <1>1, WFMin, Zenon
<1>4. \A m \in T : x <= m
  <2>1. ASSUME NEW m \in T PROVE x <= m
    <3>1. x \in Nat /\ m \in Nat /\ ~ (m < x)
      BY <1>2, <1>3
    <3>2. QED
      BY <3>1
  <2>2. QED
    BY <2>1
<1>5. QED
  BY <1>3, <1>4

(* The subsets of a finite set with at most n elements. *)
Small(S, n) == {s \in SUBSET S : Cardinality(s) <= n}

(* Taking one element out leaves a subset one smaller. *)
LEMMA SmallFacts ==
  ASSUME NEW S, IsFiniteSet(S)
  PROVE  /\ \A s \in SUBSET S : Cardinality(s) \in Nat /\ (Cardinality(s) = 0 <=> s = {})
         /\ \A s \in SUBSET S : \A x \in s :
              s \ {x} \in SUBSET S /\ Cardinality(s \ {x}) = Cardinality(s) - 1
<1>1. \A s \in SUBSET S : IsFiniteSet(s)
  BY FS_Subset
<1>2. QED
  BY <1>1, FS_CardinalityType, FS_EmptySet, FS_RemoveElement

(* Sums exist for subsets up to any size: the least size that had none has *)
(* one, made from the size below it.                                       *)
LEMMA SumsUpTo ==
  ASSUME NEW S, IsFiniteSet(S), NEW w, \A x \in S : w[x] \in Nat, NEW n \in Nat
  PROVE  \E g \in [Small(S, n) -> Nat] : \A s \in Small(S, n) : g[s] = SumStep(w, s, g)
<1> DEFINE Up(k, g) == \A s \in Small(S, k) : g[s] = SumStep(w, s, g)
           bad == {k \in Nat : ~ \E g \in [Small(S, k) -> Nat] : Up(k, g)}
<1>1. 0 \notin bad
  <2> DEFINE z == [s \in Small(S, 0) |-> 0]
  <2>1. z \in [Small(S, 0) -> Nat]
    OBVIOUS
  <2>2. \A s \in Small(S, 0) : s = {}
    <3>1. \A s \in Small(S, 0) : s \in SUBSET S /\ Cardinality(s) <= 0 /\ Cardinality(s) \in Nat
      BY SmallFacts DEF Small
    <3>2. QED
      BY <3>1, SmallFacts
  <2>3. Up(0, z)
    BY <2>2 DEF SumStep
  <2>4. QED
    BY <2>1, <2>3
<1>2. ASSUME NEW k \in Nat, k # 0, k - 1 \notin bad PROVE k \notin bad
  <2>1. k - 1 \in Nat
    BY <1>2
  <2>2. PICK g \in [Small(S, k - 1) -> Nat] : Up(k - 1, g)
    BY <1>2, <2>1
  <2> DEFINE h == [s \in Small(S, k) |-> SumStep(w, s, g)]
  <2>3. \A s \in Small(S, k) : s # {} =>
           /\ PickOf(s) \in s /\ PickOf(s) \in S
           /\ s \ {PickOf(s)} \in Small(S, k - 1)
    <3>1. ASSUME NEW s \in Small(S, k), s # {}
          PROVE  /\ PickOf(s) \in s /\ PickOf(s) \in S
                 /\ s \ {PickOf(s)} \in Small(S, k - 1)
      <4>1. s \in SUBSET S /\ Cardinality(s) <= k /\ PickOf(s) \in s
        BY <3>1, PickFacts DEF Small
      <4>2. /\ s \ {PickOf(s)} \in SUBSET S
            /\ Cardinality(s \ {PickOf(s)}) = Cardinality(s) - 1 /\ Cardinality(s) \in Nat
        BY <4>1, SmallFacts
      <4>3. Cardinality(s \ {PickOf(s)}) <= k - 1
        BY <4>1, <4>2
      <4>4. QED
        BY <4>1, <4>2, <4>3 DEF Small
    <3>2. QED
      BY <3>1
  <2>4. \A s \in Small(S, k - 1) : s \in Small(S, k)
    <3>1. ASSUME NEW s \in Small(S, k - 1) PROVE s \in Small(S, k)
      <4>1. s \in SUBSET S /\ Cardinality(s) <= k - 1 /\ Cardinality(s) \in Nat
        BY SmallFacts DEF Small
      <4>2. Cardinality(s) <= k
        BY <4>1
      <4>3. QED
        BY <4>1, <4>2 DEF Small
    <3>2. QED
      BY <3>1
  <2>5. \A s \in Small(S, k) : SumStep(w, s, g) \in Nat
    BY <2>3 DEF SumStep
  <2>6. h \in [Small(S, k) -> Nat]
    BY <2>5
  <2>7. \A s \in Small(S, k - 1) : h[s] = g[s]
    BY <2>2, <2>4
  <2>8. \A s \in Small(S, k) : h[s] = SumStep(w, s, h)
    <3>1. ASSUME NEW s \in Small(S, k) PROVE SumStep(w, s, g) = SumStep(w, s, h)
      <4>1. CASE s = {}
        BY <4>1 DEF SumStep
      <4>2. CASE s # {}
        <5>1. h[s \ {PickOf(s)}] = g[s \ {PickOf(s)}]
          BY <2>3, <2>7, <4>2
        <5> HIDE DEF h
        <5>2. QED
          BY <5>1, <4>2 DEF SumStep
      <4>3. QED
        BY <4>1, <4>2
    <3>2. QED
      BY <3>1
  <2> HIDE DEF h
  <2>9. QED
    BY <2>6, <2>8
<1> HIDE DEF bad
<1>3. bad = {}
  <2>1. SUFFICES ASSUME bad # {} PROVE FALSE
    OBVIOUS
  <2>2. bad \subseteq Nat
    BY DEF bad
  <2>3. PICK k \in bad : \A m \in bad : k <= m
    BY <2>1, <2>2, LeastNat
  <2>4. k \in Nat /\ k # 0 /\ k - 1 \in Nat
    BY <2>2, <2>3, <1>1
  <2>5. ~ (k <= k - 1)
    BY <2>4
  <2>6. k - 1 \notin bad
    BY <2>3, <2>5
  <2>7. QED
    BY <1>2, <2>3, <2>4, <2>6
<1>4. QED
  BY <1>3 DEF bad

(* A predicate on finite sets that is inherited from the sets one element  *)
(* smaller has no least exception; here: two sums that go by the same      *)
(* weights on R agree on the subsets of R.                                 *)
LEMMA SumsAgree ==
  ASSUME NEW R, IsFiniteSet(R), NEW w, NEW v, \A x \in R : w[x] = v[x],
         NEW g, \A s \in SUBSET R : g[s] = SumStep(w, s, g),
         NEW h, \A s \in SUBSET R : h[s] = SumStep(v, s, h)
  PROVE  \A s \in SUBSET R : g[s] = h[s]
<1> DEFINE odd == {s \in SUBSET R : g[s] # h[s]}
           sizes == {Cardinality(s) : s \in odd}
<1>1. SUFFICES ASSUME odd # {} PROVE FALSE
  OBVIOUS
<1>2. sizes \subseteq Nat /\ sizes # {}
  BY <1>1, SmallFacts
<1>3. PICK n \in sizes : \A m \in sizes : n <= m
  <2> HIDE DEF sizes
  <2>1. QED
    BY <1>2, LeastNat
<1>4. PICK s \in odd : Cardinality(s) = n
  BY <1>3
<1>5. s # {}
  BY <1>4 DEF SumStep
<1> DEFINE x == PickOf(s)
           rest == s \ {x}
<1>6. x \in s /\ rest \in SUBSET R /\ Cardinality(rest) = Cardinality(s) - 1 /\ Cardinality(s) \in Nat
  BY <1>4, <1>5, PickFacts, SmallFacts
<1>7. rest \notin odd
  <2>1. Cardinality(rest) = n - 1 /\ n \in Nat
    BY <1>4, <1>6
  <2>2. ~ (n <= n - 1)
    BY <2>1
  <2>3. n - 1 \notin sizes
    BY <1>3, <2>2
  <2>4. QED
    BY <2>1, <2>3
<1>8. g[rest] = h[rest] /\ w[x] = v[x] /\ s \in SUBSET R
  BY <1>4, <1>6, <1>7
<1>9. g[s] = w[x] + g[rest] /\ h[s] = v[x] + h[rest]
  BY <1>5, <1>8 DEF SumStep
<1>10. QED
  BY <1>4, <1>8, <1>9

(* The sums exist, and keep to the recursion. *)
LEMMA SumsFacts ==
  ASSUME NEW S, IsFiniteSet(S), NEW w, \A x \in S : w[x] \in Nat
  PROVE  /\ Sums(w, S) \in [SUBSET S -> Nat]
         /\ \A s \in SUBSET S : Sums(w, S)[s] = SumStep(w, s, Sums(w, S))
<1>1. Cardinality(S) \in Nat /\ Small(S, Cardinality(S)) = SUBSET S
  <2>1. \A s \in SUBSET S : Cardinality(s) <= Cardinality(S)
    BY FS_Subset
  <2>2. QED
    BY <2>1, FS_CardinalityType DEF Small
<1>2. \E g \in [SUBSET S -> Nat] : \A s \in SUBSET S : g[s] = SumStep(w, s, g)
  <2>1. \A n \in Nat :
           \E g \in [Small(S, n) -> Nat] : \A s \in Small(S, n) : g[s] = SumStep(w, s, g)
    BY SumsUpTo
  <2>2. PICK n \in Nat : Small(S, n) = SUBSET S
    BY <1>1
  <2>3. \E g \in [Small(S, n) -> Nat] : \A s \in Small(S, n) : g[s] = SumStep(w, s, g)
    BY <2>1
  <2>4. QED
    BY <2>2, <2>3, Zenon
<1>3. PICK g \in [SUBSET S -> Nat] : \A s \in SUBSET S : g[s] = SumStep(w, s, g)
  BY <1>2
<1>4. g = [s \in SUBSET S |-> SumStep(w, s, g)]
  BY <1>3
<1> DEFINE G == Sums(w, S)
<1>5. G = [s \in SUBSET S |-> SumStep(w, s, G)]
  BY <1>4 DEF Sums
<1> HIDE DEF G
<1>6. \A s \in SUBSET S : G[s] = SumStep(w, s, G)
  BY <1>5
<1>7. \A s \in SUBSET S : G[s] = g[s]
  <2>1. \A x \in S : w[x] = w[x]
    OBVIOUS
  <2>2. QED
    BY <1>3, <1>6, <2>1, SumsAgree
<1>8. DOMAIN G = SUBSET S /\ G = [s \in SUBSET S |-> G[s]]
  BY <1>5
<1>9. G \in [SUBSET S -> Nat]
  BY <1>3, <1>7, <1>8
<1>10. QED
  BY <1>6, <1>9 DEF G

(* Which element is counted first makes no difference. *)
LEMMA SumsOfEach ==
  ASSUME NEW S, IsFiniteSet(S), NEW w, \A x \in S : w[x] \in Nat
  PROVE  \A s \in SUBSET S : \A y \in s : Sums(w, S)[s] = w[y] + Sums(w, S)[s \ {y}]
<1> DEFINE G == Sums(w, S)
           odd == {s \in SUBSET S : \E y \in s : G[s] # w[y] + G[s \ {y}]}
           sizes == {Cardinality(s) : s \in odd}
<1>1. SUFFICES ASSUME odd # {} PROVE FALSE
  OBVIOUS
<1>0. /\ G \in [SUBSET S -> Nat]
      /\ \A s \in SUBSET S : s # {} => G[s] = w[PickOf(s)] + G[s \ {PickOf(s)}]
  BY SumsFacts DEF SumStep
<1> HIDE DEF G
<1>2. sizes \subseteq Nat /\ sizes # {}
  BY <1>1, SmallFacts
<1>3. PICK n \in sizes : \A m \in sizes : n <= m
  <2> HIDE DEF sizes
  <2>1. QED
    BY <1>2, LeastNat
<1>4. PICK s \in odd : Cardinality(s) = n
  BY <1>3
<1>5. PICK y \in s : G[s] # w[y] + G[s \ {y}]
  BY <1>4
<1> DEFINE x == PickOf(s)
<1>6. s \in SUBSET S /\ x \in s /\ y \in s /\ s \ {x} \in SUBSET S /\ s \ {y} \in SUBSET S
  BY <1>4, <1>5, PickFacts
<1>7. G[s] = w[x] + G[s \ {x}] /\ x # y
  BY <1>0, <1>5, <1>6
<1>8. s \ {x} \notin odd /\ s \ {y} \notin odd
  <2>1. /\ Cardinality(s \ {x}) = n - 1 /\ Cardinality(s \ {y}) = n - 1 /\ n \in Nat
    BY <1>4, <1>6, SmallFacts
  <2>2. n - 1 \notin sizes
    <3>1. ~ (n <= n - 1)
      BY <2>1
    <3>2. QED
      BY <1>3, <3>1
  <2>3. QED
    BY <2>1, <2>2
<1>9. /\ G[s \ {x}] = w[y] + G[(s \ {x}) \ {y}]
      /\ G[s \ {y}] = w[x] + G[(s \ {y}) \ {x}]
  BY <1>6, <1>7, <1>8
<1>10. (s \ {x}) \ {y} = (s \ {y}) \ {x} /\ (s \ {x}) \ {y} \in SUBSET S
  BY <1>6
<1>11. w[x] \in Nat /\ w[y] \in Nat /\ G[(s \ {x}) \ {y}] \in Nat
  <2>1. w[x] \in Nat /\ w[y] \in Nat
    BY <1>6
  <2>2. G[(s \ {x}) \ {y}] \in Nat
    BY <1>0, <1>10
  <2>3. QED
    BY <2>1, <2>2
<1> DEFINE r == (s \ {x}) \ {y}
           a == w[x]
           b == w[y]
<1>12. G[s] = a + (b + G[r]) /\ G[s \ {y}] = a + G[r]
  BY <1>7, <1>9, <1>10
<1>13. a \in Nat /\ b \in Nat /\ G[r] \in Nat
  BY <1>11
<1> HIDE DEF a, b, r
<1>14. a + (b + G[r]) = b + (a + G[r])
  BY <1>13
<1>15. G[s] = b + G[s \ {y}]
  BY <1>12, <1>14
<1>16. QED
  BY <1>5, <1>15 DEF b

(* The sum of a finite set: zero of nothing, one weight more with one      *)
(* element more, and nothing but the weights of the set.                   *)
LEMMA SumOverFacts ==
  ASSUME NEW S, IsFiniteSet(S), NEW w, \A x \in S : w[x] \in Nat
  PROVE  /\ SumOver(w, S) \in Nat
         /\ S = {} => SumOver(w, S) = 0
         /\ \A y \in S : SumOver(w, S) = w[y] + SumOver(w, S \ {y})
<1>1. SumOver(w, S) \in Nat /\ (S = {} => SumOver(w, S) = 0)
  BY SumsFacts, ZenonT(40) DEF SumOver, SumStep
<1>2. ASSUME NEW y \in S PROVE SumOver(w, S) = w[y] + SumOver(w, S \ {y})
  <2> DEFINE T == S \ {y}
             G == Sums(w, S)
             H == Sums(w, T)
  <2>1. IsFiniteSet(T) /\ \A x \in T : w[x] \in Nat
    BY FS_Subset
  <2>2. /\ \A s \in SUBSET T : H[s] = SumStep(w, s, H)
        /\ \A s \in SUBSET S : G[s] = SumStep(w, s, G)
    BY <2>1, SumsFacts
  <2>3. \A s \in SUBSET T : G[s] = H[s]
    <3>1. \A s \in SUBSET T : G[s] = SumStep(w, s, G)
      BY <2>2
    <3>2. \A x \in T : w[x] = w[x]
      OBVIOUS
    <3> HIDE DEF G, H, T
    <3>3. QED
      BY <2>1, <2>2, <3>1, <3>2, SumsAgree
  <2>4. G[S] = w[y] + G[T]
    BY SumsOfEach
  <2>5. QED
    BY <2>3, <2>4 DEF SumOver
<1>3. QED
  BY <1>1, <1>2

(* Weights that agree have the same sum. *)
LEMMA SameSums ==
  ASSUME NEW S, IsFiniteSet(S), NEW w, NEW v,
         \A x \in S : w[x] \in Nat /\ v[x] = w[x]
  PROVE  SumOver(v, S) = SumOver(w, S)
<1>1. \A x \in S : v[x] \in Nat /\ w[x] \in Nat /\ w[x] = v[x]
  OBVIOUS
<1>2. /\ \A s \in SUBSET S : Sums(w, S)[s] = SumStep(w, s, Sums(w, S))
      /\ \A s \in SUBSET S : Sums(v, S)[s] = SumStep(v, s, Sums(v, S))
  BY <1>1, SumsFacts
<1> DEFINE G == Sums(w, S)
           H == Sums(v, S)
<1>3. \A s \in SUBSET S : G[s] = H[s]
  <2>1. /\ \A s \in SUBSET S : G[s] = SumStep(w, s, G)
        /\ \A s \in SUBSET S : H[s] = SumStep(v, s, H)
    BY <1>2
  <2> HIDE DEF G, H
  <2>2. QED
    BY <1>1, <2>1, SumsAgree
<1>4. QED
  BY <1>3 DEF SumOver

(* More on one element makes the sum that much more. *)
LEMMA SumGrows ==
  ASSUME NEW S, IsFiniteSet(S), NEW w, NEW v, NEW y \in S, NEW n \in Nat,
         \A x \in S : w[x] \in Nat,
         v[y] = w[y] + n, \A x \in S \ {y} : v[x] = w[x]
  PROVE  SumOver(v, S) = SumOver(w, S) + n
<1> DEFINE T == S \ {y}
<1>1. IsFiniteSet(T) /\ \A x \in T : w[x] \in Nat /\ v[x] = w[x]
  BY FS_Subset
<1>2. \A x \in S : v[x] \in Nat
  <2>1. v[y] \in Nat
    OBVIOUS
  <2>2. QED
    BY <1>1, <2>1
<1>3. SumOver(w, S) = w[y] + SumOver(w, T) /\ SumOver(v, S) = v[y] + SumOver(v, T)
  BY <1>2, SumOverFacts
<1>4. SumOver(v, T) = SumOver(w, T) /\ SumOver(w, T) \in Nat
  <2> HIDE DEF T
  <2>1. QED
    BY <1>1, SameSums, SumOverFacts
<1>5. w[y] \in Nat
  OBVIOUS
<1> HIDE DEF T
<1>6. QED
  BY <1>3, <1>4, <1>5

(* A sum is positive when, and only when, a weight is. *)
LEMMA SumPositive ==
  ASSUME NEW S, IsFiniteSet(S), NEW w, \A x \in S : w[x] \in Nat
  PROVE  SumOver(w, S) > 0 <=> \E x \in S : w[x] > 0
<1>1. ASSUME NEW x \in S, w[x] > 0 PROVE SumOver(w, S) > 0
  <2> DEFINE T == S \ {x}
  <2>1. SumOver(w, S) = w[x] + SumOver(w, T)
    BY SumOverFacts
  <2>2. IsFiniteSet(T) /\ \A y \in T : w[y] \in Nat
    BY FS_Subset
  <2> HIDE DEF T
  <2>3. SumOver(w, T) \in Nat
    BY <2>2, SumOverFacts
  <2>4. w[x] \in Nat
    OBVIOUS
  <2>5. QED
    BY <1>1, <2>1, <2>3, <2>4
<1>2. ASSUME \A x \in S : w[x] = 0 PROVE SumOver(w, S) = 0
  <2> DEFINE z == [s \in SUBSET S |-> 0]
             G == Sums(w, S)
  <2>1. \A s \in SUBSET S : z[s] = SumStep(w, s, z)
    BY <1>2, PickFacts DEF SumStep
  <2>2. \A s \in SUBSET S : G[s] = SumStep(w, s, G)
    BY SumsFacts
  <2>3. \A s \in SUBSET S : G[s] = z[s]
    <3>1. \A x \in S : w[x] = w[x]
      OBVIOUS
    <3> HIDE DEF z, G
    <3>2. QED
      BY <2>1, <2>2, <3>1, SumsAgree
  <2>4. QED
    BY <2>3 DEF SumOver
<1>3. (\A x \in S : ~ (w[x] > 0)) => \A x \in S : w[x] = 0
  OBVIOUS
<1>4. QED
  BY <1>1, <1>2, <1>3

(* The community module's sum of the files' counts is this sum. *)
LEMMA SummedIsSum ==
  ASSUME NEW lines, NEW id, IsFiniteSet(FilesOf(lines, id)),
         \A f \in FilesOf(lines, id) : Counted(RowOfFile(lines, id, f).count) \in Nat
  PROVE  MapThenSumSet(LAMBDA f : Counted(RowOfFile(lines, id, f).count), FilesOf(lines, id)) =
         SumOver([f \in FilesOf(lines, id) |-> Counted(RowOfFile(lines, id, f).count)], FilesOf(lines, id))
<1> DEFINE S == FilesOf(lines, id)
           w == [f \in S |-> Counted(RowOfFile(lines, id, f).count)]
           A(g) == [s \in SUBSET S |->
                      IF s = {} THEN 0
                      ELSE Counted(RowOfFile(lines, id, CHOOSE x \in s : TRUE).count)
                           + g[s \ {CHOOSE x \in s : TRUE}]]
           G == CHOOSE g : g = A(g)
           H == Sums(w, S)
<1>1. MapThenSumSet(LAMBDA f : Counted(RowOfFile(lines, id, f).count), S) = G[S]
  BY Zenon DEF MapThenSumSet, MapThenFoldSet
<1>2. /\ H \in [SUBSET S -> Nat]
      /\ \A s \in SUBSET S : H[s] = SumStep(w, s, H)
  BY SumsFacts
<1>3. \A g : \A s \in SUBSET S : SumStep(w, s, g) = A(g)[s]
  <2>1. ASSUME NEW g, NEW s \in SUBSET S PROVE SumStep(w, s, g) = A(g)[s]
    <3>1. CASE s = {}
      BY <3>1 DEF SumStep
    <3>2. CASE s # {}
      <4>1. PickOf(s) \in S
        BY <3>2, PickFacts
      <4>2. w[PickOf(s)] = Counted(RowOfFile(lines, id, PickOf(s)).count)
        BY <4>1
      <4>3. QED
        BY <3>2, <4>2 DEF SumStep, PickOf
    <3>3. QED
      BY <3>1, <3>2
  <2>2. QED
    BY <2>1
<1>4. H = A(H)
  <2>1. \A s \in SUBSET S : H[s] = A(H)[s]
    BY <1>2, <1>3
  <2> DEFINE B == A(H)
  <2>2. B = [s \in SUBSET S |-> B[s]]
    OBVIOUS
  <2>3. H = [s \in SUBSET S |-> H[s]] /\ \A s \in SUBSET S : H[s] = B[s]
    BY <1>2, <2>1
  <2> HIDE DEF A, B, H
  <2>4. H = B
    BY <2>2, <2>3
  <2>5. QED
    BY <2>4 DEF B
<1>5. G = A(G)
  BY <1>4
<1>6. \A s \in SUBSET S : G[s] = SumStep(w, s, G)
  <2>1. \A s \in SUBSET S : G[s] = A(G)[s]
    <3> HIDE DEF G, A
    <3>1. QED
      BY <1>5
  <2> HIDE DEF G, A, w, S
  <2>2. QED
    BY <1>3, <2>1, Zenon
<1>7. G[S] = H[S]
  <2>1. \A x \in S : w[x] = w[x]
    OBVIOUS
  <2>2. IsFiniteSet(S) /\ \A s \in SUBSET S : H[s] = SumStep(w, s, H)
    BY <1>2
  <2> HIDE DEF G, H, w, S
  <2>3. \A s \in SUBSET S : G[s] = H[s]
    BY <1>6, <2>1, <2>2, SumsAgree
  <2>4. QED
    BY <2>3
<1>8. QED
  BY <1>1, <1>7 DEF SumOver

-----------------------------------------------------------------------------
(* Counting the assertions of an id that legs fold into.                   *)

(* Such an id has lines of named files with counts, and so in memory.      *)
LegLines ==
  \A id \in LegIds :
    /\ \A i \in LinesOf(sink, id) : sink[i].file \in Files /\ sink[i].count \in Nat
    /\ \A f \in Files : HasRequirement(f, id) =>
         ledger[f][id].file = f /\ ledger[f][id].count \in Nat
    /\ IsFiniteSet(FilesOf(sink, id))

CountsIn(lines, id) ==
  [f \in FilesOf(lines, id) |-> Counted(RowOfFile(lines, id, f).count)]

Tally(lines, id) == SumOver(CountsIn(lines, id), FilesOf(lines, id))

(* What the reader would sum up is what was counted in. *)
Tallied ==
  (\A f \in Files : faithful[f]) => \A id \in LegIds : Tally(sink, id) = asserted[id]

(* A line more adds the file it names to the files of its id. *)
LEMMA FilesAppend ==
  ASSUME NEW lines \in Seq(Entry), NEW e \in Entry, NEW id
  PROVE  FilesOf(Append(lines, e), id) =
           FilesOf(lines, id) \cup (IF e.id = id THEN {e.file} ELSE {})
<1> DEFINE more == Append(lines, e)
           n == Len(lines) + 1
<1>1. /\ more[n] = e
      /\ \A i \in LinesOf(lines, id) : more[i] = lines[i]
      /\ LinesOf(more, id) = LinesOf(lines, id) \cup (IF e.id = id THEN {n} ELSE {})
  BY LinesAppend DEF LinesOf
<1> HIDE DEF more, n
<1>2. QED
  BY <1>1 DEF FilesOf, more

(* The rows of an id of legs are rows of named files and carry numbers. *)
LEMMA LegCountsType ==
  ASSUME LedgerInv, LegLines, NEW id \in LegIds
  PROVE  /\ \A f \in FilesOf(sink, id) :
              /\ f \in Files /\ RowOfFile(sink, id, f) \in Entry
              /\ RowOfFile(sink, id, f).count \in Nat
              /\ CountsIn(sink, id)[f] = RowOfFile(sink, id, f).count
         /\ id \in Ids
<1>1. id \in Ids /\ sink \in Seq(Entry) /\ BestLine(sink)
  BY DEF LegIds, LedgerInv, LedgerTypeOK
<1>2. ASSUME NEW f \in FilesOf(sink, id)
      PROVE  /\ f \in Files /\ RowOfFile(sink, id, f) \in Entry
             /\ RowOfFile(sink, id, f).count \in Nat
             /\ CountsIn(sink, id)[f] = RowOfFile(sink, id, f).count
  <2>1. f \in Files \cup {NoFile} /\ LinesIn(sink, id, f) # {}
    BY <1>1, FilesOfFacts
  <2>2. /\ RowOfFile(sink, id, f) \in Entry
        /\ \E i \in LinesIn(sink, id, f) : RowOfFile(sink, id, f) = sink[i]
    BY <1>1, <2>1, RowRank
  <2>3. PICK i \in LinesIn(sink, id, f) : RowOfFile(sink, id, f) = sink[i]
    BY <2>2
  <2>4. i \in LinesOf(sink, id) /\ sink[i].file = f
    BY <2>3 DEF LinesIn
  <2>5. f \in Files /\ RowOfFile(sink, id, f).count \in Nat
    BY <2>3, <2>4 DEF LegLines
  <2>6. CountsIn(sink, id)[f] = RowOfFile(sink, id, f).count
    BY <2>5 DEF CountsIn, Counted, NoCount
  <2>7. QED
    BY <2>2, <2>5, <2>6
<1>3. QED
  BY <1>1, <1>2

(* One more recording: its count goes to its file's row, and to no other.  *)
LEMMA RecordKeepsCount ==
  ASSUME LedgerInv, LegLines, Tallied, NEW c \in Calls, RecordRequirement(c)
  PROVE  LegLines' /\ Tallied'
<1> DEFINE w == c.writer
           e == EntryFor(c)
           more == Append(sink, e)
           n == Len(sink) + 1
<1>1. /\ c \in CallType /\ c.file \in {w, NoFile} /\ w \in Files /\ c.id \in Ids /\ w # NoFile
      /\ ~Contradicts(c)
  BY CallsAssumption, ConstantsAssumption DEF CallType, RecordRequirement
<1>2. e \in Entry /\ e.id = c.id /\ e.file \in {w, NoFile} /\ e # Absent
  BY <1>1, EntryForFacts, ConstantsAssumption DEF LedgerInv
<1>3. /\ ledger' = [ledger EXCEPT ![w][c.id] = e]
      /\ asserted' = [asserted EXCEPT ![c.id] = @ + (IF c.fold THEN Counted(c.count) ELSE 0)]
      /\ AppendToSink(w, e)
  BY DEF RecordRequirement
<1>4. /\ sink \in Seq(Entry) /\ BestLine(sink) /\ faithful \in [Files -> BOOLEAN]
      /\ ledger \in [Files -> [Ids -> Entry \cup {Absent}]] /\ asserted \in [Ids -> Nat]
  BY DEF LedgerInv, LedgerTypeOK
<1>5. \/ sink' = more /\ faithful' = faithful
      \/ sink' = sink /\ faithful' = [faithful EXCEPT ![w] = FALSE]
  BY <1>3 DEF AppendToSink
(* A recording under an id of legs. *)
<1>6. c.id \in LegIds =>
        /\ e.file = w /\ e.count \in Nat /\ c.count \in Nat /\ c.fold
        /\ ~HasRequirement(w, c.id) => e.count = c.count
        /\ HasRequirement(w, c.id) => e.count = ledger[w][c.id].count + c.count
  <2> SUFFICES ASSUME c.id \in LegIds
               PROVE  /\ e.file = w /\ e.count \in Nat /\ c.count \in Nat /\ c.fold
                      /\ ~HasRequirement(w, c.id) => e.count = c.count
                      /\ HasRequirement(w, c.id) => e.count = ledger[w][c.id].count + c.count
    OBVIOUS
  <2>1. c.fold /\ c.file = w /\ c.count # NoCount
    BY DEF LegIds
  <2>2. c.count \in Nat
    BY <1>1, <2>1 DEF CallType
  <2>3. /\ NewEntry(c).file = w /\ NewEntry(c).count = c.count
    BY <2>1 DEF NewEntry
  <2>4. CASE ~HasRequirement(w, c.id)
    BY <2>1, <2>2, <2>3, <2>4 DEF EntryFor
  <2>5. CASE HasRequirement(w, c.id)
    <3>1. ledger[w][c.id].file = w /\ ledger[w][c.id].count \in Nat
      BY <1>1, <2>5 DEF LegLines
    <3>2. e = FoldEntries(ledger[w][c.id], NewEntry(c))
      BY <2>1, <2>5 DEF EntryFor
    <3>3. e.file = w
      BY <2>3, <3>1, <3>2 DEF FoldEntries
    <3>4. e.count = AddCounts(ledger[w][c.id].count, c.count)
      BY <2>3, <3>2 DEF FoldEntries
    <3>5. AddCounts(ledger[w][c.id].count, c.count) = ledger[w][c.id].count + c.count
      BY <2>2, <3>1 DEF AddCounts, Counted, NoCount
    <3>6. QED
      BY <2>1, <2>2, <2>5, <3>1, <3>3, <3>4, <3>5
  <2>6. QED
    BY <2>4, <2>5
<1>7. /\ more[n] = e
      /\ \A id : \A i \in LinesOf(sink, id) : more[i] = sink[i]
      /\ \A id : LinesOf(more, id) = LinesOf(sink, id) \cup (IF e.id = id THEN {n} ELSE {})
      /\ \A id : FilesOf(more, id) = FilesOf(sink, id) \cup (IF e.id = id THEN {e.file} ELSE {})
  BY <1>2, <1>4, LinesAppend, FilesAppend DEF LinesOf
<1> HIDE DEF e, w, more, n
<1>8. LegLines'
  <2> SUFFICES ASSUME NEW id \in LegIds
               PROVE  /\ \A i \in LinesOf(sink', id) : sink'[i].file \in Files /\ sink'[i].count \in Nat
                      /\ \A f \in Files : ledger'[f][id] # Absent =>
                           ledger'[f][id].file = f /\ ledger'[f][id].count \in Nat
                      /\ IsFiniteSet(FilesOf(sink', id))
    BY DEF LegLines, LegIds, HasRequirement
  <2>1. /\ \A i \in LinesOf(sink, id) : sink[i].file \in Files /\ sink[i].count \in Nat
        /\ \A f \in Files : ledger[f][id] # Absent =>
             ledger[f][id].file = f /\ ledger[f][id].count \in Nat
        /\ IsFiniteSet(FilesOf(sink, id))
        /\ id \in Ids
    BY DEF LegLines, LegIds, HasRequirement
  <2>2. \A i \in LinesOf(more, id) : more[i].file \in Files /\ more[i].count \in Nat
    BY <1>1, <1>2, <1>6, <1>7, <2>1
  <2>3. IsFiniteSet(FilesOf(more, id))
    <3>1. FilesOf(more, id) = FilesOf(sink, id) \cup {e.file} \/ FilesOf(more, id) = FilesOf(sink, id)
      BY <1>7
    <3> DEFINE F == FilesOf(sink, id)
               g == e.file
    <3>2. IsFiniteSet(F) /\ (FilesOf(more, id) = F \cup {g} \/ FilesOf(more, id) = F)
      BY <2>1, <3>1
    <3> HIDE DEF F, g
    <3>3. IsFiniteSet(F \cup {g})
      BY <3>2, FS_AddElement
    <3>4. QED
      BY <3>2, <3>3
  <2>4. \A f \in Files : ledger'[f][id] = IF f = w /\ id = c.id THEN e ELSE ledger[f][id]
    BY <1>1, <1>3, <1>4, <2>1
  <2>5. \A f \in Files : ledger'[f][id] # Absent =>
             ledger'[f][id].file = f /\ ledger'[f][id].count \in Nat
    BY <1>6, <2>1, <2>4
  <2>6. QED
    BY <1>5, <2>1, <2>2, <2>3, <2>5
<1>9. Tallied'
  <2> SUFFICES ASSUME \A f \in Files : faithful'[f], NEW id \in LegIds
               PROVE  Tally(sink', id) = asserted'[id]
    BY DEF Tallied, LegIds
  <2>1. sink' = more /\ (\A f \in Files : faithful[f])
    BY <1>1, <1>4, <1>5
  <2>2. Tally(sink, id) = asserted[id] /\ id \in Ids
    BY <2>1 DEF Tallied, LegIds
  <2> DEFINE F == FilesOf(sink, id)
             u == CountsIn(sink, id)
             v == CountsIn(more, id)
  <2>3. /\ \A f \in F : /\ f \in Files /\ LinesIn(sink, id, f) # {}
                        /\ u[f] = RowOfFile(sink, id, f).count /\ u[f] \in Nat
        /\ IsFiniteSet(F)
    BY <1>4, <2>2, LegCountsType, FilesOfFacts DEF LegLines
  <2>4. \A f \in F : ~(e.id = id /\ e.file = f) =>
           f \in FilesOf(more, id) /\ v[f] = u[f]
    <3>1. ASSUME NEW f \in F, ~(e.id = id /\ e.file = f)
          PROVE  f \in FilesOf(more, id) /\ v[f] = u[f]
      <4>1. RowOfFile(more, id, f) = RowOfFile(sink, id, f)
        BY <1>2, <1>4, <2>2, <2>3, <3>1, RowAfterAppend DEF more
      <4>2. f \in FilesOf(more, id)
        BY <1>7, <3>1
      <4>3. QED
        BY <3>1, <4>1, <4>2 DEF CountsIn
    <3>2. QED
      BY <3>1
  <2>5. CASE c.id # id
    <3>1. FilesOf(more, id) = F /\ asserted'[id] = asserted[id]
      <4>1. FilesOf(more, id) = F
        <5>1. e.id # id
          BY <1>2, <2>5
        <5>2. FilesOf(more, id) = FilesOf(sink, id) \cup {}
          BY <1>7, <5>1
        <5>3. QED
          BY <5>2
      <4>2. asserted'[id] = asserted[id]
        <5>1. PICK k : asserted' = [asserted EXCEPT ![c.id] = k]
          BY <1>3
        <5>2. asserted \in [Ids -> Nat] /\ id \in Ids /\ c.id # id
          BY <1>4, <2>2, <2>5
        <5> HIDE DEF F, u, v
        <5>3. QED
          BY <5>1, <5>2
      <4>3. QED
        BY <4>1, <4>2
    <3>2. \A f \in F : u[f] \in Nat /\ v[f] = u[f]
      BY <1>2, <2>3, <2>4, <2>5
    <3> HIDE DEF F, u, v
    <3>3. SumOver(v, F) = SumOver(u, F)
      BY <2>3, <3>2, SameSums
    <3>4. QED
      BY <2>1, <2>2, <3>1, <3>3 DEF Tally, F, u, v
  <2>6. CASE c.id = id
    <3>1. /\ asserted'[id] = asserted[id] + c.count /\ asserted[id] \in Nat /\ c.count \in Nat
          /\ FilesOf(more, id) = F \cup {w}
      <4>1. c.count \in Nat /\ c.fold /\ e.file = w /\ e.id = id
        BY <1>2, <1>6, <2>6
      <4>2. Counted(c.count) = c.count
        BY <4>1 DEF Counted, NoCount
      <4>3. QED
        BY <1>3, <1>4, <1>7, <2>2, <2>6, <4>1, <4>2
    <3>2. RowOfFile(more, id, w) = e /\ v[w] = e.count
      <4>1. /\ e.file = w /\ e.id = id /\ w \in Files
            /\ HasRequirement(w, id) => Rank(e) <= Rank(ledger[w][id])
        BY <1>1, <1>2, <1>6, <2>6, EntryForFacts DEF LedgerInv, NoMoreCertifiable, Rank, e, w
      <4>2. \A j \in LinesIn(sink, id, w) :
              HasRequirement(w, id) /\ Rank(ledger[w][id]) <= Rank(sink[j])
        BY <2>1, <2>2, <4>1 DEF LedgerInv, MemoryBelow
      <4>3. /\ \A j \in LinesIn(sink, id, w) : Rank(sink[j]) \in 0 .. 4
            /\ HasRequirement(w, id) => Rank(ledger[w][id]) \in 0 .. 4
            /\ Rank(e) \in 0 .. 4
        <5>1. \A x \in Entry : Rank(x) \in 0 .. 4
          BY RankType DEF Rank, Entry
        <5>2. \A j \in LinesIn(sink, id, w) : sink[j] \in Entry
          BY <1>4, LineRank DEF LinesIn, LinesOf
        <5>3. HasRequirement(w, id) => ledger[w][id] \in Entry
          BY <1>4, <2>2, <4>1 DEF HasRequirement
        <5>4. QED
          BY <1>2, <5>1, <5>2, <5>3
      <4>4. \A j \in LinesIn(sink, id, w) : Rank(e) <= Rank(sink[j])
        BY <4>1, <4>2, <4>3
      <4>5. RowOfFile(more, id, w) = e
        BY <1>2, <1>4, <2>2, <4>1, <4>4, RowAfterAppend DEF more
      <4>6. w \in FilesOf(more, id)
        BY <3>1
      <4>7. e.count \in Nat
        BY <1>6, <2>6
      <4>8. QED
        BY <4>5, <4>6, <4>7 DEF CountsIn, Counted, NoCount
    <3>3. CASE w \in F
      <4>1. HasRequirement(w, id) /\ RowOfFile(sink, id, w) = ledger[w][id]
        <5>1. HasRequirement(w, id)
          BY <2>1, <2>2, <2>3, <3>3 DEF LedgerInv, MemoryBelow
        <5>2. ledger[w][id].file = w
          BY <1>1, <5>1 DEF LegLines
        <5>3. QED
          BY <1>1, <2>1, <2>2, <5>1, <5>2 DEF LedgerInv, SinkAgreesWithMemory
      <4>2. e.count = u[w] + c.count
        BY <1>6, <2>3, <2>6, <3>3, <4>1
      <4>3. FilesOf(more, id) = F
        BY <3>1, <3>3
      <4>4. \A f \in F \ {w} : v[f] = u[f]
        BY <1>6, <2>4, <2>6
      <4>5. /\ \A f \in F : u[f] \in Nat
            /\ v[w] = u[w] + c.count /\ IsFiniteSet(F)
        BY <2>3, <3>2, <4>2
      <4> HIDE DEF F, u, v
      <4>6. SumOver(v, F) = SumOver(u, F) + c.count
        BY <3>1, <3>3, <4>4, <4>5, SumGrows
      <4>7. QED
        BY <2>1, <2>2, <3>1, <4>3, <4>6 DEF Tally, F, u, v
    <3>4. CASE w \notin F
      <4>1. ~HasRequirement(w, id)
        <5>1. SUFFICES ASSUME HasRequirement(w, id) PROVE w \in F
          BY <3>4
        <5>2. ledger[w][id].file = w
          BY <1>1, <5>1 DEF LegLines
        <5>3. LinesIn(sink, id, w) # {}
          BY <1>1, <2>1, <2>2, <5>1, <5>2 DEF LedgerInv, SinkAgreesWithMemory
        <5>4. QED
          BY <5>3 DEF LinesIn, FilesOf
      <4>2. v[w] = c.count
        BY <1>6, <2>6, <3>2, <4>1
      <4>3. \A f \in F : v[f] = u[f] /\ u[f] \in Nat
        BY <1>6, <2>3, <2>4, <2>6, <3>4
      <4>4. (F \cup {w}) \ {w} = F /\ IsFiniteSet(F \cup {w})
        BY <2>3, <3>4, FS_AddElement
      <4>5. IsFiniteSet(F) /\ \A f \in F \cup {w} : v[f] \in Nat
        BY <2>3, <3>1, <4>2, <4>3
      <4> HIDE DEF F, u, v
      <4>6. SumOver(v, F \cup {w}) = v[w] + SumOver(v, F)
        <5> DEFINE W == F \cup {w}
        <5>1. IsFiniteSet(W) /\ w \in W /\ W \ {w} = F /\ \A x \in W : v[x] \in Nat
          BY <4>4, <4>5
        <5> HIDE DEF W
        <5>2. SumOver(v, W) = v[w] + SumOver(v, W \ {w})
          BY <5>1, SumOverFacts
        <5>3. QED
          BY <5>1, <5>2 DEF W
      <4>7. SumOver(v, F) = SumOver(u, F)
        BY <4>3, <4>5, SameSums
      <4>8. SumOver(u, F) = asserted[id]
        BY <2>2 DEF Tally, F, u
      <4>9. SumOver(v, F \cup {w}) = asserted'[id]
        BY <3>1, <4>2, <4>6, <4>7, <4>8
      <4>10. QED
        BY <2>1, <3>1, <4>9 DEF Tally, v
    <3>5. QED
      BY <3>3, <3>4
  <2>7. QED
    BY <2>5, <2>6
<1>10. QED
  BY <1>8, <1>9

LEMMA CountedStep ==
  LedgerInv /\ LegLines /\ Tallied /\ [LedgerNext]_vars => LegLines' /\ Tallied'
<1> SUFFICES ASSUME LedgerInv, LegLines, Tallied, [LedgerNext]_vars
             PROVE  LegLines' /\ Tallied'
  OBVIOUS
<1>1. ASSUME NEW c \in Calls, RecordRequirement(c) PROVE LegLines' /\ Tallied'
  BY <1>1, RecordKeepsCount
<1>2. ASSUME NEW f \in Files, SuspendSink(f) \/ RestoreSink(f) PROVE LegLines' /\ Tallied'
  <2>1. UNCHANGED <<ledger, sink, asserted, faithful>>
    BY <1>2 DEF SuspendSink, RestoreSink, historyVars
  <2>2. QED
    BY <2>1 DEF LegLines, Tallied, LegIds, HasRequirement
<1>3. ASSUME NEW f \in Files, ResetLedger(f) PROVE LegLines' /\ Tallied'
  <2>1. /\ sink' = sink /\ faithful' = [faithful EXCEPT ![f] = FALSE]
        /\ \A g \in Files : g # f => ledger'[g] = ledger[g]
        /\ \A id \in Ids : ledger'[f][id] = Absent
        /\ faithful \in [Files -> BOOLEAN]
    BY <1>3 DEF ResetLedger, LedgerInv, LedgerTypeOK
  <2>2. faithful'[f] = FALSE
    BY <2>1
  <2>3. LegLines'
    BY <2>1 DEF LegLines, LegIds, HasRequirement
  <2>4. QED
    BY <2>2, <2>3 DEF Tallied
<1>4. CASE UNCHANGED vars
  BY <1>4 DEF vars, ledgerVars, historyVars, LegLines, Tallied, LegIds, HasRequirement
<1>5. QED
  BY <1>1, <1>2, <1>3, <1>4 DEF LedgerNext

LEMMA CountedInit == LedgerInit => LegLines /\ Tallied
<1> SUFFICES ASSUME LedgerInit PROVE LegLines /\ Tallied
  OBVIOUS
<1>1. \A id : LinesOf(sink, id) = {} /\ FilesOf(sink, id) = {}
  BY DEF LedgerInit, LinesOf, FilesOf
<1>2. LegLines
  BY <1>1, FS_EmptySet DEF LedgerInit, LegLines, LegIds, HasRequirement
<1>3. Tallied
  <2>1. \A id \in LegIds : Tally(sink, id) = 0
    <3>1. ASSUME NEW id \in LegIds PROVE Tally(sink, id) = 0
      <4>1. FilesOf(sink, id) = {} /\ IsFiniteSet({})
        BY <1>1, FS_EmptySet
      <4>2. SumOver(CountsIn(sink, id), {}) = 0
        BY <4>1, SumOverFacts
      <4>3. QED
        BY <4>1, <4>2 DEF Tally
    <3>2. QED
      BY <3>1
  <2>2. QED
    BY <2>1 DEF Tallied, LedgerInit, LegIds
<1>4. QED
  BY <1>2, <1>3

(* The reader's sum over the files' rows is the sum of all assertions. *)
LEMMA TalliedIsRead == LedgerInv /\ LegLines /\ Tallied => EveryAssertionCountedOnce
<1> SUFFICES ASSUME LedgerInv, LegLines, Tallied, \A f \in Files : faithful[f],
                    NEW id \in LegIds, LinesOf(sink, id) # {}
             PROVE  ReadRow(sink, id).count = asserted[id]
  BY DEF EveryAssertionCountedOnce
<1> DEFINE F == FilesOf(sink, id)
<1>1. /\ \A f \in F : RowOfFile(sink, id, f) \in Entry /\ RowOfFile(sink, id, f).count \in Nat
      /\ id \in Ids /\ IsFiniteSet(F)
  BY LegCountsType DEF LegLines
<1>2. DecidingFile(sink, id) \in F
  BY <1>1 DEF LedgerInv, DecidingFile, BestFile
<1>3. ReadRow(sink, id).count = SummedCount(sink, id)
  BY <1>1, <1>2 DEF ReadRow, Entry
<1>4. ~ \A f \in F : RowOfFile(sink, id, f).count = NoCount
  BY <1>1, <1>2 DEF NoCount
<1>5. \A f \in F : Counted(RowOfFile(sink, id, f).count) \in Nat
  BY <1>1 DEF Counted, NoCount
<1>6. SummedCount(sink, id) = MapThenSumSet(LAMBDA f : Counted(RowOfFile(sink, id, f).count), F)
  BY <1>4, Zenon DEF SummedCount
<1>7. SummedCount(sink, id) = Tally(sink, id)
  <2>1. MapThenSumSet(LAMBDA f : Counted(RowOfFile(sink, id, f).count), F) =
         SumOver([f \in F |-> Counted(RowOfFile(sink, id, f).count)], F)
    BY <1>1, <1>5, SummedIsSum
  <2>2. QED
    BY <1>6, <2>1, Zenon DEF Tally, CountsIn
<1>8. QED
  BY <1>3, <1>7 DEF Tallied

(* requirement-ledger.ts, pass 2: "counts SUM": for any number of files    *)
(* and legs, in whatever order their lines reach the sink, the count read  *)
(* for an id that legs fold into is the number of assertions all of them   *)
(* made: no cumulative line is counted twice, no file's legs are dropped.  *)
THEOREM AssertionsCountOnce == LedgerSpec => []EveryAssertionCountedOnce
<1>1. LedgerInit => LedgerInv /\ LegLines /\ Tallied
  BY LedgerInvInit, CountedInit
<1>2. LedgerInv /\ LegLines /\ Tallied /\ [LedgerNext]_vars =>
        LedgerInv' /\ LegLines' /\ Tallied'
  BY LedgerInvStep, CountedStep
<1>3. QED
  BY <1>1, <1>2, TalliedIsRead, PTL DEF LedgerSpec

-----------------------------------------------------------------------------
(* Lines in another order.                                                 *)

(* A rearrangement permutes the lines, and keeps those of a file in order. *)
LEMMA ReorderedFacts ==
  ASSUME NEW lines \in Seq(Entry), NEW order \in Interleavings(lines)
  PROVE  /\ DOMAIN Reordered(lines, order) = DOMAIN lines
         /\ \A i \in DOMAIN lines :
              i \in Nat /\ order[i] \in DOMAIN lines /\ order[i] \in Nat
                /\ Reordered(lines, order)[i] = lines[order[i]]
         /\ \A i \in DOMAIN lines : \E j \in DOMAIN lines : order[j] = i
         /\ \A i, j \in DOMAIN lines :
              i < j /\ lines[order[i]].file = lines[order[j]].file => order[i] < order[j]
<1>1. DOMAIN lines \subseteq Nat
  OBVIOUS
<1>2. /\ order \in [DOMAIN lines -> DOMAIN lines]
      /\ \A i \in DOMAIN lines : \E j \in DOMAIN lines : order[j] = i
      /\ \A i, j \in DOMAIN lines :
           i < j /\ lines[order[i]].file = lines[order[j]].file => order[i] < order[j]
  BY DEF Interleavings
<1>3. QED
  BY <1>1, <1>2 DEF Reordered

(* Every id is named by the same files, in the same lines elsewhere.       *)
LEMMA ReorderedLines ==
  ASSUME NEW lines \in Seq(Entry), NEW order \in Interleavings(lines), NEW id, NEW file
  PROVE  LET r == Reordered(lines, order) IN
         /\ \A i \in DOMAIN lines : i \in LinesOf(r, id) <=> order[i] \in LinesOf(lines, id)
         /\ \A i \in DOMAIN lines : i \in LinesIn(r, id, file) <=> order[i] \in LinesIn(lines, id, file)
         /\ FilesOf(r, id) = FilesOf(lines, id)
         /\ LinesOf(r, id) = {} <=> LinesOf(lines, id) = {}
<1> DEFINE r == Reordered(lines, order)
<1>1. /\ DOMAIN r = DOMAIN lines
      /\ \A i \in DOMAIN lines : order[i] \in DOMAIN lines /\ r[i] = lines[order[i]]
      /\ \A i \in DOMAIN lines : \E j \in DOMAIN lines : order[j] = i
  BY ReorderedFacts
<1> HIDE DEF r
<1>2. \A i \in DOMAIN lines : i \in LinesOf(r, id) <=> order[i] \in LinesOf(lines, id)
  BY <1>1 DEF LinesOf
<1>3. \A i \in DOMAIN lines : i \in LinesIn(r, id, file) <=> order[i] \in LinesIn(lines, id, file)
  BY <1>1, <1>2 DEF LinesIn, LinesOf
<1>4. FilesOf(r, id) \subseteq FilesOf(lines, id)
  <2>1. ASSUME NEW f \in FilesOf(r, id) PROVE f \in FilesOf(lines, id)
    <3>1. PICK i \in LinesOf(r, id) : f = r[i].file
      BY DEF FilesOf
    <3>2. i \in DOMAIN lines
      BY <1>1 DEF LinesOf
    <3>3. order[i] \in LinesOf(lines, id) /\ f = lines[order[i]].file
      BY <1>1, <1>2, <3>1, <3>2
    <3>4. QED
      BY <3>3 DEF FilesOf
  <2>2. QED
    BY <2>1
<1>5. FilesOf(lines, id) \subseteq FilesOf(r, id)
  <2>1. ASSUME NEW f \in FilesOf(lines, id) PROVE f \in FilesOf(r, id)
    <3>1. PICK i \in LinesOf(lines, id) : f = lines[i].file
      BY DEF FilesOf
    <3>2. i \in DOMAIN lines
      BY DEF LinesOf
    <3>3. PICK j \in DOMAIN lines : order[j] = i
      BY <1>1, <3>2
    <3>4. j \in LinesOf(r, id) /\ r[j].file = f
      BY <1>1, <1>2, <3>1, <3>3
    <3>5. QED
      BY <3>4 DEF FilesOf
  <2>2. QED
    BY <2>1
<1>6. LinesOf(r, id) = {} <=> LinesOf(lines, id) = {}
  <2>1. LinesOf(r, id) # {} <=> FilesOf(r, id) # {}
    BY DEF FilesOf
  <2>2. LinesOf(lines, id) # {} <=> FilesOf(lines, id) # {}
    BY DEF FilesOf
  <2>3. QED
    BY <1>4, <1>5, <2>1, <2>2
<1>7. QED
  BY <1>2, <1>3, <1>4, <1>5, <1>6 DEF r

(* A file's row is the same line: the last of its least certifiable ones   *)
(* stays the last.                                                         *)
LEMMA ReorderedRow ==
  ASSUME NEW lines \in Seq(Entry), BestLine(lines), NEW order \in Interleavings(lines),
         NEW id \in Ids, NEW file \in FilesOf(lines, id)
  PROVE  RowOfFile(Reordered(lines, order), id, file) = RowOfFile(lines, id, file)
<1> DEFINE r == Reordered(lines, order)
           own == LinesIn(r, id, file)
           pick == CHOOSE i \in own : \A j \in own : LineBefore(r, i, j)
<1>1. /\ DOMAIN r = DOMAIN lines
      /\ \A i \in DOMAIN lines :
           i \in Nat /\ order[i] \in DOMAIN lines /\ order[i] \in Nat /\ r[i] = lines[order[i]]
      /\ \A i \in DOMAIN lines : \E j \in DOMAIN lines : order[j] = i
      /\ \A i, j \in DOMAIN lines :
           i < j /\ lines[order[i]].file = lines[order[j]].file => order[i] < order[j]
  BY ReorderedFacts
<1>2. \A i \in DOMAIN lines : i \in own <=> order[i] \in LinesIn(lines, id, file)
  BY ReorderedLines
<1>3. own \subseteq DOMAIN lines /\ LinesIn(lines, id, file) \subseteq DOMAIN lines
      /\ \A i \in LinesIn(lines, id, file) : lines[i].file = file
  BY <1>1 DEF LinesIn, LinesOf
<1>4. \A i, j \in own : i < j => order[i] < order[j]
  BY <1>1, <1>2, <1>3
<1>5. file \in Files \cup {NoFile} /\ LinesIn(lines, id, file) # {}
  BY FilesOfFacts
<1>6. PICK k \in LinesIn(lines, id, file) :
        /\ RowOfFile(lines, id, file) = lines[k]
        /\ \A j \in LinesIn(lines, id, file) : LineBefore(lines, k, j)
  BY <1>5, RowOfFileFacts
<1>7. PICK i \in DOMAIN lines : order[i] = k
  BY <1>1, <1>3
<1>8. \A j \in DOMAIN lines : CERTIFIABILITY_RANK[lines[j].disposition] \in 0 .. 4
  BY LineRank
<1> HIDE DEF r, own
<1>9. i \in own
  BY <1>2, <1>6, <1>7
<1>10. \A j \in own : LineBefore(r, i, j)
  <2>1. ASSUME NEW j \in own PROVE LineBefore(r, i, j)
    <3>1. LineBefore(lines, k, order[j])
      BY <1>2, <1>3, <1>6
    <3>2. j \in DOMAIN lines /\ i \in DOMAIN lines /\ r[i] = lines[k] /\ r[j] = lines[order[j]]
      BY <1>1, <1>3, <1>7
    <3>3. i < j => order[i] < order[j]
      BY <1>4, <1>9
    <3>4. i \in Nat /\ j \in Nat /\ order[j] \in Nat /\ k \in Nat /\ order[i] = k
      BY <1>1, <1>3, <1>7, <3>2
    <3>5. QED
      BY <3>1, <3>2, <3>3, <3>4 DEF LineBefore
  <2>2. QED
    BY <2>1
<1>11. pick \in own /\ \A j \in own : LineBefore(r, pick, j)
  BY <1>9, <1>10
<1>12. pick = i
  <2>1. LineBefore(r, pick, i) /\ LineBefore(r, i, pick)
    BY <1>9, <1>10, <1>11
  <2>2. pick \in DOMAIN lines /\ pick \in Nat /\ i \in Nat
    BY <1>1, <1>3, <1>11
  <2>3. /\ CERTIFIABILITY_RANK[r[pick].disposition] \in 0 .. 4
        /\ CERTIFIABILITY_RANK[r[i].disposition] \in 0 .. 4
    BY <1>1, <1>8, <2>2
  <2> HIDE DEF pick
  <2>4. QED
    BY <2>1, <2>2, <2>3 DEF LineBefore
<1>13. RowOfFile(r, id, file) = r[pick]
  BY DEF RowOfFile, own
<1>14. QED
  BY <1>1, <1>6, <1>7, <1>12, <1>13 DEF r

(* The whole reading is the same.                                          *)
LEMMA ReorderedReadsSame ==
  ASSUME NEW lines \in Seq(Entry), BestLine(lines), BestFile(lines),
         NEW order \in Interleavings(lines)
  PROVE  ReadLedgerFile(Reordered(lines, order)) = ReadLedgerFile(lines)
<1> DEFINE r == Reordered(lines, order)
<1>1. ASSUME NEW id \in Ids, LinesOf(lines, id) # {} PROVE ReadRow(r, id) = ReadRow(lines, id)
  <2> DEFINE F == FilesOf(lines, id)
  <2>1. FilesOf(r, id) = F
    BY ReorderedLines
  <2>2. \A f \in F : RowOfFile(r, id, f) = RowOfFile(lines, id, f)
    BY <1>1, ReorderedRow
  <2>3. \A f, g \in F : FileBefore(r, id, f, g) <=> FileBefore(lines, id, f, g)
    <3> HIDE DEF r, F
    <3>1. QED
      BY <2>2 DEF FileBefore
  <2>4. F # {} => DecidingFile(r, id) = DecidingFile(lines, id)
    <3> HIDE DEF r
    <3>1. QED
      BY <2>1, <2>3 DEF DecidingFile
  <2>5. SummedCount(r, id) = SummedCount(lines, id)
    <3>1. IsFiniteSet(F)
      <4>1. IsFiniteSet(LinesOf(lines, id))
        <5>1. IsFiniteSet(1 .. Len(lines))
          BY FS_Interval
        <5>2. LinesOf(lines, id) \subseteq 1 .. Len(lines)
          BY DEF LinesOf
        <5>3. QED
          BY <5>1, <5>2, FS_Subset
      <4> DEFINE g == [i \in LinesOf(lines, id) |-> lines[i].file]
      <4>2. g \in Surjection(LinesOf(lines, id), F)
        BY Zenon DEF Surjection, FilesOf
      <4>3. QED
        BY <4>1, <4>2, FS_Surjection
    <3>2. \A f \in F : Counted(RowOfFile(lines, id, f).count) \in Nat
      <4>1. ASSUME NEW f \in F PROVE Counted(RowOfFile(lines, id, f).count) \in Nat
        <5>1. RowOfFile(lines, id, f) \in Entry
          BY <1>1, FilesOfFacts, RowRank
        <5>2. QED
          BY <5>1 DEF Entry, Counted, NoCount
      <4>2. QED
        BY <4>1
    <3> DEFINE a == [f \in F |-> Counted(RowOfFile(lines, id, f).count)]
               b == [f \in F |-> Counted(RowOfFile(r, id, f).count)]
    <3>3. a = b
      BY <2>2
    <3>4. MapThenSumSet(LAMBDA f : Counted(RowOfFile(lines, id, f).count), F) = SumOver(a, F)
      BY <3>1, <3>2, SummedIsSum
    <3>5. MapThenSumSet(LAMBDA f : Counted(RowOfFile(r, id, f).count), FilesOf(r, id)) =
            SumOver([f \in FilesOf(r, id) |-> Counted(RowOfFile(r, id, f).count)], FilesOf(r, id))
      <4>1. /\ IsFiniteSet(FilesOf(r, id))
            /\ \A f \in FilesOf(r, id) : Counted(RowOfFile(r, id, f).count) \in Nat
        BY <2>1, <2>2, <3>1, <3>2
      <4> HIDE DEF r
      <4>2. QED
        BY <4>1, SummedIsSum
    <3>6. SumOver([f \in FilesOf(r, id) |-> Counted(RowOfFile(r, id, f).count)], FilesOf(r, id)) = SumOver(a, F)
      BY <2>1, <3>3, Zenon
    <3>7. (\A f \in FilesOf(r, id) : RowOfFile(r, id, f).count = NoCount)
            <=> (\A f \in F : RowOfFile(lines, id, f).count = NoCount)
      BY <2>1, <2>2
    <3> HIDE DEF r, a, b, F
    <3>8. QED
      BY <3>4, <3>5, <3>6, <3>7, Zenon DEF SummedCount, F
  <2>6. DecidingFile(lines, id) \in F
    <3>1. \E f \in F : \A g \in F : FileBefore(lines, id, f, g)
      BY <1>1 DEF BestFile
    <3> HIDE DEF F
    <3>2. (CHOOSE f \in F : \A g \in F : FileBefore(lines, id, f, g)) \in F
      BY <3>1
    <3>3. QED
      BY <3>2 DEF DecidingFile, F
  <2>7. DecidingFile(r, id) = DecidingFile(lines, id)
    BY <2>4, <2>6
  <2>8. RowOfFile(r, id, DecidingFile(r, id)) = RowOfFile(lines, id, DecidingFile(lines, id))
    <3> HIDE DEF r, F
    <3>1. QED
      BY <2>2, <2>6, <2>7
  <2> HIDE DEF r, F
  <2>9. QED
    BY <2>5, <2>8 DEF ReadRow
<1>2. {i \in Ids : LinesOf(r, i) # {}} = {i \in Ids : LinesOf(lines, i) # {}}
  BY ReorderedLines
<1> HIDE DEF r
<1>3. ReadLedgerFile(r) = ReadLedgerFile(lines)
  BY <1>1, <1>2 DEF ReadLedgerFile
<1>4. QED
  BY <1>3 DEF r

(* "so the row is the same on every run": however the appends of the       *)
(* workers had interleaved, each worker's lines in its own order, the      *)
(* certifier would have read the same rows (requirement-ledger.ts, pass 2).*)
THEOREM ReadingIsTheSameOnEveryRun == LedgerSpec => []InterleavingInvisible
<1>1. LedgerInv => InterleavingInvisible
  <2> SUFFICES ASSUME LedgerInv PROVE InterleavingInvisible
    OBVIOUS
  <2>1. sink \in Seq(Entry) /\ BestLine(sink) /\ BestFile(sink)
    BY DEF LedgerInv, LedgerTypeOK
  <2>2. QED
    BY <2>1, ReorderedReadsSame DEF InterleavingInvisible
<1>2. QED
  BY <1>1, LedgerInvariant, PTL
=============================================================================
