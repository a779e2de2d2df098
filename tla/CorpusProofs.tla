---------------------------- MODULE CorpusProofs ----------------------------
(***************************************************************************)
(* What is proved of the corpus: the gates of a cut, the clock of the      *)
(* first major's support, the retirement of the surface, the release of    *)
(* the suite, the copies of the schemas, the declaration, what is          *)
(* projected from it, and the report of what is witnessed.                 *)
(***************************************************************************)
EXTENDS CutGates, EosClock, SurfaceRetirement, SuiteRelease,
        Projections, Declaration, WitnessCoverage,
        FiniteSetTheorems, SequenceTheorems, WellFoundedInduction, TLAPS

(* Naturals.                                                               *)
(* A set of naturals has a least: the oldest commit a row was introduced   *)
(* by, the outermost property that went.                                   *)
LEMMA LeastOfNat ==
  ASSUME NEW T, T \subseteq Nat, T # {}
  PROVE  \E n \in T : \A m \in T : n <= m
<1> DEFINE less == OpToRel(<, Nat)
<1>1. IsWellFoundedOn(less, Nat)
  BY NatLessThanWellFounded
<1>2. \A x, y \in Nat : y < x => <<y, x>> \in less
  BY DEF OpToRel
<1> HIDE DEF less
<1>3. PICK x \in T : \A y \in T : ~ (<<y, x>> \in less)
  BY <1>1, WFMin, Zenon
<1>4. \A m \in T : x <= m
  <2>1. ASSUME NEW m \in T PROVE x <= m
    <3>1. x \in Nat /\ m \in Nat /\ ~ (m < x)
      BY <1>2, <1>3
    <3>2. QED
      BY <3>1
  <2>2. QED
    BY <2>1
<1>5. QED
  BY <1>3, <1>4

(* A set of naturals with a bound has a greatest: the newest tag, the last *)
(* entry of a log.                                                         *)
LEMMA GreatestOfNat ==
  ASSUME NEW n \in Nat, NEW T, T \subseteq 0..n, T # {}
  PROVE  \E k \in T : \A m \in T : m <= k
<1> DEFINE U == {n - k : k \in T}
<1>1. U \subseteq Nat /\ U # {}
  <2>1. \A k \in T : n - k \in Nat
    OBVIOUS
  <2>2. QED
    BY <2>1
<1> HIDE DEF U
<1>2. PICK u \in U : \A v \in U : u <= v
  BY <1>1, LeastOfNat
<1>3. PICK k \in T : u = n - k
  BY <1>2 DEF U
<1>4. ASSUME NEW m \in T PROVE m <= k
  <2>1. u <= n - m
    BY <1>2 DEF U
  <2>2. QED
    BY <1>3, <2>1
<1>5. QED
  BY <1>4

-----------------------------------------------------------------------------
(* The gates of a cut.                                                     *)

(* What a bundle says once it is handed over: a row of a file is one of a  *)
(* file that ran, and the document is the one the host served then.        *)
BundleStands ==
  bundle # NoBundleYet =>
    /\ \A r \in bundle.rows : r.at \in 0 .. Cardinality(Legs) /\ (r.id \in bundle.ran \/ r.id \in Legs)
    /\ bundle.document # << >> => bundle.servedV1 = (1 \in bundle.document[1].majors)

(* A bundle that was handed over stands for what ran.                      *)
CutInv ==
  /\ corpus.registered \subseteq Legs /\ corpus.files \cap Legs = {}
  /\ BundleStands

(* check-cut-gates.mjs starts with no bundle handed over.                  *)
LEMMA CutInvInit == CutInit => CutInv
  BY CutAssumption DEF CutInit, CutInv, BundleStands

(* The evidence step of a release: the bundle it writes has one row for    *)
(* every file the run selected.                                            *)
LEMMA BundleFacts ==
  ASSUME CutInv, NEW major, NEW order \in Orders, NEW embeds \in BOOLEAN, NEW scrubbed,
         NEW b, b = BundleOf(major, order, embeds, scrubbed)
  PROVE  /\ \A r \in b.rows : r.at \in 0 .. Cardinality(Legs) /\ (r.id \in b.ran \/ r.id \in Legs)
         /\ b.document # << >> => b.servedV1 = (1 \in b.document[1].majors)
<1> DEFINE legs == LegsReached(major)
<1>1. Cardinality(Legs) \in Nat
  BY CutAssumption, FS_CardinalityType
<1>2. legs \subseteq Legs /\ FilesOfMajor(major) \subseteq corpus.files
  BY DEF CutInv, LegsReached, FilesOfMajor
<1>3. \A l \in Legs : order[l] \in 1 .. Cardinality(Legs)
  BY CutAssumption
<1>4. /\ b.ran = corpus.files /\ b.servedV1 = (1 \in server.majors)
      /\ b.document = IF embeds THEN <<Document>> ELSE << >>
      /\ b.rows = {RowOf(f, f, FileResult(f, legs), 0) : f \in FilesOfMajor(major)}
                    \cup {RowOf(l, FileOf[l], ResultOf(l), order[l]) : l \in legs}
  BY DEF BundleOf
<1> HIDE DEF legs
<1>5. ASSUME NEW r \in b.rows
      PROVE  r.at \in 0 .. Cardinality(Legs) /\ (r.id \in b.ran \/ r.id \in Legs)
  <2>1. CASE \E f \in FilesOfMajor(major) : r = RowOf(f, f, FileResult(f, legs), 0)
    BY <1>1, <1>2, <1>4, <2>1 DEF RowOf
  <2>2. CASE \E l \in legs : r = RowOf(l, FileOf[l], ResultOf(l), order[l])
    BY <1>1, <1>2, <1>3, <2>2 DEF RowOf
  <2>3. QED
    BY <1>4, <1>5, <2>1, <2>2
<1>6. b.document # << >> => b.document[1].majors = server.majors
  BY <1>4 DEF Document
<1>7. QED
  BY <1>4, <1>5, <1>6

(* Whatever the hosts, the corpus and the release do next, a bundle stands *)
(* as it was written.                                                      *)
LEMMA CutInvStep == CutInv /\ [CutNext]_cutVars => CutInv'
<1> SUFFICES ASSUME CutInv, [CutNext]_cutVars PROVE CutInv'
  OBVIOUS
<1>1. CASE Certify
  <2>1. PICK major \in server.majors, order \in Orders, embeds \in BOOLEAN, scrubbed \in BOOLEAN :
          bundle' = BundleOf(major, order, embeds, scrubbed)
    BY <1>1 DEF Certify
  <2>2. corpus' = corpus
    BY <1>1 DEF Certify
  <2>3. BundleStands'
    BY <2>1, BundleFacts DEF BundleStands
  <2>4. QED
    BY <2>2, <2>3 DEF CutInv
<1>2. CASE AddLeg
  <2>1. PICK new \in Additions :
          corpus' = [files |-> corpus.files \cup {FileOf[new.leg]},
                     registered |-> corpus.registered \cup {l \in {new.leg} : new.registered},
                     literals |-> corpus.literals \cup {l \in {new.leg} : new.literal}]
    BY <1>2 DEF AddLeg
  <2>2. new.leg \in Legs /\ FileOf[new.leg] \notin Legs
    BY CutAssumption
  <2>3. corpus'.registered \subseteq Legs /\ corpus'.files \cap Legs = {}
    BY <2>1, <2>2 DEF CutInv
  <2>4. BundleStands'
    BY <1>2 DEF AddLeg, CutInv, BundleStands
  <2>5. QED
    BY <2>3, <2>4 DEF CutInv
<1>3. CASE HostMoves \/ ListHost \/ SupportEnds \/ UNCHANGED cutVars
  BY <1>3 DEF HostMoves, ListHost, SupportEnds, cutVars, CutInv, BundleStands
<1>4. QED
  BY <1>1, <1>2, <1>3 DEF CutNext

(* A gate passes when every check of it does; only the call that looks at  *)
(* no host may leave one open.                                             *)
LEMMA ExitsZeroFacts ==
  ASSUME NEW given, ExitsZero(given)
  PROVE  /\ \A checks \in HostGates(given) : Fails \notin checks
         /\ ~given.corpusOnly => \A checks \in HostGates(given) : checks = {Ok}
<1>1. \A checks \in HostGates(given) : GateVerdict(checks) # "FAIL"
  BY DEF ExitsZero
<1>2. ~given.corpusOnly => \A checks \in HostGates(given) : GateVerdict(checks) # "BLOCKED"
  BY DEF ExitsZero
<1>3. QED
  BY <1>1, <1>2 DEF GateVerdict, Ok, Fails

(* check-cut-gates.mjs: a scenario a run excuses for another leg is one    *)
(* that leg shows.                                                         *)
LEMMA ExcusedIsShown ==
  ASSUME CutInv, bundle # NoBundleYet, NEW file, Excused(file)
  PROVE  \E r \in bundle.rows : r.scenario = file /\ r.result \in Excusing
<1> DEFINE rows == {r \in bundle.rows : r.scenario = file}
           IsLast(r) == \A q \in rows : q.at <= r.at
<1>1. CASE rows = {}
  <2>1. FileRow(file) = RowOf(file, file, Failed, 0)
    BY <1>1 DEF FileRow
  <2>2. QED
    BY <2>1 DEF Excused, RowOf, Failed, Excusing
<1>2. CASE rows # {}
  <2> DEFINE ats == {r.at : r \in rows}
  <2>1. Cardinality(Legs) \in Nat /\ ats \subseteq 0 .. Cardinality(Legs) /\ ats # {}
    BY <1>2, CutAssumption, FS_CardinalityType DEF CutInv, BundleStands
  <2> HIDE DEF ats
  <2>2. PICK at \in ats : \A q \in ats : q <= at
    BY <2>1, GreatestOfNat
  <2>3. \E r \in rows : IsLast(r)
    BY <2>2 DEF ats
  <2>4. FileRow(file) = CHOOSE r \in rows : IsLast(r)
    BY <1>2 DEF FileRow
  <2> HIDE DEF rows, IsLast
  <2>5. FileRow(file) \in rows
    BY <2>3, <2>4
  <2>6. QED
    BY <2>5 DEF Excused, rows
<1>3. QED
  BY <1>1, <1>2

(* check-cut-gates.mjs: each gate that passes has in the bundle what it    *)
(* asks for.                                                               *)
LEMMA PassedIsEarned ==
  ASSUME CutInv, bundle # NoBundleYet, NEW given \in Calls, given.bundle = "read", ~given.corpusOnly, ExitsZero(given)
  PROVE  matrixRow /\ EarnedBy(bundle)
<1> DEFINE discovery == loadDiscovery(given)
<1>1. /\ Witness = Ok /\ suiteVersionCheck = Ok /\ NoneFailed = Ok /\ MatrixRow = Ok
      /\ \A scenario \in Scenarios : Coexistence(scenario, discovery) = Ok
  <2>1. HostGates(given) =
          {{Witness}, {Coexistence(scenario, discovery) : scenario \in Scenarios},
           {suiteVersionCheck, NoneFailed, MatrixRow, signatureCheck(discovery)}}
    BY DEF HostGates
  <2>2. \A checks \in HostGates(given) : checks = {Ok}
    BY ExitsZeroFacts
  <2> HIDE DEF discovery
  <2>3. /\ {Witness} = {Ok}
        /\ {Coexistence(scenario, discovery) : scenario \in Scenarios} = {Ok}
        /\ {suiteVersionCheck, NoneFailed, MatrixRow, signatureCheck(discovery)} = {Ok}
    BY <2>1, <2>2
  <2>4. QED
    BY <2>3
<1>2. FilesOfMajor(bundle.targetMajor) \subseteq bundle.ran
  <2>1. FilesOfMajor(bundle.targetMajor) \subseteq Witnessed
    BY <1>1 DEF suiteVersionCheck, Ok, Fails
  <2>2. QED
    BY <2>1 DEF Witnessed, CutInv, BundleStands
<1>3. ASSUME NEW id \in v2RequirementIds
      PROVE  \/ HasRow(id)
             \/ \E r \in bundle.rows : r.scenario = FileOf[id] /\ r.result \in Excusing
  BY <1>1, ExcusedIsShown DEF Witness, Ok, Fails
<1>4. \A r \in bundle.rows : r.result # Failed
  BY <1>1 DEF NoneFailed, Ok, Fails
<1>5. ASSUME NEW s \in Scenarios, NEW r \in bundle.rows, r.id \in s, r.result # Passed
      PROVE  s \in OverlapScoped /\ ~bundle.servedV1 /\ endOfSupport = "past"
  <2> DEFINE results == {q.result : q \in {p \in bundle.rows : p.id \in s}}
  <2>1. Coexistence(s, discovery) = Ok
    BY <1>1
  <2>2. r.result \in results /\ results # {Passed}
    BY <1>5
  <2>3. RetiredFirst(discovery) /\ s \in OverlapScoped
    <3>1. Coexistence(s, discovery) =
            CASE results = {Passed} -> Ok
              [] results = {} \/ Failed \in results -> Fails
              [] OTHER -> IF RetiredFirst(discovery) /\ s \in OverlapScoped
                            THEN IF RetirementWitnessed THEN Ok ELSE Fails
                            ELSE Blocked
      BY DEF Coexistence
    <3>2. results # {} /\ Failed \notin results
      BY <1>4, <2>2
    <3> HIDE DEF results, discovery
    <3>3. QED
      BY <2>1, <2>2, <3>1, <3>2 DEF Ok, Fails, Blocked
  <2>4. bundle.document # << >> /\ discovery.document = bundle.document[1]
    <3>1. discovery.state = "attested"
      BY <2>3 DEF RetiredFirst
    <3>2. given.discovery \in {"none", "missing", "read"}
      BY DEF Calls
    <3>3. CASE bundle.document # << >>
      BY <3>1, <3>3 DEF loadDiscovery
    <3>4. CASE bundle.document = << >>
      BY <3>1, <3>2, <3>4 DEF loadDiscovery
    <3>5. QED
      BY <3>3, <3>4
  <2>5. QED
    BY <2>3, <2>4 DEF RetiredFirst, CutInv, BundleStands
<1>6. matrixRow
  BY <1>1 DEF MatrixRow, Ok, Blocked
<1>7. QED
  BY <1>2, <1>3, <1>4, <1>5, <1>6 DEF EarnedBy

(* A cut the gates let through was earned by the bundle that stands.       *)
LEMMA CutInvIsEnough == CutInv => CutIsEarned
<1> SUFFICES ASSUME CutInv, NEW given \in Calls, ExitsZero(given)
             PROVE  /\ given.bundle # "unreadable"
                    /\ ~given.corpusOnly => given.bundle # "none"
                    /\ ~given.corpusOnly => bundle # NoBundleYet /\ matrixRow /\ EarnedBy(bundle)
  BY DEF CutIsEarned
<1>1. given.bundle \in {"none", "unreadable", "read"} /\ (given.bundle = "read" => bundle # NoBundleYet)
  BY DEF Calls
<1>2. given.bundle # "read" =>
        HostGates(given) = {{IF loadDiscovery(given).state = "error" THEN Fails ELSE loadBundle(given)}}
  BY DEF HostGates
<1>3. given.bundle # "unreadable"
  <2> SUFFICES ASSUME given.bundle = "unreadable" PROVE FALSE
    OBVIOUS
  <2>1. loadBundle(given) = Fails
    BY DEF loadBundle
  <2>2. HostGates(given) = {{Fails}}
    BY <1>2, <2>1
  <2>3. QED
    BY <2>2, ExitsZeroFacts
<1>4. ~given.corpusOnly => given.bundle # "none"
  <2> SUFFICES ASSUME ~given.corpusOnly, given.bundle = "none" PROVE FALSE
    OBVIOUS
  <2>1. loadBundle(given) = Blocked
    BY DEF loadBundle
  <2>2. CASE loadDiscovery(given).state = "error"
    <3>1. HostGates(given) = {{Fails}}
      BY <1>2, <2>2
    <3>2. QED
      BY <3>1, ExitsZeroFacts
  <2>3. CASE loadDiscovery(given).state # "error"
    <3>1. HostGates(given) = {{Blocked}}
      BY <1>2, <2>1, <2>3
    <3>2. QED
      BY <3>1, ExitsZeroFacts DEF Ok, Blocked
  <2>4. QED
    BY <2>2, <2>3
<1>5. QED
  BY <1>1, <1>3, <1>4, PassedIsEarned

(* check-cut-gates.mjs: however the world moves on while a bundle stands,  *)
(* for any corpus, legs, scenarios and hosts, a cut on it was earned.      *)
THEOREM CutsAreEarned == CutSpec => []CutIsEarned
  BY CutInvInit, CutInvStep, CutInvIsEnough, PTL DEF CutSpec
-----------------------------------------------------------------------------
(* The clock of the first major's support.                                 *)

(* generate-v1-eos-clock.mjs: a tree holds bundles, rows and overrides of  *)
(* the clock.                                                              *)
IsTree(t) ==
  t = [matrix |-> t.matrix, bundles |-> t.bundles, override |-> t.override, clock |-> t.clock]

(* An override is about a release that was cut.                            *)
HistoryTyped ==
  /\ \E S : history \in Seq(S)
  /\ Len(history) # 0
  /\ \A c \in 1 .. Len(history) : IsTree(history[c])
  /\ tag \in {Null} \cup (1 .. Len(history))
  /\ tag = Null => MainTree.override = Null

(* The inductive invariant of the clock.                                   *)
ClockInv == HistoryTyped /\ ClockIsSound

(* The lower of two indices is one of them and no higher than either.      *)
LEMMA MinFacts ==
  ASSUME NEW T, T \subseteq Nat, T # {}
  PROVE  Min(T) \in T /\ \A k \in T : Min(T) <= k
  BY LeastOfNat DEF Min

(* generate-v1-eos-clock.mjs: the anchor of a host is the oldest commit    *)
(* whose tree has its bundle.                                              *)
LEMMA AnchorFacts ==
  ASSUME NEW S, NEW commits \in Seq(S), NEW host
  PROVE  /\ AnchorFor(commits, host) \in {Null} \cup (1 .. Len(commits))
         /\ AnchorFor(commits, host) = Null <=> \A c \in 1 .. Len(commits) : ~Anchored(commits[c].bundles[host])
         /\ AnchorFor(commits, host) # Null =>
              /\ Anchored(commits[AnchorFor(commits, host)].bundles[host])
              /\ \A c \in 1 .. Len(commits) :
                   Anchored(commits[c].bundles[host]) => AnchorFor(commits, host) <= c
<1> DEFINE at == {c \in 1 .. Len(commits) : Anchored(commits[c].bundles[host])}
<1>1. AnchorFor(commits, host) = IF at = {} THEN Null ELSE Min(at)
  BY DEF AnchorFor
<1>2. at \subseteq Nat
  OBVIOUS
<1>3. at # {} => Min(at) \in at /\ \A c \in at : Min(at) <= c
  <2> HIDE DEF at
  <2>1. QED
    BY <1>2, MinFacts
<1>4. QED
  BY <1>1, <1>3, ClockAssumption

(* A merge takes no anchor away, and gives one to no host but at the head. *)
LEMMA AnchorsStay ==
  ASSUME NEW S, NEW commits \in Seq(S), NEW tree, NEW host
  PROVE  LET more == Append(commits, tree) IN
         /\ AnchorFor(commits, host) # Null => AnchorFor(more, host) = AnchorFor(commits, host)
         /\ AnchorFor(more, host) \in {AnchorFor(commits, host), Len(more)}
<1> DEFINE more == Append(commits, tree)
           a == AnchorFor(commits, host)
           b == AnchorFor(more, host)
<1>1. /\ more \in Seq(S \cup {tree}) /\ Len(more) = Len(commits) + 1 /\ Len(commits) \in Nat
      /\ \A c \in 1 .. Len(commits) : more[c] = commits[c]
      /\ commits \in Seq(S \cup {tree})
  OBVIOUS
<1> HIDE DEF more
<1>2. /\ a \in {Null} \cup (1 .. Len(commits))
      /\ a = Null <=> \A c \in 1 .. Len(commits) : ~Anchored(commits[c].bundles[host])
      /\ a # Null => /\ Anchored(commits[a].bundles[host])
                     /\ \A c \in 1 .. Len(commits) : Anchored(commits[c].bundles[host]) => a <= c
  BY AnchorFacts
<1>3. /\ b \in {Null} \cup (1 .. Len(more))
      /\ b = Null <=> \A c \in 1 .. Len(more) : ~Anchored(more[c].bundles[host])
      /\ b # Null => /\ Anchored(more[b].bundles[host])
                     /\ \A c \in 1 .. Len(more) : Anchored(more[c].bundles[host]) => b <= c
  BY <1>1, AnchorFacts
<1> HIDE DEF a, b
<1>4. Null \notin Nat
  BY ClockAssumption
<1>5. CASE a # Null
  <2>1. a \in 1 .. Len(commits) /\ a \in 1 .. Len(more) /\ Anchored(more[a].bundles[host])
    BY <1>1, <1>2, <1>5
  <2>2. b \in 1 .. Len(more) /\ b <= a
    BY <1>3, <2>1
  <2>3. b \in 1 .. Len(commits) /\ Anchored(commits[b].bundles[host])
    BY <1>1, <1>3, <1>4, <2>1, <2>2
  <2>4. a <= b
    BY <1>2, <1>5, <2>3
  <2>5. a = b
    BY <2>1, <2>2, <2>4
  <2>6. QED
    BY <2>5, <1>5 DEF a, b, more
<1>6. CASE a = Null /\ b # Null
  <2>1. b \in 1 .. Len(more) /\ b \notin 1 .. Len(commits)
    BY <1>1, <1>2, <1>3, <1>6
  <2>2. b = Len(more)
    BY <1>1, <2>1
  <2>3. QED
    BY <2>2, <1>6 DEF a, b, more
<1>7. CASE a = Null /\ b = Null
  BY <1>7 DEF a, b, more
<1>8. QED
  BY <1>5, <1>6, <1>7

(* The rows of a tree, one commit later.                                   *)
LEMMA RowsStay ==
  ASSUME NEW S, NEW commits \in Seq(S), NEW tree
  PROVE  LET rows == HostRows(commits, tree)
             then == HostRows(Append(commits, tree), tree)
         IN  /\ DOMAIN rows = tree.matrix /\ DOMAIN then = tree.matrix
             /\ \A h \in tree.matrix :
                  then[h] = rows[h] \/ (rows[h].anchor = Null /\ then[h].anchor = Len(commits) + 1)
             /\ (\A h \in tree.matrix : then[h] = rows[h]) => then = rows
<1> DEFINE rows == HostRows(commits, tree)
           then == HostRows(Append(commits, tree), tree)
<1>1. /\ rows = [h \in tree.matrix |->
                  [present |-> tree.bundles[h] # "absent", latest |-> tree.bundles[h],
                   anchor |-> IF tree.bundles[h] = "absent" THEN Null ELSE AnchorFor(commits, h)]]
      /\ then = [h \in tree.matrix |->
                  [present |-> tree.bundles[h] # "absent", latest |-> tree.bundles[h],
                   anchor |-> IF tree.bundles[h] = "absent" THEN Null ELSE AnchorFor(Append(commits, tree), h)]]
  BY DEF HostRows
<1>2. Len(Append(commits, tree)) = Len(commits) + 1
  OBVIOUS
<1>3. ASSUME NEW h \in tree.matrix
      PROVE  then[h] = rows[h] \/ (rows[h].anchor = Null /\ then[h].anchor = Len(commits) + 1)
  <2>1. /\ AnchorFor(commits, h) # Null => AnchorFor(Append(commits, tree), h) = AnchorFor(commits, h)
        /\ AnchorFor(Append(commits, tree), h) \in {AnchorFor(commits, h), Len(commits) + 1}
    BY <1>2, AnchorsStay
  <2>2. QED
    BY <1>1, <2>1
<1>4. (\A h \in tree.matrix : then[h] = rows[h]) => then = rows
  BY <1>1
<1>5. QED
  BY <1>1, <1>3, <1>4

-----------------------------------------------------------------------------
(* The history starts with one commit, which counts no host.               *)
LEMMA ClockInvInit == ClockInit => ClockInv
<1> SUFFICES ASSUME ClockInit PROVE ClockInv
  OBVIOUS
<1> DEFINE tree == [matrix |-> {}, bundles |-> NoBundle, override |-> Null]
           clock == Compute(<< >>, tree, Null)
           first == [matrix |-> {}, bundles |-> NoBundle, override |-> Null, clock |-> clock]
<1>1. tag = Null /\ history = <<first>>
  BY DEF ClockInit
<1>2. history \in Seq({first}) /\ Len(history) = 1 /\ history[1] = first /\ MainTree = first
  BY <1>1 DEF MainTree
<1>3. clock = [hosts |-> HostRows(<< >>, tree), legA |-> LegA(HostRows(<< >>, tree)),
               legB |-> LegB(HostRows(<< >>, tree), Null),
               end |-> EndOfSupport(LegA(HostRows(<< >>, tree)), LegB(HostRows(<< >>, tree), Null))]
  BY DEF Compute
<1> HIDE DEF clock
<1>4. DOMAIN HostRows(<< >>, tree) = {} /\ HostRows(<< >>, tree) = HostRows(history, first)
  BY DEF HostRows
<1>5. clock.end = Null
  BY <1>3, <1>4 DEF LegA, EndOfSupport
<1>6. clock = Compute(history, first, tag)
  BY <1>1, <1>3, <1>4 DEF Compute
<1>7. HeadIsGreen
  BY <1>2, <1>6 DEF HeadIsGreen, Check, Computes
<1>8. RecordedAnchorsStand
  BY <1>2, <1>3, <1>4 DEF RecordedAnchorsStand
<1>9. DateWaitsForAll
  BY <1>2, <1>5 DEF DateWaitsForAll
<1>10. HistoryTyped
  <2>1. IsTree(first)
    BY DEF IsTree
  <2>2. \A c \in 1 .. Len(history) : IsTree(history[c])
    <3>1. \A c \in 1 .. Len(history) : history[c] = first
      <4> HIDE DEF first
      <4>1. QED
        BY <1>2
    <3> HIDE DEF first
    <3>2. QED
      BY <2>1, <3>1
  <2>3. MainTree.override = Null
    BY <1>2
  <2>4. tag = Null /\ \E S : history \in Seq(S)
    <3>1. history \in Seq({first})
      BY <1>2
    <3>2. QED
      BY <1>1, <3>1
  <2>5. Len(history) # 0
    BY <1>2
  <2>6. QED
    BY <2>2, <2>3, <2>4, <2>5 DEF HistoryTyped
<1>11. QED
  BY <1>7, <1>8, <1>9, <1>10 DEF ClockInv, ClockIsSound

(* A contributor who edits a tree of the clock leaves a tree.              *)
LEMMA EditedIsTree ==
  ASSUME NEW old, IsTree(old), NEW tree \in Edited(old), NEW clock
  PROVE  /\ IsTree(tree) /\ IsTree([tree EXCEPT !.clock = clock])
         /\ [tree EXCEPT !.clock = clock].override = tree.override
         /\ [tree EXCEPT !.clock = clock].matrix = tree.matrix
         /\ [tree EXCEPT !.clock = clock].bundles = tree.bundles
         /\ [tree EXCEPT !.clock = clock].clock = clock
         /\ tag = Null => tree.override = old.override
<1>1. \/ tree = old
      \/ \E h \in Counted, b \in Bundles : tree = WithBundle(old, h, b)
      \/ \E h \in Counted : tree = WithRow(old, h)
      \/ tag # Null /\ \E o \in Overrides : tree = WithOverride(old, o)
      \/ \E h \in Counted, b \in Bundles : tree = WithRow(WithBundle(old, h, b), h)
  BY DEF Edited
<1> USE DEF IsTree
<1>2. ASSUME NEW any, IsTree(any), NEW h, NEW b, NEW o
      PROVE  /\ IsTree(WithBundle(any, h, b)) /\ WithBundle(any, h, b).override = any.override
             /\ IsTree(WithRow(any, h)) /\ WithRow(any, h).override = any.override
             /\ IsTree(WithOverride(any, o))
  <2>1. PICK m, bs, ov, cl : any = [matrix |-> m, bundles |-> bs, override |-> ov, clock |-> cl]
    BY <1>2
  <2>2. WithBundle(any, h, b) = [matrix |-> m, bundles |-> [bs EXCEPT ![h] = b], override |-> ov, clock |-> cl]
    BY <2>1 DEF WithBundle
  <2>3. WithRow(any, h) = [matrix |-> m \cup {h}, bundles |-> bs, override |-> ov, clock |-> cl]
    BY <2>1 DEF WithRow
  <2>4. WithOverride(any, o) = [matrix |-> m, bundles |-> bs, override |-> o, clock |-> cl]
    BY <2>1 DEF WithOverride
  <2>5. QED
    BY <2>1, <2>2, <2>3, <2>4
<1> HIDE DEF IsTree
<1>3. IsTree(tree) /\ (tag = Null => tree.override = old.override)
  BY <1>1, <1>2
<1>4. PICK m, b, o, c : tree = [matrix |-> m, bundles |-> b, override |-> o, clock |-> c]
  BY <1>3 DEF IsTree
<1>5. [tree EXCEPT !.clock = clock] = [matrix |-> m, bundles |-> b, override |-> o, clock |-> clock]
  BY <1>4
<1>6. QED
  BY <1>3, <1>4, <1>5 DEF IsTree

(* A date that no RFC set waits for every counted host of its own rows.    *)
LEMMA DateOfRows ==
  ASSUME NEW n \in Nat, NEW rows, NEW released \in {Null} \cup Nat,
         \A h \in DOMAIN rows : rows[h].anchor \in {Null} \cup (1 .. n),
         EndOfSupport(LegA(rows), LegB(rows, released)) # Null
  PROVE  \A h \in DOMAIN rows :
           /\ rows[h].anchor # Null
           /\ EndOfSupport(LegA(rows), LegB(rows, released)) >= rows[h].anchor + DAYS_A
<1> DEFINE legA == LegA(rows)
           legB == LegB(rows, released)
           end == EndOfSupport(legA, legB)
           at == {rows[h].anchor : h \in DOMAIN rows}
<1>1. legA # Null
  BY DEF EndOfSupport, LegB
<1>2. /\ DOMAIN rows # {} /\ \A h \in DOMAIN rows : rows[h].anchor \in 1 .. n
      /\ legA = Max(at) + DAYS_A
  BY <1>1 DEF LegA
<1>3. at \subseteq 0 .. n /\ at # {} /\ \A h \in DOMAIN rows : rows[h].anchor \in at
  BY <1>2
<1>4. Max(at) \in at /\ \A k \in at : k <= Max(at)
  <2> HIDE DEF at
  <2>1. \E k \in at : \A m \in at : m <= k
    BY <1>3, GreatestOfNat
  <2>2. QED
    BY <2>1 DEF Max
<1>5. Max(at) \in Nat
  BY <1>3, <1>4
<1>6. legA \in Nat /\ \A h \in DOMAIN rows : legA >= rows[h].anchor + DAYS_A
  <2> HIDE DEF legA, at
  <2>1. QED
    BY <1>2, <1>3, <1>4, <1>5, ClockAssumption
<1>7. legB.applies \in BOOLEAN /\ (legB.applies = TRUE => legB.notBefore \in Nat)
  <2>1. ASSUME released = Null PROVE FALSE
    <3>1. legB = [applies |-> Null, notBefore |-> Null]
      BY <2>1 DEF LegB
    <3>2. EndOfSupport(legA, legB) = Null
      <4>1. legB.applies = Null /\ Null # FALSE /\ Null # TRUE
        <5>1. Null # FALSE /\ Null # TRUE
          BY ClockAssumption, Zenon
        <5> HIDE DEF legB
        <5>2. legB.applies = Null
          BY <3>1, Zenon
        <5>3. QED
          BY <5>1, <5>2, Zenon
      <4> HIDE DEF legA, legB
      <4>2. QED
        BY <4>1, Zenon DEF EndOfSupport
    <3>3. QED
      BY <3>2
  <2>2. \/ legB = [applies |-> TRUE, notBefore |-> released + MONTHS_B]
        \/ legB = [applies |-> FALSE, notBefore |-> Null]
    BY <2>1 DEF LegB
  <2>3. released + MONTHS_B \in Nat
    BY <2>1, ClockAssumption
  <2> HIDE DEF legB
  <2>4. (legB.applies = TRUE \/ legB.applies = FALSE) /\ (legB.applies = TRUE => legB.notBefore = released + MONTHS_B)
    <3>1. CASE legB = [applies |-> TRUE, notBefore |-> released + MONTHS_B]
      <4>1. legB.applies = TRUE /\ legB.notBefore = released + MONTHS_B
        BY <3>1, Zenon
      <4>2. QED
        BY <4>1, Zenon
    <3>2. CASE legB = [applies |-> FALSE, notBefore |-> Null]
      <4>1. legB.applies = FALSE
        BY <3>2, Zenon
      <4>2. legB.applies # TRUE
        BY <4>1, Zenon
      <4>3. QED
        BY <4>1, <4>2, Zenon
    <3>3. QED
      BY <2>2, <3>1, <3>2, Zenon
  <2>5. QED
    BY <2>3, <2>4, Zenon
<1> HIDE DEF legA, legB
<1>8. legB.applies = TRUE => Max({legA, legB.notBefore}) \in Nat /\ Max({legA, legB.notBefore}) >= legA
  <2>1. SUFFICES ASSUME NEW k \in Nat, NEW m \in Nat
                 PROVE  Max({k, m}) \in Nat /\ Max({k, m}) >= k
    BY <1>6, <1>7
  <2>2. QED
    BY DEF Max
<1>9. end \in Nat /\ end >= legA
  BY <1>1, <1>6, <1>7, <1>8, ClockAssumption DEF EndOfSupport
<1>10. ASSUME NEW h \in DOMAIN rows PROVE rows[h].anchor # Null /\ end >= rows[h].anchor + DAYS_A
  <2>1. rows[h].anchor \in Nat /\ rows[h].anchor \in 1 .. n
    BY <1>2
  <2> HIDE DEF end
  <2>2. QED
    BY <2>1, <1>6, <1>9, ClockAssumption
<1>11. QED
  BY <1>10 DEF legA, legB

(* What a merge puts on main: the tree was checked on top of the main it   *)
(* was merged onto, whose head is no commit of it.                         *)
LEMMA MergedClock ==
  ASSUME HistoryTyped, NEW tree, Check(history, tree, Elsewhere, tag)
  PROVE  tree.clock = Compute(history, tree, tag) /\ Computes(history, tree, tag)
<1> DEFINE result == Compute(history, tree, tag)
<1>1. PICK S : history \in Seq(S)
  BY DEF HistoryTyped
<1>2. tag # 0 /\ Null # 0
  BY <1>1, ClockAssumption DEF HistoryTyped
<1>3. \A h \in DOMAIN result.hosts : result.hosts[h].anchor # 0
  <2>1. result.hosts = HostRows(history, tree)
    BY DEF Compute
  <2>2. \A h \in tree.matrix : AnchorFor(history, h) # 0
    BY <1>1, <1>2, AnchorFacts
  <2>3. QED
    BY <1>2, <2>1, <2>2 DEF HostRows
<1>4. ~AnchorPending(tree.clock, result, 0)
  <2>1. \A h \in NewlyAnchored(tree.clock, result) : h \in DOMAIN result.hosts
    BY DEF NewlyAnchored
  <2>2. QED
    BY <1>3, <2>1 DEF AnchorPending
<1>5. ~LegBPending(tree.clock, result, 0, tag)
  BY <1>2 DEF LegBPending
<1>6. QED
  BY <1>4, <1>5 DEF Check, Elsewhere

(* generate-v1-eos-clock.mjs --check: a pull request that lands on main    *)
(* leaves every date it has with its reason.                               *)
LEMMA ClockInvLand == ASSUME ClockInv, Land PROVE ClockInv'
<1> DEFINE n == Len(history)
<1>1. PICK S : history \in Seq(S)
  BY DEF ClockInv, HistoryTyped
<1>2. n \in Nat /\ n # 0 /\ IsTree(MainTree) /\ tag \in {Null} \cup (1 .. n)
  BY <1>1 DEF ClockInv, HistoryTyped, MainTree
<1>3. PICK tree : /\ IsTree(tree) /\ (tag = Null => tree.override = Null) /\ MergePull(tree)
  <2>1. PICK edit \in Edited(MainTree) :
          MergePull(edit) \/ MergePull([edit EXCEPT !.clock = Compute(history, edit, tag)])
    BY DEF Land
  <2>2. /\ IsTree(edit) /\ (tag = Null => edit.override = MainTree.override)
        /\ IsTree([edit EXCEPT !.clock = Compute(history, edit, tag)])
        /\ [edit EXCEPT !.clock = Compute(history, edit, tag)].override = edit.override
    BY <1>2, EditedIsTree
  <2>3. tag = Null => MainTree.override = Null
    BY DEF ClockInv, HistoryTyped
  <2>4. QED
    BY <2>1, <2>2, <2>3
<1>4. /\ history' = Append(history, tree) /\ tag' = tag
      /\ Check(history, tree, Elsewhere, tag)
  BY <1>3 DEF MergePull
<1>5. /\ history' \in Seq(S \cup {tree}) /\ Len(history') = n + 1 /\ history'[n + 1] = tree
      /\ \A c \in 1 .. n : history'[c] = history[c]
  BY <1>1, <1>4
<1>6. MainTree' = tree
  BY <1>5 DEF MainTree
<1>7. HistoryTyped'
  <2>1. \A c \in 1 .. Len(history') : IsTree(history'[c])
    <3>1. \A c \in 1 .. n : IsTree(history'[c])
      BY <1>5 DEF ClockInv, HistoryTyped
    <3>2. \A c \in 1 .. Len(history') : c \in 1 .. n \/ c = n + 1
      BY <1>2, <1>5
    <3>3. QED
      BY <1>3, <1>5, <3>1, <3>2
  <2>2. tag' \in {Null} \cup (1 .. Len(history'))
    BY <1>2, <1>4, <1>5
  <2>3. Len(history') # 0
    BY <1>2, <1>5
  <2>4. tag' = Null => MainTree'.override = Null
    BY <1>3, <1>4, <1>6
  <2>5. \E T : history' \in Seq(T)
    BY <1>5
  <2>6. QED
    BY <2>1, <2>2, <2>3, <2>4, <2>5 DEF HistoryTyped
<1> DEFINE rows == HostRows(history, tree)
           then == HostRows(history', tree)
<1>8. /\ tree.clock = Compute(history, tree, tag) /\ Computes(history, tree, tag)
  BY <1>4, MergedClock DEF ClockInv
<1>9. /\ tree.clock.hosts = rows /\ tree.clock.legA = LegA(rows)
      /\ tree.clock.end = IF tree.override = Null THEN EndOfSupport(LegA(rows), LegB(rows, tag))
                                                  ELSE tree.override.date
  BY <1>8 DEF Compute
<1>10. /\ DOMAIN rows = tree.matrix /\ DOMAIN then = tree.matrix
       /\ \A h \in tree.matrix :
            then[h] = rows[h] \/ (rows[h].anchor = Null /\ then[h].anchor = n + 1)
       /\ (\A h \in tree.matrix : then[h] = rows[h]) => then = rows
  BY <1>1, <1>4, RowsStay
<1>11. \A h \in tree.matrix : rows[h].anchor \in {Null, AnchorFor(history, h)}
  BY DEF HostRows
<1>12. \A h : /\ AnchorFor(history, h) \in {Null} \cup (1 .. n)
              /\ AnchorFor(history, h) # Null => AnchorFor(history', h) = AnchorFor(history, h)
  BY <1>1, <1>4, AnchorFacts, AnchorsStay
<1>13. HeadIsGreen'
  <2>1. Computes(history', tree, tag)
    <3>1. CASE tree.override = Null
      BY <3>1 DEF Computes
    <3>2. CASE tree.override # Null
      <4>1. \A h \in tree.matrix : rows[h].anchor # Null
        BY <1>8, <1>10, <3>2 DEF Computes, Honourable
      <4>2. then = rows
        BY <1>10, <4>1
      <4>3. QED
        BY <1>8, <4>2 DEF Computes
    <3>3. QED
      BY <3>1, <3>2
  <2> DEFINE result == Compute(history', tree, tag)
  <2>2. result.hosts = then
    BY DEF Compute
  <2>3. tree.clock = result \/ AnchorPending(tree.clock, result, n + 1)
    <3>1. CASE then = rows
      BY <1>8, <3>1 DEF Compute
    <3>2. CASE then # rows
      <4>1. Null # n + 1
        BY <1>2, ClockAssumption
      <4>2. NewlyAnchored(tree.clock, result)
              = {h \in tree.matrix : then[h].anchor # Null /\ rows[h].anchor = Null}
        BY <1>9, <1>10, <2>2 DEF NewlyAnchored
      <4> HIDE DEF rows, then, result
      <4>3. PICK h \in tree.matrix : then[h] # rows[h]
        BY <1>10, <3>2
      <4>4. h \in NewlyAnchored(tree.clock, result)
        BY <1>10, <4>1, <4>2, <4>3
      <4>5. \A k \in tree.matrix :
              IF k \in NewlyAnchored(tree.clock, result) THEN then[k].anchor = n + 1 ELSE then[k] = rows[k]
        BY <1>10, <4>1, <4>2
      <4>6. QED
        BY <1>9, <1>10, <2>2, <4>4, <4>5 DEF AnchorPending
    <3>3. QED
      BY <3>1, <3>2
  <2>4. Check(history', tree, n + 1, tag)
    BY <2>1, <2>3 DEF Check
  <2>5. QED
    BY <1>4, <1>5, <1>6, <2>4 DEF HeadIsGreen
<1>14. RecordedAnchorsStand'
  <2>1. SUFFICES ASSUME NEW c \in 1 .. n + 1, NEW h \in DOMAIN history'[c].clock.hosts
                 PROVE  history'[c].clock.hosts[h].anchor \in {Null, AnchorFor(history', h)}
    BY <1>5 DEF RecordedAnchorsStand
  <2>2. history'[c].clock.hosts[h].anchor \in {Null, AnchorFor(history, h)}
    <3>1. CASE c \in 1 .. n
      BY <1>5, <3>1 DEF ClockInv, ClockIsSound, RecordedAnchorsStand
    <3>2. CASE c = n + 1
      BY <1>5, <1>9, <1>10, <1>11, <3>2
    <3>3. QED
      BY <1>2, <3>1, <3>2
  <2>3. QED
    BY <1>12, <2>2
<1>15. DateWaitsForAll'
  <2>1. SUFFICES ASSUME tree.clock.end # Null, tree.override = Null, NEW h \in tree.matrix
                 PROVE  tree.clock.end >= AnchorFor(history', h) + DAYS_A
    BY <1>6 DEF DateWaitsForAll
  <2>2. tree.clock.end = EndOfSupport(LegA(rows), LegB(rows, tag))
    BY <1>9, <2>1
  <2>3. \A k \in DOMAIN rows : rows[k].anchor \in {Null} \cup (1 .. n)
    BY <1>10, <1>11, <1>12
  <2>4. tag \in {Null} \cup Nat
    BY <1>2
  <2>5. rows[h].anchor # Null /\ tree.clock.end >= rows[h].anchor + DAYS_A
    <3> HIDE DEF rows
    <3>1. QED
      BY <1>2, <1>10, <2>1, <2>2, <2>3, <2>4, DateOfRows
  <2>6. rows[h].anchor = AnchorFor(history', h)
    BY <1>11, <1>12, <2>5
  <2>7. QED
    BY <2>5, <2>6
<1>16. QED
  BY <1>7, <1>13, <1>14, <1>15 DEF ClockInv, ClockIsSound

(* A release that is cut takes no date and no host away.                   *)
LEMMA ClockInvCut == ASSUME ClockInv, CutRelease PROVE ClockInv'
<1> DEFINE n == Len(history)
           clock == MainTree.clock
           old == Compute(history, MainTree, Null)
           new == Compute(history, MainTree, n)
<1>1. tag = Null /\ tag' = n /\ history' = history /\ MainTree' = MainTree
  BY DEF CutRelease, MainTree
<1>2. n \in Nat /\ n # 0 /\ n # Null /\ MainTree.override = Null
  BY <1>1, ClockAssumption DEF ClockInv, HistoryTyped
<1>3. Check(history, MainTree, n, Null)
  BY <1>1 DEF ClockInv, ClockIsSound, HeadIsGreen
<1>4. new.hosts = old.hosts /\ new.legA = old.legA
  BY DEF Compute
<1>5. clock = old \/ AnchorPending(clock, old, n)
  BY <1>2, <1>3 DEF Check, LegBPending
<1>6. LegBPending(clock, new, n, n) \/ AnchorPending(clock, new, n)
  <2>1. CASE clock = old
    BY <1>4, <2>1 DEF LegBPending
  <2>2. CASE AnchorPending(clock, old, n)
    <3> HIDE DEF old, new
    <3>1. NewlyAnchored(clock, new) = NewlyAnchored(clock, old)
      BY <1>4 DEF NewlyAnchored
    <3>2. QED
      BY <1>4, <2>2, <3>1 DEF AnchorPending
  <2>3. QED
    BY <1>5, <2>1, <2>2
<1>7. Check(history, MainTree, n, n)
  BY <1>2, <1>6 DEF Check, Computes
<1>8. HeadIsGreen'
  BY <1>1, <1>7 DEF HeadIsGreen
<1>9. RecordedAnchorsStand' /\ DateWaitsForAll'
  BY <1>1 DEF ClockInv, ClockIsSound, RecordedAnchorsStand, DateWaitsForAll
<1>10. HistoryTyped'
  BY <1>1, <1>2 DEF ClockInv, HistoryTyped
<1>11. QED
  BY <1>8, <1>9, <1>10 DEF ClockInv, ClockIsSound

(* generate-v1-eos-clock.mjs: for any hosts, bundles and overrides and any *)
(* order of merges, main passes its own check, every anchor on record is   *)
(* the first commit that witnessed its host, and a date that no RFC set    *)
(* waits for every counted host.                                           *)
THEOREM ClockNeedsNoHand == ClockSpec => []ClockIsSound
<1>1. ClockInv /\ [ClockNext]_clockVars => ClockInv'
  <2>1. ClockInv /\ Land => ClockInv'
    BY ClockInvLand
  <2>2. ClockInv /\ CutRelease => ClockInv'
    BY ClockInvCut
  <2>3. ClockInv /\ UNCHANGED clockVars => ClockInv'
    <3>1. ASSUME ClockInv, history' = history, tag' = tag PROVE ClockInv'
      <4>1. MainTree' = MainTree
        BY <3>1 DEF MainTree
      <4>2. HistoryTyped'
        BY <3>1, <4>1 DEF ClockInv, HistoryTyped
      <4>3. HeadIsGreen' /\ RecordedAnchorsStand' /\ DateWaitsForAll'
        BY <3>1, <4>1 DEF ClockInv, ClockIsSound, HeadIsGreen, RecordedAnchorsStand, DateWaitsForAll
      <4>4. QED
        BY <4>2, <4>3 DEF ClockInv, ClockIsSound
    <3>2. QED
      BY <3>1 DEF clockVars
  <2>4. QED
    BY <2>1, <2>2, <2>3 DEF ClockNext
<1>2. ClockInv => ClockIsSound
  BY DEF ClockInv
<1>3. QED
  BY ClockInvInit, <1>1, <1>2, PTL DEF ClockSpec
-----------------------------------------------------------------------------
(* Prefixes.                                                               *)
LEMMA PrefixOf ==
  ASSUME NEW S, NEW a \in Seq(S), NEW b \in Seq(S)
  PROVE  IsPrefix(a, b) <=> Len(a) <= Len(b) /\ \A i \in 1 .. Len(a) : a[i] = b[i]
<1>1. Len(a) \in Nat /\ Len(b) \in Nat /\ DOMAIN a = 1 .. Len(a)
  OBVIOUS
<1>2. SubSeq(a, 1, Len(a)) = a
  BY <1>1
<1>3. ASSUME Len(a) <= Len(b)
      PROVE  SubSeq(b, 1, Len(a)) = [i \in 1 .. Len(a) |-> b[i]]
  BY <1>1, <1>3
<1>4. a = [i \in 1 .. Len(a) |-> a[i]]
  BY <1>1
<1>5. QED
  BY <1>1, <1>2, <1>3, <1>4 DEF IsPrefix

(* A pointer under a pointer under a third is under the third.             *)
LEMMA PrefixTransitive ==
  ASSUME NEW S, NEW a \in Seq(S), NEW b \in Seq(S), NEW c \in Seq(S), IsPrefix(a, b), IsPrefix(b, c)
  PROVE  IsPrefix(a, c)
<1>1. /\ Len(a) \in Nat /\ Len(b) \in Nat /\ Len(c) \in Nat
      /\ Len(a) <= Len(b) /\ Len(b) <= Len(c)
      /\ \A i \in 1 .. Len(a) : a[i] = b[i]
      /\ \A i \in 1 .. Len(b) : b[i] = c[i]
  BY PrefixOf
<1>2. \A i \in 1 .. Len(a) : i \in 1 .. Len(b)
  BY <1>1
<1>3. QED
  BY <1>1, <1>2, PrefixOf

(* A pointer strictly under another is the longer of the two.              *)
LEMMA StrictPrefixShorter ==
  ASSUME NEW S, NEW a \in Seq(S), NEW b \in Seq(S), IsStrictPrefix(a, b)
  PROVE  IsPrefix(a, b) /\ Len(a) < Len(b)
<1>1. /\ IsPrefix(a, b) /\ a # b
      /\ Len(a) \in Nat /\ Len(b) \in Nat /\ Len(a) <= Len(b) /\ \A i \in 1 .. Len(a) : a[i] = b[i]
  BY PrefixOf DEF IsStrictPrefix
<1>2. Len(a) # Len(b)
  <2>1. SUFFICES ASSUME Len(a) = Len(b) PROVE a = b
    BY <1>1
  <2>2. DOMAIN a = 1 .. Len(a) /\ DOMAIN b = 1 .. Len(a)
    BY <2>1
  <2>3. QED
    BY <1>1, <2>1, <2>2
<1>3. QED
  BY <1>1, <1>2

-----------------------------------------------------------------------------
(* The tuples of a tree.                                                   *)
LEMMA PointersAreSequences ==
  ASSUME NEW T, WellFormed(T), NEW t \in T
  PROVE  PointerOf(t) \in Seq(STRING)
<1>1. t.site \in Seq(STRING) /\ t.value \in STRING
  BY DEF WellFormed
<1>2. Append(t.site, t.value) \in Seq(STRING)
  BY <1>1
<1>3. QED
  BY <1>1, <1>2 DEF PointerOf

(* Tuples of two walks are tuples together.                                *)
LEMMA UnionWellFormed ==
  ASSUME NEW T, NEW U, WellFormed(T), WellFormed(U)
  PROVE  WellFormed(T \cup U)
  BY DEF WellFormed

(* generate-v2-surface-baseline.mjs: the walk of a tree that is well       *)
(* formed gives tuples that are.                                           *)
LEMMA CensusWellFormed ==
  ASSUME NEW schema, WellFormed(UNION Branches(schema))
  PROVE  WellFormed(EnumerateTree(schema))
<1>1. EnumerateTree(schema) \subseteq UNION Branches(schema)
  BY DEF EnumerateTree
<1>2. \A t \in UNION Branches(schema) : t.kind = "property" => t \in EnumerateTree(schema)
  BY DEF EnumerateTree, RESTRICTION_KINDS
<1>3. QED
  BY <1>1, <1>2 DEF WellFormed

-----------------------------------------------------------------------------
(* check-v2-surface-monotone.mjs: what a licence says of the row that      *)
(* grants it.                                                              *)
LEMMA LicenceFacts ==
  ASSUME NEW m, m.corrections \subseteq Corrections, NEW l \in Licences(m)
  PROVE  /\ \/ \E c \in m.corrections : l = c.pointer
            \/ l = [path |-> Facet, member |-> NoMember] /\ Due(m)
         /\ l.path \in Seq(STRING)
         /\ l.member = NoMember => ~IsPrefix(l.path, Replacement)
<1> DEFINE one == {[path |-> Facet, member |-> NoMember] : r \in {m.row} \cap (IF Due(m) THEN Rows ELSE {})}
<1>1. l \in {c.pointer : c \in m.corrections} \/ l \in one
  BY DEF Licences
<1>2. l \in one => l = [path |-> Facet, member |-> NoMember] /\ Due(m)
  OBVIOUS
<1>3. l \in {c.pointer : c \in m.corrections} => \E c \in m.corrections : l = c.pointer
  OBVIOUS
<1> HIDE DEF one
<1>4. \/ \E c \in m.corrections : l = c.pointer
      \/ l = [path |-> Facet, member |-> NoMember] /\ Due(m)
  BY <1>1, <1>2, <1>3
<1>5. CASE \E c \in m.corrections : l = c.pointer
  BY <1>4, <1>5, RetirementAssumption
<1>6. CASE l = [path |-> Facet, member |-> NoMember]
  BY <1>4, <1>6, RetirementAssumption
<1>7. QED
  BY <1>4, <1>5, <1>6

(* A tuple that is gone is licensed: a property under one that is gone is  *)
(* licensed with the outermost of them.                                    *)
LEMMA RemovedIsLicensed ==
  ASSUME NEW m, WellFormed(Before(m)), CheckV2SurfaceMonotone(m), m.corrections \subseteq Corrections,
         NEW t \in RemovedTuples(m), t.kind \in UNION_KINDS
  PROVE  LicensedBy(m, t)
<1> DEFINE above == {p \in RemovedTuples(m) : p.kind = "property" /\ IsPrefix(PointerOf(p), PointerOf(t))}
           lengths == {Len(PointerOf(p)) : p \in above}
<1>1. \A p \in RemovedTuples(m) : p \in Before(m) /\ PointerOf(p) \in Seq(STRING)
  BY PointersAreSequences DEF RemovedTuples
<1>2. CASE ~UnderARemovedProperty(m, t)
  BY <1>2 DEF CheckV2SurfaceMonotone
<1>3. CASE UnderARemovedProperty(m, t)
  <2>1. PICK p \in RemovedTuples(m) : p.kind = "property" /\ IsStrictPrefix(PointerOf(p), PointerOf(t))
    BY <1>3 DEF UnderARemovedProperty
  <2>2. p \in above
    BY <2>1 DEF IsStrictPrefix
  <2>3. lengths \subseteq Nat /\ lengths # {}
    <3>1. \A q \in above : Len(PointerOf(q)) \in Nat
      BY <1>1
    <3>2. Len(PointerOf(p)) \in lengths
      BY <2>2
    <3> HIDE DEF above
    <3>3. QED
      BY <3>1, <3>2
  <2>4. PICK n \in lengths : \A k \in lengths : n <= k
    <3> HIDE DEF lengths
    <3>1. QED
      BY <2>3, LeastOfNat
  <2>5. PICK q \in above : \A r \in above : Len(PointerOf(q)) <= Len(PointerOf(r))
    BY <2>4
  <2>6. /\ q \in RemovedTuples(m) /\ q.kind = "property" /\ IsPrefix(PointerOf(q), PointerOf(t))
        /\ PointerOf(q) \in Seq(STRING) /\ PointerOf(t) \in Seq(STRING)
    BY <1>1
  <2>7. ~UnderARemovedProperty(m, q)
    <3>1. SUFFICES ASSUME NEW r \in RemovedTuples(m), r.kind = "property",
                          IsStrictPrefix(PointerOf(r), PointerOf(q))
                   PROVE  FALSE
      BY DEF UnderARemovedProperty
    <3>2. PointerOf(r) \in Seq(STRING)
      BY <1>1
    <3>3. IsPrefix(PointerOf(r), PointerOf(q)) /\ Len(PointerOf(r)) < Len(PointerOf(q))
      BY <2>6, <3>1, <3>2, StrictPrefixShorter
    <3>4. IsPrefix(PointerOf(r), PointerOf(t))
      BY <2>6, <3>2, <3>3, PrefixTransitive
    <3>5. r \in above
      BY <3>1, <3>4
    <3>6. Len(PointerOf(q)) <= Len(PointerOf(r)) /\ Len(PointerOf(q)) \in Nat /\ Len(PointerOf(r)) \in Nat
      BY <2>5, <2>6, <3>2, <3>5
    <3>7. QED
      BY <3>3, <3>6
  <2>8. LicensedBy(m, q)
    BY <2>6, <2>7 DEF CheckV2SurfaceMonotone, UNION_KINDS
  <2>9. PICK l \in Licences(m) : l.member = NoMember /\ IsPrefix(l.path, PointerOf(q))
    BY <2>6, <2>8 DEF LicensedBy
  <2>10. l.path \in Seq(STRING)
    BY LicenceFacts
  <2>11. IsPrefix(l.path, PointerOf(t))
    BY <2>6, <2>9, <2>10, PrefixTransitive
  <2>12. QED
    BY <2>9, <2>11 DEF LicensedBy
<1>4. QED
  BY <1>2, <1>3

(* The replacement of a facet that was retired is in the tree.             *)
LEMMA ReplacementStays ==
  ASSUME NEW m, WellFormed(Before(m)), WellFormed(m.baseline.surfaces), CheckV2SurfaceMonotone(m),
         m.corrections \subseteq Corrections, Replacement \in SurfaceSites(m.baseline.surfaces)
  PROVE  Replacement \in SurfaceSites(EnumerateTree(m.schema))
<1>1. PICK p \in m.baseline.surfaces : p.kind = "property" /\ PointerOf(p) = Replacement
  <2>1. CASE \E t \in m.baseline.surfaces : t.site = Replacement
    BY <2>1, RetirementAssumption DEF WellFormed
  <2>2. CASE \E t \in m.baseline.surfaces : t.kind = "property" /\ PointerOf(t) = Replacement
    BY <2>2
  <2>3. QED
    BY <2>1, <2>2 DEF SurfaceSites, Sites
<1>2. p \in EnumerateTree(m.schema)
  <2>1. SUFFICES ASSUME p \in RemovedTuples(m) PROVE FALSE
    BY DEF RemovedTuples, Before
  <2>2. LicensedBy(m, p)
    BY <1>1, <2>1, RemovedIsLicensed DEF UNION_KINDS
  <2>3. PICK l \in Licences(m) : l.member = NoMember /\ IsPrefix(l.path, Replacement)
    BY <1>1, <2>2 DEF LicensedBy
  <2>4. QED
    BY <2>3, LicenceFacts
<1>3. QED
  BY <1>1, <1>2 DEF SurfaceSites

-----------------------------------------------------------------------------
(* What is on main.                                                        *)
MainTyped(m) ==
  /\ m = [schema |-> m.schema, baseline |-> m.baseline, release |-> m.release, row |-> m.row,
          corrections |-> m.corrections, bundles |-> m.bundles, outsider |-> m.outsider,
          technical |-> m.technical, census |-> m.census]
  /\ WellFormed(UNION Branches(m.schema)) /\ WellFormed(m.baseline.surfaces)
  /\ m.release \in Nat /\ m.row \in Rows \cup {NoRow} /\ m.corrections \subseteq Corrections

(* A contributor who edits the schemas leaves a tree of well-formed        *)
(* tuples.                                                                 *)
LEMMA SchemaEdited ==
  ASSUME NEW m, MainTyped(m), NEW s \in EditedSchemas(m)
  PROVE  MainTyped(s) /\ s.row = m.row
<1>1. CASE s = m
  BY <1>1
<1>2. CASE \E r \in Rewrites(m.schema) : WellFormed(UNION Branches(r)) /\ s = [m EXCEPT !.schema = r]
  <2>1. PICK r \in Rewrites(m.schema) : WellFormed(UNION Branches(r)) /\ s = [m EXCEPT !.schema = r]
    BY <1>2
  <2>2. s = [schema |-> r, baseline |-> m.baseline, release |-> m.release, row |-> m.row,
             corrections |-> m.corrections, bundles |-> m.bundles, outsider |-> m.outsider,
             technical |-> m.technical, census |-> m.census]
    BY <2>1 DEF MainTyped
  <2>3. QED
    BY <2>1, <2>2 DEF MainTyped
<1>3. QED
  BY <1>1, <1>2 DEF EditedSchemas

(* A contributor who edits the registers leaves registers.                 *)
LEMMA RegistersEdited ==
  ASSUME NEW m, MainTyped(m), NEW s \in EditedRegisters(m)
  PROVE  MainTyped(s) /\ (m.row # NoRow => s.row # NoRow)
<1>1. CASE s = m
  BY <1>1
<1>2. CASE \E r \in Rows : s = [m EXCEPT !.row = r]
  <2>1. PICK r \in Rows : s = [m EXCEPT !.row = r]
    BY <1>2
  <2>2. s = [schema |-> m.schema, baseline |-> m.baseline, release |-> m.release, row |-> r,
             corrections |-> m.corrections, bundles |-> m.bundles, outsider |-> m.outsider,
             technical |-> m.technical, census |-> m.census]
    BY <2>1 DEF MainTyped
  <2>3. QED
    BY <2>1, <2>2, RetirementAssumption DEF MainTyped
<1>3. CASE \E c \in Corrections : s = [m EXCEPT !.corrections = @ \cup {c}]
  <2>1. PICK c \in Corrections : s = [m EXCEPT !.corrections = @ \cup {c}]
    BY <1>3
  <2>2. s = [schema |-> m.schema, baseline |-> m.baseline, release |-> m.release, row |-> m.row,
             corrections |-> m.corrections \cup {c}, bundles |-> m.bundles, outsider |-> m.outsider,
             technical |-> m.technical, census |-> m.census]
    BY <2>1 DEF MainTyped
  <2>3. QED
    BY <2>1, <2>2 DEF MainTyped
<1>4. QED
  BY <1>1, <1>2, <1>3 DEF EditedRegisters

(* generate-v2-surface-baseline.mjs writes the baseline of the tree it is  *)
(* run on.                                                                 *)
LEMMA IsRegenerated ==
  ASSUME NEW m, MainTyped(m)
  PROVE  MainTyped(Regenerated(m)) /\ Regenerated(m).row = m.row
<1> DEFINE baseline == [surfaces |-> EnumerateTree(m.schema), release |-> m.release]
<1>1. Regenerated(m)
        = [schema |-> m.schema, baseline |-> baseline, release |-> m.release, row |-> m.row,
           corrections |-> m.corrections, bundles |-> m.bundles, outsider |-> m.outsider,
           technical |-> m.technical, census |-> m.census]
  BY DEF MainTyped, Regenerated
<1>2. WellFormed(EnumerateTree(m.schema))
  BY CensusWellFormed DEF MainTyped
<1>3. baseline.surfaces = EnumerateTree(m.schema)
  OBVIOUS
<1> HIDE DEF baseline
<1>4. QED
  BY <1>1, <1>2, <1>3 DEF MainTyped

(* The version of a branch is one a release can have.                      *)
LEMMA IsVersioned ==
  ASSUME NEW m, MainTyped(m), NEW s \in Versioned(m)
  PROVE  MainTyped(s) /\ s.row = m.row
<1> DEFINE next == [m EXCEPT !.release = @ + 1]
<1>1. s = m \/ s = Regenerated(m) \/ s = Regenerated(next)
  BY DEF Versioned
<1>2. next = [schema |-> m.schema, baseline |-> m.baseline, release |-> m.release + 1, row |-> m.row,
              corrections |-> m.corrections, bundles |-> m.bundles, outsider |-> m.outsider,
              technical |-> m.technical, census |-> m.census]
  BY DEF MainTyped
<1>3. MainTyped(next) /\ next.row = m.row
  BY <1>2 DEF MainTyped
<1> HIDE DEF next
<1>4. QED
  BY <1>1, <1>3, IsRegenerated

(* check-v2-retirement.mjs: the facets and rows a branch may go by are     *)
(* those main has committed.                                               *)
LEMMA EvidenceCommitted ==
  ASSUME NEW m, MainTyped(m), NEW s \in Evidence(m)
  PROVE  MainTyped(s) /\ s.row = m.row
<1>1. \E b, o, t, c :
        s = [schema |-> m.schema, baseline |-> m.baseline, release |-> m.release, row |-> m.row,
             corrections |-> m.corrections, bundles |-> b, outsider |-> o, technical |-> t, census |-> c]
  <2> DEFINE Like(b, o, t, c) ==
        [schema |-> m.schema, baseline |-> m.baseline, release |-> m.release, row |-> m.row,
         corrections |-> m.corrections, bundles |-> b, outsider |-> o, technical |-> t, census |-> c]
  <2>1. CASE \E carrying \in {{}, {Facet}} : s = [m EXCEPT !.bundles["steward"] = carrying]
    <3>1. PICK carrying \in {{}, {Facet}} : s = [m EXCEPT !.bundles["steward"] = carrying]
      BY <2>1
    <3>2. s = Like([m.bundles EXCEPT !["steward"] = carrying], m.outsider, m.technical, m.census)
      BY <3>1 DEF MainTyped
    <3>3. QED
      BY <3>2
  <2>2. CASE s = [m EXCEPT !.bundles = [h \in {"steward", "outsider"} |-> IF h = "outsider" THEN {} ELSE @["steward"]]]
    <3>1. s = Like([h \in {"steward", "outsider"} |-> IF h = "outsider" THEN {} ELSE m.bundles["steward"]],
                   m.outsider, m.technical, m.census)
      BY <2>2 DEF MainTyped
    <3>2. QED
      BY <3>1
  <2>3. CASE s = [m EXCEPT !.outsider = TRUE]
    <3>1. s = Like(m.bundles, TRUE, m.technical, m.census)
      BY <2>3 DEF MainTyped
    <3>2. QED
      BY <3>1
  <2>4. CASE s = [m EXCEPT !.technical = "stable"]
    <3>1. s = Like(m.bundles, m.outsider, "stable", m.census)
      BY <2>4 DEF MainTyped
    <3>2. QED
      BY <3>1
  <2>5. CASE s = [m EXCEPT !.census = [count |-> 0, day |-> today]]
    <3>1. s = Like(m.bundles, m.outsider, m.technical, [count |-> 0, day |-> today])
      BY <2>5 DEF MainTyped
    <3>2. QED
      BY <3>1
  <2>6. QED
    BY <2>1, <2>2, <2>3, <2>4, <2>5 DEF Evidence
<1>2. QED
  BY <1>1 DEF MainTyped

-----------------------------------------------------------------------------
(* The tags are in order, and every tag after the minor the row was        *)
(* announced in has the row.                                               *)
TagsInOrder ==
  /\ \E S : tags \in Seq(S)
  /\ Len(tags) # 0
  /\ \A k \in 1 .. Len(tags) : tags[k].minor \in Nat /\ tags[k].minor <= LastTag.minor
  /\ WellFormed(LastTag.baseline)

(* A deprecation stands in every tag since the minor it was announced in.  *)
RowIsTagged ==
  announced # NoRow =>
    /\ announced.minor \in Nat /\ announced.day \in Nat
    /\ main.row # NoRow
    /\ \A k \in 1 .. Len(tags) : tags[k].minor > announced.minor => tags[k].row

(* Every tuple that a tag has and a later one lacks went under a licence.  *)
RemovedLicensed ==
  \A t \in RemovedTuples(main) :
    /\ t.kind \in UNION_KINDS => LicensedBy(main, t)
    /\ t.kind = "type" => t.site \notin Sites(EnumerateTree(main.schema))

(* A row that is retired was announced, and its time had come.             *)
DueIsRetired ==
  Due(main) =>
    /\ AnnouncedRemoval(main)
    /\ Replacement \in SurfaceSites(EnumerateTree(main.schema))
    /\ CarriedBy(main, Facet) = {} /\ ~main.outsider /\ main.technical = "experimental"

(* The inductive invariant of the retirement.                              *)
RetirementInv ==
  MainTyped(main) /\ today \in Nat /\ TagsInOrder /\ RowIsTagged /\ RemovedLicensed /\ DueIsRetired

(* The corpus starts with one tag and nothing retired.                     *)
LEMMA RetirementInvInit == RetirementInit => RetirementInv
<1> SUFFICES ASSUME RetirementInit PROVE RetirementInv
  OBVIOUS
<1> DEFINE schema == [base |-> Original, alternatives |-> {}]
           surfaces == EnumerateTree(schema)
           new == [minor |-> 0, baseline |-> surfaces, row |-> FALSE, corrections |-> {}]
<1>1. PICK b, c : main = [schema |-> schema, baseline |-> [surfaces |-> surfaces, release |-> 0], release |-> 0,
                          row |-> NoRow, corrections |-> {}, bundles |-> b,
                          outsider |-> FALSE, technical |-> "experimental", census |-> c]
  BY DEF RetirementInit
<1>2. tags = <<new>> /\ today = 0 /\ announced = NoRow
  BY DEF RetirementInit
<1>3. UNION Branches(schema) = Original
  BY DEF Branches
<1>4. WellFormed(UNION Branches(schema)) /\ WellFormed(surfaces)
  BY <1>3, RetirementAssumption, CensusWellFormed
<1>5. MainTyped(main)
  <2> HIDE DEF schema, surfaces
  <2>1. QED
    BY <1>1, <1>4 DEF MainTyped
<1>6. /\ main.schema = schema /\ main.baseline.surfaces = surfaces /\ main.row = NoRow
  BY <1>1
<1>7. /\ tags \in Seq({new}) /\ Len(tags) = 1 /\ tags[1] = new /\ LastTag = new
  BY <1>2 DEF LastTag
<1>8. new.minor = 0 /\ new.baseline = surfaces /\ surfaces = EnumerateTree(schema)
  OBVIOUS
<1> HIDE DEF schema, surfaces, new
<1>9. RemovedTuples(main) = {}
  BY <1>6, <1>7, <1>8 DEF RemovedTuples, Before
<1>10. TagsInOrder
  <2>1. \A k \in 1 .. Len(tags) : k = 1
    BY <1>7
  <2>2. \A k \in 1 .. Len(tags) : tags[k].minor \in Nat /\ tags[k].minor <= LastTag.minor
    BY <1>7, <1>8, <2>1
  <2>3. QED
    BY <1>4, <1>7, <1>8, <2>2 DEF TagsInOrder
<1>11. QED
  BY <1>2, <1>5, <1>6, <1>9, <1>10 DEF RetirementInv, RowIsTagged, RemovedLicensed, DueIsRetired, Due

(* check-v2-surface-monotone.mjs and check-v2-retirement.mjs: a pull       *)
(* request they let through takes no tuple away without a licence.         *)
LEMMA RetirementInvMerge ==
  ASSUME RetirementInv, NEW m, MainTyped(m), main.row # NoRow => m.row # NoRow, Merge(m)
  PROVE  RetirementInv'
<1>1. /\ main' = m /\ tags' = tags /\ today' = today /\ GatesPass(m)
      /\ announced' = IF announced = NoRow /\ m.row # NoRow
                        THEN [day |-> today, minor |-> LastTag.minor] ELSE announced
  BY DEF Merge
<1>2. LastTag' = LastTag /\ TagsInOrder' /\ today' \in Nat
  BY <1>1 DEF LastTag, TagsInOrder, RetirementInv
<1>3. WellFormed(Before(m)) /\ WellFormed(m.baseline.surfaces) /\ m.corrections \subseteq Corrections
  BY UnionWellFormed DEF MainTyped, Before, RetirementInv, TagsInOrder
<1>4. CheckV2SurfaceMonotone(m) /\ CheckV2Retirement(m)
  BY <1>1 DEF GatesPass
<1>5. Before(main)' = Before(m) /\ RemovedTuples(main)' = RemovedTuples(m)
  BY <1>1, <1>2 DEF Before, RemovedTuples
<1>6. RemovedLicensed'
  <2>1. \A t \in RemovedTuples(m) : t.kind \in UNION_KINDS => LicensedBy(m, t)
    BY <1>3, <1>4, RemovedIsLicensed
  <2>2. \A t \in RemovedTuples(m) : t.kind = "type" => t.site \notin Sites(EnumerateTree(m.schema))
    BY <1>4 DEF CheckV2SurfaceMonotone
  <2>3. \A t : LicensedBy(main, t)' <=> LicensedBy(m, t)
    BY <1>1 DEF LicensedBy, Licences, Due
  <2>4. QED
    BY <1>1, <1>5, <2>1, <2>2, <2>3 DEF RemovedLicensed
<1>7. RowIsTagged'
  <2>1. CASE announced = NoRow /\ m.row # NoRow
    <3>1. announced' = [day |-> today, minor |-> LastTag.minor]
      BY <1>1, <2>1
    <3>2. announced'.minor = LastTag.minor /\ announced'.day = today
      BY <3>1
    <3>3. \A k \in 1 .. Len(tags') : tags'[k].minor \in Nat /\ tags'[k].minor <= LastTag.minor
      BY <1>1 DEF RetirementInv, TagsInOrder
    <3>4. LastTag.minor \in Nat
      BY DEF RetirementInv, TagsInOrder, LastTag
    <3>5. \A k \in 1 .. Len(tags') : ~(tags'[k].minor > LastTag.minor)
      BY <3>3, <3>4
    <3>6. today \in Nat
      BY DEF RetirementInv
    <3>7. QED
      BY <1>1, <2>1, <3>2, <3>4, <3>5, <3>6 DEF RowIsTagged
  <2>2. CASE ~(announced = NoRow /\ m.row # NoRow)
    BY <1>1, <2>2 DEF RetirementInv, RowIsTagged
  <2>3. QED
    BY <2>1, <2>2
<1>8. DueIsRetired'
  <2>1. SUFFICES ASSUME Due(m) PROVE DueIsRetired'
    BY <1>1 DEF DueIsRetired, Due
  <2>2. Retirable(m)
    BY <1>4, <2>1 DEF CheckV2Retirement
  <2>3. announced' = announced
    BY <1>1, <2>2 DEF Retirable, AnnouncedRemoval
  <2>4. Replacement \in SurfaceSites(EnumerateTree(m.schema))
    BY <1>3, <1>4, <2>2, ReplacementStays DEF Retirable, ReplacementFirst
  <2>5. CarriedBy(m, Facet) = {}
    BY <2>2 DEF Retirable, Unevidenced
  <2>6. QED
    BY <1>1, <2>2, <2>3, <2>4, <2>5 DEF DueIsRetired, Retirable, AnnouncedRemoval, CarriedBy
<1>9. QED
  BY <1>1, <1>2, <1>6, <1>7, <1>8 DEF RetirementInv

(* A tag is the tree main had when it was published.                       *)
LEMMA RetirementInvPublish == ASSUME RetirementInv, Publish PROVE RetirementInv'
<1> DEFINE new == [minor |-> main.release, baseline |-> main.baseline.surfaces,
                   row |-> main.row # NoRow, corrections |-> main.corrections]
           n == Len(tags)
<1>1. /\ tags' = Append(tags, new) /\ main.release > LastTag.minor
      /\ main' = main /\ today' = today /\ announced' = announced
  BY DEF Publish
<1>2. PICK S : tags \in Seq(S)
  BY DEF RetirementInv, TagsInOrder
<1>3. /\ new.minor = main.release /\ new.baseline = main.baseline.surfaces
  OBVIOUS
<1>4. main.row # NoRow => new.row
  <2>1. new.row = (main.row # NoRow)
    BY Zenon
  <2> HIDE DEF new
  <2>2. QED
    BY <2>1
<1> HIDE DEF new
<1>5. /\ tags' \in Seq(S \cup {new}) /\ Len(tags') = n + 1 /\ tags'[n + 1] = new /\ n \in Nat
      /\ \A k \in 1 .. n : tags'[k] = tags[k]
  BY <1>1, <1>2
<1>6. \A k \in 1 .. Len(tags') : k \in 1 .. n \/ k = n + 1
  BY <1>5
<1>7. LastTag' = new
  BY <1>5 DEF LastTag
<1>8. n # 0 /\ LastTag.minor \in Nat /\ main.release \in Nat /\ WellFormed(main.baseline.surfaces)
  BY <1>2 DEF RetirementInv, TagsInOrder, LastTag, MainTyped
<1>9. TagsInOrder'
  <2>1. \A k \in 1 .. Len(tags') : tags'[k].minor \in Nat /\ tags'[k].minor <= main.release
    <3>1. \A k \in 1 .. n : tags[k].minor \in Nat /\ tags[k].minor <= LastTag.minor
      BY DEF RetirementInv, TagsInOrder
    <3>2. \A k \in 1 .. n : tags'[k].minor \in Nat /\ tags'[k].minor <= main.release
      BY <1>1, <1>5, <1>8, <3>1
    <3>3. QED
      BY <1>3, <1>5, <1>6, <1>8, <3>2
  <2>2. QED
    BY <1>3, <1>5, <1>7, <1>8, <2>1 DEF TagsInOrder
<1>10. RowIsTagged'
  <2>1. SUFFICES ASSUME announced # NoRow
                 PROVE  \A k \in 1 .. Len(tags') : tags'[k].minor > announced.minor => tags'[k].row
    BY <1>1 DEF RowIsTagged, RetirementInv
  <2>2. main.row # NoRow /\ \A k \in 1 .. n : tags[k].minor > announced.minor => tags[k].row
    BY <2>1 DEF RowIsTagged, RetirementInv
  <2>3. QED
    BY <1>4, <1>5, <1>6, <2>2
<1>11. RemovedLicensed'
  <2>1. Before(main)' \subseteq Before(main)
    BY <1>1, <1>3, <1>7 DEF Before
  <2>2. RemovedTuples(main)' \subseteq RemovedTuples(main)
    BY <1>1, <2>1 DEF RemovedTuples
  <2>3. \A t : LicensedBy(main, t)' <=> LicensedBy(main, t)
    BY <1>1 DEF LicensedBy, Licences, Due
  <2>4. QED
    BY <1>1, <2>2, <2>3 DEF RemovedLicensed, RetirementInv
<1>12. DueIsRetired'
  BY <1>1 DEF DueIsRetired, RetirementInv, Due, AnnouncedRemoval, CarriedBy
<1>13. QED
  BY <1>1, <1>9, <1>10, <1>11, <1>12 DEF RetirementInv

(* A day that passes takes nothing away.                                   *)
LEMMA RetirementInvDay == ASSUME RetirementInv, NextDay PROVE RetirementInv'
<1>1. /\ today' = today + 1 /\ today \in Nat
      /\ main' = main /\ tags' = tags /\ announced' = announced
  BY DEF NextDay, RetirementInv
<1>2. TagsInOrder' /\ RowIsTagged' /\ RemovedLicensed' /\ LastTag' = LastTag
  BY <1>1 DEF RetirementInv, TagsInOrder, RowIsTagged, RemovedLicensed, LastTag, RemovedTuples, Before,
              LicensedBy, Licences, Due
<1>3. DueIsRetired'
  <2>1. SUFFICES ASSUME Due(main) PROVE DueIsRetired'
    BY <1>1 DEF DueIsRetired, Due
  <2>2. AnnouncedRemoval(main) /\ announced.day \in Nat
    BY <2>1 DEF RetirementInv, DueIsRetired, RowIsTagged, AnnouncedRemoval
  <2>3. AnnouncedRemoval(main)'
    BY <1>1, <2>2 DEF AnnouncedRemoval, ANNOUNCE_MIN_DAYS
  <2>4. QED
    BY <1>1, <2>1, <2>3 DEF RetirementInv, DueIsRetired, CarriedBy
<1>4. QED
  BY <1>1, <1>2, <1>3 DEF RetirementInv

(* The inductive invariant is enough for what the gates promise.           *)
LEMMA RetirementInvKeeps ==
  ASSUME RetirementInv
  PROVE  RemovalsAreLicensed
<1> DEFINE tree == EnumerateTree(main.schema)
<1>1. SUFFICES ASSUME NEW t \in LastTag.baseline \ tree
               PROVE  /\ t.kind \in UNION_KINDS =>
                           NamedByCorrection(t) \/ (Retired /\ IsPrefix(Facet, PointerOf(t)))
                      /\ t.kind = "type" => t.site \notin Sites(tree)
  BY DEF RemovalsAreLicensed
<1>2. t \in RemovedTuples(main)
  BY DEF RemovedTuples, Before
<1>3. /\ t.kind \in UNION_KINDS => LicensedBy(main, t)
      /\ t.kind = "type" => t.site \notin Sites(tree)
  BY <1>2 DEF RetirementInv, RemovedLicensed
<1>4. Due(main) => Retired
  <2>1. SUFFICES ASSUME Due(main), EveryMinorTagged
                 PROVE  \E k \in 1 .. Len(tags) : tags[k].row /\ tags[k].minor < main.row.removeIn
    BY DEF RetirementInv, DueIsRetired, AnnouncedRemoval, Retired
  <2>2. /\ announced # NoRow /\ announced.minor \in Nat
        /\ main.row.removeIn - announced.minor >= 2 /\ main.release >= main.row.removeIn
        /\ main.row.removeIn \in Nat /\ main.release \in Nat
    BY <2>1, RetirementAssumption
       DEF RetirementInv, DueIsRetired, AnnouncedRemoval, ANNOUNCE_MIN_MINORS, RowIsTagged, MainTyped, Due
  <2> DEFINE last == main.row.removeIn - 1
  <2>3. last \in 0 .. main.release - 1 /\ last > announced.minor /\ last < main.row.removeIn
    BY <2>2
  <2>4. PICK k \in 1 .. Len(tags) : tags[k].minor = last
    BY <2>1, <2>3 DEF EveryMinorTagged
  <2>5. tags[k].row
    BY <2>2, <2>3, <2>4 DEF RetirementInv, RowIsTagged
  <2>6. QED
    BY <2>3, <2>4, <2>5
<1>5. ASSUME LicensedBy(main, t)
      PROVE  NamedByCorrection(t) \/ (Retired /\ IsPrefix(Facet, PointerOf(t)))
  <2>1. PICK l \in Licences(main) :
          \/ l.member = NoMember /\ IsPrefix(l.path, PointerOf(t))
          \/ t.kind = "enum-member" /\ l.path = t.site /\ l.member = t.value
    BY <1>5 DEF LicensedBy
  <2>2. main.corrections \subseteq Corrections
    BY DEF RetirementInv, MainTyped
  <2>3. l.path = PointerOf(t) => IsPrefix(l.path, PointerOf(t))
    <3>1. l.path \in Seq(STRING)
      BY <2>2, LicenceFacts
    <3>2. QED
      BY <3>1, PrefixOf
  <2>4. l.member = NoMember => IsPrefix(l.path, PointerOf(t))
    BY <2>1, <2>3 DEF PointerOf
  <2>5. CASE \E c \in main.corrections : l = c.pointer
    <3>1. PICK c \in main.corrections : l = c.pointer
      BY <2>5
    <3>2. c.pointer = [path |-> l.path, member |-> l.member]
      BY <2>2, <3>1, RetirementAssumption
    <3>3. NamedByCorrection(t)
      BY <2>1, <2>4, <3>1, <3>2 DEF NamedByCorrection
    <3>4. QED
      BY <3>3
  <2>6. CASE l = [path |-> Facet, member |-> NoMember] /\ Due(main)
    BY <1>4, <2>4, <2>6
  <2>7. QED
    BY <2>2, <2>5, <2>6, LicenceFacts
<1>6. QED
  BY <1>3, <1>5

(* check-v2-surface-monotone.mjs and check-v2-retirement.mjs: for any      *)
(* schemas, registers, minors and days, what a release no longer has was   *)
(* announced, waited for and replaced before it went.                      *)
THEOREM RemovalsStayLicensed == RetirementSpec => []RemovalsAreLicensed
<1>1. ASSUME RetirementInv, RetirementNext PROVE RetirementInv'
  <2>1. CASE PullRequest
    <3>1. PICK s \in EditedSchemas(main) : \E r \in EditedRegisters(s) : \E m \in Versioned(r) : Merge(m)
      BY <2>1 DEF PullRequest
    <3>2. PICK r \in EditedRegisters(s) : \E m \in Versioned(r) : Merge(m)
      BY <3>1
    <3>3. PICK m \in Versioned(r) : Merge(m)
      BY <3>2
    <3>4. MainTyped(s) /\ s.row = main.row
      BY <1>1, SchemaEdited DEF RetirementInv
    <3>5. MainTyped(r) /\ (s.row # NoRow => r.row # NoRow)
      BY <3>4, RegistersEdited
    <3>6. MainTyped(m) /\ m.row = r.row
      BY <3>5, IsVersioned
    <3>7. QED
      BY <1>1, <3>3, <3>4, <3>5, <3>6, RetirementInvMerge
  <2>2. CASE HostEvidence
    <3>1. PICK m \in Evidence(main) : Merge(m)
      BY <2>2 DEF HostEvidence
    <3>2. MainTyped(m) /\ m.row = main.row
      BY <1>1, EvidenceCommitted DEF RetirementInv
    <3>3. QED
      BY <1>1, <3>1, <3>2, RetirementInvMerge
  <2>3. QED
    BY <1>1, <2>1, <2>2, RetirementInvPublish, RetirementInvDay DEF RetirementNext
<1>2. RetirementInv /\ UNCHANGED retirementVars => RetirementInv'
  BY DEF retirementVars, RetirementInv, TagsInOrder, RowIsTagged, RemovedLicensed, DueIsRetired, LastTag,
         RemovedTuples, Before, LicensedBy, Licences, Due, AnnouncedRemoval, CarriedBy, MainTyped
<1>3. RetirementInv /\ [RetirementNext]_retirementVars => RetirementInv'
  BY <1>1, <1>2
<1>4. QED
  BY RetirementInvInit, <1>3, RetirementInvKeeps, PTL DEF RetirementSpec
-----------------------------------------------------------------------------
(* What is tagged, and what is on the registry.                            *)
ReleaseTrees ==
  [suite : SuiteContents, version : ToSet(ReleaseVersions), contract : Contracts,
   peerVersion : ToSet(ReleaseVersions), pin : ToSet(ReleaseVersions),
   copy : [files : Contracts, commit : Nat]]

(* openwop-publish.yml: the names of the two packages the run publishes.   *)
PeerName == <<"peer", tagRun.tree.peerVersion>>
SuiteName == <<"suite", tagRun.tree.version>>

JobStages == {"none", "preflight", "peer checked", "peer", "suite checked", "suite", "installed", "green"}
Checked == JobStages \ {"none", "preflight"}
PeerIsOut == {"suite checked", "suite", "installed", "green"}
SuiteIsOut == {"installed", "green"}

(* The release run is of one of its trees, at one of its stages.           *)
RunTyped ==
  /\ tagRun = [tree |-> tagRun.tree, stage |-> tagRun.stage, failed |-> tagRun.failed]
  /\ tagRun.stage \in JobStages
  /\ tagRun.stage # "none" => tagRun.tree \in ReleaseTrees
  /\ shown \subseteq DOMAIN npmRegistry

(* What does not show yet was published by this run.                       *)
UnshownIsOurs ==
  \A name \in DOMAIN npmRegistry \ shown :
    /\ tagRun.stage # "none"
    /\ \/ name = PeerName /\ npmRegistry[name] = PackedPeer(tagRun.tree)
       \/ name = SuiteName /\ npmRegistry[name] = PackedSuite(tagRun.tree)

(* openwop-publish.yml: what a run has reached, it has checked, and the    *)
(* packages it is past are on the registry as it packed them.              *)
RunKeepsFaith ==
  /\ tagRun.stage \in Checked =>
       /\ PinIsExact(tagRun.tree) /\ CopyIsCurrent(tagRun.tree)
       /\ PeerName \in DOMAIN npmRegistry => npmRegistry[PeerName].copy = tagRun.tree.copy
       /\ SuiteName \in DOMAIN npmRegistry => SameSuite(npmRegistry[SuiteName], PackedSuite(tagRun.tree))
  /\ tagRun.stage \in PeerIsOut => PeerName \in DOMAIN npmRegistry
  /\ tagRun.stage \in SuiteIsOut => SuiteName \in DOMAIN npmRegistry
  /\ tagRun.stage = "green" => {PeerName, SuiteName} \subseteq shown

(* A suite on the registry is one some tree packs.                         *)
IsPackedSuite(e) ==
  /\ e = [suite |-> e.suite, stamp |-> e.stamp, pin |-> e.pin, lock |-> e.stamp]
  /\ e.stamp = [version |-> e.pin, files |-> e.stamp.files]
  /\ e.stamp.files \in Contracts

SuitesHavePeers ==
  \A name \in DOMAIN npmRegistry : name[1] = "suite" =>
    LET e == npmRegistry[name]
    IN  /\ IsPackedSuite(e)
        /\ <<"peer", e.pin>> \in DOMAIN npmRegistry
        /\ npmRegistry[<<"peer", e.pin>>].copy.files = e.stamp.files

(* The inductive invariant of the registry.                                *)
RegistryInv == RunTyped /\ UnshownIsOurs /\ RunKeepsFaith /\ SuitesHavePeers

(* The manifest's history.                                                 *)
LogInv ==
  /\ \E S : manifestLog \in Seq(S)
  /\ Len(manifestLog) # 0 /\ hour \in Nat
  /\ \A i \in 1 .. Len(manifestLog) : manifestLog[i].hour \in Nat /\ manifestLog[i].hour <= hour
  /\ \A i, j \in 1 .. Len(manifestLog) : i <= j => manifestLog[i].hour <= manifestLog[j].hour
  /\ manifestLog[Len(manifestLog)].version = releaseTree.version
  /\ releaseTree \in ReleaseTrees

-----------------------------------------------------------------------------
(* What a tree packs as its suite is a packed suite.                       *)
LEMMA PackedIsPacked ==
  ASSUME NEW tree \in ReleaseTrees, PinIsExact(tree)
  PROVE  /\ IsPackedSuite(PackedSuite(tree)) /\ PackedSuite(tree).pin = tree.peerVersion
         /\ PackedSuite(tree).stamp.files = tree.copy.files
  BY DEF IsPackedSuite, PackedSuite, StampOf, PinIsExact, ReleaseTrees

(* The registry starts empty, and the manifest with one entry.             *)
LEMMA ReleaseInvInit == ReleaseInit => RegistryInv /\ LogInv
<1> SUFFICES ASSUME ReleaseInit PROVE RegistryInv /\ LogInv
  OBVIOUS
<1> DEFINE contract == CHOOSE c \in Contracts : TRUE
           suite == CHOOSE s \in SuiteContents : TRUE
           first == ReleaseVersions[1]
           commit == [version |-> first, hour |-> 0]
<1>1. /\ releaseTree = [suite |-> suite, version |-> first, contract |-> contract, peerVersion |-> first,
                        pin |-> first, copy |-> [files |-> contract, commit |-> 0]]
      /\ manifestLog = <<commit>> /\ npmRegistry = << >> /\ shown = {} /\ tagRun = NoRun /\ hour = 0
  BY DEF ReleaseInit
<1>2. contract \in Contracts /\ suite \in SuiteContents
  BY ReleaseAssumption
<1>3. first \in ToSet(ReleaseVersions)
  BY ReleaseAssumption DEF ToSet
<1> HIDE DEF contract, suite, first
<1>4. releaseTree \in ReleaseTrees /\ releaseTree.version = first
  BY <1>1, <1>2, <1>3 DEF ReleaseTrees
<1>5. /\ manifestLog \in Seq({commit}) /\ Len(manifestLog) = 1 /\ manifestLog[1] = commit
  BY <1>1
<1>6. LogInv
  <2>1. commit.hour = 0 /\ commit.version = first
    OBVIOUS
  <2>2. \A i \in 1 .. Len(manifestLog) : i = 1
    BY <1>5
  <2>3. \E S : manifestLog \in Seq(S)
    BY <1>5
  <2> HIDE DEF commit
  <2>4. QED
    BY <1>1, <1>4, <1>5, <2>1, <2>2, <2>3 DEF LogInv
<1>7. DOMAIN npmRegistry = {}
  BY <1>1
<1>8. RegistryInv
  BY <1>1, <1>7 DEF RegistryInv, RunTyped, UnshownIsOurs, RunKeepsFaith, SuitesHavePeers, NoRun, JobStages, Checked,
                    PeerIsOut, SuiteIsOut
<1>9. QED
  BY <1>6, <1>8

(* A run moves on, breaks or is run again.                                 *)
LEMMA RunMoves ==
  ASSUME RegistryInv, NEW to \in JobStages, NEW failed,
         tagRun' = [tree |-> tagRun.tree, stage |-> to, failed |-> failed], UNCHANGED <<npmRegistry, shown>>,
         to # "none", tagRun.stage # "none",
         to \in Checked => tagRun.stage \in Checked \/ ReleaseChecks(tagRun.tree),
         to \in PeerIsOut => tagRun.stage \in PeerIsOut \/ PeerName \in DOMAIN npmRegistry,
         to \in SuiteIsOut => tagRun.stage \in SuiteIsOut \/ SuiteName \in DOMAIN npmRegistry,
         to = "green" => tagRun.stage = "green" \/ {PeerName, SuiteName} \subseteq shown
  PROVE  RegistryInv'
<1>1. tagRun' = [tree |-> tagRun.tree, stage |-> to, failed |-> failed]
  OBVIOUS
<1>2. /\ tagRun'.tree = tagRun.tree /\ tagRun'.stage = to /\ npmRegistry' = npmRegistry /\ shown' = shown
      /\ PeerName' = PeerName /\ SuiteName' = SuiteName
      /\ tagRun' = [tree |-> tagRun'.tree, stage |-> tagRun'.stage, failed |-> tagRun'.failed]
  BY <1>1 DEF PeerName, SuiteName
<1>3. ASSUME ReleaseChecks(tagRun.tree)
      PROVE  /\ PinIsExact(tagRun.tree) /\ CopyIsCurrent(tagRun.tree)
             /\ PeerName \in DOMAIN npmRegistry => npmRegistry[PeerName].copy = tagRun.tree.copy
             /\ SuiteName \in DOMAIN npmRegistry => SameSuite(npmRegistry[SuiteName], PackedSuite(tagRun.tree))
  <2>1. PeerName # SuiteName
    BY DEF PeerName, SuiteName
  <2>2. PeerName \in DOMAIN npmRegistry => npmRegistry[PeerName].copy = tagRun.tree.copy
    <3>1. PackedPeer(tagRun.tree).copy = tagRun.tree.copy
      BY DEF PackedPeer
    <3>2. QED
      BY <1>3, <2>1, <3>1 DEF ReleaseChecks, PeerIdentity, SamePeer, PeerName, RegistryInv, UnshownIsOurs
  <2>3. SuiteName \in DOMAIN npmRegistry => SameSuite(npmRegistry[SuiteName], PackedSuite(tagRun.tree))
    BY <1>3, <2>1 DEF ReleaseChecks, SuiteIdentity, SameSuite, SuiteName, RegistryInv, UnshownIsOurs
  <2>4. QED
    BY <1>3, <2>2, <2>3 DEF ReleaseChecks
<1>4. RunKeepsFaith'
  BY <1>2, <1>3 DEF RegistryInv, RunKeepsFaith
<1>5. QED
  BY <1>2, <1>4 DEF RegistryInv, RunTyped, UnshownIsOurs, SuitesHavePeers

(* openwop-publish.yml: a step that fails ends the run and leaves the      *)
(* registry.                                                               *)
LEMMA RunFailsFacts ==
  ASSUME RegistryInv, tagRun.stage # "none", RunFails, UNCHANGED <<npmRegistry, shown>>
  PROVE  RegistryInv'
<1>1. tagRun' = [tree |-> tagRun.tree, stage |-> tagRun.stage, failed |-> TRUE]
  BY DEF RegistryInv, RunTyped, RunFails
<1>2. /\ tagRun.stage \in JobStages
      /\ tagRun.stage = "green" => {PeerName, SuiteName} \subseteq shown
  BY DEF RegistryInv, RunTyped, RunKeepsFaith
<1>3. QED
  BY <1>1, <1>2, RunMoves

(* openwop-publish.yml: a step that passes moves the run to its next step  *)
(* and leaves the registry.                                                *)
LEMMA RunGoes ==
  ASSUME RegistryInv, NEW to \in JobStages, Goes(to), UNCHANGED <<npmRegistry, shown>>,
         to # "none", tagRun.stage # "none",
         to \in Checked => tagRun.stage \in Checked \/ ReleaseChecks(tagRun.tree),
         to \in PeerIsOut => tagRun.stage \in PeerIsOut \/ PeerName \in DOMAIN npmRegistry,
         to \in SuiteIsOut => tagRun.stage \in SuiteIsOut \/ SuiteName \in DOMAIN npmRegistry,
         to = "green" => tagRun.stage = "green" \/ {PeerName, SuiteName} \subseteq shown
  PROVE  RegistryInv'
<1>1. tagRun' = [tree |-> tagRun.tree, stage |-> to, failed |-> tagRun.failed]
  BY DEF RegistryInv, RunTyped, Goes
<1>2. QED
  BY <1>1, RunMoves

(* openwop-publish.yml: a tag that is pushed starts a run of its tree.     *)
LEMMA RegistryTag == ASSUME RegistryInv, LogInv, PushTag PROVE RegistryInv'
<1>1. /\ tagRun' = [tree |-> releaseTree, stage |-> "preflight", failed |-> FALSE]
      /\ npmRegistry' = npmRegistry /\ shown' = shown /\ shown = DOMAIN npmRegistry
  BY DEF PushTag
<1>2. /\ tagRun'.tree = releaseTree /\ tagRun'.stage = "preflight"
      /\ tagRun' = [tree |-> tagRun'.tree, stage |-> tagRun'.stage, failed |-> tagRun'.failed]
      /\ releaseTree \in ReleaseTrees
  BY <1>1 DEF LogInv
<1>3. RunTyped' /\ UnshownIsOurs' /\ SuitesHavePeers'
  BY <1>1, <1>2 DEF RegistryInv, RunTyped, UnshownIsOurs, SuitesHavePeers, JobStages
<1>4. RunKeepsFaith'
  BY <1>1, <1>2 DEF RunKeepsFaith, Checked, PeerIsOut, SuiteIsOut
<1>5. QED
  BY <1>3, <1>4 DEF RegistryInv

(* openwop-publish.yml: the preflight publishes nothing.                   *)
LEMMA RegistryPreflight == ASSUME RegistryInv, Preflight PROVE RegistryInv'
<1>1. tagRun.stage = "preflight" /\ UNCHANGED <<npmRegistry, shown>>
  BY DEF Preflight, AtStage
<1>2. CASE ReleaseChecks(tagRun.tree) /\ Goes("peer checked")
  BY <1>1, <1>2, RunGoes DEF JobStages, PeerIsOut, SuiteIsOut
<1>3. CASE RunFails
  BY <1>1, <1>3, RunFailsFacts
<1>4. QED
  BY <1>2, <1>3 DEF Preflight

(* openwop-publish.yml: a package that is on the registry already is       *)
(* skipped only when its files are the ones this run packs.                *)
LEMMA RegistryIdentity == ASSUME RegistryInv, CheckPeer \/ CheckSuite PROVE RegistryInv'
<1>1. CASE CheckPeer
  <2>1. /\ tagRun.stage = "peer checked" /\ UNCHANGED <<npmRegistry, shown>>
        /\ Goes("peer") \/ RunFails
    BY <1>1 DEF CheckPeer, CheckIdentity, AtStage
  <2>2. CASE Goes("peer")
    BY <2>1, <2>2, RunGoes DEF JobStages, Checked, PeerIsOut, SuiteIsOut
  <2>3. QED
    BY <2>1, <2>2, RunFailsFacts
<1>2. CASE CheckSuite
  <2>1. /\ tagRun.stage = "suite checked" /\ UNCHANGED <<npmRegistry, shown>>
        /\ Goes("suite") \/ RunFails
    BY <1>2 DEF CheckSuite, CheckIdentity, AtStage
  <2>2. CASE Goes("suite")
    BY <2>1, <2>2, RunGoes DEF JobStages, Checked, PeerIsOut, SuiteIsOut
  <2>3. QED
    BY <2>1, <2>2, RunFailsFacts
<1>3. QED
  BY <1>1, <1>2

(* openwop-publish.yml: verify-installable resolves what the registry      *)
(* shows.                                                                  *)
LEMMA RegistryVerify == ASSUME RegistryInv, VerifyInstallable PROVE RegistryInv'
<1> DEFINE peer == <<"peer", npmRegistry[SuiteName].pin>>
<1>1. /\ tagRun.stage = "installed" /\ UNCHANGED <<npmRegistry, shown>> /\ SuiteName \in shown
      /\ (peer \in shown /\ Goes("green")) \/ RunFails
  BY DEF VerifyInstallable, AtStage, SuiteName
<1>2. PeerName = peer
  <2>1. /\ SameSuite(npmRegistry[SuiteName], PackedSuite(tagRun.tree)) /\ tagRun.tree \in ReleaseTrees
        /\ SuiteName \in DOMAIN npmRegistry /\ PinIsExact(tagRun.tree)
    BY <1>1 DEF RegistryInv, RunKeepsFaith, RunTyped, Checked, JobStages
  <2>2. IsPackedSuite(npmRegistry[SuiteName])
    <3>1. SuiteName[1] = "suite"
      BY DEF SuiteName
    <3>2. QED
      BY <2>1, <3>1 DEF RegistryInv, SuitesHavePeers
  <2>3. PackedSuite(tagRun.tree).stamp.version = tagRun.tree.peerVersion
    BY DEF PackedSuite, StampOf
  <2>4. npmRegistry[SuiteName].stamp = PackedSuite(tagRun.tree).stamp
    BY <2>1 DEF SameSuite
  <2>5. npmRegistry[SuiteName].stamp.version = npmRegistry[SuiteName].pin
    BY <2>2 DEF IsPackedSuite
  <2>6. npmRegistry[SuiteName].pin = tagRun.tree.peerVersion
    BY <2>3, <2>4, <2>5
  <2>7. QED
    BY <2>6 DEF PeerName
<1>3. CASE peer \in shown /\ Goes("green")
  <2>1. {PeerName, SuiteName} \subseteq shown
    BY <1>1, <1>2, <1>3
  <2>2. QED
    BY <1>1, <1>3, <2>1, RunGoes DEF JobStages, Checked, PeerIsOut, SuiteIsOut
<1>4. CASE RunFails
  BY <1>1, <1>4, RunFailsFacts
<1>5. QED
  BY <1>1, <1>3, <1>4

(* openwop-publish.yml: a job that breaks or is run again has published    *)
(* what it has published.                                                  *)
LEMMA RegistryBreaks == ASSUME RegistryInv, JobBreaks \/ JobRunAgain PROVE RegistryInv'
<1>1. CASE JobBreaks
  <2>1. tagRun.stage # "none" /\ RunFails /\ UNCHANGED <<npmRegistry, shown>>
    BY <1>1 DEF JobBreaks, Running, AtStage
  <2>2. QED
    BY <2>1, RunFailsFacts
<1>2. CASE JobRunAgain
  <2> DEFINE to == CASE tagRun.stage = "peer" -> "peer checked"
                     [] tagRun.stage = "suite" -> "suite checked"
                     [] OTHER -> tagRun.stage
  <2>1. /\ tagRun' = [tree |-> tagRun.tree, stage |-> to, failed |-> FALSE]
        /\ UNCHANGED <<npmRegistry, shown>>
    BY <1>2 DEF JobRunAgain, RegistryInv, RunTyped
  <2>2. \/ tagRun.stage = "peer" /\ to = "peer checked"
        \/ tagRun.stage = "suite" /\ to = "suite checked"
        \/ tagRun.stage \notin {"peer", "suite"} /\ to = tagRun.stage
    OBVIOUS
  <2> HIDE DEF to
  <2>3. CASE tagRun.stage = "none"
    <3>1. to = "none"
      BY <2>2, <2>3
    <3>2. /\ tagRun'.tree = tagRun.tree /\ tagRun'.stage = "none"
          /\ tagRun' = [tree |-> tagRun'.tree, stage |-> tagRun'.stage, failed |-> tagRun'.failed]
      BY <2>1, <3>1
    <3>3. QED
      BY <2>1, <2>3, <3>2 DEF RegistryInv, RunTyped, UnshownIsOurs, RunKeepsFaith, SuitesHavePeers, Checked,
                              PeerIsOut, SuiteIsOut, JobStages
  <2>4. CASE tagRun.stage # "none"
    <3>1. /\ to \in JobStages /\ to # "none"
          /\ to \in Checked => tagRun.stage \in Checked
          /\ to \in PeerIsOut => tagRun.stage \in PeerIsOut
          /\ to \in SuiteIsOut => tagRun.stage \in SuiteIsOut
          /\ to = "green" => tagRun.stage = "green"
      BY <2>2, <2>4 DEF RegistryInv, RunTyped, JobStages, Checked, PeerIsOut, SuiteIsOut
    <3>2. QED
      BY <2>1, <2>4, <3>1, RunMoves
  <2>5. QED
    BY <2>3, <2>4
<1>3. QED
  BY <1>1, <1>2

(* A package that is published stands beside what was there.               *)
LEMMA RegistryGrows ==
  ASSUME RegistryInv, NEW name, name \notin DOMAIN npmRegistry, NEW packed,
         npmRegistry' = Published(name, packed), shown' = shown,
         NEW to \in JobStages, Goes(to), to \in Checked \ {"green"}, tagRun.stage \in Checked,
         \/ name = PeerName /\ packed = PackedPeer(tagRun.tree) /\ to \notin SuiteIsOut
         \/ /\ name = SuiteName /\ packed = PackedSuite(tagRun.tree)
            /\ tagRun.stage \in PeerIsOut
  PROVE  RegistryInv'
<1>1. /\ DOMAIN npmRegistry' = DOMAIN npmRegistry \cup {name} /\ npmRegistry'[name] = packed
      /\ \A other \in DOMAIN npmRegistry : other # name /\ npmRegistry'[other] = npmRegistry[other]
  BY DEF Published
<1>2. tagRun' = [tree |-> tagRun.tree, stage |-> to, failed |-> tagRun.failed]
  BY DEF RegistryInv, RunTyped, Goes
<1>3. /\ tagRun'.tree = tagRun.tree /\ tagRun'.stage = to /\ PeerName' = PeerName /\ SuiteName' = SuiteName
      /\ tagRun' = [tree |-> tagRun'.tree, stage |-> tagRun'.stage, failed |-> tagRun'.failed]
  BY <1>2 DEF PeerName, SuiteName
<1>4. tagRun.stage # "none" /\ to # "none" /\ to # "green" /\ tagRun.tree \in ReleaseTrees
  BY DEF Checked, JobStages, RegistryInv, RunTyped
<1>5. PeerName # SuiteName /\ PeerName[1] # "suite"
  BY DEF PeerName, SuiteName
<1>6. PinIsExact(tagRun.tree) /\ CopyIsCurrent(tagRun.tree)
  BY DEF RegistryInv, RunKeepsFaith
<1>7. /\ PackedPeer(tagRun.tree).copy = tagRun.tree.copy
      /\ SameSuite(PackedSuite(tagRun.tree), PackedSuite(tagRun.tree))
  BY DEF PackedPeer, SameSuite
<1>8. RunTyped'
  BY <1>1, <1>3, <1>4 DEF RegistryInv, RunTyped
<1>9. UnshownIsOurs'
  BY <1>1, <1>3, <1>4 DEF RegistryInv, UnshownIsOurs
<1>10. RunKeepsFaith'
  <2>1. to \in PeerIsOut => PeerName \in DOMAIN npmRegistry'
    BY <1>1 DEF RegistryInv, RunKeepsFaith
  <2>2. to \in SuiteIsOut => SuiteName \in DOMAIN npmRegistry'
    BY <1>1
  <2>3. PeerName \in DOMAIN npmRegistry' => npmRegistry'[PeerName].copy = tagRun.tree.copy
    BY <1>1, <1>5, <1>7 DEF RegistryInv, RunKeepsFaith
  <2>4. SuiteName \in DOMAIN npmRegistry' => SameSuite(npmRegistry'[SuiteName], PackedSuite(tagRun.tree))
    BY <1>1, <1>5, <1>7 DEF RegistryInv, RunKeepsFaith
  <2>5. QED
    BY <1>3, <1>4, <1>6, <2>1, <2>2, <2>3, <2>4 DEF RunKeepsFaith
<1>11. SuitesHavePeers'
  <2>1. SUFFICES ASSUME NEW other \in DOMAIN npmRegistry', other[1] = "suite"
                 PROVE  /\ IsPackedSuite(npmRegistry'[other])
                        /\ <<"peer", npmRegistry'[other].pin>> \in DOMAIN npmRegistry'
                        /\ npmRegistry'[<<"peer", npmRegistry'[other].pin>>].copy.files
                             = npmRegistry'[other].stamp.files
    BY DEF SuitesHavePeers
  <2>2. CASE other \in DOMAIN npmRegistry
    BY <1>1, <2>1, <2>2 DEF RegistryInv, SuitesHavePeers
  <2>3. CASE other = name
    <3>1. other = SuiteName /\ npmRegistry'[other] = PackedSuite(tagRun.tree) /\ tagRun.stage \in PeerIsOut
      BY <1>1, <1>5, <2>1, <2>3
    <3>2. /\ IsPackedSuite(PackedSuite(tagRun.tree)) /\ PackedSuite(tagRun.tree).pin = tagRun.tree.peerVersion
          /\ PackedSuite(tagRun.tree).stamp.files = tagRun.tree.copy.files
      BY <1>4, <1>6, PackedIsPacked
    <3>3. PeerName \in DOMAIN npmRegistry /\ npmRegistry[PeerName].copy = tagRun.tree.copy
      BY <3>1 DEF RegistryInv, RunKeepsFaith
    <3>4. <<"peer", PackedSuite(tagRun.tree).pin>> = PeerName
      BY <3>2 DEF PeerName
    <3>5. QED
      BY <1>1, <3>1, <3>2, <3>3, <3>4
  <2>4. QED
    BY <1>1, <2>2, <2>3
<1>12. QED
  BY <1>8, <1>9, <1>10, <1>11 DEF RegistryInv

(* openwop-publish.yml: a package that is published is the one this run    *)
(* packed.                                                                 *)
LEMMA RegistryPublish == ASSUME RegistryInv, PublishPeer \/ PublishSuite PROVE RegistryInv'
<1>1. shown \subseteq DOMAIN npmRegistry
  BY DEF RegistryInv, RunTyped
<1>2. ASSUME NEW at, NEW name, NEW packed, NEW next, PublishPackage(at, name, packed, next)
      PROVE  /\ tagRun.stage = at /\ shown' = shown
             /\ \/ name \in DOMAIN npmRegistry /\ Goes(next) /\ npmRegistry' = npmRegistry
                \/ RunFails /\ npmRegistry' = npmRegistry
                \/ name \notin DOMAIN npmRegistry /\ Goes(next) /\ npmRegistry' = Published(name, packed)
  <2>1. /\ tagRun.stage = at /\ shown' = shown
        /\ CASE name \in shown -> Goes(next) /\ UNCHANGED npmRegistry
             [] name \notin shown /\ name \in DOMAIN npmRegistry -> RunFails /\ UNCHANGED npmRegistry
             [] name \notin DOMAIN npmRegistry -> Goes(next) /\ npmRegistry' = Published(name, packed)
    BY <1>2 DEF PublishPackage, AtStage
  <2>2. CASE name \in shown
    BY <1>1, <2>1, <2>2
  <2>3. CASE name \notin shown /\ name \in DOMAIN npmRegistry
    BY <1>1, <2>1, <2>3
  <2>4. CASE name \notin DOMAIN npmRegistry
    BY <1>1, <2>1, <2>4
  <2>5. QED
    BY <2>2, <2>3, <2>4
<1>3. CASE PublishPeer
  <2> DEFINE packed == PackedPeer(tagRun.tree)
  <2>1. /\ tagRun.stage = "peer" /\ shown' = shown
        /\ \/ PeerName \in DOMAIN npmRegistry /\ Goes("suite checked") /\ npmRegistry' = npmRegistry
           \/ RunFails /\ npmRegistry' = npmRegistry
           \/ /\ PeerName \notin DOMAIN npmRegistry /\ Goes("suite checked")
              /\ npmRegistry' = Published(PeerName, packed)
    BY <1>2, <1>3 DEF PublishPeer, PeerName
  <2>2. CASE PeerName \in DOMAIN npmRegistry /\ Goes("suite checked") /\ npmRegistry' = npmRegistry
    BY <2>1, <2>2, RunGoes DEF JobStages, Checked, PeerIsOut, SuiteIsOut
  <2>3. CASE RunFails /\ npmRegistry' = npmRegistry
    BY <2>1, <2>3, RunFailsFacts
  <2>4. CASE /\ PeerName \notin DOMAIN npmRegistry /\ Goes("suite checked")
             /\ npmRegistry' = Published(PeerName, packed)
    BY <2>1, <2>4, RegistryGrows DEF JobStages, Checked, PeerIsOut, SuiteIsOut
  <2>5. QED
    BY <2>1, <2>2, <2>3, <2>4
<1>4. CASE PublishSuite
  <2> DEFINE packed == PackedSuite(tagRun.tree)
  <2>1. /\ tagRun.stage = "suite" /\ shown' = shown
        /\ \/ SuiteName \in DOMAIN npmRegistry /\ Goes("installed") /\ npmRegistry' = npmRegistry
           \/ RunFails /\ npmRegistry' = npmRegistry
           \/ /\ SuiteName \notin DOMAIN npmRegistry /\ Goes("installed")
              /\ npmRegistry' = Published(SuiteName, packed)
    BY <1>2, <1>4 DEF PublishSuite, SuiteName
  <2>2. CASE SuiteName \in DOMAIN npmRegistry /\ Goes("installed") /\ npmRegistry' = npmRegistry
    BY <2>1, <2>2, RunGoes DEF JobStages, Checked, PeerIsOut, SuiteIsOut
  <2>3. CASE RunFails /\ npmRegistry' = npmRegistry
    BY <2>1, <2>3, RunFailsFacts
  <2>4. CASE /\ SuiteName \notin DOMAIN npmRegistry /\ Goes("installed")
             /\ npmRegistry' = Published(SuiteName, packed)
    BY <2>1, <2>4, RegistryGrows DEF JobStages, Checked, PeerIsOut, SuiteIsOut
  <2>5. QED
    BY <2>1, <2>2, <2>3, <2>4
<1>5. QED
  BY <1>3, <1>4

(* A package the registry comes to show is the one that was published.     *)
LEMMA RegistryShows == ASSUME RegistryInv, Shows PROVE RegistryInv'
<1>1. PICK name \in DOMAIN npmRegistry : shown' = shown \cup {name}
  BY DEF Shows
<1>2. npmRegistry' = npmRegistry /\ tagRun' = tagRun
  BY DEF Shows
<1>3. PeerName' = PeerName /\ SuiteName' = SuiteName
  BY <1>2 DEF PeerName, SuiteName
<1>4. QED
  BY <1>1, <1>2, <1>3 DEF RegistryInv, RunTyped, UnshownIsOurs, RunKeepsFaith, SuitesHavePeers

-----------------------------------------------------------------------------
(* check-pending-suite-release.mjs: a merge puts one entry on the log of   *)
(* the manifest.                                                           *)
LEMMA LogMerge == ASSUME LogInv, MergePullRequest PROVE LogInv'
<1> DEFINE n == Len(manifestLog)
<1>1. PICK tree \in Edits(releaseTree, n) :
        /\ releaseTree' = tree
        /\ manifestLog' = Append(manifestLog, [version |-> tree.version, hour |-> hour])
  BY DEF MergePullRequest
<1> DEFINE commit == [version |-> tree.version, hour |-> hour]
<1>2. PICK S : manifestLog \in Seq(S)
  BY DEF LogInv
<1>3. hour' = hour /\ hour \in Nat /\ commit.hour = hour /\ commit.version = tree.version
  BY DEF MergePullRequest, LogInv
<1>4. /\ manifestLog' \in Seq(S \cup {commit}) /\ Len(manifestLog') = n + 1 /\ n \in Nat
      /\ manifestLog'[n + 1] = commit
      /\ \A i \in 1 .. n : manifestLog'[i] = manifestLog[i]
  BY <1>1, <1>2
<1>5. tree \in ReleaseTrees
  BY <1>1, <1>4 DEF Edits, ReleaseTrees, LogInv
<1> HIDE DEF commit
<1>6. \A i \in 1 .. Len(manifestLog') : i \in 1 .. n \/ i = n + 1
  BY <1>4
<1>7. \A i \in 1 .. Len(manifestLog') : manifestLog'[i].hour \in Nat /\ manifestLog'[i].hour <= hour
  BY <1>3, <1>4, <1>6 DEF LogInv
<1>8. ASSUME NEW i \in 1 .. Len(manifestLog'), NEW j \in 1 .. Len(manifestLog'), i <= j
      PROVE  manifestLog'[i].hour <= manifestLog'[j].hour
  <2>1. CASE j = n + 1
    BY <1>3, <1>4, <1>7, <2>1
  <2>2. CASE j \in 1 .. n
    <3>1. i \in 1 .. n
      BY <1>4, <1>8, <2>2
    <3>2. QED
      BY <1>4, <1>8, <2>2, <3>1 DEF LogInv
  <2>3. QED
    BY <1>6, <2>1, <2>2
<1>9. QED
  BY <1>1, <1>3, <1>4, <1>5, <1>7, <1>8 DEF LogInv

(* An hour that passes changes no entry.                                   *)
LEMMA LogHour == ASSUME LogInv, HourPasses PROVE LogInv'
<1>1. hour' = hour + 1 /\ manifestLog' = manifestLog /\ releaseTree' = releaseTree /\ hour \in Nat
  BY DEF HourPasses, LogInv
<1>2. \A i \in 1 .. Len(manifestLog) : manifestLog[i].hour \in Nat /\ manifestLog[i].hour <= hour + 1
  BY <1>1 DEF LogInv
<1>3. QED
  BY <1>1, <1>2 DEF LogInv

-----------------------------------------------------------------------------
(* openwop-publish.yml: a run that ends green has shipped both packages of *)
(* its tree.                                                               *)
LEMMA GreenShips == ASSUME RegistryInv PROVE GreenHasShipped
<1>1. SUFFICES ASSUME tagRun.stage = "green"
               PROVE  /\ {SuiteName, <<"peer", tagRun.tree.pin>>} \subseteq shown
                      /\ npmRegistry[SuiteName] = PackedSuite(tagRun.tree)
                      /\ npmRegistry[<<"peer", tagRun.tree.pin>>].copy.files = tagRun.tree.contract
  BY DEF GreenHasShipped, AtStage, SuiteName
<1>2. /\ tagRun.tree \in ReleaseTrees /\ PinIsExact(tagRun.tree) /\ CopyIsCurrent(tagRun.tree)
      /\ {PeerName, SuiteName} \subseteq shown /\ shown \subseteq DOMAIN npmRegistry
      /\ npmRegistry[PeerName].copy = tagRun.tree.copy
      /\ SameSuite(npmRegistry[SuiteName], PackedSuite(tagRun.tree))
  BY <1>1 DEF RegistryInv, RunTyped, RunKeepsFaith, Checked, JobStages, PeerIsOut, SuiteIsOut
<1>3. PeerName = <<"peer", tagRun.tree.pin>>
  BY <1>2 DEF PeerName, PinIsExact
<1>4. npmRegistry[SuiteName] = PackedSuite(tagRun.tree)
  <2>1. IsPackedSuite(npmRegistry[SuiteName])
    <3>1. SuiteName[1] = "suite"
      BY DEF SuiteName
    <3>2. QED
      BY <1>2, <3>1 DEF RegistryInv, SuitesHavePeers
  <2>2. IsPackedSuite(PackedSuite(tagRun.tree))
    BY <1>2, PackedIsPacked
  <2> DEFINE published == npmRegistry[SuiteName]
             packed == PackedSuite(tagRun.tree)
  <2>3. published.suite = packed.suite /\ published.stamp = packed.stamp
    BY <1>2 DEF SameSuite
  <2>4. published.pin = published.stamp.version /\ packed.pin = packed.stamp.version
    <3>1. ASSUME NEW e, IsPackedSuite(e) PROVE e.pin = e.stamp.version
      BY <3>1 DEF IsPackedSuite
    <3>2. QED
      BY <2>1, <2>2, <3>1
  <2>5. /\ published = [suite |-> published.suite, stamp |-> published.stamp, pin |-> published.pin,
                        lock |-> published.stamp]
        /\ packed = [suite |-> packed.suite, stamp |-> packed.stamp, pin |-> packed.pin, lock |-> packed.stamp]
    BY <2>1, <2>2 DEF IsPackedSuite
  <2> HIDE DEF published, packed
  <2>6. published = packed
    BY <2>3, <2>4, <2>5
  <2>7. QED
    BY <2>6 DEF published, packed
<1>5. QED
  BY <1>2, <1>3, <1>4 DEF CopyIsCurrent

(* What the suite's own check says of a contract.                          *)
LEMMA VerifiedPeers ==
  ASSUME NEW suite, IsPackedSuite(suite), NEW version, NEW stamped, NEW disk
  PROVE  LET installed == [stamp |-> [version |-> version, files |-> stamped], disk |-> disk]
         IN  verifyPeerContract(suite, installed) = "verified" <=>
               /\ version = suite.pin /\ stamped = suite.stamp.files
               /\ \A file \in DOMAIN stamped : file \in DOMAIN disk /\ disk[file] = stamped[file]
<1> DEFINE installed == [stamp |-> [version |-> version, files |-> stamped], disk |-> disk]
           onDisk == \A file \in DOMAIN stamped : file \in DOMAIN disk /\ disk[file] = stamped[file]
<1>1. /\ installed.stamp = [version |-> version, files |-> stamped] /\ installed.disk = disk
      /\ installed.stamp.version = version /\ installed.stamp.files = stamped
  OBVIOUS
<1>2. suite.lock = suite.stamp /\ suite.stamp = [version |-> suite.pin, files |-> suite.stamp.files]
  BY DEF IsPackedSuite
<1>3. suite.lock.version = suite.pin /\ suite.lock.files = suite.stamp.files
  BY <1>2
<1>4. installed.stamp = suite.lock <=> version = suite.pin /\ stamped = suite.stamp.files
  BY <1>1, <1>2, <1>3
<1> HIDE DEF installed
<1>5. CASE version # suite.pin
  BY <1>1, <1>3, <1>4, <1>5 DEF verifyPeerContract, installed
<1>6. CASE version = suite.pin /\ stamped # suite.stamp.files
  <2>1. verifyPeerContract(suite, installed) = "mismatch"
    BY <1>1, <1>3, <1>4, <1>6 DEF verifyPeerContract
  <2>2. QED
    BY <1>6, <2>1 DEF installed
<1>7. CASE version = suite.pin /\ stamped = suite.stamp.files
  <2>1. verifyPeerContract(suite, installed) = IF onDisk THEN "verified" ELSE "mismatch"
    BY <1>1, <1>3, <1>4, <1>7 DEF verifyPeerContract
  <2>2. QED
    BY <1>7, <2>1 DEF installed
<1>8. QED
  BY <1>5, <1>6, <1>7

(* openwop-publish.yml: every suite on the registry has a peer that runs   *)
(* it.                                                                     *)
LEMMA PairsRun == ASSUME RegistryInv PROVE PublishedPairsRun
<1>1. SUFFICES ASSUME NEW name \in DOMAIN npmRegistry, name[1] = "suite"
               PROVE  LET suite == npmRegistry[name]
                          peer == <<"peer", suite.pin>>
                      IN  /\ peer \in DOMAIN npmRegistry
                          /\ LET copy == npmRegistry[peer].copy.files
                             IN  verifyPeerContract(suite, [stamp |-> [version |-> suite.pin, files |-> copy],
                                                            disk |-> copy]) = "verified"
  BY DEF PublishedPairsRun
<1> DEFINE suite == npmRegistry[name]
           copy == npmRegistry[<<"peer", suite.pin>>].copy.files
<1>2. IsPackedSuite(suite) /\ <<"peer", suite.pin>> \in DOMAIN npmRegistry /\ copy = suite.stamp.files
  BY <1>1 DEF RegistryInv, SuitesHavePeers
<1> HIDE DEF copy, suite
<1>3. verifyPeerContract(suite, [stamp |-> [version |-> suite.pin, files |-> copy], disk |-> copy]) = "verified"
  BY <1>2, VerifiedPeers
<1>4. QED
  BY <1>2, <1>3 DEF copy, suite

(* lib/corpus-stamp.ts: a suite that was published runs on its own         *)
(* contract.                                                               *)
LEMMA OwnContract == ASSUME RegistryInv PROVE RunsOnItsOwnContract
<1>1. SUFFICES ASSUME NEW name \in DOMAIN npmRegistry, name[1] = "suite", NEW version,
                      NEW stamped \in Contracts, NEW disk \in Contracts,
                      verifyPeerContract(npmRegistry[name],
                                         [stamp |-> [version |-> version, files |-> stamped], disk |-> disk]) = "verified"
               PROVE  version = npmRegistry[name].pin /\ disk = npmRegistry[name].stamp.files
  BY DEF RunsOnItsOwnContract
<1>2. IsPackedSuite(npmRegistry[name])
  BY <1>1 DEF RegistryInv, SuitesHavePeers
<1>3. /\ version = npmRegistry[name].pin /\ stamped = npmRegistry[name].stamp.files
      /\ \A file \in DOMAIN stamped : file \in DOMAIN disk /\ disk[file] = stamped[file]
  BY <1>1, <1>2, VerifiedPeers
<1>4. disk = stamped
  BY <1>3, ReleaseAssumption
<1>5. QED
  BY <1>3, <1>4

-----------------------------------------------------------------------------
(* check-pending-suite-release.mjs: the log it reads is the end of the     *)
(* whole log.                                                              *)
LEMMA WindowFacts ==
  ASSUME LogInv
  PROVE  LET n == Len(manifestLog)
             from == IF n > HISTORY_LIMIT THEN n - HISTORY_LIMIT + 1 ELSE 1
         IN  /\ n \in Nat \ {0} /\ from \in 1 .. n
             /\ DOMAIN Window = 1 .. (n - from + 1)
             /\ \A i \in DOMAIN Window : i + from - 1 \in 1 .. n /\ Window[i] = manifestLog[i + from - 1]
<1> DEFINE n == Len(manifestLog)
           from == IF n > HISTORY_LIMIT THEN n - HISTORY_LIMIT + 1 ELSE 1
<1>1. PICK S : manifestLog \in Seq(S)
  BY DEF LogInv
<1>2. n \in Nat \ {0}
  BY <1>1 DEF LogInv
<1>3. from \in 1 .. n
  BY <1>2, ReleaseAssumption
<1>4. Window = SubSeq(manifestLog, from, n)
  BY DEF Window
<1> HIDE DEF from
<1>5. DOMAIN Window = 1 .. (n - from + 1)
  BY <1>1, <1>2, <1>3, <1>4
<1>6. \A i \in DOMAIN Window : i + from - 1 \in 1 .. n /\ Window[i] = manifestLog[i + from - 1]
  BY <1>1, <1>2, <1>3, <1>4, <1>5
<1>7. QED
  BY <1>2, <1>3, <1>5, <1>6 DEF from

(* check-pending-suite-release.mjs: the commit it names is the one the     *)
(* version came in with.                                                   *)
LEMMA IntroducedFacts ==
  ASSUME LogInv
  PROVE  LET pin == releaseTree.version IN
         /\ \E i \in 1 .. Len(manifestLog) :
              manifestLog[i].version = pin /\ Introduced(pin) = manifestLog[i].hour
         /\ Len(manifestLog) <= HISTORY_LIMIT =>
              \A i \in 1 .. Len(manifestLog) :
                manifestLog[i].version = pin => Introduced(pin) <= manifestLog[i].hour
<1> DEFINE pin == releaseTree.version
           n == Len(manifestLog)
           from == IF n > HISTORY_LIMIT THEN n - HISTORY_LIMIT + 1 ELSE 1
           at == {i \in DOMAIN Window : Window[i].version = pin}
           first == CHOOSE i \in at : \A j \in at : i <= j
<1>1. /\ n \in Nat \ {0} /\ from \in 1 .. n
      /\ DOMAIN Window = 1 .. (n - from + 1)
      /\ \A i \in DOMAIN Window : i + from - 1 \in 1 .. n /\ Window[i] = manifestLog[i + from - 1]
  BY WindowFacts
<1>2. n <= HISTORY_LIMIT => from = 1
  BY <1>1, ReleaseAssumption
<1>3. Introduced(pin) = Window[first].hour
  BY DEF Introduced
<1> HIDE DEF from
<1>4. n - from + 1 \in at
  <2>1. n - from + 1 \in DOMAIN Window
    BY <1>1
  <2>2. Window[n - from + 1] = manifestLog[n]
    <3>1. (n - from + 1) + from - 1 = n
      BY <1>1
    <3>2. QED
      BY <1>1, <2>1, <3>1
  <2>3. QED
    BY <2>1, <2>2 DEF LogInv
<1>5. at \subseteq Nat
  BY <1>1
<1>6. first \in at /\ \A j \in at : first <= j
  <2>1. \E i \in at : \A j \in at : i <= j
    <3> HIDE DEF at
    <3>1. QED
      BY <1>4, <1>5, LeastOfNat
  <2> HIDE DEF at
  <2>2. QED
    BY <2>1
<1> HIDE DEF first
<1>7. \E i \in 1 .. n : manifestLog[i].version = pin /\ Introduced(pin) = manifestLog[i].hour
  BY <1>1, <1>3, <1>6
<1>8. ASSUME n <= HISTORY_LIMIT, NEW i \in 1 .. n, manifestLog[i].version = pin
      PROVE  Introduced(pin) <= manifestLog[i].hour
  <2>1. from = 1
    BY <1>2, <1>8
  <2>2. DOMAIN Window = 1 .. n /\ \A j \in 1 .. n : Window[j] = manifestLog[j]
    <3>1. n - 1 + 1 = n /\ \A j \in 1 .. n : j + 1 - 1 = j
      BY <1>1
    <3>2. QED
      BY <1>1, <2>1, <3>1
  <2>3. i \in at /\ first \in 1 .. n
    BY <1>6, <1>8, <2>2
  <2>4. first <= i
    BY <1>6, <2>3
  <2>5. manifestLog[first].hour <= manifestLog[i].hour
    BY <1>8, <2>3, <2>4 DEF LogInv
  <2>6. QED
    BY <1>3, <2>2, <2>3, <2>5
<1>9. QED
  BY <1>7, <1>8

(* check-pending-suite-release.mjs: it raises an alarm for a version that  *)
(* has waited too long, and for no other.                                  *)
LEMMA AlarmTells == ASSUME LogInv PROVE AlarmIsTrue
<1> DEFINE pin == releaseTree.version
           n == Len(manifestLog)
           others == {i \in DOMAIN manifestLog : manifestLog[i].version # pin}
           last == CHOOSE i \in others : \A j \in others : j <= i
           place == IF others = {} THEN 1 ELSE 1 + last
           since == manifestLog[place].hour
           away == <<"suite", pin>> \notin shown
<1>1. PICK S : manifestLog \in Seq(S)
  BY DEF LogInv
<1>2. DOMAIN manifestLog = 1 .. n /\ n \in Nat \ {0} /\ hour \in Nat
  BY <1>1 DEF LogInv
<1>3. PendingRelease = IF away /\ ~(hour - Introduced(pin) <= GRACE_HOURS) THEN "FAIL" ELSE "OK"
  BY DEF PendingRelease
<1>4. PICK i \in 1 .. n : manifestLog[i].version = pin /\ Introduced(pin) = manifestLog[i].hour
  BY IntroducedFacts
<1>5. manifestLog[i].hour \in Nat
  BY DEF LogInv
<1>6. PendingRelease = "FAIL" =>
        away /\ \E k \in DOMAIN manifestLog : manifestLog[k].version = pin /\ hour - manifestLog[k].hour > GRACE_HOURS
  BY <1>2, <1>3, <1>4, <1>5, ReleaseAssumption
<1>7. ASSUME away, hour - since > GRACE_HOURS, n <= HISTORY_LIMIT PROVE PendingRelease = "FAIL"
  <2>1. place \in 1 .. n /\ manifestLog[place].version = pin
    <3>1. manifestLog[n].version = pin
      BY DEF LogInv
    <3>2. CASE others = {}
      BY <1>2, <3>1, <3>2
    <3>3. CASE others # {}
      <4>1. others \subseteq 0 .. n
        BY <1>2
      <4>2. last \in others /\ \A j \in others : j <= last
        <5>1. \E k \in others : \A j \in others : j <= k
          <6> HIDE DEF others
          <6>1. QED
            BY <1>2, <3>3, <4>1, GreatestOfNat
        <5> HIDE DEF others
        <5>2. QED
          BY <5>1
      <4> HIDE DEF last
      <4>3. last \in 1 .. n /\ last # n
        BY <1>2, <3>1, <4>2
      <4>4. last + 1 \in 1 .. n /\ last + 1 \notin others
        <5>1. last + 1 \in 1 .. n /\ ~(last + 1 <= last)
          <6> HIDE DEF n
          <6>1. last \in Nat /\ last < n
            BY <1>2, <4>3
          <6>2. QED
            BY <1>2, <6>1
        <5>2. QED
          BY <4>2, <5>1
      <4>5. place = last + 1
        BY <3>3, <4>3
      <4>6. manifestLog[last + 1].version = pin
        BY <1>2, <4>4
      <4> HIDE DEF place
      <4>7. QED
        BY <4>4, <4>5, <4>6
    <3>4. QED
      BY <3>2, <3>3
  <2> HIDE DEF place
  <2>2. Introduced(pin) <= since
    BY <1>7, <2>1, IntroducedFacts
  <2>3. since \in Nat /\ Introduced(pin) \in Nat
    BY <1>4, <1>5, <2>1 DEF LogInv
  <2> HIDE DEF since
  <2>4. ~(hour - Introduced(pin) <= GRACE_HOURS)
    BY <1>2, <1>7, <2>2, <2>3, ReleaseAssumption
  <2>5. QED
    BY <1>3, <1>7, <2>4
<1>8. QED
  BY <1>6, <1>7 DEF AlarmIsTrue

(* openwop-publish.yml, check-pending-suite-release.mjs and                *)
(* lib/corpus-stamp.ts: whatever jobs break and are run again, a green run *)
(* has shipped its tree, every suite on the registry has the peer it pins, *)
(* runs with that and with no other contract, and the alarm is raised for  *)
(* a release that waits too long and for no other.                         *)
THEOREM ReleasesAreTrue == ReleaseSpec => []ReleaseIsTrue
<1> DEFINE Inv == RegistryInv /\ LogInv
<1>1. ASSUME Inv, ReleaseNext PROVE Inv'
  <2>1. CASE MergePullRequest
    <3>1. UNCHANGED <<npmRegistry, shown, tagRun>>
      BY <2>1 DEF MergePullRequest
    <3>2. RegistryInv'
      BY <1>1, <3>1 DEF RegistryInv, RunTyped, UnshownIsOurs, RunKeepsFaith, SuitesHavePeers, PeerName, SuiteName
    <3>3. QED
      BY <1>1, <2>1, <3>2, LogMerge
  <2>2. CASE HourPasses
    <3>1. UNCHANGED <<npmRegistry, shown, tagRun>>
      BY <2>2 DEF HourPasses
    <3>2. RegistryInv'
      BY <1>1, <3>1 DEF RegistryInv, RunTyped, UnshownIsOurs, RunKeepsFaith, SuitesHavePeers, PeerName, SuiteName
    <3>3. QED
      BY <1>1, <2>2, <3>2, LogHour
  <2>3. CASE \/ PushTag \/ Preflight \/ CheckPeer \/ PublishPeer \/ CheckSuite \/ PublishSuite
             \/ VerifyInstallable \/ JobBreaks \/ JobRunAgain \/ Shows
    <3>1. UNCHANGED <<releaseTree, manifestLog, hour>>
      BY <2>3 DEF PushTag, Preflight, CheckPeer, PublishPeer, CheckSuite, PublishSuite, CheckIdentity,
                  PublishPackage, VerifyInstallable, JobBreaks, JobRunAgain, Shows
    <3>2. LogInv'
      BY <1>1, <3>1 DEF LogInv
    <3>3. RegistryInv'
      BY <1>1, <2>3, RegistryTag, RegistryPreflight, RegistryIdentity, RegistryPublish, RegistryVerify,
         RegistryBreaks, RegistryShows
    <3>4. QED
      BY <3>2, <3>3
  <2>4. QED
    BY <1>1, <2>1, <2>2, <2>3 DEF ReleaseNext
<1>2. Inv /\ UNCHANGED releaseVars => Inv'
  BY DEF releaseVars, RegistryInv, RunTyped, UnshownIsOurs, RunKeepsFaith, SuitesHavePeers, PeerName, SuiteName,
         LogInv
<1>3. Inv /\ [ReleaseNext]_releaseVars => Inv'
  BY <1>1, <1>2
<1>4. Inv => ReleaseIsTrue
  BY GreenShips, PairsRun, OwnContract, AlarmTells DEF ReleaseIsTrue
<1> HIDE DEF Inv
<1>5. ReleaseInit => Inv
  BY ReleaseInvInit DEF Inv
<1>6. QED
  BY <1>3, <1>4, <1>5, PTL DEF ReleaseSpec
-----------------------------------------------------------------------------
(* The copies of the corpus.                                               *)
V1Schema == [here : BOOLEAN, version : Nat, refs : SUBSET SchemaFiles]
Copy     == [here : BOOLEAN, of : Nat, refs : SUBSET SchemaFiles, byHand : BOOLEAN, marked : BOOLEAN]

(* derive-v2-schemas.mjs: the schemas of both majors.                      *)
CopiesTyped ==
  /\ schemas.is = "followed"
  /\ schemas = [is |-> schemas.is, v1 |-> schemas.v1, v2 |-> schemas.v2, steps |-> schemas.steps,
                reverted |-> schemas.reverted, accepted |-> schemas.accepted]
  /\ schemas.v1 \in [SchemaFiles -> V1Schema]
  /\ schemas.v2 \in [SchemaFiles -> Copy]
  /\ schemas.accepted \in [SchemaFiles -> [copy : Copy, reached : BOOLEAN]]

(* A copy that was edited is there; and if it was accepted while the API   *)
(* reached it, its mark was gone.                                          *)
EditedAreThere ==
  \A f \in SchemaFiles :
    /\ schemas.v2[f].byHand => schemas.v2[f].here
    /\ LET was == schemas.accepted[f]
       IN  was.copy.byHand => was.copy.here /\ (was.reached => ~was.copy.marked)

(* The manifest says what stood there when it was written.                 *)
ManifestHeld ==
  /\ pointers = [is |-> pointers.is, cited |-> pointers.cited, stands |-> pointers.stands,
                 manifest |-> pointers.manifest, seen |-> pointers.seen]
  /\ pointers.cited \subseteq CitedPaths
  /\ pointers.stands \in [CitedPaths -> Standing] /\ pointers.seen \in [CitedPaths -> Standing]
  /\ pointers.manifest = [p \in CitedPaths |-> pointers.manifest[p]]
  /\ \A p \in CitedPaths : pointers.manifest[p] \in {NoEntry, describe(pointers.seen[p])}

(* The inductive invariant of the copies.                                  *)
CopiesInv ==
  /\ schemas # NotFollowed => CopiesTyped /\ EditedAreThere /\ HandEditsSurvive
  /\ pointers # NotFollowed => ManifestHeld

(* derive-v2-schemas.mjs: the seed set has what the API names and what it  *)
(* refers to.                                                              *)
LEMMA ClosureFacts ==
  ASSUME NEW v1 \in [SchemaFiles -> V1Schema]
  PROVE  /\ closure(v1) \subseteq SchemaFiles
         /\ \A f \in API_SEEDS \ NOT_COPIED : v1[f].here => f \in closure(v1)
         /\ \A f \in closure(v1) : \A to \in v1[f].refs \ NOT_COPIED : v1[to].here => to \in closure(v1)
<1> DEFINE Whole(seen) == ApiSeeds(v1) \cup Follows(v1, seen) \subseteq seen
<1>1. closure(v1) = {f \in SchemaFiles : \A seen \in SUBSET SchemaFiles : Whole(seen) => f \in seen}
  BY DEF closure
<1>2. ASSUME NEW f \in API_SEEDS \ NOT_COPIED, v1[f].here
      PROVE  f \in closure(v1)
  <2>1. f \in SchemaFiles /\ f \in ApiSeeds(v1)
    BY <1>2, CopiesAssumption DEF ApiSeeds
  <2> QED  BY <1>1, <2>1
<1>3. ASSUME NEW f \in closure(v1), NEW to \in v1[f].refs \ NOT_COPIED, v1[to].here
      PROVE  to \in closure(v1)
  <2>1. f \in SchemaFiles /\ v1[f] \in V1Schema
    BY <1>1
  <2>2. to \in SchemaFiles \ NOT_COPIED
    BY <2>1 DEF V1Schema
  <2>3. ASSUME NEW seen \in SUBSET SchemaFiles, Whole(seen)
        PROVE  to \in seen
    <3>1. f \in seen
      BY <1>1, <2>3
    <3>2. to \in Follows(v1, seen)
      BY <2>2, <1>3, <3>1 DEF Follows
    <3> QED  BY <3>2, <2>3
  <2> QED  BY <1>1, <2>2, <2>3
<1> QED  BY <1>1, <1>2, <1>3

(* A derivation that settled says what the first major says.               *)
LEMMA TransformFacts ==
  ASSUME NEW v1 \in [SchemaFiles -> V1Schema], NEW f \in SchemaFiles
  PROVE  /\ transform(v1, f) \in Copy
         /\ transform(v1, f).here = TRUE /\ transform(v1, f).byHand = FALSE
         /\ transform(v1, f).marked = TRUE /\ transform(v1, f).of = v1[f].version
BY DEF transform, V1Schema, Copy

(* derive-v2-schemas.mjs --write leaves copies.                            *)
LEMMA ReseededTyped ==
  ASSUME NEW v1 \in [SchemaFiles -> V1Schema], NEW v2 \in [SchemaFiles -> Copy]
  PROVE  /\ Reseeded(v1, v2) \in [SchemaFiles -> Copy]
         /\ \A f \in SchemaFiles : Reseeded(v1, v2)[f] = IF f \notin closure(v1) \/ (v2[f].here /\ ~v2[f].marked)
                                                        THEN v2[f] ELSE transform(v1, f)
BY TransformFacts DEF Reseeded

(* derive-v2-schemas.mjs: after --write nothing drifts, and when nothing   *)
(* drifts it changes nothing.                                              *)
LEMMA Settled ==
  ASSUME NEW v1 \in [SchemaFiles -> V1Schema], NEW v2 \in [SchemaFiles -> Copy]
  PROVE  /\ Drift(v1, Reseeded(v1, v2)) = {}
         /\ Drift(v1, v2) = {} => Reseeded(v1, v2) = v2
         /\ Drift(v1, v2) = {} => \A f \in closure(v1) : v2[f].here
         /\ Drift(v1, v2) = {} => \A f \in closure(v1) : v2[f].marked => v2[f].of = v1[f].version /\ ~v2[f].byHand
<1> DEFINE re == Reseeded(v1, v2)
<1>1. re \in [SchemaFiles -> Copy] /\ closure(v1) \subseteq SchemaFiles
  BY ReseededTyped, ClosureFacts
<1>2. \A f \in SchemaFiles : re[f] = IF f \notin closure(v1) \/ (v2[f].here /\ ~v2[f].marked)
                                     THEN v2[f] ELSE transform(v1, f)
  BY ReseededTyped
<1>3. \A f \in SchemaFiles : v2[f].here \in BOOLEAN /\ v2[f].marked \in BOOLEAN
  BY DEF Copy
<1> HIDE DEF re
<1>4. Drift(v1, re) = {}
  BY <1>1, <1>2, <1>3 DEF Drift
<1>5. SUFFICES ASSUME Drift(v1, v2) = {}
               PROVE  /\ re = v2
                      /\ \A f \in closure(v1) : v2[f].here
                      /\ \A f \in closure(v1) : v2[f].marked => v2[f].of = v1[f].version /\ ~v2[f].byHand
  BY <1>4 DEF re
<1>6. \A f \in closure(v1) : (v2[f].here /\ ~v2[f].marked) \/ v2[f] = transform(v1, f)
  BY <1>5, <1>3, <1>1 DEF Drift
<1>7. \A f \in SchemaFiles : re[f] = v2[f]
  BY <1>6, <1>2
<1>8. re = v2
  BY <1>7, <1>1
<1>9. \A f \in closure(v1) : v2[f].here
  BY <1>6, <1>1, TransformFacts
<1>10. ASSUME NEW f \in closure(v1), v2[f].marked
       PROVE  v2[f].of = v1[f].version /\ ~v2[f].byHand
  <2>1. v2[f] = transform(v1, f)
    BY <1>6, <1>10, <1>3, <1>1
  <2> QED  BY <2>1, <1>1, TransformFacts
<1> QED  BY <1>8, <1>9, <1>10

-----------------------------------------------------------------------------
(* The corpus starts with the copies that --write makes.                   *)
LEMMA CopiesInvInit == CopiesInit => CopiesInv
<1>1. NotFollowed.is = "not followed"
  BY DEF NotFollowed
<1>2. CASE schemas # NotFollowed
  <2> DEFINE v1 == [f \in SchemaFiles |-> [here |-> TRUE, version |-> 1, refs |-> SchemaFiles \ (API_SEEDS \cup {f})]]
             none == [f \in SchemaFiles |-> NoCopy]
             v2 == Reseeded(v1, none)
  <2> SUFFICES ASSUME CopiesInit  PROVE CopiesInv
    OBVIOUS
  <2>1. /\ schemas = [is |-> "followed", v1 |-> v1, v2 |-> v2, steps |-> 0, reverted |-> {},
                      accepted |-> [f \in SchemaFiles |-> [copy |-> v2[f], reached |-> f \in closure(v1)]]]
        /\ pointers = NotFollowed
    BY <1>2 DEF CopiesInit
  <2>2. v1 \in [SchemaFiles -> V1Schema]
    BY DEF V1Schema
  <2>3. none \in [SchemaFiles -> Copy] /\ NoCopy.byHand = FALSE
    BY DEF NoCopy, Copy
  <2>4. \A f \in SchemaFiles : none[f] = NoCopy
    OBVIOUS
  <2> HIDE DEF v1, none
  <2>9. v2 \in [SchemaFiles -> Copy]
    BY <2>2, <2>3, ReseededTyped
  <2>10. ASSUME NEW f \in SchemaFiles  PROVE v2[f] = NoCopy \/ v2[f] = transform(v1, f)
    BY <2>2, <2>3, <2>4, ReseededTyped
  <2>5. v2 \in [SchemaFiles -> Copy] /\ \A f \in SchemaFiles : v2[f].byHand = FALSE
    BY <2>2, <2>3, <2>9, <2>10, TransformFacts
  <2> HIDE DEF v2
  <2>6. /\ schemas.is = "followed" /\ schemas.v1 = v1 /\ schemas.v2 = v2 /\ schemas.reverted = {}
        /\ schemas.accepted = [f \in SchemaFiles |-> [copy |-> v2[f], reached |-> f \in closure(v1)]]
    BY <2>1
  <2>7. CopiesTyped
    BY <2>1, <2>2, <2>5 DEF CopiesTyped
  <2>8. EditedAreThere /\ HandEditsSurvive
    BY <2>5, <2>6 DEF EditedAreThere, HandEditsSurvive
  <2> QED  BY <2>1, <2>7, <2>8 DEF CopiesInv
<1>3. CASE schemas = NotFollowed
  <2> SUFFICES ASSUME CopiesInit  PROVE CopiesInv
    OBVIOUS
  <2>1. \/ schemas.is = "followed"
        \/ pointers = [is |-> "followed", cited |-> {}, stands |-> [p \in CitedPaths |-> ABSENT],
                    manifest |-> [p \in CitedPaths |-> NoEntry], seen |-> [p \in CitedPaths |-> ABSENT]]
    BY DEF CopiesInit
  <2>2. pointers = [is |-> "followed", cited |-> {}, stands |-> [p \in CitedPaths |-> ABSENT],
                    manifest |-> [p \in CitedPaths |-> NoEntry], seen |-> [p \in CitedPaths |-> ABSENT]]
    BY <2>1, <1>1, <1>3
  <2>3. ManifestHeld
    BY <2>2 DEF ManifestHeld, ABSENT, Standing
  <2> QED  BY <1>3, <2>3 DEF CopiesInv
<1> QED  BY <1>2, <1>3

-----------------------------------------------------------------------------
(* A derivation takes back no edit that was accepted while it was reached. *)
LEMMA EditsStay ==
  ASSUME CopiesTyped, EditedAreThere,
         NEW f \in SchemaFiles, schemas.v2[f].byHand, schemas.accepted[f].copy = schemas.v2[f],
         Reseeded(schemas.v1, schemas.v2)[f] # schemas.v2[f]
  PROVE  ~schemas.accepted[f].reached
<1>1. schemas.v1 \in [SchemaFiles -> V1Schema] /\ schemas.v2 \in [SchemaFiles -> Copy]
  BY DEF CopiesTyped
<1>2. schemas.v2[f].here /\ (schemas.accepted[f].reached => ~schemas.v2[f].marked)
  BY DEF EditedAreThere
<1>3. ~(schemas.v2[f].here /\ ~schemas.v2[f].marked)
  BY <1>1, ReseededTyped
<1> QED  BY <1>2, <1>3

(* Every edit of a schema, every derivation and every acceptance keeps the *)
(* invariant.                                                              *)
LEMMA CopiesStep ==
  ASSUME CopiesInv, schemas # NotFollowed,
         ChangeV1Schema \/ RemoveV1Schema \/ EditCopy \/ RemoveCopy \/ DeriveWrite \/ AcceptSchemas
  PROVE  CopiesInv'
<1> DEFINE v1 == schemas.v1
           v2 == schemas.v2
           acc == schemas.accepted
           re == Reseeded(v1, v2)
<1>1. CopiesTyped /\ EditedAreThere /\ HandEditsSurvive
  BY DEF CopiesInv
<1>2. /\ schemas = [is |-> schemas.is, v1 |-> v1, v2 |-> v2, steps |-> schemas.steps,
                    reverted |-> schemas.reverted, accepted |-> acc]
      /\ schemas.is = "followed"
      /\ v1 \in [SchemaFiles -> V1Schema] /\ v2 \in [SchemaFiles -> Copy]
      /\ acc \in [SchemaFiles -> [copy : Copy, reached : BOOLEAN]]
  BY <1>1 DEF CopiesTyped
<1>3. pointers' = pointers
  BY DEF ChangeV1Schema, RemoveV1Schema, EditCopy, RemoveCopy, DeriveWrite, AcceptSchemas, EditSchemas
<1>4. \A f \in SchemaFiles : (v2[f].byHand => v2[f].here)
  BY <1>1 DEF EditedAreThere
<1>5. \A f \in SchemaFiles : acc[f].copy.byHand => acc[f].copy.here /\ (acc[f].reached => ~acc[f].copy.marked)
  BY <1>1 DEF EditedAreThere
<1>6. \A was \in schemas.reverted : ~was.reached
  BY <1>1 DEF HandEditsSurvive
(* What a step leaves: the schemas of both majors, what was accepted, what *)
(* was taken back.                                                         *)
<1>7. SUFFICES \E s, r : \E w1 \in [SchemaFiles -> V1Schema], w2 \in [SchemaFiles -> Copy],
                  bcc \in [SchemaFiles -> [copy : Copy, reached : BOOLEAN]] :
          /\ schemas' = [is |-> "followed", v1 |-> w1, v2 |-> w2, steps |-> s, reverted |-> r, accepted |-> bcc]
          /\ \A f \in SchemaFiles : w2[f].byHand => w2[f].here
          /\ \A f \in SchemaFiles : bcc[f].copy.byHand => bcc[f].copy.here /\ (bcc[f].reached => ~bcc[f].copy.marked)
          /\ \A was \in r : ~was.reached
  <2> PICK s, r : \E w1 \in [SchemaFiles -> V1Schema], w2 \in [SchemaFiles -> Copy],
                  bcc \in [SchemaFiles -> [copy : Copy, reached : BOOLEAN]] :
          /\ schemas' = [is |-> "followed", v1 |-> w1, v2 |-> w2, steps |-> s, reverted |-> r, accepted |-> bcc]
          /\ \A f \in SchemaFiles : w2[f].byHand => w2[f].here
          /\ \A f \in SchemaFiles : bcc[f].copy.byHand => bcc[f].copy.here /\ (bcc[f].reached => ~bcc[f].copy.marked)
          /\ \A was \in r : ~was.reached
    OBVIOUS
  <2> PICK w1 \in [SchemaFiles -> V1Schema], w2 \in [SchemaFiles -> Copy],
           bcc \in [SchemaFiles -> [copy : Copy, reached : BOOLEAN]] :
          /\ schemas' = [is |-> "followed", v1 |-> w1, v2 |-> w2, steps |-> s, reverted |-> r, accepted |-> bcc]
          /\ \A f \in SchemaFiles : w2[f].byHand => w2[f].here
          /\ \A f \in SchemaFiles : bcc[f].copy.byHand => bcc[f].copy.here /\ (bcc[f].reached => ~bcc[f].copy.marked)
          /\ \A was \in r : ~was.reached
    OBVIOUS
  <2>1. CopiesTyped'
    BY DEF CopiesTyped
  <2>2. EditedAreThere'
    BY DEF EditedAreThere
  <2>3. HandEditsSurvive'
    BY DEF HandEditsSurvive
  <2>4. (pointers # NotFollowed => ManifestHeld)'
    BY <1>3 DEF CopiesInv, ManifestHeld
  <2> QED  BY <2>1, <2>2, <2>3, <2>4 DEF CopiesInv
<1>8. CASE ChangeV1Schema
  <2> PICK f \in SchemaFiles, refs \in SUBSET SchemaFiles :
        EditSchemas([schemas EXCEPT !.v1[f] = [here |-> TRUE, version |-> @.version + 1, refs |-> refs]])
    BY <1>8 DEF ChangeV1Schema
  <2> DEFINE w1 == [v1 EXCEPT ![f] = [here |-> TRUE, version |-> v1[f].version + 1, refs |-> refs]]
  <2>1. schemas' = [is |-> "followed", v1 |-> w1, v2 |-> v2, steps |-> schemas.steps + 1,
                    reverted |-> schemas.reverted, accepted |-> acc]
    BY <1>2 DEF EditSchemas
  <2>2. w1 \in [SchemaFiles -> V1Schema]
    BY <1>2 DEF V1Schema
  <2> HIDE DEF w1, v1, v2, acc
  <2> QED  BY <2>1, <2>2, <1>2, <1>4, <1>5, <1>6
<1>9. CASE RemoveV1Schema
  <2> PICK f \in SchemaFiles : EditSchemas([schemas EXCEPT !.v1[f] = Withdrawn(@)])
    BY <1>9 DEF RemoveV1Schema
  <2> DEFINE w1 == [v1 EXCEPT ![f] = [here |-> FALSE, version |-> v1[f].version, refs |-> {}]]
  <2>2. schemas' = [is |-> "followed", v1 |-> w1, v2 |-> v2, steps |-> schemas.steps + 1,
                    reverted |-> schemas.reverted, accepted |-> acc]
    BY <1>2 DEF EditSchemas, Withdrawn
  <2>3. w1 \in [SchemaFiles -> V1Schema]
    BY <1>2 DEF V1Schema
  <2> HIDE DEF w1, v1, v2, acc
  <2> QED  BY <2>2, <2>3, <1>2, <1>4, <1>5, <1>6
<1>10. CASE EditCopy
  <2> PICK f \in SchemaFiles, keepsMark \in BOOLEAN :
        /\ schemas.v2[f].here
        /\ EditSchemas([schemas EXCEPT !.v2[f] = HandEdited(@, keepsMark)])
    BY <1>10 DEF EditCopy
  <2> DEFINE w2 == [v2 EXCEPT ![f] = HandEdited(v2[f], keepsMark)]
  <2>2. schemas' = [is |-> "followed", v1 |-> v1, v2 |-> w2, steps |-> schemas.steps + 1,
                    reverted |-> schemas.reverted, accepted |-> acc]
    BY <1>2 DEF EditSchemas
  <2>1. HandEdited(v2[f], keepsMark) \in Copy /\ HandEdited(v2[f], keepsMark).here = TRUE
    BY <1>2 DEF Copy, HandEdited
  <2>3. w2 \in [SchemaFiles -> Copy]
    BY <1>2, <2>1
  <2>4. \A g \in SchemaFiles : w2[g].byHand => w2[g].here
    BY <1>2, <1>4, <2>1
  <2> HIDE DEF w2, v1, v2, acc
  <2> QED  BY <2>2, <2>3, <2>4, <1>2, <1>5, <1>6
<1>11. CASE RemoveCopy
  <2> PICK f \in SchemaFiles : EditSchemas([schemas EXCEPT !.v2[f] = NoCopy])
    BY <1>11 DEF RemoveCopy
  <2> DEFINE w2 == [v2 EXCEPT ![f] = NoCopy]
  <2>1. schemas' = [is |-> "followed", v1 |-> v1, v2 |-> w2, steps |-> schemas.steps + 1,
                    reverted |-> schemas.reverted, accepted |-> acc]
    BY <1>2 DEF EditSchemas
  <2>2. NoCopy \in Copy /\ NoCopy.byHand = FALSE
    BY DEF NoCopy, Copy
  <2>3. w2 \in [SchemaFiles -> Copy] /\ \A g \in SchemaFiles : w2[g].byHand => w2[g].here
    BY <1>2, <1>4, <2>2
  <2> HIDE DEF w2, v1, v2, acc
  <2> QED  BY <2>1, <2>3, <1>2, <1>5, <1>6
<1>12. CASE DeriveWrite
  <2> DEFINE back == {acc[f] : f \in {f \in SchemaFiles :
                        v2[f].byHand /\ acc[f].copy = v2[f] /\ re[f] # v2[f]}}
  <2>1. schemas' = [is |-> "followed", v1 |-> v1, v2 |-> re, steps |-> schemas.steps,
                    reverted |-> schemas.reverted \cup back, accepted |-> acc]
    BY <1>12, <1>2 DEF DeriveWrite
  <2>2. re \in [SchemaFiles -> Copy]
    BY <1>2, ReseededTyped
  <2>3. ASSUME NEW f \in SchemaFiles  PROVE re[f].byHand => re[f].here
    BY <1>2, <1>4, ReseededTyped, TransformFacts
  <2>4. \A was \in back : ~was.reached
    BY <1>1, EditsStay
  <2>5. \A was \in schemas.reverted \cup back : ~was.reached
    BY <2>4, <1>6
  <2> HIDE DEF re, v1, v2, acc, back
  <2> QED  BY <2>1, <2>2, <2>3, <2>5, <1>2, <1>5
<1>13. CASE AcceptSchemas
  <2> DEFINE bcc == [f \in SchemaFiles |-> [copy |-> v2[f], reached |-> f \in closure(v1)]]
  <2>1. schemas' = [is |-> "followed", v1 |-> v1, v2 |-> v2, steps |-> schemas.steps,
                    reverted |-> schemas.reverted, accepted |-> bcc]
    BY <1>13, <1>2 DEF AcceptSchemas
  <2>2. bcc \in [SchemaFiles -> [copy : Copy, reached : BOOLEAN]]
    BY <1>2
  <2>3. \A f \in SchemaFiles : bcc[f].copy = v2[f] /\ bcc[f].reached = (f \in closure(v1))
    OBVIOUS
  <2>4. Drift(v1, v2) = {}
    BY <1>13 DEF AcceptSchemas
  <2>5. \A f \in closure(v1) : v2[f].marked => ~v2[f].byHand
    BY <2>4, <1>2, Settled
  <2>6. \A f \in SchemaFiles : bcc[f].copy.byHand => bcc[f].copy.here /\ (bcc[f].reached => ~bcc[f].copy.marked)
    BY <2>3, <2>5, <1>4
  <2> HIDE DEF v1, v2, acc, bcc
  <2> QED  BY <2>1, <2>2, <2>6, <1>2, <1>4, <1>6
<1> QED  BY <1>8, <1>9, <1>10, <1>11, <1>12, <1>13

(* generate-cross-repo-evidence.mjs: what is cited, what a sibling does    *)
(* and what --write looks at keep the manifest what was seen.              *)
LEMMA PointersStep ==
  ASSUME CopiesInv, pointers # NotFollowed, Cite \/ SiblingChanges \/ EvidenceWrite
  PROVE  CopiesInv'
<1>1. ManifestHeld
  BY DEF CopiesInv
<1>2. schemas' = schemas
  BY DEF Cite, SiblingChanges, EvidenceWrite
<1>3. SUFFICES ManifestHeld'
  BY <1>2 DEF CopiesInv, CopiesTyped, EditedAreThere, HandEditsSurvive
<1>4. CASE Cite
  <2> PICK p \in CitedPaths : pointers' = [pointers EXCEPT !.cited = IF p \in @ THEN @ \ {p} ELSE @ \cup {p}]
    BY <1>4 DEF Cite
  <2> QED  BY <1>1 DEF ManifestHeld
<1>5. CASE SiblingChanges
  <2> PICK p \in CitedPaths, stands \in Standing : pointers' = [pointers EXCEPT !.stands[p] = stands]
    BY <1>5 DEF SiblingChanges
  <2> QED  BY <1>1 DEF ManifestHeld
<1>6. CASE EvidenceWrite
  <2> DEFINE man == [p \in CitedPaths |-> IF p \in pointers.cited THEN describe(pointers.stands[p]) ELSE NoEntry]
             seen == [p \in CitedPaths |-> IF p \in pointers.cited THEN pointers.stands[p] ELSE ABSENT]
  <2>1. pointers' = [is |-> pointers.is, cited |-> pointers.cited, stands |-> pointers.stands,
                     manifest |-> man, seen |-> seen]
    BY <1>6, <1>1 DEF EvidenceWrite, ManifestHeld
  <2>2. seen \in [CitedPaths -> Standing]
    BY <1>1 DEF ManifestHeld, ABSENT, Standing
  <2>3. \A p \in CitedPaths : man[p] \in {NoEntry, describe(seen[p])}
    OBVIOUS
  <2>4. man = [p \in CitedPaths |-> man[p]]
    OBVIOUS
  <2> HIDE DEF man, seen
  <2> QED  BY <1>1, <2>1, <2>2, <2>3, <2>4 DEF ManifestHeld
<1> QED  BY <1>4, <1>5, <1>6

(* generate-cross-repo-evidence.mjs: what the manifest says of what stands *)
(* at a path.                                                              *)
LEMMA DescribeFacts ==
  ASSUME NEW stands
  PROVE  /\ describe(stands).exists => stands # ABSENT
         /\ describe(stands).dir => stands = "directory"
         /\ stands = "directory" => describe(stands).dir
         /\ describe(stands).sha256 = IF stands \in {"content", "other content"} THEN stands ELSE "none"
<1> DEFINE sha == IF stands \in {"content", "other content"} THEN stands ELSE "none"
           ex == stands # ABSENT
           di == stands = "directory"
<1>1. describe(stands) = [entry |-> TRUE, exists |-> ex, dir |-> di, sha256 |-> sha]
  BY DEF describe
<1> HIDE DEF sha, ex, di
<1>2. describe(stands).sha256 = sha /\ describe(stands).exists = ex /\ describe(stands).dir = di
  BY <1>1
<1> QED  BY <1>2, Zenon DEF sha, ex, di

(* The inductive invariant is enough for what the copies promise.          *)
LEMMA CopiesInvIsEnough == CopiesInv => CopiesAreKept
<1> SUFFICES ASSUME CopiesInv  PROVE CopiesAreKept
  OBVIOUS
<1>1. ASSUME schemas # NotFollowed  PROVE DerivationSettles
  <2>1. /\ schemas.v1 \in [SchemaFiles -> V1Schema] /\ schemas.v2 \in [SchemaFiles -> Copy]
    BY <1>1 DEF CopiesInv, CopiesTyped
  <2> DEFINE v1 == schemas.v1
             v2 == schemas.v2
  <2>4. v1 \in [SchemaFiles -> V1Schema] /\ v2 \in [SchemaFiles -> Copy]
    BY <2>1
  <2> HIDE DEF v1, v2
  <2>2. Drift(v1, Reseeded(v1, v2)) = {}
    BY <2>4, Settled
  <2>3. ASSUME Drift(v1, v2) = {}
        PROVE  /\ Reseeded(v1, v2) = v2
               /\ \A f \in API_SEEDS \ NOT_COPIED : v1[f].here => v2[f].here
               /\ \A f \in closure(v1) :
                    /\ \A to \in v1[f].refs \ NOT_COPIED : v1[to].here => v2[to].here
                    /\ v2[f].marked => v2[f].of = v1[f].version /\ ~v2[f].byHand
    <3>1. /\ Reseeded(v1, v2) = v2 /\ \A f \in closure(v1) : v2[f].here
          /\ \A f \in closure(v1) : v2[f].marked => v2[f].of = v1[f].version /\ ~v2[f].byHand
      BY <2>4, <2>3, Settled
    <3>2. /\ \A f \in API_SEEDS \ NOT_COPIED : v1[f].here => f \in closure(v1)
          /\ \A f \in closure(v1) : \A to \in v1[f].refs \ NOT_COPIED : v1[to].here => to \in closure(v1)
      BY <2>4, ClosureFacts
    <3> QED  BY <3>1, <3>2
  <2> QED  BY <2>2, <2>3 DEF DerivationSettles, v1, v2
<1>2. DerivationSettles
  BY <1>1 DEF DerivationSettles
<1>3. HandEditsSurvive
  BY DEF CopiesInv, HandEditsSurvive
<1>4. ASSUME pointers # NotFollowed  PROVE EvidenceIsAlive
  <2>1. ManifestHeld
    BY <1>4 DEF CopiesInv
  <2>2. ASSUME NEW p \in pointers.cited \ EvidenceFailures(FALSE)
        PROVE  pointers.seen[p] # ABSENT
    <3>1. pointers.manifest[p].entry /\ pointers.manifest[p].exists /\ p \in CitedPaths
      BY <2>1, <2>2 DEF EvidenceFailures, ManifestHeld
    <3>2. pointers.manifest[p] = describe(pointers.seen[p])
      BY <3>1, <2>1 DEF ManifestHeld, NoEntry
    <3> QED  BY <3>1, <3>2, DescribeFacts
  <2>3. ASSUME NEW p \in pointers.cited \ EvidenceFailures(TRUE)
        PROVE  pointers.stands[p] = pointers.seen[p] \/ pointers.seen[p] = "directory"
    <3> DEFINE found == pointers.manifest[p]
    <3>1. p \in CitedPaths /\ pointers.seen[p] \in Standing /\ pointers.stands[p] \in Standing
      BY <2>1 DEF ManifestHeld
    <3>2. found.entry /\ found.exists /\ (found.dir \/ describe(pointers.stands[p]).sha256 = found.sha256)
      BY <2>1, <2>3 DEF EvidenceFailures, ManifestHeld
    <3>3. found = describe(pointers.seen[p])
      BY <3>1, <3>2, <2>1 DEF ManifestHeld, NoEntry
    <3>4. CASE pointers.seen[p] = "directory"
      BY <3>4
    <3>5. CASE pointers.seen[p] # "directory"
      <4>1. describe(pointers.stands[p]).sha256 = found.sha256 /\ pointers.seen[p] # ABSENT
        BY <3>2, <3>3, <3>5, DescribeFacts
      <4>2. pointers.seen[p] \in {"content", "other content"}
        BY <3>1, <3>5, <4>1 DEF Standing
      <4> QED  BY <4>1, <4>2, <3>1, <3>3, DescribeFacts DEF Standing, ABSENT
    <3> QED  BY <3>4, <3>5
  <2> QED  BY <2>2, <2>3 DEF EvidenceIsAlive
<1>5. EvidenceIsAlive
  BY <1>4 DEF EvidenceIsAlive
<1> QED  BY <1>2, <1>3, <1>5 DEF CopiesAreKept

(* derive-v2-schemas.mjs and generate-cross-repo-evidence.mjs: for any     *)
(* schemas, references, edits and siblings, a derivation settles what it   *)
(* finds and takes back no edit that was accepted while it was reached,    *)
(* and evidence that passes stood there when it was last looked at.        *)
THEOREM CopiesStayKept == CopiesSpec => []CopiesAreKept
<1>1. CopiesInit => CopiesInv
  BY CopiesInvInit
<1>2. CopiesInv /\ [CopiesNext]_copiesVars => CopiesInv'
  <2> SUFFICES ASSUME CopiesInv, [CopiesNext]_copiesVars  PROVE CopiesInv'
    OBVIOUS
  <2>1. CASE CopiesNext
    BY <2>1, CopiesStep, PointersStep DEF CopiesNext
  <2>2. CASE UNCHANGED copiesVars
    BY <2>2 DEF copiesVars, CopiesInv, CopiesTyped, EditedAreThere, HandEditsSurvive, ManifestHeld
  <2> QED  BY <2>1, <2>2
<1> QED  BY <1>1, <1>2, CopiesInvIsEnough, PTL DEF CopiesSpec
-----------------------------------------------------------------------------
(* The declaration.                                                        *)

(* What the declaration may say of a key.                                  *)
RowKinds == {"core", "kept", "stated", "ext", "deleted"}

(* A working tree has these parts, and an edit changes one of them.        *)
IsWorkTree(t) ==
  t = [v1 |-> t.v1, rows |-> t.rows, declared |-> t.declared, witness |-> t.witness,
       handAlias |-> t.handAlias, byHand |-> t.byHand, rewrites |-> t.rewrites,
       heading |-> t.heading, readme |-> t.readme, profile |-> t.profile, files |-> t.files,
       guarded |-> t.guarded, evidence |-> t.evidence, caps |-> t.caps, aliases |-> t.aliases]

(* What is decided by hand speaks of no code that v2 lacks; what is on     *)
(* record of the registry is what it was read from.                        *)
WorkTreeTyped(t) ==
  /\ IsWorkTree(t)
  /\ t.rows \subseteq RowKinds /\ t.declared \subseteq FacetSet
  /\ t.byHand.is \in {"absent", "present"}
  /\ t.byHand.is = "present" => t.byHand.prose.is # "code"
  /\ t.guarded \in Seq({"guard", "comment", "other", "blocked", "inapplicable"})
  /\ t.evidence = Inventory(t.evidence.of)

Version == [version : Nat, needs : NeedSets, yanked : BOOLEAN]
VersionsApart ==
  /\ packVersions \in Seq(Version)
  /\ \A i, j \in DOMAIN packVersions : packVersions[i].version = packVersions[j].version => i = j

(* The inductive invariant of the declaration.                             *)
DeclarationInv == WorkTreeTyped(workTree) /\ VersionsApart

(* check-declaration.mjs, the rules on rows, headings and headers: a key   *)
(* of v1 stands where the declaration says.                                *)
LEMMA AcceptedKeyHasItsPlace ==
  ASSUME WorkTreeTyped(workTree), checkDeclaration(workTree)
  PROVE  EveryV1KeyHasItsPlace
<1> DEFINE t == workTree
<1>1. t.caps = buildSchema(t) /\ ~GeneratorThrows(t)
  BY DEF checkDeclaration, GeneratedIsCurrent, GeneratorFails
<1> DEFINE core == "core" \in t.rows
<1>6. t.heading = core
  BY Zenon DEF checkDeclaration, HeadingsAgree
<1>2. t.rows \subseteq RowKinds /\ t.byHand.is \in {"absent", "present"}
  BY DEF WorkTreeTyped
<1>3. CASE "core" \in t.rows
  <2>1. t.caps = recordSchema(t)
    BY <1>1, <1>3 DEF buildSchema
  <2>2. t.caps.key = TRUE /\ t.caps.record = TRUE /\ t.caps.witness = t.witness
    BY <2>1 DEF recordSchema
  <2>3. t.byHand.is = "absent" => t.caps.facets = t.v1.facets
    BY <2>1 DEF recordSchema
  <2>4. t.v1.shape = "list" => t.byHand.is = "present"
    BY <1>1, <1>2, <1>3 DEF GeneratorThrows, SeededRecord, carriesUnspliceablePayload
  <2> QED  BY <1>3, <1>6, <2>2, <2>3, <2>4 DEF EveryV1KeyHasItsPlace
<1>4. CASE "core" \notin t.rows /\ t.rows \cap {"kept", "stated"} # {}
  <2>1. t.caps = metadataSchema(t)
    BY <1>1, <1>4 DEF buildSchema
  <2>2. t.caps.key = TRUE /\ t.caps.record = FALSE
    BY <2>1 DEF metadataSchema
  <2>3. "stated" \notin t.rows => t.caps.facets = t.v1.facets
    BY <1>4, <2>1 DEF metadataSchema
  <2>4. t.heading = FALSE
    <3>1. core = FALSE
      BY <1>4
    <3> HIDE DEF core
    <3> QED  BY <1>6, <3>1
  <2>5. t.heading = t.caps.record /\ ~t.caps.record /\ t.caps.key
    BY <2>2, <2>4
  <2>6. t.byHand.is = "absent" /\ "stated" \notin t.rows => t.v1.facets \subseteq t.caps.facets
    BY <2>3
  <2> QED  BY <2>5, <2>6 DEF EveryV1KeyHasItsPlace
<1>5. CASE "core" \notin t.rows /\ t.rows \cap {"kept", "stated"} = {}
  <2>1. t.caps = NOTHING
    BY <1>1, <1>5 DEF buildSchema
  <2>2. t.caps.key = FALSE /\ t.caps.record = FALSE
    BY <2>1 DEF NOTHING
  <2>3. t.v1.shape # "absent" => "ext" \in t.rows \/ "deleted" \in t.rows
    BY <1>2, <1>5 DEF checkDeclaration, EveryKeyHasOneRow, RowKinds
  <2>4. "ext" \in t.rows => t.readme = t.witness
    BY DEF checkDeclaration, ReadmeAgrees
  <2>5. t.heading = FALSE
    <3>1. core = FALSE
      BY <1>5
    <3> HIDE DEF core
    <3> QED  BY <1>6, <3>1
  <2>6. t.heading = t.caps.record /\ ~t.caps.record /\ ~t.caps.key
    BY <2>2, <2>5
  <2> QED  BY <2>3, <2>4, <2>6 DEF EveryV1KeyHasItsPlace
<1> QED  BY <1>3, <1>4, <1>5

(* A record in the root is the core family that the declaration has.       *)
LEMMA RecordIsCore ==
  ASSUME WorkTreeTyped(workTree), checkDeclaration(workTree)
  PROVE  workTree.caps.record = ("core" \in workTree.rows)
BY AcceptedKeyHasItsPlace DEF EveryV1KeyHasItsPlace, checkDeclaration, HeadingsAgree

(* generate-from-declaration.mjs: what the table of aliases says of a key. *)
LEMMA AliasFacts ==
  ASSUME NEW t, NEW key \in DOMAIN buildAliases(t)
  PROVE  LET alias == buildAliases(t)[key]
         IN  /\ key \in t.evidence.published
             /\ alias.explained => Explains(t, key)
             /\ alias.facet = "none" \/ (alias.facet = "f" /\ key = "k.f")
             /\ key \in t.evidence.current => alias.needed
<1> DEFINE ex == Explains(t, key)
           fa == IF Explains(t, key) /\ key = "k.f" THEN "f" ELSE "none"
           de == ~Explains(t, key) /\ "deleted" \in t.rows /\ key # "old"
           ne == key \in t.evidence.current
           keys == t.evidence.published \ (IF IsLive(t) THEN {"k"} ELSE {})
<1>1. DOMAIN buildAliases(t) = keys
  BY DEF buildAliases
<1>2. buildAliases(t)[key] = [explained |-> ex, facet |-> fa, deleted |-> de, needed |-> ne]
  BY Zenon DEF buildAliases
<1>3. key \in t.evidence.published
  BY <1>1
<1>4. fa = "none" \/ (fa = "f" /\ key = "k.f")
  OBVIOUS
<1> HIDE DEF ex, fa, de, ne
<1>5. /\ buildAliases(t)[key].explained = ex /\ buildAliases(t)[key].facet = fa
      /\ buildAliases(t)[key].deleted = de /\ buildAliases(t)[key].needed = ne
  BY <1>2
<1>6. buildAliases(t)[key].facet = "none" \/ (buildAliases(t)[key].facet = "f" /\ key = "k.f")
  BY <1>4, <1>5
<1>7. buildAliases(t)[key].explained => Explains(t, key)
  BY <1>5, Zenon DEF ex
<1>8. ne => buildAliases(t)[key].needed
  BY <1>5, Zenon
<1> QED  BY <1>3, <1>6, <1>7, <1>8, Zenon DEF ne

(* check-declaration.mjs, rule 12: what can be advertised is owned, and    *)
(* what is owned can be advertised or is asked for.                        *)
LEMMA AcceptedIsOwned ==
  ASSUME WorkTreeTyped(workTree), checkDeclaration(workTree)
  PROVE  AdvertisableIsOwned
<1> DEFINE t == workTree
           onWire == t.caps.facets \ RESERVED
           aliasFacets == {t.aliases[key].facet : key \in DOMAIN t.aliases}
<1> SUFFICES ASSUME t.caps.record
             PROVE  /\ t.caps.facets \ RESERVED \subseteq t.declared
                    /\ \A f \in t.declared :
                         f \in t.caps.facets \/ (f = "f" /\ "k.f" \in t.evidence.published)
  BY DEF AdvertisableIsOwned
<1>1. InDeclaration(t)
  BY RecordIsCore DEF InDeclaration
<1>2. onWire \subseteq t.declared /\ t.declared \subseteq onWire \cup aliasFacets
  BY <1>1 DEF checkDeclaration, FacetsAgree
<1>3. ASSUME NEW f \in t.declared, f \notin onWire
      PROVE  f = "f" /\ "k.f" \in t.evidence.published
  <2>1. PICK key \in DOMAIN t.aliases : f = t.aliases[key].facet
    BY <1>2, <1>3
  <2>2. t.aliases = buildAliases(t)
    BY DEF checkDeclaration, GeneratedIsCurrent
  <2>3. f # "none"
    BY <1>3, DeclarationAssumption DEF WorkTreeTyped
  <2>4. /\ key \in t.evidence.published
        /\ t.aliases[key].facet = "none" \/ (t.aliases[key].facet = "f" /\ key = "k.f")
    BY <2>1, <2>2, AliasFacts
  <2> QED  BY <2>1, <2>3, <2>4
<1> QED  BY <1>2, <1>3

(* generate-from-declaration.mjs: no sentence on the flag, and none that a *)
(* row of the table would have rewritten.                                  *)
LEMMA AcceptedProse ==
  ASSUME WorkTreeTyped(workTree), checkDeclaration(workTree)
  PROVE  NoMustOnTheFlag
<1> DEFINE t == workTree
<1>1. /\ t.caps = buildSchema(t) /\ ~UnusedRewrite(t)
      /\ assertNoSupportedGhost(buildSchema(t))
  BY DEF checkDeclaration, GeneratedIsCurrent, GeneratorFails
<1>2. t.caps.prose.is # "flag"
  BY <1>1 DEF assertNoSupportedGhost
<1>3. ASSUME "code" \in t.rewrites
      PROVE  t.caps.prose.is # "code"
  <2>1. SeededText(t) /\ t.v1.prose = Old("code")
    BY <1>1, <1>3 DEF UnusedRewrite
  <2>2. t.v1.prose.is = "code" /\ t.v1.prose.anew = FALSE
    BY <2>1 DEF Old
  <2>3. rewriteSupportedProse(t) = PLAIN
    BY <1>3, <2>2 DEF rewriteSupportedProse
  <2>4. PLAIN.is = "plain"
    BY DEF PLAIN, Old
  <2>5. CASE "core" \in t.rows
    <3>1. t.caps.prose = IF t.byHand.is = "present" THEN t.byHand.prose
                         ELSE IF SeededText(t) THEN rewriteSupportedProse(t) ELSE PLAIN
      BY <1>1, <2>5 DEF buildSchema, recordSchema
    <3>2. t.byHand.is = "present" => t.byHand.prose.is # "code"
      BY DEF WorkTreeTyped
    <3> QED  BY <2>3, <2>4, <3>1, <3>2
  <2>6. CASE "core" \notin t.rows /\ t.rows \cap {"kept", "stated"} # {}
    <3>1. t.caps.prose = IF "kept" \in t.rows THEN rewriteSupportedProse(t) ELSE PLAIN
      BY <1>1, <2>6 DEF buildSchema, metadataSchema
    <3> QED  BY <2>3, <2>4, <3>1
  <2>7. CASE "core" \notin t.rows /\ t.rows \cap {"kept", "stated"} = {}
    <3>1. t.caps.prose = PLAIN
      BY <1>1, <2>7 DEF buildSchema, NOTHING
    <3> QED  BY <2>4, <3>1
  <2> QED  BY <2>5, <2>6, <2>7
<1> QED  BY <1>2, <1>3 DEF NoMustOnTheFlag

(* check-declaration.mjs, on the table of aliases: what the newest version *)
(* needs names a family.                                                   *)
LEMMA AcceptedKeysResolve ==
  ASSUME WorkTreeTyped(workTree), VersionsApart, checkDeclaration(workTree)
  PROVE  NeededKeysResolve
<1> DEFINE t == workTree
<1> SUFFICES ASSUME t.evidence.of = packVersions, NEW key \in NeededNow
             PROVE  \/ IsLive(t) /\ (key = "k.f" => "f" \in t.declared)
                    \/ key = "old" /\ t.handAlias
                    \/ key = "k.f" /\ "f" \in t.declared /\ "deleted" \in t.rows
  BY Zenon DEF NeededKeysResolve
<1>1. PICK i \in DOMAIN packVersions :
        /\ key \in packVersions[i].needs
        /\ ~packVersions[i].yanked
        /\ \A j \in DOMAIN packVersions :
             packVersions[j].version > packVersions[i].version => packVersions[j].yanked
  BY DEF NeededNow
<1>2. NewestVersion(packVersions) = i /\ i # 0
  <2> DEFINE remaining == {j \in DOMAIN packVersions : ~packVersions[j].yanked}
             Newest(j) == \A k \in remaining : packVersions[k].version <= packVersions[j].version
  <2>1. \A j \in DOMAIN packVersions : j \in Nat \ {0} /\ packVersions[j].version \in Nat
    <3>1. \A j \in DOMAIN packVersions : j \in Nat \ {0} /\ packVersions[j] \in Version
      BY DEF VersionsApart
    <3> QED  BY <3>1 DEF Version
  <2>2. i \in remaining /\ Newest(i)
    BY <1>1, <2>1
  <2>3. ASSUME NEW j \in remaining, Newest(j)
        PROVE  j = i
    <3>1. packVersions[j].version = packVersions[i].version
      BY <2>1, <2>2, <2>3
    <3> QED  BY <2>2, <3>1 DEF VersionsApart
  <2>4. NewestVersion(packVersions) =
          IF remaining = {} THEN 0 ELSE CHOOSE j \in remaining : Newest(j)
    BY DEF NewestVersion
  <2> HIDE DEF Newest
  <2>5. (CHOOSE j \in remaining : Newest(j)) = i
    BY <2>2, <2>3
  <2> QED  BY <2>1, <2>2, <2>4, <2>5
<1>3. key \in t.evidence.current /\ key \in t.evidence.published
  <2>1. t.evidence = Inventory(packVersions)
    BY DEF WorkTreeTyped
  <2>2. t.evidence.current = packVersions[i].needs
    BY <1>2, <2>1 DEF Inventory, registryCurrentPeerDependencyKeys
  <2>3. t.evidence.published = registryPeerDependencyKeys(packVersions)
    BY <2>1 DEF Inventory
  <2> QED  BY <1>1, <2>2, <2>3 DEF registryPeerDependencyKeys
<1>4. CASE key = "k" /\ IsLive(t)
  BY <1>4
<1>5. CASE ~(key = "k" /\ IsLive(t))
  <2>1. t.aliases = buildAliases(t)
    BY DEF checkDeclaration, GeneratedIsCurrent
  <2>2. key \in DOMAIN t.aliases
    BY <1>3, <1>5, <2>1 DEF buildAliases
  <2>3. /\ t.aliases[key].deleted => ~t.aliases[key].needed
        /\ ~t.aliases[key].deleted => t.aliases[key].explained
    BY <2>2, Zenon DEF checkDeclaration, PublishedKeysResolve
  <2>4. /\ t.aliases[key].explained => Explains(t, key)
        /\ key \in t.evidence.current => t.aliases[key].needed
    BY <2>1, <2>2, AliasFacts
  <2>7. Explains(t, key)
    BY <1>3, <2>3, <2>4
  <2>8. CASE key = "host.k"
    BY <2>7, <2>8 DEF Explains
  <2>9. CASE key = "k.f"
    <3>1. InDeclaration(t) /\ "f" \in t.declared
      BY <2>7, <2>9 DEF Explains
    <3> QED  BY <2>9, <3>1 DEF InDeclaration, IsLive
  <2>10. CASE key = "old"
    BY <2>7, <2>10 DEF Explains
  <2>11. CASE key \notin {"host.k", "k.f", "old"}
    BY <2>7, <2>11 DEF Explains
  <2> QED  BY <2>8, <2>9, <2>10, <2>11
<1> QED  BY <1>4, <1>5

(* check-declaration.mjs, on the profiles: who holds one can earn it.      *)
LEMMA AcceptedHolderCanCertify ==
  ASSUME WorkTreeTyped(workTree), checkDeclaration(workTree)
  PROVE  HonestHolderCanCertify
<1>1. FloorsExist(workTree) /\ FloorsAreHolders(workTree) /\ PredicatesResolve(workTree)
  BY DEF checkDeclaration
<1>2. IsLive(workTree) => workTree.caps.record \/ "ext" \in workTree.rows
  BY RecordIsCore DEF IsLive
<1> QED  BY <1>1, <1>2 DEF FloorsExist, FloorsAreHolders, PredicatesResolve, HonestHolderCanCertify

(* The first line of a kind is the one before which there is none.         *)
LEMMA FirstLineFacts ==
  ASSUME NEW lines, NEW kinds, NEW from \in Nat, NEW to \in Nat,
         NEW i \in from .. to, lines[i] \in kinds, \A j \in from .. to : lines[j] \in kinds => i <= j
  PROVE  FirstLineOf(lines, kinds, from, to) = i
<1> DEFINE found == {j \in from .. to : lines[j] \in kinds}
           Least(j) == \A k \in found : j <= k
<1>1. FirstLineOf(lines, kinds, from, to) =
        IF found = {} THEN 0 ELSE CHOOSE j \in found : Least(j)
  BY DEF FirstLineOf
<1>2. i \in found /\ Least(i)
  OBVIOUS
<1>3. \A j \in found : Least(j) => j = i
  BY <1>2
<1> HIDE DEF Least
<1>4. (CHOOSE j \in found : Least(j)) = i
  BY <1>2, <1>3
<1> QED  BY <1>1, <1>2, <1>4

(* check-declaration.mjs, rule 11: the disposition of the first guard is   *)
(* the one it finds in its window.                                         *)
LEMMA AcceptedBlocksNobody ==
  ASSUME WorkTreeTyped(workTree), checkDeclaration(workTree)
  PROVE  AbsentAdvertBlocksNobody
<1> DEFINE lines == workTree.guarded
           Disposed == {"blocked", "inapplicable"}
<1> SUFFICES ASSUME NEW i \in DOMAIN lines,
                    lines[i] = "guard", \A j \in 1 .. (i - 1) : lines[j] # "guard",
                    Branch(lines, i) # 0, Branch(lines, i) < i + LookAhead
             PROVE  lines[Branch(lines, i)] # "blocked"
  BY Zenon DEF AbsentAdvertBlocksNobody
<1>1. PICK n \in Nat : DOMAIN lines = 1 .. n /\ Len(lines) = n
  BY DEF WorkTreeTyped
<1>2. i \in 1 .. n
  BY <1>1
<1> DEFINE far == IF i + LookAhead - 1 < n THEN i + LookAhead - 1 ELSE n
           own == {j \in (i + 1) .. n : lines[j] \in Disposed}
           Least(j) == \A k \in own : j <= k
           b == Branch(lines, i)
<1>3. b = IF own = {} THEN 0 ELSE CHOOSE j \in own : Least(j)
  BY <1>1 DEF Branch
<1>4. b \in own /\ Least(b)
  <2>1. own # {} /\ own \subseteq Nat
    BY <1>2, <1>3
  <2>2. \E j \in own : Least(j)
    <3> HIDE DEF own
    <3> QED  BY <2>1, LeastOfNat
  <2> HIDE DEF Least, own
  <2> QED  BY <1>3, <2>1, <2>2
<1> HIDE DEF b
<1>5. b \in i .. far /\ far \in Nat
  BY <1>2, <1>4, DeclarationAssumption DEF b
<1>6. \A j \in i .. far : lines[j] \in Disposed => b <= j
  <2> SUFFICES ASSUME NEW j \in i .. far, lines[j] \in Disposed
               PROVE  b <= j
    OBVIOUS
  <2>1. j # i
    OBVIOUS
  <2>2. j \in (i + 1) .. n
    BY <1>2, <2>1, DeclarationAssumption
  <2> QED  BY <1>4, <2>2
<1>7. FirstLineOf(lines, {"guard"}, 1, n) = i
  <2>1. \A j \in 1 .. n : lines[j] \in {"guard"} => i <= j
    BY <1>2
  <2> QED  BY <1>2, <2>1, FirstLineFacts
<1>8. FirstLineOf(lines, Disposed, i, far) = b
  <2>1. lines[b] \in Disposed /\ i \in Nat
    BY <1>2, <1>4
  <2> HIDE DEF far, Disposed
  <2> QED  BY <1>5, <1>6, <2>1, FirstLineFacts
<1>9. lines[b] = "inapplicable"
  <2>1. AbsentAdvertIsInapplicable(workTree)
    BY DEF checkDeclaration
  <2>2. b # 0 /\ i # 0
    BY <1>2, <1>4
  <2> QED  BY <1>1, <1>7, <1>8, <2>1, <2>2 DEF AbsentAdvertIsInapplicable
<1> QED  BY <1>9 DEF b

(* A tree that passes has all six.                                         *)
LEMMA AcceptedIsSound ==
  ASSUME DeclarationInv
  PROVE  AcceptedTreesAreSound
BY AcceptedKeyHasItsPlace, AcceptedIsOwned, AcceptedProse, AcceptedKeysResolve,
   AcceptedHolderCanCertify, AcceptedBlocksNobody DEF DeclarationInv, AcceptedTreesAreSound

-----------------------------------------------------------------------------
(* The tree the declaration starts from is one.                            *)
LEMMA FoundedFacts == WorkTreeTyped(Founded)
<1> DEFINE caps == buildSchema(Bare)
           aliases == buildAliases(Bare)
           profile == [families |-> {"base"},
              floor |-> {CHOOSE f \in FloorFiles : Floor[f].gates = {"base"} /\ ~Floor[f].seam}]
           evidence == Inventory(<< >>)
           v1 == [shape |-> "object", facets |-> {"f"}, prose |-> PLAIN]
           nothing == NOTHING
<1>1. Bare = [v1 |-> v1,
        rows |-> {"core"}, declared |-> {"f"}, witness |-> "host", handAlias |-> FALSE,
        byHand |-> [is |-> "absent"], rewrites |-> {}, heading |-> TRUE, readme |-> "host",
        profile |-> profile, files |-> FloorFiles, guarded |-> << >>,
        evidence |-> evidence, caps |-> nothing, aliases |-> << >>]
  BY DEF Bare
<1>3. evidence = Inventory(evidence.of)
  BY DEF Inventory
<1> HIDE DEF caps, aliases, profile, evidence, v1, nothing
<1>2. Founded = [v1 |-> v1,
        rows |-> {"core"}, declared |-> {"f"}, witness |-> "host", handAlias |-> FALSE,
        byHand |-> [is |-> "absent"], rewrites |-> {}, heading |-> TRUE, readme |-> "host",
        profile |-> profile, files |-> FloorFiles, guarded |-> << >>,
        evidence |-> evidence, caps |-> caps, aliases |-> aliases]
  <2>1. Founded = [Bare EXCEPT !.caps = caps, !.aliases = aliases]
    BY DEF Founded, caps, aliases
  <2> QED  BY <1>1, <2>1
<1> QED  BY <1>2, <1>3, DeclarationAssumption DEF WorkTreeTyped, IsWorkTree, RowKinds

(* The declaration starts from a generated tree and a pack without         *)
(* versions.                                                               *)
LEMMA DeclarationStarts == DeclarationInit => DeclarationInv
BY FoundedFacts DEF DeclarationInit, DeclarationInv, VersionsApart

(* Every edit, every generation and every reading of the registry leaves a *)
(* tree; every publication and every withdrawal leaves the versions apart. *)
LEMMA DeclarationSteps ==
  ASSUME DeclarationInv, DeclarationNext
  PROVE  DeclarationInv'
<1> DEFINE t == workTree
<1>0. WorkTreeTyped(t) /\ VersionsApart
  BY DEF DeclarationInv
<1>1. t = [v1 |-> t.v1, rows |-> t.rows, declared |-> t.declared, witness |-> t.witness,
       handAlias |-> t.handAlias, byHand |-> t.byHand, rewrites |-> t.rewrites,
       heading |-> t.heading, readme |-> t.readme, profile |-> t.profile, files |-> t.files,
       guarded |-> t.guarded, evidence |-> t.evidence, caps |-> t.caps, aliases |-> t.aliases]
  BY <1>0 DEF WorkTreeTyped, IsWorkTree
<1>2. ASSUME packVersions' = packVersions, WorkTreeTyped(workTree')
      PROVE  DeclarationInv'
  BY <1>0, <1>2 DEF DeclarationInv, VersionsApart
<1>3. CASE ChangeV1
  <2>1. PICK v1 : workTree' = [t EXCEPT !.v1 = v1] /\ packVersions' = packVersions
    BY <1>3 DEF ChangeV1, Edit
  <2>2. WorkTreeTyped(workTree')
    BY <1>0, <1>1, <2>1 DEF WorkTreeTyped, IsWorkTree
  <2> QED  BY <1>2, <2>1, <2>2
<1>4. CASE DeclareFacets
  <2>1. PICK f \in FacetSet : workTree' = [t EXCEPT !.declared = Toggled(t.declared, f)] /\ packVersions' = packVersions
    BY <1>4 DEF DeclareFacets, Edit
  <2>3. Toggled(t.declared, f) \subseteq FacetSet
    BY <1>0 DEF WorkTreeTyped, Toggled
  <2>2. WorkTreeTyped(workTree')
    BY <1>0, <1>1, <2>1, <2>3 DEF WorkTreeTyped, IsWorkTree
  <2> QED  BY <1>2, <2>1, <2>2
<1>5. CASE DecideByHand
  <2>1. PICK facets \in SUBSET FacetSet, prose \in {PLAIN, Old("flag")} :
          /\ workTree' = [t EXCEPT !.byHand = [is |-> "present", facets |-> facets, prose |-> prose]]
          /\ packVersions' = packVersions
    BY <1>5 DEF DecideByHand, Edit
  <2>3. prose.is # "code"
    BY <2>1 DEF PLAIN, Old
  <2>2. WorkTreeTyped(workTree')
    BY <1>0, <1>1, <2>1, <2>3 DEF WorkTreeTyped, IsWorkTree
  <2> QED  BY <1>2, <2>1, <2>2
<1>6. CASE ChangeProse
  <2>1. PICK v1 : workTree' = [t EXCEPT !.v1 = v1] /\ packVersions' = packVersions
    BY <1>6 DEF ChangeProse, Edit
  <2>2. WorkTreeTyped(workTree')
    BY <1>0, <1>1, <2>1 DEF WorkTreeTyped, IsWorkTree
  <2> QED  BY <1>2, <2>1, <2>2
<1>7. CASE EditRewrites
  <2>1. PICK v : workTree' = [t EXCEPT !.rewrites = v] /\ packVersions' = packVersions
    BY <1>7 DEF EditRewrites, Edit
  <2>2. WorkTreeTyped(workTree')
    BY <1>0, <1>1, <2>1 DEF WorkTreeTyped, IsWorkTree
  <2> QED  BY <1>2, <2>1, <2>2
<1>8. CASE MoveRow
  <2>1. CASE \E row \in RowKinds : Edit([workTree EXCEPT !.rows = Toggled(t.rows, row)])
    <3>1. PICK row \in RowKinds : workTree' = [t EXCEPT !.rows = Toggled(t.rows, row)] /\ packVersions' = packVersions
      BY <2>1 DEF Edit
    <3>2. Toggled(t.rows, row) \subseteq RowKinds
      BY <1>0 DEF WorkTreeTyped, Toggled
    <3>3. WorkTreeTyped(workTree')
      BY <1>0, <1>1, <3>1, <3>2 DEF WorkTreeTyped, IsWorkTree
    <3> QED  BY <1>2, <3>1, <3>3
  <2>2. CASE \E row \in RowKinds, heading \in BOOLEAN : Edit([workTree EXCEPT !.rows = {row}, !.heading = heading])
    <3>1. PICK row \in RowKinds, heading \in BOOLEAN :
            workTree' = [t EXCEPT !.rows = {row}, !.heading = heading] /\ packVersions' = packVersions
      BY <2>2 DEF Edit
    <3>3. WorkTreeTyped(workTree')
      BY <1>0, <1>1, <3>1 DEF WorkTreeTyped, IsWorkTree
    <3> QED  BY <1>2, <3>1, <3>3
  <2>3. ASSUME NEW row \in RowKinds, Edit([workTree EXCEPT !.rows = {row}, !.heading = row = "core"])
        PROVE  \E r \in RowKinds, heading \in BOOLEAN : Edit([workTree EXCEPT !.rows = {r}, !.heading = heading])
    <3> DEFINE h == row = "core"
    <3>1. h \in BOOLEAN /\ Edit([workTree EXCEPT !.rows = {row}, !.heading = h])
      BY <2>3
    <3> HIDE DEF h
    <3> QED  BY <3>1
  <2> QED  BY <1>8, <2>1, <2>2, <2>3, Zenon DEF MoveRow, RowKinds
<1>9. CASE EditHeading
  <2>1. PICK v : workTree' = [t EXCEPT !.heading = v] /\ packVersions' = packVersions
    BY <1>9 DEF EditHeading, Edit
  <2>2. WorkTreeTyped(workTree')
    BY <1>0, <1>1, <2>1 DEF WorkTreeTyped, IsWorkTree
  <2> QED  BY <1>2, <2>1, <2>2
<1>17. CASE EditAliases
  <2>1. PICK v : workTree' = [t EXCEPT !.handAlias = v] /\ packVersions' = packVersions
    BY <1>17 DEF EditAliases, Edit
  <2>2. WorkTreeTyped(workTree')
    BY <1>0, <1>1, <2>1 DEF WorkTreeTyped, IsWorkTree
  <2> QED  BY <1>2, <2>1, <2>2
<1>10. CASE EditReadme
  <2>1. CASE \E says \in {"host", "third party"} : Edit([workTree EXCEPT !.readme = says])
    <3>1. PICK says : workTree' = [t EXCEPT !.readme = says] /\ packVersions' = packVersions
      BY <2>1 DEF Edit
    <3>2. WorkTreeTyped(workTree')
      BY <1>0, <1>1, <3>1 DEF WorkTreeTyped, IsWorkTree
    <3> QED  BY <1>2, <3>1, <3>2
  <2>2. CASE \E class \in {"host", "third party"} : Edit([workTree EXCEPT !.witness = class])
    <3>1. PICK class : workTree' = [t EXCEPT !.witness = class] /\ packVersions' = packVersions
      BY <2>2 DEF Edit
    <3>2. WorkTreeTyped(workTree')
      BY <1>0, <1>1, <3>1 DEF WorkTreeTyped, IsWorkTree
    <3> QED  BY <1>2, <3>1, <3>2
  <2> QED  BY <1>10, <2>1, <2>2 DEF EditReadme
<1>11. CASE EditProfile
  <2>1. CASE \/ Edit([workTree EXCEPT !.profile.families = Toggled(@, "k")])
             \/ \E file \in FloorFiles : Edit([workTree EXCEPT !.profile.floor = Toggled(@, file)])
    <3>1. PICK profile : workTree' = [t EXCEPT !.profile = profile] /\ packVersions' = packVersions
      BY <2>1 DEF Edit
    <3>2. WorkTreeTyped(workTree')
      BY <1>0, <1>1, <3>1 DEF WorkTreeTyped, IsWorkTree
    <3> QED  BY <1>2, <3>1, <3>2
  <2>2. CASE \E file \in FloorFiles : Edit([workTree EXCEPT !.files = Toggled(@, file)])
    <3>1. PICK files : workTree' = [t EXCEPT !.files = files] /\ packVersions' = packVersions
      BY <2>2 DEF Edit
    <3>2. WorkTreeTyped(workTree')
      BY <1>0, <1>1, <3>1 DEF WorkTreeTyped, IsWorkTree
    <3> QED  BY <1>2, <3>1, <3>2
  <2> QED  BY <1>11, <2>1, <2>2 DEF EditProfile
<1>12. CASE EditGuardedFile
  <2> DEFINE Line == {"guard", "comment", "other", "blocked", "inapplicable"}
  <2>1. PICK line \in Line :
          workTree' = [t EXCEPT !.guarded = Append(t.guarded, line)] /\ packVersions' = packVersions
    BY <1>12 DEF EditGuardedFile, Edit
  <2>3. t.guarded \in Seq(Line)
    BY <1>0 DEF WorkTreeTyped
  <2> DEFINE lines == Append(t.guarded, line)
  <2>4. lines \in Seq(Line)
    <3> HIDE DEF Line
    <3> QED  BY <2>1, <2>3
  <2> HIDE DEF lines
  <2>5. workTree' = [t EXCEPT !.guarded = lines]
    BY <2>1 DEF lines
  <2>2. WorkTreeTyped(workTree')
    BY <1>0, <1>1, <2>4, <2>5 DEF WorkTreeTyped, IsWorkTree
  <2> QED  BY <1>2, <2>1, <2>2
<1>13. CASE WriteGenerated
  <2>1. PICK caps, aliases :
          workTree' = [t EXCEPT !.caps = caps, !.aliases = aliases] /\ packVersions' = packVersions
    BY <1>13 DEF WriteGenerated
  <2>2. WorkTreeTyped(workTree')
    BY <1>0, <1>1, <2>1 DEF WorkTreeTyped, IsWorkTree
  <2> QED  BY <1>2, <2>1, <2>2
<1>14. CASE RefreshEvidence
  <2>1. PICK versions : workTree' = [t EXCEPT !.evidence = Inventory(versions)] /\ packVersions' = packVersions
    BY <1>14 DEF RefreshEvidence
  <2>3. Inventory(versions) = Inventory(Inventory(versions).of)
    BY DEF Inventory
  <2>2. WorkTreeTyped(workTree')
    BY <1>0, <1>1, <2>1, <2>3 DEF WorkTreeTyped, IsWorkTree
  <2> QED  BY <1>2, <2>1, <2>2
<1>15. CASE PublishVersion
  <2>1. PICK needs \in NeedSets, version \in 1 .. MaxVersions :
          /\ \A i \in DOMAIN packVersions : packVersions[i].version # version
          /\ packVersions' = Append(packVersions, [version |-> version, needs |-> needs, yanked |-> FALSE])
          /\ workTree' = workTree
    BY <1>15 DEF PublishVersion
  <2>2. VersionsApart'
    <3> DEFINE new == [version |-> version, needs |-> needs, yanked |-> FALSE]
    <3>1. new \in Version /\ new.version = version
      BY DeclarationAssumption DEF Version
    <3>2. packVersions \in Seq(Version)
      BY <1>0 DEF VersionsApart
    <3> HIDE DEF new
    <3>3. /\ packVersions' \in Seq(Version)
          /\ DOMAIN packVersions' = DOMAIN packVersions \cup {Len(packVersions) + 1}
          /\ packVersions'[Len(packVersions) + 1] = new
          /\ \A i \in DOMAIN packVersions : packVersions'[i] = packVersions[i] /\ i # Len(packVersions) + 1
      BY <2>1, <3>1, <3>2 DEF new
    <3>4. \A i, j \in DOMAIN packVersions' : packVersions'[i].version = packVersions'[j].version => i = j
      BY <1>0, <2>1, <3>1, <3>3 DEF VersionsApart
    <3> QED  BY <3>3, <3>4 DEF VersionsApart
  <2> QED  BY <1>0, <2>1, <2>2 DEF DeclarationInv
<1>16. CASE Yank
  <2>1. PICK i \in DOMAIN packVersions :
          packVersions' = [packVersions EXCEPT ![i].yanked = TRUE] /\ workTree' = workTree
    BY <1>16 DEF Yank
  <2>2. VersionsApart'
    <3> DEFINE gone == [packVersions[i] EXCEPT !.yanked = TRUE]
    <3>2. packVersions[i] \in Version /\ packVersions \in Seq(Version)
      BY <1>0 DEF VersionsApart
    <3>3. gone \in Version /\ gone.version = packVersions[i].version
      BY <3>2 DEF Version
    <3>4. packVersions' = [packVersions EXCEPT ![i] = gone]
      BY <2>1
    <3> HIDE DEF gone
    <3>1. /\ packVersions' \in Seq(Version)
          /\ DOMAIN packVersions' = DOMAIN packVersions
          /\ \A j \in DOMAIN packVersions : packVersions'[j].version = packVersions[j].version
      BY <3>2, <3>3, <3>4
    <3> QED  BY <1>0, <3>1 DEF VersionsApart
  <2> QED  BY <1>0, <2>1, <2>2 DEF DeclarationInv
<1> QED  BY <1>3, <1>4, <1>5, <1>6, <1>7, <1>8, <1>9, <1>10, <1>11, <1>12, <1>13, <1>14, <1>15, <1>16, <1>17
         DEF DeclarationNext

(* generate-from-declaration.mjs and check-declaration.mjs: for any        *)
(* facets, floors and needs of the packs, however the tree is edited and   *)
(* the registry moves on, a tree that passes the check keeps what v1 had,  *)
(* lets a host advertise what its families own and no more, resolves what  *)
(* the packs need, and shuts no honest host out.                           *)
THEOREM AcceptedTreesStaySound == DeclarationSpec => []AcceptedTreesAreSound
<1>1. DeclarationInit => DeclarationInv
  BY DeclarationStarts
<1>2. DeclarationInv /\ [DeclarationNext]_declarationVars => DeclarationInv'
  <2>1. DeclarationInv /\ UNCHANGED declarationVars => DeclarationInv'
    BY DEF DeclarationInv, VersionsApart, declarationVars
  <2> QED  BY <2>1, DeclarationSteps
<1>3. DeclarationInv => AcceptedTreesAreSound
  BY AcceptedIsSound
<1> QED  BY <1>1, <1>2, <1>3, PTL DEF DeclarationSpec
-----------------------------------------------------------------------------
(* The projections.                                                        *)

(* An author leaves a facet schema with a flag and clauses an author       *)
(* writes.                                                                 *)
SchemaTyped ==
  /\ facetSchema = [props |-> facetSchema.props, required |-> facetSchema.required,
                    extra |-> facetSchema.extra, conds |-> facetSchema.conds]
  /\ {"supported", "f"} \subseteq facetSchema.props /\ facetSchema.props \subseteq FacetNames
  /\ facetSchema.conds \subseteq Conditionals
(* The payload definitions of both majors.                                 *)
DefsTyped ==
  /\ payloadDefs = [v1 |-> payloadDefs.v1, v2 |-> payloadDefs.v2]
  /\ payloadDefs.v1 \in [PayloadDefs -> PayloadNode] /\ payloadDefs.v2 \in [PayloadDefs -> PayloadNode]
(* The inductive invariant of what is projected.                           *)
ProjectionInv ==
  /\ facetSchema # NoSubject => SchemaTyped
  /\ payloadDefs # NoSubject => DefsTyped

(* What an author writes in a clause, and what one that is not there says. *)
LEMMA FragmentFacts ==
  ASSUME NEW x, IsFragment(x)
  PROVE  /\ x = [here |-> x.here, requires |-> x.requires, isTrue |-> x.isTrue, without |-> x.without,
                 object |-> x.object, closed |-> FALSE, never |-> FALSE]
         /\ x.requires \subseteq FacetNames /\ x.isTrue \subseteq FacetNames /\ x.without \subseteq FacetNames
         /\ x.here \in BOOLEAN /\ x.object \in BOOLEAN
         /\ ~x.here => x.requires = {} /\ x.isTrue = {} /\ x.without = {}
<1>1. CASE x = NoFragment
  <2>1. x = [here |-> FALSE, requires |-> {}, isTrue |-> {}, without |-> {},
             object |-> FALSE, closed |-> FALSE, never |-> FALSE]
    BY <1>1 DEF NoFragment, Fragment
  <2> QED  BY <2>1
<1>2. CASE \E requires, isTrue, without \in SUBSET FacetNames, object \in BOOLEAN :
             x = Fragment(requires, isTrue, without, object)
  BY <1>2 DEF Fragment
<1> QED  BY <1>1, <1>2 DEF IsFragment

(* What a fragment of v1 asks of a document.                               *)
LEMMA SatisfiesFacts ==
  ASSUME NEW x, IsFragment(x), NEW doc
  PROVE  Satisfies(doc, x) <=> /\ x.requires \subseteq DOMAIN doc
                               /\ \A name \in x.isTrue \cap DOMAIN doc : doc[name]
                               /\ x.without \cap DOMAIN doc = {}
<1>1. x.never = FALSE /\ x.closed = FALSE
  BY FragmentFacts
<1> QED  BY <1>1 DEF Satisfies

(* The three parts of a clause are fragments.                              *)
LEMMA CondFacts ==
  ASSUME NEW c \in Conditionals
  PROVE  /\ c = [in |-> c.in, if |-> c.if, then |-> c.then, else |-> c.else]
         /\ IsFragment(c.if) /\ IsFragment(c.then) /\ IsFragment(c.else)
BY ProjectionAssumption

(* A document with the flag set.                                           *)
LEMMA ClaimedFacts ==
  ASSUME NEW doc
  PROVE  /\ DOMAIN Claimed(doc) = DOMAIN doc \cup {"supported"}
         /\ Claimed(doc)["supported"] = TRUE
         /\ \A name \in DOMAIN doc \ {"supported"} : Claimed(doc)[name] = doc[name]
BY DEF Claimed

(* stripSupportedFlag: a fragment without the flag takes what the fragment *)
(* took of a document that has it.                                         *)
LEMMA StrippedFacts ==
  ASSUME NEW x, IsFragment(x), NEW doc, "supported" \notin DOMAIN doc
  PROVE  Satisfies(doc, StripFragment(x)) <=> Satisfies(Claimed(doc), x)
<1> DEFINE s == StripFragment(x)
           nev == "supported" \in x.without
<1>1. s = [here |-> x.here, requires |-> x.requires \ {"supported"}, isTrue |-> x.isTrue \ {"supported"},
           without |-> x.without \ {"supported"}, object |-> x.object, closed |-> FALSE, never |-> nev]
  <2>1. s = [x EXCEPT !.requires = x.requires \ {"supported"}, !.isTrue = x.isTrue \ {"supported"},
                   !.without = x.without \ {"supported"}, !.never = nev]
    BY DEF StripFragment
  <2>2. x = [here |-> x.here, requires |-> x.requires, isTrue |-> x.isTrue, without |-> x.without,
             object |-> x.object, closed |-> FALSE, never |-> FALSE]
    BY FragmentFacts
  <2>3. PICK h, r, i, w, o : x = [here |-> h, requires |-> r, isTrue |-> i, without |-> w,
                                  object |-> o, closed |-> FALSE, never |-> FALSE]
    BY <2>2
  <2>4. x.here = h /\ x.requires = r /\ x.isTrue = i /\ x.without = w /\ x.object = o
    BY <2>3
  <2> HIDE DEF s, nev
  <2>5. s = [here |-> h, requires |-> r \ {"supported"}, isTrue |-> i \ {"supported"},
             without |-> w \ {"supported"}, object |-> o, closed |-> FALSE, never |-> nev]
    BY <2>1, <2>3, <2>4
  <2> QED  BY <2>4, <2>5
<1>2. Satisfies(doc, s) <=>
        /\ ~nev
        /\ x.requires \ {"supported"} \subseteq DOMAIN doc
        /\ \A name \in (x.isTrue \ {"supported"}) \cap DOMAIN doc : doc[name]
        /\ (x.without \ {"supported"}) \cap DOMAIN doc = {}
  <2> HIDE DEF s, nev
  <2> QED  BY <1>1 DEF Satisfies
<1>3. Satisfies(Claimed(doc), x) <=>
        /\ x.requires \subseteq DOMAIN doc \cup {"supported"}
        /\ \A name \in x.isTrue \cap (DOMAIN doc \cup {"supported"}) : Claimed(doc)[name]
        /\ x.without \cap (DOMAIN doc \cup {"supported"}) = {}
  <2> DEFINE d == Claimed(doc)
  <2>1. Satisfies(d, x) <=> /\ x.requires \subseteq DOMAIN d
                            /\ \A name \in x.isTrue \cap DOMAIN d : d[name]
                            /\ x.without \cap DOMAIN d = {}
    <3> HIDE DEF d
    <3> QED  BY SatisfiesFacts
  <2>2. DOMAIN d = DOMAIN doc \cup {"supported"}
    BY ClaimedFacts
  <2> HIDE DEF d
  <2>3. Satisfies(d, x) <=> /\ x.requires \subseteq DOMAIN doc \cup {"supported"}
                            /\ \A name \in x.isTrue \cap (DOMAIN doc \cup {"supported"}) : d[name]
                            /\ x.without \cap (DOMAIN doc \cup {"supported"}) = {}
    BY <2>1, <2>2
  <2> QED  BY <2>3 DEF d
<1>4. (\A name \in x.isTrue \cap (DOMAIN doc \cup {"supported"}) : Claimed(doc)[name])
      <=> (\A name \in (x.isTrue \ {"supported"}) \cap DOMAIN doc : doc[name])
  BY ClaimedFacts
<1> HIDE DEF s
<1> QED  BY <1>2, <1>3, <1>4 DEF s

(* A projection goes into every part of a clause.                          *)
LEMMA EachFacts ==
  ASSUME NEW c
  PROVE  /\ Each(StripFragment, c).if = StripFragment(c.if)
         /\ Each(StripFragment, c).then = StripFragment(c.then)
         /\ Each(StripFragment, c).else = StripFragment(c.else)
         /\ Each(ProjectFragment, c).if = ProjectFragment(c.if)
         /\ Each(ProjectFragment, c).then = ProjectFragment(c.then)
         /\ Each(ProjectFragment, c).else = ProjectFragment(c.else)
BY DEF Each

(* What the clause asks of a document.                                     *)
Meets(doc, c) == Satisfies(doc, IF Satisfies(doc, c.if) THEN c.then ELSE c.else)

(* stripSupportedFlag: dropping the flag changes no verdict.               *)
LEMMA StrippingIsExact ==
  ASSUME SchemaTyped
  PROVE  StrippedIsExact
<1> DEFINE flagless == stripSupportedFlag(facetSchema)
           flagged == [facetSchema EXCEPT !.props = facetSchema.props \cup {"supported"}]
<1> SUFFICES ASSUME NEW doc \in DocsOver(facetSchema.props \ {"supported"})
             PROVE  Valid(flagless, doc) <=> Valid(flagged, Claimed(doc))
  BY DEF StrippedIsExact
<1>1. "supported" \notin DOMAIN doc
  BY DEF DocsOver
<1> DEFINE conds == {Each(StripFragment, cond) : cond \in facetSchema.conds}
<1>2. flagless = [props |-> facetSchema.props \ {"supported"}, required |-> facetSchema.required \ {"supported"},
                  extra |-> facetSchema.extra, conds |-> conds]
  <2>1. flagless = [facetSchema EXCEPT !.props = facetSchema.props \ {"supported"},
          !.required = facetSchema.required \ {"supported"}, !.conds = conds]
    BY DEF stripSupportedFlag
  <2> HIDE DEF flagless, conds
  <2> QED  BY <2>1 DEF SchemaTyped
<1>3. flagged = [props |-> facetSchema.props \cup {"supported"}, required |-> facetSchema.required,
                 extra |-> facetSchema.extra, conds |-> facetSchema.conds]
  BY DEF SchemaTyped
<1>4. (\A cond \in conds : Meets(doc, cond)) <=> (\A cond \in facetSchema.conds : Meets(Claimed(doc), cond))
  <2>1. ASSUME NEW cond \in facetSchema.conds
        PROVE  Meets(doc, Each(StripFragment, cond)) <=> Meets(Claimed(doc), cond)
    <3>1. IsFragment(cond.if) /\ IsFragment(cond.then) /\ IsFragment(cond.else)
      BY CondFacts DEF SchemaTyped
    <3>2. /\ Satisfies(doc, StripFragment(cond.if)) <=> Satisfies(Claimed(doc), cond.if)
          /\ Satisfies(doc, StripFragment(cond.then)) <=> Satisfies(Claimed(doc), cond.then)
          /\ Satisfies(doc, StripFragment(cond.else)) <=> Satisfies(Claimed(doc), cond.else)
      BY <1>1, <3>1, StrippedFacts
    <3> QED  BY <3>2, EachFacts DEF Meets
  <2> QED  BY <2>1
<1> HIDE DEF flagless, flagged, conds
<1>5. Valid(flagless, doc) <=>
        /\ facetSchema.required \ {"supported"} \subseteq DOMAIN doc
        /\ facetSchema.extra = "closed" => DOMAIN doc \subseteq facetSchema.props \ {"supported"}
        /\ \A cond \in conds : Meets(doc, cond)
  BY <1>2 DEF Valid, Meets
<1>6. Valid(flagged, Claimed(doc)) <=>
        /\ facetSchema.required \subseteq DOMAIN Claimed(doc)
        /\ facetSchema.extra = "closed" => DOMAIN Claimed(doc) \subseteq facetSchema.props \cup {"supported"}
        /\ \A cond \in facetSchema.conds : Meets(Claimed(doc), cond)
  BY <1>3 DEF Valid, Meets
<1> QED  BY <1>1, <1>4, <1>5, <1>6, ClaimedFacts DEF flagless, flagged

(* projectV1FacetSchema: what a projected fragment asks of a document.     *)
LEMMA ProjectedFacts ==
  ASSUME NEW x, IsFragment(x), NEW doc
  PROVE  Satisfies(doc, ProjectFragment(x)) <=>
           /\ x.requires \ RETIRED \subseteq DOMAIN doc
           /\ \A name \in (x.isTrue \ RETIRED) \cap DOMAIN doc : doc[name]
           /\ x.without \cap DOMAIN doc = {}
           /\ x.object => DOMAIN doc \subseteq x.isTrue \ RETIRED
<1> DEFINE s == ProjectFragment(x)
<1>1. s = [x EXCEPT !.requires = x.requires \ RETIRED, !.isTrue = x.isTrue \ RETIRED, !.closed = x.object]
  BY DEF ProjectFragment
<1>2. PICK h, r, i, w, o : x = [here |-> h, requires |-> r, isTrue |-> i, without |-> w,
                                object |-> o, closed |-> FALSE, never |-> FALSE]
  <2>1. x = [here |-> x.here, requires |-> x.requires, isTrue |-> x.isTrue, without |-> x.without,
             object |-> x.object, closed |-> FALSE, never |-> FALSE]
    BY FragmentFacts
  <2> QED  BY <2>1
<1>3. x.here = h /\ x.requires = r /\ x.isTrue = i /\ x.without = w /\ x.object = o
  BY <1>2
<1> HIDE DEF s
<1>4. s = [here |-> h, requires |-> r \ RETIRED, isTrue |-> i \ RETIRED,
           without |-> w, object |-> o, closed |-> o, never |-> FALSE]
  BY <1>1, <1>2, <1>3
<1>5. Satisfies(doc, s) <=>
        /\ r \ RETIRED \subseteq DOMAIN doc
        /\ \A name \in (i \ RETIRED) \cap DOMAIN doc : doc[name]
        /\ w \cap DOMAIN doc = {}
        /\ o => DOMAIN doc \subseteq i \ RETIRED
  BY <1>4 DEF Satisfies
<1> QED  BY <1>3, <1>5 DEF s

(* A document of v1, and of v2 without the retired names.                  *)
Agree(doc1, doc2) ==
  /\ DOMAIN doc2 = DOMAIN doc1 \ RETIRED
  /\ \A name \in DOMAIN doc2 : doc2[name] = doc1[name]

(* What a fragment took, its projection takes of the document without the  *)
(* retired names, unless it closes.                                        *)
LEMMA Forth ==
  ASSUME NEW x, IsFragment(x), NEW doc1, NEW doc2, Agree(doc1, doc2), ~x.object, Satisfies(doc1, x)
  PROVE  Satisfies(doc2, ProjectFragment(x))
<1>1. /\ x.requires \subseteq DOMAIN doc1
      /\ \A name \in x.isTrue \cap DOMAIN doc1 : doc1[name]
      /\ x.without \cap DOMAIN doc1 = {}
  BY SatisfiesFacts
<1>2. /\ x.requires \ RETIRED \subseteq DOMAIN doc2
      /\ \A name \in (x.isTrue \ RETIRED) \cap DOMAIN doc2 : doc2[name]
      /\ x.without \cap DOMAIN doc2 = {}
  BY <1>1 DEF Agree
<1> QED  BY <1>2, ProjectedFacts

(* What the projection of a fragment takes, the fragment took, if the      *)
(* retired names it asks for are there.                                    *)
LEMMA Back ==
  ASSUME NEW x, IsFragment(x), NEW doc1, NEW doc2, Agree(doc1, doc2), RETIRED \cap x.without = {},
         \A name \in RETIRED \cap (x.requires \cup x.isTrue) : name \in DOMAIN doc1 /\ doc1[name],
         Satisfies(doc2, ProjectFragment(x))
  PROVE  Satisfies(doc1, x)
<1>1. /\ x.requires \ RETIRED \subseteq DOMAIN doc2
      /\ \A name \in (x.isTrue \ RETIRED) \cap DOMAIN doc2 : doc2[name]
      /\ x.without \cap DOMAIN doc2 = {}
  BY ProjectedFacts
<1>2. x.requires \subseteq DOMAIN doc1
  BY <1>1 DEF Agree
<1>3. \A name \in x.isTrue \cap DOMAIN doc1 : doc1[name]
  BY <1>1 DEF Agree
<1>4. x.without \cap DOMAIN doc1 = {}
  BY <1>1 DEF Agree
<1> QED  BY <1>2, <1>3, <1>4, SatisfiesFacts

(* familyRecord: the record of a seeded family.                            *)
LEMMA RecordFacts ==
  ASSUME SchemaTyped
  PROVE  LET record == familyRecord(facetSchema, FALSE)
         IN  /\ record.props = facetSchema.props \ RETIRED
             /\ record.required = (facetSchema.required \ RETIRED)
                                    \cup UNION {foldSupportedGate(cond) : cond \in facetSchema.conds}
             /\ record.extra = "closed"
             /\ record.conds = {Each(ProjectFragment, cond) : cond \in {c \in facetSchema.conds : ~Dropped(c)}}
<1> DEFINE req == (facetSchema.required \ RETIRED)
                     \cup UNION {foldSupportedGate(cond) : cond \in facetSchema.conds}
           conds == {Each(ProjectFragment, cond) : cond \in {c \in facetSchema.conds : ~Dropped(c)}}
           ext == IF facetSchema.extra = "open" THEN "open" ELSE "closed"
<1>1. projectV1FacetSchema(facetSchema) =
        [props |-> facetSchema.props \ RETIRED, required |-> req, extra |-> ext, conds |-> conds]
  BY DEF projectV1FacetSchema
<1> DEFINE facets == projectV1FacetSchema(facetSchema)
<1>2. familyRecord(facetSchema, FALSE) =
        [facets EXCEPT !.extra = "closed", !.conds = {cond \in facets.conds : FALSE => cond.in = "allOf"}]
  BY DEF familyRecord
<1> HIDE DEF req, conds, ext, facets
<1>3. {cond \in facets.conds : FALSE => cond.in = "allOf"} = facets.conds
  OBVIOUS
<1>4. facets = [props |-> facetSchema.props \ RETIRED, required |-> req, extra |-> ext, conds |-> conds]
  BY <1>1 DEF facets
<1>5. familyRecord(facetSchema, FALSE) =
        [props |-> facetSchema.props \ RETIRED, required |-> req, extra |-> "closed", conds |-> conds]
  BY <1>2, <1>3, <1>4
<1> DEFINE record == familyRecord(facetSchema, FALSE)
<1>6. record = [props |-> facetSchema.props \ RETIRED, required |-> req, extra |-> "closed", conds |-> conds]
  BY <1>5
<1> HIDE DEF record
<1>7. /\ record.props = facetSchema.props \ RETIRED /\ record.required = req
      /\ record.extra = "closed" /\ record.conds = conds
  BY <1>6
<1> QED  BY <1>7 DEF req, conds, record

(* familyRecord: what the record asks of a document.                       *)
LEMMA RecordIsValid ==
  ASSUME SchemaTyped, NEW doc
  PROVE  Valid(familyRecord(facetSchema, FALSE), doc) <=>
           /\ facetSchema.required \ RETIRED \subseteq DOMAIN doc
           /\ \A cond \in facetSchema.conds : foldSupportedGate(cond) \subseteq DOMAIN doc
           /\ DOMAIN doc \subseteq facetSchema.props \ RETIRED
           /\ \A cond \in facetSchema.conds : ~Dropped(cond) => Meets(doc, Each(ProjectFragment, cond))
<1> DEFINE record == familyRecord(facetSchema, FALSE)
<1>1. /\ record.props = facetSchema.props \ RETIRED
      /\ record.required = (facetSchema.required \ RETIRED)
                             \cup UNION {foldSupportedGate(cond) : cond \in facetSchema.conds}
      /\ record.extra = "closed"
      /\ record.conds = {Each(ProjectFragment, cond) : cond \in {c \in facetSchema.conds : ~Dropped(c)}}
  BY RecordFacts
<1> HIDE DEF record
<1>2. Valid(record, doc) <=>
        /\ record.required \subseteq DOMAIN doc
        /\ DOMAIN doc \subseteq record.props
        /\ \A cond \in record.conds : Meets(doc, cond)
  BY <1>1 DEF Valid, Meets
<1>3. (\A cond \in record.conds : Meets(doc, cond)) <=>
      (\A cond \in facetSchema.conds : ~Dropped(cond) => Meets(doc, Each(ProjectFragment, cond)))
  BY <1>1
<1>4. record.required \subseteq DOMAIN doc <=>
        /\ facetSchema.required \ RETIRED \subseteq DOMAIN doc
        /\ \A cond \in facetSchema.conds : foldSupportedGate(cond) \subseteq DOMAIN doc
  BY <1>1
<1> QED  BY <1>1, <1>2, <1>3, <1>4 DEF record

(* The clause is met, said with what it asks under each case.              *)
LEMMA MeetsFacts ==
  ASSUME NEW doc, NEW c
  PROVE  Meets(doc, c) <=> /\ Satisfies(doc, c.if) => Satisfies(doc, c.then)
                           /\ ~Satisfies(doc, c.if) => Satisfies(doc, c.else)
<1>1. CASE Satisfies(doc, c.if)
  BY <1>1 DEF Meets
<1>2. CASE ~Satisfies(doc, c.if)
  BY <1>2 DEF Meets
<1> QED  BY <1>1, <1>2

(* A clause that stays in the record and is met there was met in v1, by    *)
(* the document with the flag and the tier put back.                       *)
LEMMA KeptIsMetBefore ==
  ASSUME NEW c \in Conditionals, ~Relaxing(c), ~gatesOnSupported(c.if), NEW doc1, NEW doc2, Agree(doc1, doc2),
         \A name \in RETIRED : name \in DOMAIN doc1 /\ doc1[name],
         Meets(doc2, Each(ProjectFragment, c))
  PROVE  Meets(doc1, c)
<1>1. IsFragment(c.if) /\ IsFragment(c.then) /\ IsFragment(c.else)
  BY CondFacts
<1>2. /\ RETIRED \cap c.if.without = {} /\ RETIRED \cap c.then.without = {} /\ RETIRED \cap c.else.without = {}
      /\ ~c.if.object
  BY DEF Relaxing
<1>3. /\ Satisfies(doc2, ProjectFragment(c.if)) => Satisfies(doc2, ProjectFragment(c.then))
      /\ ~Satisfies(doc2, ProjectFragment(c.if)) => Satisfies(doc2, ProjectFragment(c.else))
  BY MeetsFacts, EachFacts
<1>4. Satisfies(doc1, c.if) => Satisfies(doc2, ProjectFragment(c.if))
  BY <1>1, <1>2, Forth
<1>5. /\ Satisfies(doc2, ProjectFragment(c.if)) => Satisfies(doc1, c.if)
      /\ Satisfies(doc2, ProjectFragment(c.then)) => Satisfies(doc1, c.then)
      /\ Satisfies(doc2, ProjectFragment(c.else)) => Satisfies(doc1, c.else)
  BY <1>1, <1>2, Back
<1> QED  BY <1>3, <1>4, <1>5, MeetsFacts

(* A clause that asked about the flag, and was folded into the record.     *)
LEMMA FoldedIsMetBefore ==
  ASSUME NEW c \in Conditionals, ~Relaxing(c), gatesOnSupported(c.if), NEW doc1, NEW doc2, Agree(doc1, doc2),
         \A name \in RETIRED : name \in DOMAIN doc1 /\ doc1[name],
         foldSupportedGate(c) \subseteq DOMAIN doc2
  PROVE  Meets(doc1, c)
<1>1. IsFragment(c.if) /\ IsFragment(c.then) /\ IsFragment(c.else)
  BY CondFacts
<1>2. /\ RETIRED \cap c.if.without = {} /\ RETIRED \cap c.then.without = {}
      /\ c.then.isTrue \subseteq RETIRED /\ c.then.without \subseteq RETIRED
      /\ MixedGate(c) => ~c.else.here
  BY DEF Relaxing
<1>3. Satisfies(doc1, c.then)
  <2>1. c.then.requires \ RETIRED \subseteq DOMAIN doc2
    BY DEF foldSupportedGate
  <2>2. c.then.requires \subseteq DOMAIN doc1
    BY <2>1 DEF Agree
  <2>3. \A name \in c.then.isTrue \cap DOMAIN doc1 : doc1[name]
    BY <1>2
  <2>4. c.then.without = {}
    BY <1>2
  <2> QED  BY <1>1, <2>2, <2>3, <2>4, SatisfiesFacts
<1>4. CASE MixedGate(c)
  <2>1. c.else.requires = {} /\ c.else.isTrue = {} /\ c.else.without = {}
    BY <1>1, <1>2, <1>4, FragmentFacts
  <2>2. Satisfies(doc1, c.else)
    BY <1>1, <2>1, SatisfiesFacts
  <2> QED  BY <1>3, <2>2, MeetsFacts
<1>5. CASE ~MixedGate(c)
  <2>1. c.if.requires \cup c.if.isTrue \cup c.if.without = {"supported"}
    BY <1>5 DEF MixedGate
  <2>2. c.if.without = {}
    BY <1>2, <2>1 DEF RETIRED
  <2>3. c.if.requires \subseteq RETIRED /\ c.if.isTrue \subseteq RETIRED
    BY <2>1 DEF RETIRED
  <2>4. Satisfies(doc1, c.if)
    BY <1>1, <2>2, <2>3, SatisfiesFacts
  <2> QED  BY <1>3, <2>4, MeetsFacts
<1> QED  BY <1>4, <1>5

(* familyRecord: what the record takes, v1 took.                           *)
LEMMA NothingRelaxed ==
  ASSUME SchemaTyped
  PROVE  NothingIsRelaxed
<1> DEFINE v1Schema == [facetSchema EXCEPT !.extra = "unset"]
<1> SUFFICES ASSUME \A cond \in facetSchema.conds : ~Relaxing(cond),
                    NEW doc \in DocsOver(facetSchema.props \ RETIRED),
                    Valid(familyRecord(facetSchema, FALSE), doc)
             PROVE  \E d \in Advertising(FacetNames) : Valid(v1Schema, Claimed(d)) /\ WithoutRetired(d) = doc
  BY DEF NothingIsRelaxed
<1>1. /\ facetSchema.required \ RETIRED \subseteq DOMAIN doc
      /\ \A cond \in facetSchema.conds : foldSupportedGate(cond) \subseteq DOMAIN doc
      /\ \A cond \in facetSchema.conds : ~Dropped(cond) => Meets(doc, Each(ProjectFragment, cond))
  BY RecordIsValid
<1>2. PICK said \in SUBSET (facetSchema.props \ RETIRED) : doc \in [said -> BOOLEAN]
  BY DEF DocsOver
<1> DEFINE d == [name \in said \cup {"tier"} |-> IF name = "tier" THEN TRUE ELSE doc[name]]
<1>3. d \in [said \cup {"tier"} -> BOOLEAN] /\ said \cup {"tier"} \in SUBSET FacetNames
  BY <1>2, ProjectionAssumption DEF SchemaTyped
<1>4. d \in Advertising(FacetNames)
  <2>1. d \in DocsOver(FacetNames)
    <3> HIDE DEF d
    <3> QED  BY <1>3 DEF DocsOver
  <2>2. "supported" \notin DOMAIN d
    BY <1>2 DEF RETIRED
  <2> HIDE DEF d
  <2> QED  BY <2>1, <2>2 DEF Advertising
<1>5. /\ DOMAIN d = said \cup {"tier"} /\ d["tier"] = TRUE
      /\ \A name \in said : d[name] = doc[name]
  BY <1>2 DEF RETIRED
<1>6. WithoutRetired(d) = doc
  <2>1. DOMAIN d \ RETIRED = said
    BY <1>2, <1>5 DEF RETIRED
  <2>2. WithoutRetired(d) = [name \in said |-> d[name]]
    BY <2>1 DEF WithoutRetired, Restrict
  <2> HIDE DEF d
  <2>3. WithoutRetired(d) = [name \in said |-> doc[name]]
    BY <1>5, <2>2
  <2> QED  BY <1>2, <2>3
<1> HIDE DEF d
<1> DEFINE d1 == Claimed(d)
<1>7. /\ DOMAIN d1 = said \cup {"tier", "supported"}
      /\ d1["supported"] = TRUE /\ d1["tier"] = TRUE
      /\ \A name \in said : d1[name] = doc[name]
  <2>1. \A name \in said : name # "supported"
    BY <1>2 DEF RETIRED
  <2> QED  BY <1>5, <2>1, ClaimedFacts
<1> HIDE DEF d1
<1>8. Agree(d1, doc)
  BY <1>2, <1>7 DEF Agree, RETIRED
<1>9. \A name \in RETIRED : name \in DOMAIN d1 /\ d1[name]
  BY <1>7 DEF RETIRED
<1>10. ASSUME NEW c \in facetSchema.conds
       PROVE  Meets(d1, c)
  <2>1. c \in Conditionals /\ ~Relaxing(c)
    BY DEF SchemaTyped
  <2>2. CASE gatesOnSupported(c.if)
    BY <1>1, <1>8, <1>9, <2>1, <2>2, FoldedIsMetBefore
  <2>3. CASE ~gatesOnSupported(c.if)
    <3>1. ~Dropped(c)
      BY <2>1, <2>3 DEF Relaxing, Dropped
    <3> QED  BY <1>1, <1>8, <1>9, <2>1, <2>3, <3>1, KeptIsMetBefore
  <2> QED  BY <2>2, <2>3
<1>11. Valid(v1Schema, d1)
  <2>1. v1Schema = [props |-> facetSchema.props, required |-> facetSchema.required,
                    extra |-> "unset", conds |-> facetSchema.conds]
    BY DEF SchemaTyped
  <2>2. facetSchema.required \subseteq DOMAIN d1
    BY <1>1, <1>2, <1>7 DEF RETIRED
  <2> HIDE DEF v1Schema
  <2> QED  BY <1>10, <2>1, <2>2 DEF Valid, Meets
<1> QED  BY <1>4, <1>6, <1>11 DEF d1

(* And forth: what was met in v1 is met by the document without its flag.  *)
LEMMA KeptIsMetAfter ==
  ASSUME NEW c \in Conditionals, ~Tightening(c), ~gatesOnSupported(c.if), NEW doc1, NEW doc2, Agree(doc1, doc2),
         Meets(doc1, c)
  PROVE  Meets(doc2, Each(ProjectFragment, c))
<1>1. IsFragment(c.if) /\ IsFragment(c.then) /\ IsFragment(c.else)
  BY CondFacts
<1>2. /\ RETIRED \cap c.if.without = {} /\ ~c.if.object /\ ~c.then.object /\ ~c.else.object
      /\ RETIRED \cap (c.if.requires \cup c.if.isTrue) = {}
  BY DEF Tightening, gatesOnSupported, RETIRED
<1>3. /\ Satisfies(doc1, c.if) => Satisfies(doc1, c.then)
      /\ ~Satisfies(doc1, c.if) => Satisfies(doc1, c.else)
  BY MeetsFacts
<1>4. Satisfies(doc2, ProjectFragment(c.if)) => Satisfies(doc1, c.if)
  BY <1>1, <1>2, Back
<1>5. /\ Satisfies(doc1, c.if) => Satisfies(doc2, ProjectFragment(c.if))
      /\ Satisfies(doc1, c.then) => Satisfies(doc2, ProjectFragment(c.then))
      /\ Satisfies(doc1, c.else) => Satisfies(doc2, ProjectFragment(c.else))
  BY <1>1, <1>2, Forth
<1>6. /\ Satisfies(doc2, ProjectFragment(c.if)) => Satisfies(doc2, ProjectFragment(c.then))
      /\ ~Satisfies(doc2, ProjectFragment(c.if)) => Satisfies(doc2, ProjectFragment(c.else))
  BY <1>3, <1>4, <1>5
<1> QED  BY <1>6, MeetsFacts, EachFacts

(* foldSupportedGate: what a clause required of a host that set the flag   *)
(* was required in v1.                                                     *)
LEMMA FoldedWasRequired ==
  ASSUME NEW c \in Conditionals, ~Tightening(c), NEW doc1, NEW doc2, Agree(doc1, doc2),
         "supported" \in DOMAIN doc1, doc1["supported"], Meets(doc1, c)
  PROVE  foldSupportedGate(c) \subseteq DOMAIN doc2
<1>1. CASE ~gatesOnSupported(c.if)
  BY <1>1 DEF foldSupportedGate
<1>2. CASE gatesOnSupported(c.if)
  <2>1. IsFragment(c.if) /\ IsFragment(c.then)
    BY CondFacts
  <2>2. c.if.requires \cup c.if.isTrue \cup c.if.without = {"supported"} /\ RETIRED \cap c.if.without = {}
    BY <1>2 DEF Tightening, MixedGate
  <2>3. c.if.requires \subseteq {"supported"} /\ c.if.isTrue \subseteq {"supported"} /\ c.if.without = {}
    BY <2>2 DEF RETIRED
  <2>4. Satisfies(doc1, c.if)
    BY <2>1, <2>3, SatisfiesFacts
  <2>5. Satisfies(doc1, c.then)
    BY <2>4, MeetsFacts
  <2>6. c.then.requires \subseteq DOMAIN doc1
    BY <2>1, <2>5, SatisfiesFacts
  <2> QED  BY <2>6 DEF foldSupportedGate, Agree
<1> QED  BY <1>1, <1>2

(* familyRecord: what v1 took, the record takes.                           *)
LEMMA NobodyShutOut ==
  ASSUME SchemaTyped
  PROVE  NobodyIsShutOut
<1> SUFFICES ASSUME \A cond \in facetSchema.conds : ~Tightening(cond),
                    NEW doc \in Advertising(facetSchema.props),
                    Valid(facetSchema, Claimed(doc))
             PROVE  Valid(familyRecord(facetSchema, FALSE), WithoutRetired(doc))
  BY DEF NobodyIsShutOut
<1>1. DOMAIN doc \subseteq facetSchema.props
  BY DEF Advertising, DocsOver
<1> DEFINE d1 == Claimed(doc)
           d2 == WithoutRetired(doc)
<1>2. /\ DOMAIN d1 = DOMAIN doc \cup {"supported"} /\ d1["supported"] = TRUE
      /\ \A name \in DOMAIN doc \ {"supported"} : d1[name] = doc[name]
  BY ClaimedFacts
<1>3. DOMAIN d2 = DOMAIN doc \ RETIRED /\ \A name \in DOMAIN d2 : d2[name] = doc[name]
  BY DEF WithoutRetired, Restrict
<1>4. /\ facetSchema.required \subseteq DOMAIN d1
      /\ \A cond \in facetSchema.conds : Meets(d1, cond)
  BY DEF Valid, Meets
<1> HIDE DEF d1, d2
<1>5. Agree(d1, d2)
  BY <1>2, <1>3 DEF Agree, RETIRED
<1>6. facetSchema.required \ RETIRED \subseteq DOMAIN d2
  BY <1>2, <1>3, <1>4 DEF RETIRED
<1>7. DOMAIN d2 \subseteq facetSchema.props \ RETIRED
  BY <1>1, <1>3
<1>8. ASSUME NEW c \in facetSchema.conds
      PROVE  foldSupportedGate(c) \subseteq DOMAIN d2
  BY <1>2, <1>4, <1>5, FoldedWasRequired DEF SchemaTyped
<1>9. ASSUME NEW c \in facetSchema.conds, ~Dropped(c)
      PROVE  Meets(d2, Each(ProjectFragment, c))
  <2>1. ~gatesOnSupported(c.if)
    BY <1>9 DEF Dropped, Mentions
  <2> QED  BY <1>4, <1>5, <2>1, KeptIsMetAfter DEF SchemaTyped
<1>10. Valid(familyRecord(facetSchema, FALSE), d2)
  BY <1>6, <1>7, <1>8, <1>9, RecordIsValid
<1> QED  BY <1>10 DEF d2

(* check-required-properties-defined.mjs: a required name that is declared *)
(* nowhere is reported.                                                    *)
LEMMA TyposReported ==
  ASSUME SchemaTyped
  PROVE  TyposAreReported
<1> DEFINE parts(conds) == UNION {{cond.if, cond.then, cond.else} : cond \in conds}
<1>1. facetSchema.props # {}
  BY DEF SchemaTyped
<1>2. RequiredUndefined(facetSchema) = (UNION {UndefinedIn(part, facetSchema.props) : part \in parts(facetSchema.conds)})
                                          \cup (facetSchema.required \ facetSchema.props)
  BY <1>1 DEF RequiredUndefined
<1>3. facetSchema.required \ facetSchema.props \subseteq RequiredUndefined(facetSchema)
  BY <1>2
<1>4. ASSUME NEW cond \in facetSchema.conds, NEW part \in {cond.if, cond.then, cond.else}, part.isTrue # {}
      PROVE  part.requires \ (facetSchema.props \cup part.isTrue) \subseteq RequiredUndefined(facetSchema)
  <2>1. IsFragment(part)
    BY CondFacts DEF SchemaTyped
  <2>2. part.here
    BY <1>4, <2>1, FragmentFacts
  <2>3. UndefinedIn(part, facetSchema.props) = part.requires \ (facetSchema.props \cup part.isTrue)
    BY <1>4, <2>2 DEF UndefinedIn
  <2>4. part \in parts(facetSchema.conds)
    OBVIOUS
  <2> HIDE DEF parts
  <2> QED  BY <1>2, <2>3, <2>4
<1>5. RequiredUndefined(facetSchema) \cap facetSchema.props = {}
  <2>1. \A part : UndefinedIn(part, facetSchema.props) \cap facetSchema.props = {}
    BY DEF UndefinedIn
  <2> HIDE DEF parts
  <2> QED  BY <1>2, <2>1
<1>6. Folded \ facetSchema.props \subseteq RequiredUndefined(familyRecord(facetSchema, FALSE))
  <2> DEFINE record == familyRecord(facetSchema, FALSE)
  <2>1. /\ record.props = facetSchema.props \ RETIRED /\ Folded \subseteq record.required /\ record.extra = "closed"
    BY RecordFacts DEF Folded
  <2> HIDE DEF record
  <2>2. record.required \ record.props \subseteq RequiredUndefined(record)
    BY <2>1 DEF RequiredUndefined
  <2>3. Folded \ facetSchema.props \subseteq RequiredUndefined(record)
    BY <2>1, <2>2
  <2> QED  BY <2>3 DEF record
<1> HIDE DEF parts
<1> QED  BY <1>3, <1>4, <1>5, <1>6 DEF TyposAreReported

(* What holds of no number and is inherited from each number to the next   *)
(* has no least exception: the exceptions are a set.                       *)
LEMMA NoneExcepted ==
  ASSUME NEW bad, bad \subseteq Nat, 0 \notin bad,
         \A n \in Nat : n \notin bad => n + 1 \notin bad
  PROVE  bad = {}
<1> SUFFICES ASSUME bad # {} PROVE FALSE
  OBVIOUS
<1>1. PICK k \in bad : \A m \in bad : k <= m
  BY LeastOfNat
<1>2. k \in Nat /\ k # 0 /\ k - 1 \in Nat /\ (k - 1) + 1 = k /\ ~ (k <= k - 1)
  BY <1>1
<1>3. k - 1 \notin bad
  BY <1>1, <1>2
<1> QED  BY <1>1, <1>2, <1>3

(* The references of a definition, one after another.                      *)
FollowStep(g, n, defs, name) ==
  IF n = 0 THEN <<name>>
  ELSE IF defs[Last(g[n - 1])].ref = "none" \/ defs[Last(g[n - 1])].ref \in ToSet(Tail(g[n - 1])) THEN g[n - 1]
       ELSE Append(g[n - 1], defs[Last(g[n - 1])].ref)
FollowUpTo(defs, name) ==
  CHOOSE g : g = [n \in 0..Cardinality(PayloadDefs) |-> FollowStep(g, n, defs, name)]

(* check-payload-closure-hatched.mjs: the chain is where the references    *)
(* lead after as many steps as there are definitions.                      *)
LEMMA ChainIsFollowed ==
  ASSUME NEW defs, NEW name
  PROVE  Chain(defs, name) = FollowUpTo(defs, name)[Cardinality(PayloadDefs)]
BY DEF Chain, FollowUpTo, FollowStep

(* A chain can be followed for any number of steps.                        *)
LEMMA FollowExists ==
  ASSUME NEW defs, NEW name, NEW m \in Nat
  PROVE  \E g : g = [n \in 0..m |-> FollowStep(g, n, defs, name)]
<1> DEFINE bad == {k \in Nat : ~ \E g : g = [n \in 0..k |-> FollowStep(g, n, defs, name)]}
<1>1. 0 \notin bad
  <2> DEFINE z == [n \in 0..0 |-> <<name>>]
  <2>1. z = [n \in 0..0 |-> FollowStep(z, n, defs, name)]
    BY DEF FollowStep
  <2> HIDE DEF z
  <2> QED  BY <2>1
<1>2. ASSUME NEW k \in Nat, k \notin bad PROVE k + 1 \notin bad
  <2>1. PICK g : g = [n \in 0..k |-> FollowStep(g, n, defs, name)]
    BY <1>2
  <2> DEFINE h == [n \in 0..(k + 1) |-> FollowStep(g, n, defs, name)]
  <2>2. \A n \in 0..k : h[n] = g[n]
    <3>1. \A n \in 0..k : g[n] = FollowStep(g, n, defs, name)
      BY <2>1
    <3> QED  BY <3>1
  <2>3. \A n \in 0..(k + 1) : FollowStep(g, n, defs, name) = FollowStep(h, n, defs, name)
    <3> SUFFICES ASSUME NEW n \in 0..(k + 1)
                 PROVE  FollowStep(g, n, defs, name) = FollowStep(h, n, defs, name)
      OBVIOUS
    <3>1. CASE n = 0
      BY <3>1 DEF FollowStep
    <3>2. CASE n # 0
      <4>1. n - 1 \in 0..k
        BY <3>2
      <4>2. g[n - 1] = h[n - 1]
        BY <2>2, <4>1
      <4> HIDE DEF h
      <4> QED  BY <3>2, <4>2 DEF FollowStep
    <3> QED  BY <3>1, <3>2
  <2>4. h = [n \in 0..(k + 1) |-> FollowStep(h, n, defs, name)]
    <3>1. \A n \in 0..(k + 1) : h[n] = FollowStep(h, n, defs, name)
      BY <2>3, Zenon
    <3>2. DOMAIN h = 0..(k + 1) /\ h = [n \in 0..(k + 1) |-> h[n]]
      BY Zenon
    <3> HIDE DEF h
    <3> QED  BY <3>1, <3>2, Zenon
  <2> HIDE DEF h
  <2> QED  BY <2>4
<1>3. bad = {}
  <2> HIDE DEF bad
  <2>1. bad \subseteq Nat
    BY DEF bad
  <2> QED  BY <1>1, <1>2, <2>1, NoneExcepted
<1> QED  BY <1>3

(* check-payload-closure-hatched.mjs: a chain has definitions, at least    *)
(* one, and only one where there is no reference.                          *)
LEMMA ChainFacts ==
  ASSUME NEW defs \in [PayloadDefs -> PayloadNode], NEW name \in PayloadDefs
  PROVE  /\ Chain(defs, name) \in Seq(PayloadDefs) /\ Len(Chain(defs, name)) >= 1
         /\ defs[name].ref = "none" => Chain(defs, name) = <<name>>
<1> DEFINE N == Cardinality(PayloadDefs)
           G == FollowUpTo(defs, name)
           Good(far) == /\ far \in Seq(PayloadDefs) /\ Len(far) >= 1
                        /\ defs[name].ref = "none" => far = <<name>>
           bad == {k \in Nat : k <= N /\ ~Good(G[k])}
<1>1. N \in Nat
  BY ProjectionAssumption, FS_CardinalityType
<1> HIDE DEF N
<1>2. G = [n \in 0..N |-> FollowStep(G, n, defs, name)]
  BY <1>1, FollowExists DEF FollowUpTo, N
<1> HIDE DEF G
<1>3. \A n \in 0..N : G[n] = FollowStep(G, n, defs, name)
  BY <1>2
<1>4. 0 \notin bad
  <2>1. Good(<<name>>)
    OBVIOUS
  <2>2. G[0] = <<name>>
    BY <1>1, <1>3 DEF FollowStep
  <2> HIDE DEF Good
  <2> QED  BY <2>1, <2>2
<1>5. ASSUME NEW n \in Nat, n \notin bad
      PROVE  n + 1 \notin bad
  <2> SUFFICES ASSUME n + 1 <= N
               PROVE  Good(G[n + 1])
    OBVIOUS
  <2> DEFINE far == G[n]
             ref == defs[Last(far)].ref
  <2>1. Good(far)
    BY <1>1, <1>5
  <2>2. G[n + 1] = IF ref = "none" \/ ref \in ToSet(Tail(far)) THEN far ELSE Append(far, ref)
    <3>1. n + 1 \in 0..N /\ n + 1 # 0 /\ (n + 1) - 1 = n
      BY <1>1
    <3>2. G[n + 1] = FollowStep(G, n + 1, defs, name)
      BY <1>3, <3>1
    <3> QED  BY <3>1, <3>2 DEF FollowStep
  <2>3. Last(far) \in PayloadDefs
    BY <2>1 DEF Last
  <2>4. ref \in PayloadDefs \cup {"none"}
    BY <2>3 DEF PayloadNode
  <2>5. defs[name].ref = "none" => ref = "none"
    <3> SUFFICES ASSUME defs[name].ref = "none" PROVE ref = "none"
      OBVIOUS
    <3>1. far = <<name>>
      BY <2>1
    <3>2. Last(far) = name
      BY <3>1 DEF Last
    <3> QED  BY <3>2
  <2>6. CASE ref = "none" \/ ref \in ToSet(Tail(far))
    <3>1. G[n + 1] = far
      BY <2>2, <2>6
    <3> HIDE DEF Good
    <3> QED  BY <2>1, <3>1
  <2>7. CASE ~(ref = "none" \/ ref \in ToSet(Tail(far)))
    <3>1. G[n + 1] = Append(far, ref)
      BY <2>2, <2>7
    <3>2. ref \in PayloadDefs /\ defs[name].ref # "none"
      BY <2>4, <2>5, <2>7
    <3> HIDE DEF far, ref
    <3>3. Append(far, ref) \in Seq(PayloadDefs) /\ Len(Append(far, ref)) = Len(far) + 1
      BY <2>1, <3>2
    <3>4. Len(Append(far, ref)) >= 1
      BY <2>1, <3>3
    <3> QED  BY <3>1, <3>2, <3>3, <3>4
  <2> QED  BY <2>6, <2>7
<1>6. bad = {}
  <2>1. bad \subseteq Nat
    OBVIOUS
  <2> HIDE DEF bad
  <2> QED  BY <1>4, <1>5, <2>1, NoneExcepted
<1>7. Good(G[N])
  <2> HIDE DEF Good
  <2> QED  BY <1>1, <1>6
<1> QED  BY <1>7, ChainIsFollowed DEF G, N

(* check-payload-closure-hatched.mjs: a payload that is closed is reported *)
(* or still takes what a host adds.                                        *)
LEMMA NarrowedReported ==
  ASSUME DefsTyped
  PROVE  NarrowedIsReported
<1> DEFINE defs1 == payloadDefs.v1
           defs2 == payloadDefs.v2
<1> SUFFICES ASSUME NEW name \in PayloadDefs \ Unhatched(defs1, defs2),
                    effective(defs1, name).extra = "open",
                    ~(defs2[name].ref # "none" /\ defs2[name].hatch),
                    ~(\E i \in 1..(Len(Chain(defs2, name)) - 1) : defs2[Chain(defs2, name)[i]].extra = "closed")
             PROVE  TakesOwnFields(defs2, name)
  BY DEF NarrowedIsReported
<1> DEFINE chain == Chain(defs2, name)
           end == Last(chain)
<1>1. chain \in Seq(PayloadDefs) /\ Len(chain) >= 1 /\ (defs2[name].ref = "none" => chain = <<name>>)
  BY ChainFacts DEF DefsTyped
<1>2. end = chain[Len(chain)]
  BY DEF Last
<1>3. ASSUME NEW n \in ToSet(chain), defs2[n].extra = "closed"
      PROVE  n = end
  <2>1. PICK i \in 1..Len(chain) : n = chain[i]
    BY <1>1 DEF ToSet
  <2>2. i = Len(chain)
    BY <1>1, <1>3, <2>1
  <2> QED  BY <1>2, <2>1, <2>2
<1>4. defs2[end].extra = "closed" => defs2[end].hatch
  <2> SUFFICES ASSUME defs2[end].extra = "closed" PROVE defs2[end].hatch
    OBVIOUS
  <2>1. defs2[name].hatch \/ defs2[end].hatch
    BY DEF Unhatched, effective
  <2>2. CASE defs2[name].hatch
    <3>1. chain = <<name>>
      BY <1>1, <2>2
    <3>2. end = name
      BY <1>2, <3>1
    <3> QED  BY <2>2, <3>2
  <2> QED  BY <2>1, <2>2
<1> HIDE DEF end
<1> QED  BY <1>3, <1>4 DEF TakesOwnFields

(* A facet schema starts with its flag, and the payloads as they are       *)
(* found.                                                                  *)
LEMMA ProjectionInvInit == ProjectionInit => ProjectionInv
<1>1. NoSubject = [is |-> "absent"]
  BY DEF NoSubject
<1>2. CASE /\ facetSchema \in [props : {{"supported", "f"}}, required : {{}}, extra : {"unset", "open", "closed"},
                               conds : {{}}]
           /\ payloadDefs = NoSubject
  BY <1>2, ProjectionAssumption DEF ProjectionInv, SchemaTyped
<1>3. CASE facetSchema = NoSubject /\ payloadDefs = AsFound
  <2>1. \A extra \in {"unset", "open", "closed"} : Inline(extra) \in PayloadNode
    BY DEF Inline, PayloadNode
  <2>2. DefsTyped
    BY <1>3, <2>1 DEF DefsTyped, AsFound
  <2> QED  BY <1>3, <2>2 DEF ProjectionInv
<1> QED  BY <1>2, <1>3 DEF ProjectionInit

(* Every edit keeps the invariant.                                         *)
LEMMA ProjectionInvStep == ProjectionInv /\ [ProjectionNext]_projectionVars => ProjectionInv'
<1> SUFFICES ASSUME ProjectionInv, [ProjectionNext]_projectionVars
             PROVE  ProjectionInv'
  OBVIOUS
<1>1. CASE facetSchema # NoSubject /\ (DeclareProperty \/ RequireName \/ AddConditional)
  <2>1. SchemaTyped /\ UNCHANGED payloadDefs
    BY <1>1 DEF ProjectionInv, DeclareProperty, RequireName, AddConditional
  <2>2. PICK p, r, e, c : facetSchema = [props |-> p, required |-> r, extra |-> e, conds |-> c]
    BY <2>1 DEF SchemaTyped
  <2>3. {"supported", "f"} \subseteq p /\ p \subseteq FacetNames /\ c \subseteq Conditionals
    BY <2>1, <2>2 DEF SchemaTyped
  <2>4. CASE DeclareProperty
    <3>1. PICK name \in FacetNames : facetSchema' = [facetSchema EXCEPT !.props = facetSchema.props \cup {name}]
      BY <2>4 DEF DeclareProperty
    <3>2. facetSchema' = [props |-> p \cup {name}, required |-> r, extra |-> e, conds |-> c]
      BY <2>2, <3>1
    <3>3. SchemaTyped'
      BY <2>3, <3>2 DEF SchemaTyped
    <3> QED  BY <2>1, <3>3 DEF ProjectionInv, DefsTyped
  <2>5. CASE RequireName
    <3>1. PICK name \in FacetNames : facetSchema' = [facetSchema EXCEPT !.required = facetSchema.required \cup {name}]
      BY <2>5 DEF RequireName
    <3>2. facetSchema' = [props |-> p, required |-> r \cup {name}, extra |-> e, conds |-> c]
      BY <2>2, <3>1
    <3>3. SchemaTyped'
      BY <2>3, <3>2 DEF SchemaTyped
    <3> QED  BY <2>1, <3>3 DEF ProjectionInv, DefsTyped
  <2>6. CASE AddConditional
    <3>1. PICK cond \in Conditionals : facetSchema' = [facetSchema EXCEPT !.conds = facetSchema.conds \cup {cond}]
      BY <2>6 DEF AddConditional
    <3>2. facetSchema' = [props |-> p, required |-> r, extra |-> e, conds |-> c \cup {cond}]
      BY <2>2, <3>1
    <3>3. SchemaTyped'
      BY <2>3, <3>2 DEF SchemaTyped
    <3> QED  BY <2>1, <3>3 DEF ProjectionInv, DefsTyped
  <2> QED  BY <1>1, <2>4, <2>5, <2>6
<1>2. CASE payloadDefs # NoSubject /\ EditPayload
  <2>1. DefsTyped /\ UNCHANGED facetSchema
    BY <1>2 DEF ProjectionInv, EditPayload
  <2>2. PICK d1, d2 : payloadDefs = [v1 |-> d1, v2 |-> d2]
    BY <2>1 DEF DefsTyped
  <2>3. d1 \in [PayloadDefs -> PayloadNode] /\ d2 \in [PayloadDefs -> PayloadNode]
    BY <2>1, <2>2 DEF DefsTyped
  <2>4. PICK major \in {"v1", "v2"}, name \in PayloadDefs, node \in PayloadNode :
          payloadDefs' = [payloadDefs EXCEPT ![major] = [payloadDefs[major] EXCEPT ![name] = node]]
    BY <1>2 DEF EditPayload
  <2>5. /\ [d1 EXCEPT ![name] = node] \in [PayloadDefs -> PayloadNode]
        /\ [d2 EXCEPT ![name] = node] \in [PayloadDefs -> PayloadNode]
    BY <2>3
  <2>6. \/ payloadDefs' = [v1 |-> [d1 EXCEPT ![name] = node], v2 |-> d2]
        \/ payloadDefs' = [v1 |-> d1, v2 |-> [d2 EXCEPT ![name] = node]]
    <3>1. CASE major = "v1"
      <4>1. payloadDefs' = [payloadDefs EXCEPT !["v1"] = [d1 EXCEPT ![name] = node]]
        BY <2>2, <2>4, <3>1
      <4> QED  BY <2>2, <4>1
    <3>2. CASE major = "v2"
      <4>1. payloadDefs' = [payloadDefs EXCEPT !["v2"] = [d2 EXCEPT ![name] = node]]
        BY <2>2, <2>4, <3>2
      <4> QED  BY <2>2, <4>1
    <3> QED  BY <3>1, <3>2
  <2>7. DefsTyped'
    BY <2>3, <2>5, <2>6 DEF DefsTyped
  <2> QED  BY <2>1, <2>7 DEF ProjectionInv, SchemaTyped
<1>3. CASE UNCHANGED projectionVars
  BY <1>3 DEF projectionVars, ProjectionInv, SchemaTyped, DefsTyped
<1> QED  BY <1>1, <1>2, <1>3 DEF ProjectionNext

(* generate-from-declaration.mjs, v2-projection.ts and the two checks: for *)
(* any names, clauses and payloads, and any order an author writes them    *)
(* in, the flag is dropped exactly, the record neither relaxes nor shuts   *)
(* out but for the clauses that are named, and what is misspelt or         *)
(* narrowed is reported.                                                   *)
THEOREM ProjectionsStayFaithful == ProjectionSpec => []ProjectionsAreFaithful
<1>1. ProjectionInv => ProjectionsAreFaithful
  <2> SUFFICES ASSUME ProjectionInv PROVE ProjectionsAreFaithful
    OBVIOUS
  <2>1. StrippedIsExact
    BY StrippingIsExact DEF ProjectionInv, StrippedIsExact
  <2>2. NothingIsRelaxed
    BY NothingRelaxed DEF ProjectionInv, NothingIsRelaxed
  <2>3. NobodyIsShutOut
    BY NobodyShutOut DEF ProjectionInv, NobodyIsShutOut
  <2>4. TyposAreReported
    BY TyposReported DEF ProjectionInv, TyposAreReported
  <2>5. NarrowedIsReported
    BY NarrowedReported DEF ProjectionInv, NarrowedIsReported
  <2> QED  BY <2>1, <2>2, <2>3, <2>4, <2>5 DEF ProjectionsAreFaithful
<1> QED  BY <1>1, ProjectionInvInit, ProjectionInvStep, PTL DEF ProjectionSpec
-----------------------------------------------------------------------------
(* The coverage report.                                                    *)

(* A member that none exceeds is the greatest.                             *)
LEMMA MaxIs ==
  ASSUME NEW T, T \subseteq Nat, NEW m \in T, \A k \in T : k <= m
  PROVE  Max(T) = m
<1>1. m \in T /\ \A y \in T : m >= y
  OBVIOUS
<1>2. ASSUME NEW x \in T, \A y \in T : x >= y
      PROVE  x = m
  <2>1. x \in Nat /\ m \in Nat /\ x >= m /\ x <= m
    BY <1>2
  <2> QED  BY <2>1
<1> QED  BY <1>1, <1>2 DEF Max

(* Numbers below a bound have a greatest.                                  *)
LEMMA MaxExists ==
  ASSUME NEW n \in Nat, NEW T, T \subseteq 0..n, T # {}
  PROVE  Max(T) \in T /\ \A k \in T : k <= Max(T)
<1>1. PICK m \in T : \A k \in T : k <= m
  BY GreatestOfNat
<1>2. T \subseteq Nat
  OBVIOUS
<1>3. Max(T) = m
  BY <1>1, <1>2, MaxIs
<1> QED  BY <1>1, <1>3

(* The sections of a document, one after another.                          *)
ParseStep(g, n, text) ==
  IF n = 0 THEN [parents |-> << >>, stack |-> {}]
  ELSE [parents |-> Append(g[n - 1].parents, IF Popped(g[n - 1].stack, text, text[n].level) = {} THEN 0
                                             ELSE Max(Popped(g[n - 1].stack, text, text[n].level))),
        stack |-> Popped(g[n - 1].stack, text, text[n].level) \cup {n}]
ParsedUpTo(text) == CHOOSE g : g = [n \in 0..Len(text) |-> ParseStep(g, n, text)]

(* parseDoc: the sections are what the last step leaves.                   *)
LEMMA ParseDocIs ==
  ASSUME NEW text
  PROVE  parseDoc(text) = ParsedUpTo(text)[Len(text)].parents
BY DEF parseDoc, ParsedUpTo, ParseStep

(* A document can be read for any number of headings.                      *)
LEMMA ParsedExists ==
  ASSUME NEW text, NEW m \in Nat
  PROVE  \E g : g = [n \in 0..m |-> ParseStep(g, n, text)]
<1> DEFINE bad == {k \in Nat : ~ \E g : g = [n \in 0..k |-> ParseStep(g, n, text)]}
<1>1. 0 \notin bad
  <2> DEFINE z == [n \in 0..0 |-> [parents |-> << >>, stack |-> {}]]
  <2>1. z = [n \in 0..0 |-> ParseStep(z, n, text)]
    BY DEF ParseStep
  <2> HIDE DEF z
  <2> QED  BY <2>1
<1>2. ASSUME NEW k \in Nat, k \notin bad PROVE k + 1 \notin bad
  <2>1. PICK f : f = [n \in 0..k |-> ParseStep(f, n, text)]
    BY <1>2
  <2> DEFINE h == [n \in 0..(k + 1) |-> ParseStep(f, n, text)]
  <2>2. \A n \in 0..k : h[n] = f[n]
    <3>1. \A n \in 0..k : f[n] = ParseStep(f, n, text)
      BY <2>1
    <3> QED  BY <3>1
  <2>3. \A n \in 0..(k + 1) : ParseStep(f, n, text) = ParseStep(h, n, text)
    <3> SUFFICES ASSUME NEW n \in 0..(k + 1)
                 PROVE  ParseStep(f, n, text) = ParseStep(h, n, text)
      OBVIOUS
    <3>1. CASE n = 0
      BY <3>1 DEF ParseStep
    <3>2. CASE n # 0
      <4>1. n - 1 \in 0..k
        BY <3>2
      <4>2. f[n - 1] = h[n - 1]
        BY <2>2, <4>1
      <4> HIDE DEF h
      <4> QED  BY <3>2, <4>2 DEF ParseStep
    <3> QED  BY <3>1, <3>2
  <2>4. h = [n \in 0..(k + 1) |-> ParseStep(h, n, text)]
    <3>1. \A n \in 0..(k + 1) : h[n] = ParseStep(h, n, text)
      BY <2>3, Zenon
    <3>2. DOMAIN h = 0..(k + 1) /\ h = [n \in 0..(k + 1) |-> h[n]]
      BY Zenon
    <3> HIDE DEF h
    <3> QED  BY <3>1, <3>2, Zenon
  <2> HIDE DEF h
  <2>5. \E g : g = [n \in 0..(k + 1) |-> ParseStep(g, n, text)]
    BY <2>4, Zenon
  <2> QED  BY <2>5
<1>3. bad = {}
  <2> HIDE DEF bad
  <2>1. bad \subseteq Nat
    BY DEF bad
  <2> QED  BY <1>1, <1>2, <2>1, NoneExcepted
<1> QED  BY <1>3

(* The headings above the one at i, and those still open before n + 1.     *)
Lower(text, i) == {j \in 1..(i - 1) : text[j].level < text[i].level}
OpenSections(text, n) == {j \in 1..n : \A k \in (j + 1)..n : text[j].level < text[k].level}

(* A document has a preamble, and every other heading is below it.         *)
LEMMA TextFacts ==
  ASSUME NEW text, IsText(text)
  PROVE  /\ Len(text) \in Nat \ {0} /\ DOMAIN text = 1..Len(text)
         /\ \A i \in 1..Len(text) : text[i] \in Headings /\ text[i].level \in Nat
         /\ text[1].level = 1 /\ \A i \in 2..Len(text) : text[i].level > 1
<1>1. text \in Seq(Headings) /\ text # << >>
  BY DEF IsText
<1>2. Len(text) \in Nat \ {0} /\ DOMAIN text = 1..Len(text)
  BY <1>1
<1>3. \A i \in 1..Len(text) : text[i] \in Headings
  BY <1>1
<1>4. \A i \in 1..Len(text) : text[i].level \in Nat
  BY <1>3 DEF Headings
<1> QED  BY <1>2, <1>3, <1>4 DEF IsText

(* parseDoc: what is left on the stack are the open sections of a higher   *)
(* level, and the last of them is the nearest.                             *)
LEMMA PoppedIsLower ==
  ASSUME NEW text, IsText(text), NEW n \in 1..Len(text),
         NEW above, above = Popped(OpenSections(text, n - 1), text, text[n].level)
  PROVE  /\ above \cup {n} = OpenSections(text, n)
         /\ n = 1 => above = {}
         /\ n > 1 => above # {} /\ Max(above) = Max(Lower(text, n)) /\ Max(above) \in 1..(n - 1)
<1>1. n \in Nat /\ n >= 1 /\ n - 1 \in Nat
  BY TextFacts
<1>2. \A j \in 1..n : text[j].level \in Nat
  BY TextFacts
<1>3. above = {j \in OpenSections(text, n - 1) : text[j].level < text[n].level}
  BY DEF Popped
<1>4. above \cup {n} = OpenSections(text, n)
  <2>1. ASSUME NEW j \in 1..(n - 1)
        PROVE  j \in above <=> j \in OpenSections(text, n)
    <3>1. j \in OpenSections(text, n - 1) <=> \A k \in (j + 1)..(n - 1) : text[j].level < text[k].level
      BY DEF OpenSections
    <3>2. (j + 1)..n = (j + 1)..(n - 1) \cup {n}
      BY <1>1
    <3>3. j \in 1..n
      BY <1>1
    <3>4. j \in OpenSections(text, n) <=> \A k \in (j + 1)..n : text[j].level < text[k].level
      BY <3>3 DEF OpenSections
    <3> QED  BY <1>3, <3>1, <3>2, <3>4
  <2>2. n \in OpenSections(text, n)
    BY <1>1 DEF OpenSections
  <2>3. above \subseteq 1..(n - 1)
    BY <1>3 DEF OpenSections
  <2>4. OpenSections(text, n) \subseteq 1..n /\ 1..n = 1..(n - 1) \cup {n}
    BY <1>1 DEF OpenSections
  <2> QED  BY <2>1, <2>2, <2>3, <2>4
<1>5. n = 1 => above = {}
  BY <1>3 DEF OpenSections
<1>6. ASSUME n > 1
      PROVE  above # {} /\ Max(above) = Max(Lower(text, n)) /\ Max(above) \in 1..(n - 1)
  <2> DEFINE low == Lower(text, n)
  <2>1. 1 \in low
    BY <1>6, <1>1, TextFacts DEF Lower
  <2>2. low \subseteq 0..(n - 1) /\ low \subseteq Nat
    BY <1>1 DEF Lower
  <2> HIDE DEF low
  <2>3. Max(low) \in low /\ \A k \in low : k <= Max(low)
    BY <1>1, <2>1, <2>2, MaxExists
  <2> DEFINE m == Max(low)
  <2>4. m \in 1..(n - 1) /\ text[m].level < text[n].level
    BY <2>3 DEF low, Lower
  <2>5. ASSUME NEW k \in (m + 1)..(n - 1)
        PROVE  text[m].level < text[k].level
    <3>1. k \in 1..(n - 1) /\ ~(k <= m)
      BY <1>1, <2>4
    <3>2. k \notin low
      BY <2>3, <3>1
    <3>3. ~(text[k].level < text[n].level)
      BY <3>1, <3>2 DEF low, Lower
    <3>4. text[k].level \in Nat /\ text[m].level \in Nat /\ text[n].level \in Nat
      BY <1>1, <1>2, <2>4, <3>1
    <3> QED  BY <2>4, <3>3, <3>4
  <2>6. m \in above
    BY <1>3, <2>4, <2>5 DEF OpenSections
  <2>7. above \subseteq low
    BY <1>3 DEF OpenSections, low, Lower
  <2> HIDE DEF m
  <2>8. Max(above) = m
    BY <2>2, <2>3, <2>6, <2>7, MaxIs DEF m
  <2> QED  BY <2>4, <2>6, <2>8 DEF m, low
<1> QED  BY <1>4, <1>5, <1>6

(* parseDoc: a parent stands before its section, and is the nearest        *)
(* heading of a higher level.                                              *)
LEMMA ParseFacts ==
  ASSUME NEW text, IsText(text)
  PROVE  /\ parseDoc(text) \in Seq(Nat) /\ Len(parseDoc(text)) = Len(text)
         /\ \A i \in 1..Len(text) : parseDoc(text)[i] \in 0..(i - 1)
         /\ \A i \in 2..Len(text) : parseDoc(text)[i] = Max(Lower(text, i))
<1> DEFINE N == Len(text)
           G == ParsedUpTo(text)
           Good(n) == /\ G[n].parents \in Seq(Nat) /\ Len(G[n].parents) = n /\ G[n].stack = OpenSections(text, n)
                      /\ \A i \in 1..n : G[n].parents[i] \in 0..(i - 1)
                      /\ \A i \in 2..n : G[n].parents[i] = Max(Lower(text, i))
           bad == {n \in Nat : n <= N /\ ~Good(n)}
<1>1. N \in Nat
  BY TextFacts
<1>2. G = [n \in 0..N |-> ParseStep(G, n, text)]
  BY <1>1, ParsedExists DEF ParsedUpTo
<1> HIDE DEF G
<1>3. \A n \in 0..N : G[n] = ParseStep(G, n, text)
  BY <1>2
<1>4. 0 \notin bad
  <2>1. G[0] = [parents |-> << >>, stack |-> {}]
    <3>1. G[0] = ParseStep(G, 0, text)
      BY <1>1, <1>3
    <3> QED  BY <3>1 DEF ParseStep
  <2>2. OpenSections(text, 0) = {}
    BY DEF OpenSections
  <2>3. Good(0)
    BY <2>1, <2>2
  <2> QED  BY <2>3
<1>5. ASSUME NEW n \in Nat, n \notin bad
      PROVE  n + 1 \notin bad
  <2> SUFFICES ASSUME n + 1 <= N
               PROVE  Good(n + 1)
    OBVIOUS
  <2>1. Good(n)
    BY <1>1, <1>5
  <2> DEFINE above == Popped(OpenSections(text, n), text, text[n + 1].level)
             parent == IF above = {} THEN 0 ELSE Max(above)
  <2>2. n + 1 \in 0..N /\ n + 1 # 0 /\ (n + 1) - 1 = n /\ n + 1 \in 1..N
    BY <1>1
  <2>3. G[n + 1] = [parents |-> Append(G[n].parents, parent), stack |-> above \cup {n + 1}]
    <3>1. G[n + 1] = ParseStep(G, n + 1, text)
      BY <1>3, <2>2
    <3> QED  BY <2>1, <2>2, <3>1 DEF ParseStep
  <2> HIDE DEF above
  <2>4. /\ above \cup {n + 1} = OpenSections(text, n + 1)
        /\ n + 1 = 1 => above = {}
        /\ n + 1 > 1 => above # {} /\ Max(above) = Max(Lower(text, n + 1)) /\ Max(above) \in 1..n
    <3>1. above = Popped(OpenSections(text, (n + 1) - 1), text, text[n + 1].level)
      BY <2>2 DEF above
    <3>2. n + 1 \in 1..Len(text)
      BY <2>2
    <3> DEFINE k == n + 1
    <3>4. k \in 1..Len(text) /\ above = Popped(OpenSections(text, k - 1), text, text[k].level)
      BY <3>1, <3>2
    <3> HIDE DEF N, Good, bad, parent, k
    <3>3. /\ above \cup {k} = OpenSections(text, k)
          /\ k = 1 => above = {}
          /\ k > 1 => above # {} /\ Max(above) = Max(Lower(text, k)) /\ Max(above) \in 1..(k - 1)
      BY <3>4, PoppedIsLower
    <3> QED  BY <2>2, <3>3 DEF k
  <2>5. parent \in 0..n /\ (n + 1 >= 2 => parent = Max(Lower(text, n + 1)))
    BY <2>4
  <2> HIDE DEF parent
  <2> DEFINE ps == G[n].parents
  <2>61. ps \in Seq(Nat) /\ Len(ps) = n
    BY <2>1
  <2> HIDE DEF ps
  <2>6. /\ Append(ps, parent) \in Seq(Nat) /\ Len(Append(ps, parent)) = n + 1
        /\ \A i \in 1..n : Append(ps, parent)[i] = ps[i]
        /\ Append(ps, parent)[n + 1] = parent
    BY <2>61, <2>5
  <2>7. G[n + 1].parents = Append(ps, parent) /\ G[n + 1].stack = OpenSections(text, n + 1)
    BY <2>3, <2>4 DEF ps
  <2>8. \A i \in 1..n : ps[i] \in 0..(i - 1)
    BY <2>1 DEF ps
  <2>9. \A i \in 2..n : ps[i] = Max(Lower(text, i))
    BY <2>1 DEF ps
  <2>10. \A i \in 1..(n + 1) : Append(ps, parent)[i] \in 0..(i - 1)
    BY <2>5, <2>6, <2>8
  <2>11. \A i \in 2..(n + 1) : Append(ps, parent)[i] = Max(Lower(text, i))
    BY <2>5, <2>6, <2>9
  <2> QED  BY <2>6, <2>7, <2>10, <2>11
<1>6. bad = {}
  <2>1. bad \subseteq Nat
    OBVIOUS
  <2> HIDE DEF bad
  <2> QED  BY <1>4, <1>5, <2>1, NoneExcepted
<1>7. Good(N)
  <2> HIDE DEF Good
  <2> QED  BY <1>1, <1>6
<1> QED  BY <1>7, ParseDocIs DEF G

(* The sections over a section.                                            *)
LineStep(g, n, parents) == IF n = 0 THEN {} ELSE {n} \cup g[parents[n]]
LineUpTo(parents) == CHOOSE g : g = [n \in 0..Len(parents) |-> LineStep(g, n, parents)]

(* What parseDoc leaves: a parent stands before its section.               *)
IsLine(parents) == parents \in Seq(Nat) /\ \A i \in 1..Len(parents) : parents[i] \in 0..(i - 1)

(* A chain of parents, and where it is cut.                                *)
LEMMA AncestorsAre ==
  ASSUME NEW parents, NEW i
  PROVE  ancestors(parents, i) = LineUpTo(parents)[i]
BY DEF ancestors, LineUpTo, LineStep

(* A line of parents is defined for every section.                         *)
LEMMA LineExists ==
  ASSUME NEW parents, IsLine(parents), NEW m \in Nat, m <= Len(parents)
  PROVE  \E g : g = [n \in 0..m |-> LineStep(g, n, parents)]
<1> DEFINE bad == {k \in Nat : k <= Len(parents) /\ ~ \E g : g = [n \in 0..k |-> LineStep(g, n, parents)]}
<1>0. Len(parents) \in Nat
  BY DEF IsLine
<1>1. 0 \notin bad
  <2> DEFINE z == [n \in 0..0 |-> {}]
  <2>1. z = [n \in 0..0 |-> LineStep(z, n, parents)]
    BY DEF LineStep
  <2> HIDE DEF z
  <2> QED  BY <2>1
<1>2. ASSUME NEW k \in Nat, k \notin bad PROVE k + 1 \notin bad
  <2> SUFFICES ASSUME k + 1 <= Len(parents)
               PROVE  \E g : g = [n \in 0..(k + 1) |-> LineStep(g, n, parents)]
    OBVIOUS
  <2>1. PICK f : f = [n \in 0..k |-> LineStep(f, n, parents)]
    BY <1>0, <1>2
  <2> DEFINE h == [n \in 0..(k + 1) |-> LineStep(f, n, parents)]
  <2>2. \A n \in 0..k : h[n] = f[n]
    <3>1. \A n \in 0..k : f[n] = LineStep(f, n, parents)
      BY <2>1
    <3> QED  BY <3>1
  <2>3. \A n \in 0..(k + 1) : LineStep(f, n, parents) = LineStep(h, n, parents)
    <3> SUFFICES ASSUME NEW n \in 0..(k + 1)
                 PROVE  LineStep(f, n, parents) = LineStep(h, n, parents)
      OBVIOUS
    <3>1. CASE n = 0
      BY <3>1 DEF LineStep
    <3>2. CASE n # 0
      <4>1. n \in 1..Len(parents)
        BY <1>0, <3>2
      <4>2. parents[n] \in 0..k
        BY <4>1 DEF IsLine
      <4>3. f[parents[n]] = h[parents[n]]
        BY <2>2, <4>2
      <4> HIDE DEF h
      <4> QED  BY <3>2, <4>3 DEF LineStep
    <3> QED  BY <3>1, <3>2
  <2>4. h = [n \in 0..(k + 1) |-> LineStep(h, n, parents)]
    <3>1. \A n \in 0..(k + 1) : h[n] = LineStep(h, n, parents)
      BY <2>3, Zenon
    <3>2. DOMAIN h = 0..(k + 1) /\ h = [n \in 0..(k + 1) |-> h[n]]
      BY Zenon
    <3> HIDE DEF h
    <3> QED  BY <3>1, <3>2, Zenon
  <2> HIDE DEF h
  <2>5. \E g : g = [n \in 0..(k + 1) |-> LineStep(g, n, parents)]
    BY <2>4, Zenon
  <2> QED  BY <2>5
<1>3. bad = {}
  <2> HIDE DEF bad
  <2>1. bad \subseteq Nat
    BY DEF bad
  <2> QED  BY <1>1, <1>2, <2>1, NoneExcepted
<1> QED  BY <1>3

(* A section and the sections over its parent.                             *)
LEMMA LineSteps ==
  ASSUME NEW parents, IsLine(parents)
  PROVE  /\ ancestors(parents, 0) = {}
         /\ \A i \in 1..Len(parents) : ancestors(parents, i) = {i} \cup ancestors(parents, parents[i])
<1> DEFINE G == LineUpTo(parents)
<1>1. Len(parents) \in Nat
  BY DEF IsLine
<1>2. G = [n \in 0..Len(parents) |-> LineStep(G, n, parents)]
  <2>1. \E g : g = [n \in 0..Len(parents) |-> LineStep(g, n, parents)]
    BY <1>1, LineExists
  <2> QED  BY <2>1 DEF LineUpTo
<1> HIDE DEF G
<1>3. \A n \in 0..Len(parents) : G[n] = LineStep(G, n, parents)
  BY <1>2
<1>4. \A i : ancestors(parents, i) = G[i]
  BY AncestorsAre DEF G
<1>5. G[0] = {}
  <2>1. G[0] = LineStep(G, 0, parents)
    BY <1>1, <1>3
  <2> QED  BY <2>1 DEF LineStep
<1>6. ASSUME NEW i \in 1..Len(parents) PROVE G[i] = {i} \cup G[parents[i]]
  <2>1. G[i] = LineStep(G, i, parents) /\ i # 0
    BY <1>1, <1>3
  <2> QED  BY <2>1 DEF LineStep
<1> QED  BY <1>4, <1>5, <1>6

(* The sections over one another are in line: what is over a section is    *)
(* over those below it.                                                    *)
LEMMA LineFacts ==
  ASSUME NEW parents, IsLine(parents), NEW i \in 0..Len(parents)
  PROVE  /\ ancestors(parents, i) \subseteq 1..i
         /\ i > 0 => i \in ancestors(parents, i)
         /\ \A j \in ancestors(parents, i) : ancestors(parents, j) \subseteq ancestors(parents, i)
         /\ \A j, k \in ancestors(parents, i) : j <= k => j \in ancestors(parents, k)
<1> DEFINE A(n) == ancestors(parents, n)
           Good(n) == /\ A(n) \subseteq 1..n
                      /\ \A j \in A(n) : A(j) \subseteq A(n)
                      /\ \A j, k \in A(n) : j <= k => j \in A(k)
           bad == {n \in 0..Len(parents) : ~Good(n)}
<1>1. Len(parents) \in Nat
  BY DEF IsLine
<1>2. A(0) = {} /\ \A n \in 1..Len(parents) : A(n) = {n} \cup A(parents[n])
  BY LineSteps
<1> HIDE DEF A
<1>3. bad = {}
  <2> SUFFICES ASSUME bad # {} PROVE FALSE
    OBVIOUS
  <2>1. PICK n \in bad : \A m \in bad : n <= m
    <3>1. bad \subseteq Nat
      OBVIOUS
    <3> HIDE DEF bad
    <3> QED  BY <3>1, LeastOfNat
  <2>2. n \in 1..Len(parents)
    <3>1. Good(0)
      BY <1>2
    <3>2. n # 0 /\ n \in 0..Len(parents)
      BY <3>1
    <3> QED  BY <1>1, <3>2
  <2> DEFINE p == parents[n]
  <2>3. p \in 0..(n - 1) /\ A(n) = {n} \cup A(p)
    BY <1>2, <2>2 DEF IsLine
  <2> HIDE DEF p
  <2>4. Good(p)
    <3>1. p \in 0..Len(parents) /\ ~(n <= p)
      BY <1>1, <2>2, <2>3
    <3> QED  BY <2>1, <3>1
  <2>5. A(n) \subseteq 1..n
    BY <2>2, <2>3, <2>4
  <2>6. \A j \in A(n) : A(j) \subseteq A(n)
    BY <2>3, <2>4
  <2>7. ASSUME NEW j \in A(n), NEW k \in A(n), j <= k
        PROVE  j \in A(k)
    <3>1. CASE k = n
      BY <3>1
    <3>2. CASE k # n
      <4>1. k \in A(p) /\ k \in 1..p
        BY <2>3, <2>4, <3>2
      <4>2. j \in 1..n /\ j # n
        BY <2>2, <2>3, <2>5, <2>7, <4>1
      <4>3. j \in A(p)
        BY <2>3, <4>2
      <4> QED  BY <2>4, <2>7, <4>1, <4>3
    <3> QED  BY <3>1, <3>2
  <2>8. Good(n)
    BY <2>5, <2>6, <2>7
  <2> QED  BY <2>1, <2>8
<1>4. i > 0 => i \in A(i)
  BY <1>1, <1>2
<1> QED  BY <1>3, <1>4 DEF A

(* A document as parseDoc reads it.                                        *)
IsDoc(doc) == doc = [text |-> doc.text, parents |-> parseDoc(doc.text)] /\ IsText(doc.text)

(* What parseDoc leaves is a line as long as the document.                 *)
LEMMA DocFacts ==
  ASSUME NEW doc, IsDoc(doc)
  PROVE  /\ IsLine(doc.parents) /\ Len(doc.parents) = Len(doc.text) /\ Len(doc.text) \in Nat
         /\ DOMAIN doc.text = 1..Len(doc.text)
<1>1. doc.parents = parseDoc(doc.text) /\ IsText(doc.text)
  BY DEF IsDoc
<1> QED  BY <1>1, ParseFacts, TextFacts DEF IsLine

(* The sections over a section that are titled for a family.               *)
TitledOver(docs, doc, i) == {a \in ancestors(docs[doc].parents, i) : docs[doc].text[a].titled # {}}

(* ownerOf: whom a section belongs to.                                     *)
LEMMA OwnerFacts ==
  ASSUME NEW docs, NEW doc, IsDoc(docs[doc]), NEW i \in DOMAIN docs[doc].text
  PROVE  /\ TitledOver(docs, doc, i) = {} => ownerOf(docs, doc, i) =
                             IF Cardinality(homesOf(doc)) = 1 THEN homesOf(doc) ELSE namedFor(doc)
         /\ TitledOver(docs, doc, i) # {} =>
              /\ Max(TitledOver(docs, doc, i)) \in TitledOver(docs, doc, i)
              /\ ownerOf(docs, doc, i) = docs[doc].text[Max(TitledOver(docs, doc, i))].titled
<1> DEFINE titled == TitledOver(docs, doc, i)
<1>1. titled # {} => ownerOf(docs, doc, i) = docs[doc].text[Max(titled)].titled
  BY DEF ownerOf, TitledOver
<1>2. titled = {} => ownerOf(docs, doc, i) =
                       IF Cardinality(homesOf(doc)) = 1 THEN homesOf(doc) ELSE namedFor(doc)
  BY DEF ownerOf, TitledOver
<1>3. i \in Nat /\ titled \subseteq 0..i
  <2>1. i \in 1..Len(docs[doc].text) /\ Len(docs[doc].text) \in Nat
    BY DocFacts
  <2>2. i \in 0..Len(docs[doc].parents) /\ IsLine(docs[doc].parents)
    BY <2>1, DocFacts
  <2>3. ancestors(docs[doc].parents, i) \subseteq 1..i
    BY <2>2, LineFacts
  <2> QED  BY <2>1, <2>3 DEF TitledOver
<1> HIDE DEF titled
<1>4. titled # {} => Max(titled) \in titled
  BY <1>3, MaxExists
<1> QED  BY <1>1, <1>2, <1>4 DEF titled

(* creditsOf: a credit has a heading over or under the cited section, the  *)
(* whole document, its name or a gate to show for it.                      *)
LEMMA CreditsEarned ==
  ASSUME NEW docs, NEW doc, IsDoc(docs[doc]), NEW gates, NEW i \in DOMAIN docs[doc].text
  PROVE  LET text == docs[doc].text
             Over(j) == ancestors(docs[doc].parents, j)
             titled == UNION {text[j].titled : j \in {a \in DOMAIN text : i \in Over(a) \/ a \in Over(i)}}
             alone == IF Cardinality(homesOf(doc)) = 1 THEN homesOf(doc) ELSE namedFor(doc)
             credited == creditsOf(docs, doc, i, gates)
         IN  /\ credited \subseteq homesOf(doc) \cap (titled \cup alone \cup gates)
             /\ text[i].titled # {} => credited \subseteq titled
<1> DEFINE text == docs[doc].text
           Over(j) == ancestors(docs[doc].parents, j)
           near == {a \in DOMAIN text : i \in Over(a) \/ a \in Over(i)}
           titled == UNION {text[j].titled : j \in near}
           alone == IF Cardinality(homesOf(doc)) = 1 THEN homesOf(doc) ELSE namedFor(doc)
           credited == creditsOf(docs, doc, i, gates)
<1>1. credited = homesOf(doc) \cap
        UNION {IF ownerOf(docs, doc, j) = {} THEN gates ELSE ownerOf(docs, doc, j) :
                 j \in {k \in DOMAIN text : i \in Over(k)}}
  BY DEF creditsOf
<1>2. /\ IsLine(docs[doc].parents) /\ Len(docs[doc].parents) = Len(text) /\ Len(text) \in Nat
      /\ DOMAIN text = 1..Len(text)
  BY DocFacts
<1>3. ASSUME NEW j \in DOMAIN text, i \in Over(j)
      PROVE  LET over == {a \in Over(j) : text[a].titled # {}}
             IN  /\ over = {} => text[i].titled = {} /\ ownerOf(docs, doc, j) = alone
                 /\ over # {} => /\ ownerOf(docs, doc, j) \subseteq titled /\ ownerOf(docs, doc, j) # {}
  <2> DEFINE over == {a \in Over(j) : text[a].titled # {}}
             m == Max(over)
  <2>0. over = TitledOver(docs, doc, j)
    BY DEF TitledOver
  <2> HIDE DEF over
  <2>1. over = {} => text[i].titled = {} /\ ownerOf(docs, doc, j) = alone
    <3>1. over = {} => ownerOf(docs, doc, j) = alone
      BY <1>3, <2>0, OwnerFacts
    <3> QED  BY <1>3, <3>1 DEF over
  <2>2. ASSUME over # {}
        PROVE  ownerOf(docs, doc, j) \subseteq titled /\ ownerOf(docs, doc, j) # {}
    <3>1. m \in over /\ ownerOf(docs, doc, j) = text[m].titled
      <4>1. j \in DOMAIN docs[doc].text
        BY <1>3
      <4>2. Max(over) \in over /\ ownerOf(docs, doc, j) = docs[doc].text[Max(over)].titled
        <5> HIDE DEF text, Over, near, titled, alone, credited, m
        <5> QED  BY <4>1, <2>0, <2>2, OwnerFacts
      <4> QED  BY <4>2
    <3> HIDE DEF m
    <3>2. j \in 0..Len(docs[doc].parents)
      BY <1>2
    <3>3. Over(j) \subseteq 1..j /\ \A k, l \in Over(j) : k <= l => k \in Over(l)
      BY <1>2, <3>2, LineFacts
    <3>4. m \in Over(j) /\ text[m].titled # {}
      BY <3>1 DEF over
    <3> HIDE DEF Over
    <3>5. m \in 1..j /\ i \in 1..j /\ j \in 1..Len(text)
      BY <1>2, <1>3, <3>3, <3>4
    <3>6. m \in DOMAIN text
      BY <1>2, <3>5
    <3>7. i <= m \/ m <= i
      BY <3>5
    <3>8. i \in Over(m) \/ m \in Over(i)
      BY <1>3, <3>3, <3>4, <3>7
    <3>9. m \in near
      BY <3>6, <3>8
    <3> HIDE DEF near
    <3> QED  BY <3>1, <3>4, <3>9
  <2> QED  BY <2>1, <2>2 DEF over
<1> HIDE DEF text, Over, titled, alone, credited
<1>4. credited \subseteq homesOf(doc)
  BY <1>1
<1>5. credited \subseteq titled \cup alone \cup gates
  BY <1>1, <1>3
<1>6. text[i].titled # {} => credited \subseteq titled
  BY <1>1, <1>3
<1> QED  BY <1>4, <1>5, <1>6 DEF text, Over, titled, alone, credited

(* One that knows all that another knows, with the same meaning.           *)
Keeps(known, helpers) ==
  /\ helpers = [name \in DOMAIN helpers |-> helpers[name]]
  /\ DOMAIN known \subseteq DOMAIN helpers /\ \A name \in DOMAIN known : helpers[name] = known[name]
LearntFrom(libs, helpers) == UNION {DOMAIN Derived(libs[lib], helpers) : lib \in DOMAIN libs}
KnownHelpers(libs, helpers) ==
  Keeps(BASE_HELPERS, helpers) /\ DOMAIN helpers \ DOMAIN BASE_HELPERS \subseteq LearntFrom(libs, helpers)
Closed(libs, helpers) == LearntFrom(libs, helpers) \subseteq DOMAIN helpers

(* What is kept twice is kept.                                             *)
LEMMA KeepsTransitive ==
  ASSUME NEW h1, NEW h2, NEW h3, Keeps(h1, h2), Keeps(h2, h3)
  PROVE  Keeps(h1, h3)
BY DEF Keeps

(* The functions that hand a parameter to a gate.                          *)
LEMMA DerivedNames ==
  ASSUME NEW src, NEW h
  PROVE  DOMAIN Derived(src, h) = {c.in : c \in {d \in ToSet(src) : Hands(d, h)}}
BY DEF Derived

(* Who knows more gates finds more functions.                              *)
LEMMA DerivedGrows ==
  ASSUME NEW src, NEW h1, NEW h2, Keeps(h1, h2)
  PROVE  DOMAIN Derived(src, h1) \subseteq DOMAIN Derived(src, h2)
<1>1. ASSUME NEW c, Hands(c, h1) PROVE Hands(c, h2)
  BY <1>1 DEF Hands, IsGate, FamilyArgument, Keeps
<1>2. /\ DOMAIN Derived(src, h1) = {c.in : c \in {d \in ToSet(src) : Hands(d, h1)}}
      /\ DOMAIN Derived(src, h2) = {c.in : c \in {d \in ToSet(src) : Hands(d, h2)}}
  BY DerivedNames
<1>3. {d \in ToSet(src) : Hands(d, h1)} \subseteq {d \in ToSet(src) : Hands(d, h2)}
  BY <1>1
<1> QED  BY <1>2, <1>3

(* Who knows more gates finds more functions in any library.               *)
LEMMA LearntGrows ==
  ASSUME NEW libs, NEW h1, NEW h2, Keeps(h1, h2)
  PROVE  LearntFrom(libs, h1) \subseteq LearntFrom(libs, h2)
BY DerivedGrows DEF LearntFrom

(* What is learnt is added, and what was known keeps its meaning.          *)
LEMMA LearnFacts ==
  ASSUME NEW h, NEW more
  PROVE  /\ DOMAIN Learn(h, more) = DOMAIN h \cup DOMAIN more
         /\ Keeps(h, Learn(h, more))
         /\ h = [name \in DOMAIN h |-> h[name]] /\ DOMAIN more \subseteq DOMAIN h => Learn(h, more) = h
<1>1. DOMAIN Learn(h, more) = DOMAIN h \cup DOMAIN more
  BY DEF Learn
<1>2. \A name \in DOMAIN h : Learn(h, more)[name] = h[name]
  BY DEF Learn
<1>3. Learn(h, more) = [name \in DOMAIN Learn(h, more) |-> Learn(h, more)[name]]
  <2>1. Learn(h, more) \in [DOMAIN h \cup DOMAIN more ->
          {IF name \in DOMAIN h THEN h[name] ELSE more[name] : name \in DOMAIN h \cup DOMAIN more}]
    BY DEF Learn
  <2> QED  BY <1>1, <2>1
<1>4. ASSUME h = [name \in DOMAIN h |-> h[name]], DOMAIN more \subseteq DOMAIN h
      PROVE  Learn(h, more) = h
  <2>1. DOMAIN h \cup DOMAIN more = DOMAIN h
    BY <1>4
  <2>2. Learn(h, more) = [name \in DOMAIN h |-> h[name]]
    BY <2>1 DEF Learn
  <2> QED  BY <1>4, <2>2
<1> QED  BY <1>1, <1>2, <1>3, <1>4 DEF Keeps

(* deriveHelpers: a library adds functions that are gates, and nothing     *)
(* else.                                                                   *)
LEMMA LearnsOfLibrary ==
  ASSUME NEW libs, NEW h, KnownHelpers(libs, h), NEW lib \in DOMAIN libs
  PROVE  KnownHelpers(libs, Learn(h, Derived(libs[lib], h)))
<1> DEFINE l == Learn(h, Derived(libs[lib], h))
<1>1. DOMAIN l = DOMAIN h \cup DOMAIN Derived(libs[lib], h) /\ Keeps(h, l)
  BY LearnFacts
<1> HIDE DEF l
<1>2. Keeps(BASE_HELPERS, l)
  BY <1>1, KeepsTransitive DEF KnownHelpers
<1>3. DOMAIN Derived(libs[lib], h) \subseteq LearntFrom(libs, h)
  BY DEF LearntFrom
<1>4. LearntFrom(libs, h) \subseteq LearntFrom(libs, l)
  BY <1>1, LearntGrows
<1>5. DOMAIN h \ DOMAIN BASE_HELPERS \subseteq LearntFrom(libs, h)
  BY DEF KnownHelpers
<1> QED  BY <1>1, <1>2, <1>3, <1>4, <1>5 DEF KnownHelpers, l

(* One pass, library after library.                                        *)
PassStep(g, n, libs, helpers, order) ==
  IF n = 0 THEN helpers ELSE Learn(g[n - 1], Derived(libs[order[n]], g[n - 1]))
PassUpTo(libs, helpers, order) ==
  CHOOSE g : g = [n \in 0..Len(order) |-> PassStep(g, n, libs, helpers, order)]

(* A pass is what its last library leaves.                                 *)
LEMMA PassOverIs ==
  ASSUME NEW libs, NEW helpers, NEW order
  PROVE  PassOver(libs, helpers, order) = PassUpTo(libs, helpers, order)[Len(order)]
BY DEF PassOver, PassUpTo, PassStep

(* A pass over the first m libraries can be made.                          *)
CanPass(m, libs, helpers, order) == \E g : g = [n \in 0..m |-> PassStep(g, n, libs, helpers, order)]

(* A pass can be made over any number of libraries.                        *)
LEMMA PassExists ==
  ASSUME NEW libs, NEW helpers, NEW order, NEW m \in Nat
  PROVE  CanPass(m, libs, helpers, order)
<1> DEFINE bad == {k \in Nat : ~ \E g : g = [n \in 0..k |-> PassStep(g, n, libs, helpers, order)]}
<1>1. 0 \notin bad
  <2> DEFINE z == [n \in 0..0 |-> helpers]
  <2>1. z = [n \in 0..0 |-> PassStep(z, n, libs, helpers, order)]
    BY DEF PassStep
  <2> HIDE DEF z
  <2> QED  BY <2>1
<1>2. ASSUME NEW k \in Nat, k \notin bad PROVE k + 1 \notin bad
  <2>1. PICK f : f = [n \in 0..k |-> PassStep(f, n, libs, helpers, order)]
    BY <1>2
  <2> DEFINE h == [n \in 0..(k + 1) |-> PassStep(f, n, libs, helpers, order)]
  <2>2. \A n \in 0..k : h[n] = f[n]
    <3>1. \A n \in 0..k : f[n] = PassStep(f, n, libs, helpers, order)
      BY <2>1
    <3> QED  BY <3>1
  <2>3. \A n \in 0..(k + 1) : PassStep(f, n, libs, helpers, order) = PassStep(h, n, libs, helpers, order)
    <3> SUFFICES ASSUME NEW n \in 0..(k + 1)
                 PROVE  PassStep(f, n, libs, helpers, order) = PassStep(h, n, libs, helpers, order)
      OBVIOUS
    <3>1. CASE n = 0
      BY <3>1 DEF PassStep
    <3>2. CASE n # 0
      <4>1. n - 1 \in 0..k
        BY <3>2
      <4>2. f[n - 1] = h[n - 1]
        BY <2>2, <4>1
      <4> HIDE DEF h
      <4> QED  BY <3>2, <4>2 DEF PassStep
    <3> QED  BY <3>1, <3>2
  <2>4. h = [n \in 0..(k + 1) |-> PassStep(h, n, libs, helpers, order)]
    <3>1. \A n \in 0..(k + 1) : h[n] = PassStep(h, n, libs, helpers, order)
      BY <2>3, Zenon
    <3>2. DOMAIN h = 0..(k + 1) /\ h = [n \in 0..(k + 1) |-> h[n]]
      BY Zenon
    <3> HIDE DEF h
    <3> QED  BY <3>1, <3>2, Zenon
  <2> HIDE DEF h
  <2>5. \E g : g = [n \in 0..(k + 1) |-> PassStep(g, n, libs, helpers, order)]
    BY <2>4, Zenon
  <2> QED  BY <2>5
<1>3. bad = {}
  <2> HIDE DEF bad
  <2>1. bad \subseteq Nat
    BY DEF bad
  <2> QED  BY <1>1, <1>2, <2>1, NoneExcepted
<1> QED  BY <1>3 DEF CanPass

(* A pass finds what could be found before it, and nothing when there is   *)
(* nothing to find.                                                        *)
LEMMA PassFacts ==
  ASSUME NEW libs, NEW helpers, KnownHelpers(libs, helpers),
         NEW order \in Seq(DOMAIN libs), ToSet(order) = DOMAIN libs
  PROVE  LET passed == PassOver(libs, helpers, order)
         IN  /\ KnownHelpers(libs, passed) /\ Keeps(helpers, passed)
             /\ LearntFrom(libs, helpers) \subseteq DOMAIN passed
             /\ Closed(libs, helpers) => passed = helpers
<1> DEFINE G == PassUpTo(libs, helpers, order)
           Good(n) == /\ KnownHelpers(libs, G[n]) /\ Keeps(helpers, G[n])
                      /\ \A i \in 1..n : DOMAIN Derived(libs[order[i]], helpers) \subseteq DOMAIN G[n]
                      /\ Closed(libs, helpers) => G[n] = helpers
           bad == {n \in Nat : n <= Len(order) /\ ~Good(n)}
<1>1. Len(order) \in Nat /\ \A i \in 1..Len(order) : order[i] \in DOMAIN libs
  OBVIOUS
<1>2. G = [n \in 0..Len(order) |-> PassStep(G, n, libs, helpers, order)]
  <2>1. CanPass(Len(order), libs, helpers, order)
    BY <1>1, PassExists
  <2> QED  BY <2>1 DEF PassUpTo, CanPass
<1> HIDE DEF G
<1>3. \A n \in 0..Len(order) : G[n] = PassStep(G, n, libs, helpers, order)
  BY <1>2
<1>4. 0 \notin bad
  <2>1. G[0] = PassStep(G, 0, libs, helpers, order)
    BY <1>1, <1>3
  <2>2. G[0] = helpers
    BY <2>1 DEF PassStep
  <2>3. Keeps(helpers, helpers)
    BY DEF KnownHelpers, Keeps
  <2>4. Good(0)
    BY <2>2, <2>3
  <2> QED  BY <2>4
<1>5. ASSUME NEW n \in Nat, n \notin bad
      PROVE  n + 1 \notin bad
  <2> SUFFICES ASSUME n + 1 <= Len(order)
               PROVE  Good(n + 1)
    OBVIOUS
  <2>1. Good(n)
    BY <1>1, <1>5
  <2> DEFINE lib == order[n + 1]
             h == G[n]
             more == Derived(libs[lib], h)
  <2>2. n + 1 \in 0..Len(order) /\ n + 1 # 0 /\ (n + 1) - 1 = n /\ lib \in DOMAIN libs
    BY <1>1
  <2>3. G[n + 1] = Learn(h, more)
    <3>1. G[n + 1] = PassStep(G, n + 1, libs, helpers, order)
      BY <1>3, <2>2
    <3> QED  BY <2>2, <3>1 DEF PassStep
  <2>4. KnownHelpers(libs, G[n + 1])
    BY <2>1, <2>2, <2>3, LearnsOfLibrary
  <2>5. DOMAIN G[n + 1] = DOMAIN h \cup DOMAIN more /\ Keeps(h, G[n + 1])
    <3> HIDE DEF h, more, bad, Good
    <3>1. DOMAIN Learn(h, more) = DOMAIN h \cup DOMAIN more /\ Keeps(h, Learn(h, more))
      BY LearnFacts, Zenon
    <3> QED  BY <2>3, <3>1, Zenon
  <2>6. Keeps(helpers, G[n + 1])
    BY <2>1, <2>5, KeepsTransitive
  <2>7. DOMAIN Derived(libs[lib], helpers) \subseteq DOMAIN more
    BY <2>1, DerivedGrows
  <2>8. ASSUME NEW i \in 1..(n + 1)
        PROVE  DOMAIN Derived(libs[order[i]], helpers) \subseteq DOMAIN G[n + 1]
    <3>1. CASE i = n + 1
      BY <2>5, <2>7, <3>1
    <3>2. CASE i # n + 1
      <4>1. i \in 1..n
        BY <3>2
      <4> QED  BY <2>1, <2>5, <4>1
    <3> QED  BY <3>1, <3>2
  <2>9. ASSUME Closed(libs, helpers)
        PROVE  G[n + 1] = helpers
    <3>1. h = helpers
      BY <2>1, <2>9
    <3>2. DOMAIN more \subseteq DOMAIN helpers
      <4>1. DOMAIN more \subseteq LearntFrom(libs, helpers)
        BY <2>2, <3>1 DEF LearntFrom
      <4> QED  BY <2>9, <4>1 DEF Closed
    <3>3. helpers = [name \in DOMAIN helpers |-> helpers[name]]
      BY DEF KnownHelpers, Keeps
    <3>4. Learn(h, more) = h
      <4> HIDE DEF h, more, bad, Good
      <4>1. h = [name \in DOMAIN h |-> h[name]] /\ DOMAIN more \subseteq DOMAIN h
        BY <3>1, <3>2, <3>3
      <4> QED  BY <4>1, LearnFacts
    <3> QED  BY <2>3, <3>1, <3>4
  <2> QED  BY <2>4, <2>6, <2>8, <2>9
<1>6. bad = {}
  <2>1. bad \subseteq Nat
    OBVIOUS
  <2> HIDE DEF bad
  <2> QED  BY <1>4, <1>5, <2>1, NoneExcepted
<1>7. Good(Len(order))
  <2> HIDE DEF Good
  <2> QED  BY <1>1, <1>6
<1>8. LearntFrom(libs, helpers) \subseteq DOMAIN G[Len(order)]
  <2> SUFFICES ASSUME NEW lib \in DOMAIN libs
               PROVE  DOMAIN Derived(libs[lib], helpers) \subseteq DOMAIN G[Len(order)]
    BY DEF LearntFrom
  <2>1. PICK i \in 1..Len(order) : lib = order[i]
    BY DEF ToSet
  <2> QED  BY <1>7, <2>1
<1> QED  BY <1>7, <1>8, PassOverIs DEF G

(* The passes, one after another.                                          *)
HelpersStep(g, n, libs, order) == IF n = 0 THEN BASE_HELPERS ELSE PassOver(libs, g[n - 1], order)
HelpersUpTo(libs, order) ==
  CHOOSE g : g = [n \in 0..Cardinality(AllCalls(libs)) |-> HelpersStep(g, n, libs, order)]

(* deriveHelpers: the helpers are what the last pass leaves.               *)
LEMMA HelpersAre ==
  ASSUME NEW libs, NEW order
  PROVE  deriveHelpers(libs, order) = HelpersUpTo(libs, order)[Cardinality(AllCalls(libs))]
BY DEF deriveHelpers, HelpersUpTo, HelpersStep

(* Any number of passes can be made.                                       *)
LEMMA HelpersExist ==
  ASSUME NEW libs, NEW order, NEW m \in Nat
  PROVE  \E g : g = [n \in 0..m |-> HelpersStep(g, n, libs, order)]
<1> DEFINE bad == {k \in Nat : ~ \E g : g = [n \in 0..k |-> HelpersStep(g, n, libs, order)]}
<1>1. 0 \notin bad
  <2> DEFINE z == [n \in 0..0 |-> BASE_HELPERS]
  <2>1. z = [n \in 0..0 |-> HelpersStep(z, n, libs, order)]
    BY DEF HelpersStep
  <2> HIDE DEF z
  <2> QED  BY <2>1
<1>2. ASSUME NEW k \in Nat, k \notin bad PROVE k + 1 \notin bad
  <2>1. PICK f : f = [n \in 0..k |-> HelpersStep(f, n, libs, order)]
    BY <1>2
  <2> DEFINE h == [n \in 0..(k + 1) |-> HelpersStep(f, n, libs, order)]
  <2>2. \A n \in 0..k : h[n] = f[n]
    <3>1. \A n \in 0..k : f[n] = HelpersStep(f, n, libs, order)
      BY <2>1
    <3> QED  BY <3>1
  <2>3. \A n \in 0..(k + 1) : HelpersStep(f, n, libs, order) = HelpersStep(h, n, libs, order)
    <3> SUFFICES ASSUME NEW n \in 0..(k + 1)
                 PROVE  HelpersStep(f, n, libs, order) = HelpersStep(h, n, libs, order)
      OBVIOUS
    <3>1. CASE n = 0
      BY <3>1 DEF HelpersStep
    <3>2. CASE n # 0
      <4>1. n - 1 \in 0..k
        BY <3>2
      <4>2. f[n - 1] = h[n - 1]
        BY <2>2, <4>1
      <4> HIDE DEF h
      <4> QED  BY <3>2, <4>2 DEF HelpersStep
    <3> QED  BY <3>1, <3>2
  <2>4. h = [n \in 0..(k + 1) |-> HelpersStep(h, n, libs, order)]
    <3>1. \A n \in 0..(k + 1) : h[n] = HelpersStep(h, n, libs, order)
      BY <2>3, Zenon
    <3>2. DOMAIN h = 0..(k + 1) /\ h = [n \in 0..(k + 1) |-> h[n]]
      BY Zenon
    <3> HIDE DEF h
    <3> QED  BY <3>1, <3>2, Zenon
  <2> HIDE DEF h
  <2>5. \E g : g = [n \in 0..(k + 1) |-> HelpersStep(g, n, libs, order)]
    BY <2>4, Zenon
  <2> QED  BY <2>5
<1>3. bad = {}
  <2> HIDE DEF bad
  <2>1. bad \subseteq Nat
    BY DEF bad
  <2> QED  BY <1>1, <1>2, <2>1, NoneExcepted
<1> QED  BY <1>3

(* Sources of the library files, with calls a contributor may write.       *)
IsLibs(libs) ==
  /\ libs = [lib \in LibFiles |-> libs[lib]]
  /\ \A lib \in LibFiles : libs[lib] \in Seq({c.call : c \in LibCalls})

(* There are no more functions than calls.                                 *)
LEMMA LibsFacts ==
  ASSUME NEW libs, IsLibs(libs)
  PROVE  /\ DOMAIN libs = LibFiles
         /\ IsFiniteSet(AllCalls(libs)) /\ Cardinality(AllCalls(libs)) \in Nat
         /\ IsFiniteSet({c.in : c \in AllCalls(libs)})
         /\ Cardinality({c.in : c \in AllCalls(libs)}) <= Cardinality(AllCalls(libs))
         /\ \A h : LearntFrom(libs, h) \subseteq {c.in : c \in AllCalls(libs)}
<1>1. DOMAIN libs = LibFiles
  <2> DEFINE l == [lib \in LibFiles |-> libs[lib]]
  <2>1. libs = l /\ DOMAIN l = LibFiles
    BY DEF IsLibs
  <2> HIDE DEF l
  <2> QED  BY <2>1
<1> DEFINE calls == {c.call : c \in LibCalls}
           names == {c.in : c \in AllCalls(libs)}
<1>2. IsFiniteSet(calls)
  <2>1. [c \in LibCalls |-> c.call] \in Surjection(LibCalls, calls)
    BY DEF Surjection
  <2> QED  BY <2>1, CoverageAssumption, FS_Surjection
<1>3. AllCalls(libs) \subseteq calls
  <2>1. ASSUME NEW lib \in LibFiles PROVE ToSet(libs[lib]) \subseteq calls
    <3>1. libs[lib] \in Seq(calls)
      BY DEF IsLibs
    <3> HIDE DEF calls
    <3> QED  BY <3>1 DEF ToSet
  <2> HIDE DEF calls
  <2> QED  BY <1>1, <2>1 DEF AllCalls
<1> HIDE DEF calls
<1>4. IsFiniteSet(AllCalls(libs))
  BY <1>2, <1>3, FS_Subset
<1>5. IsFiniteSet(names) /\ Cardinality(names) <= Cardinality(AllCalls(libs))
  <2>1. [c \in AllCalls(libs) |-> c.in] \in Surjection(AllCalls(libs), names)
    BY DEF Surjection
  <2> HIDE DEF names
  <2> QED  BY <1>4, <2>1, FS_Surjection
<1>6. ASSUME NEW h PROVE LearntFrom(libs, h) \subseteq names
  <2> SUFFICES ASSUME NEW lib \in DOMAIN libs PROVE DOMAIN Derived(libs[lib], h) \subseteq names
    BY DEF LearntFrom
  <2>1. DOMAIN Derived(libs[lib], h) = {c.in : c \in {d \in ToSet(libs[lib]) : Hands(d, h)}}
    BY DerivedNames
  <2>2. {d \in ToSet(libs[lib]) : Hands(d, h)} \subseteq AllCalls(libs)
    BY DEF AllCalls
  <2> QED  BY <2>1, <2>2
<1> QED  BY <1>1, <1>4, <1>5, <1>6, FS_CardinalityType

(* deriveHelpers: each pass but the last learns a name, so as many passes  *)
(* as there are calls learn them all.                                      *)
LEMMA HelpersFacts ==
  ASSUME NEW libs, IsLibs(libs), NEW order \in LibOrder
  PROVE  KnownHelpers(libs, deriveHelpers(libs, order)) /\ Closed(libs, deriveHelpers(libs, order))
<1> DEFINE N == Cardinality(AllCalls(libs))
           K == HelpersUpTo(libs, order)
           names == {c.in : c \in AllCalls(libs)}
           Own(n) == DOMAIN K[n] \ DOMAIN BASE_HELPERS
           Good(n) == /\ KnownHelpers(libs, K[n])
                      /\ Closed(libs, K[n]) \/ Cardinality(Own(n)) >= n
           bad == {n \in Nat : n <= N /\ ~Good(n)}
<1>1. /\ N \in Nat /\ IsFiniteSet(names) /\ Cardinality(names) <= N /\ Cardinality(names) \in Nat
      /\ \A h : LearntFrom(libs, h) \subseteq names
  BY LibsFacts, FS_CardinalityType
<1>2. order \in Seq(DOMAIN libs) /\ ToSet(order) = DOMAIN libs
  BY CoverageAssumption, LibsFacts
<1> HIDE DEF N, names
<1>3. K = [n \in 0..N |-> HelpersStep(K, n, libs, order)]
  BY <1>1, HelpersExist DEF HelpersUpTo, N
<1> HIDE DEF K
<1>4. \A n \in 0..N : K[n] = HelpersStep(K, n, libs, order)
  BY <1>3
<1>5. ASSUME NEW n, KnownHelpers(libs, K[n])
      PROVE  Own(n) \subseteq names /\ IsFiniteSet(Own(n)) /\ Cardinality(Own(n)) \in Nat
  <2>1. Own(n) \subseteq names
    BY <1>1, <1>5 DEF KnownHelpers
  <2> HIDE DEF Own
  <2> QED  BY <1>1, <2>1, FS_Subset, FS_CardinalityType
<1>6. 0 \notin bad
  <2>1. K[0] = HelpersStep(K, 0, libs, order)
    BY <1>1, <1>4
  <2>2. K[0] = BASE_HELPERS
    BY <2>1 DEF HelpersStep
  <2>3. KnownHelpers(libs, K[0])
    BY <2>2 DEF KnownHelpers, Keeps, BASE_HELPERS
  <2>4. Cardinality(Own(0)) >= 0
    <3> HIDE DEF Own
    <3> QED  BY <1>5, <2>3
  <2> QED  BY <2>3, <2>4
<1>7. ASSUME NEW n \in Nat, n \notin bad
      PROVE  n + 1 \notin bad
  <2> SUFFICES ASSUME n + 1 <= N
               PROVE  Good(n + 1)
    OBVIOUS
  <2>1. Good(n)
    BY <1>1, <1>7
  <2>2. n + 1 \in 0..N /\ n + 1 # 0 /\ (n + 1) - 1 = n
    BY <1>1
  <2>3. K[n + 1] = PassOver(libs, K[n], order)
    <3>1. K[n + 1] = HelpersStep(K, n + 1, libs, order)
      BY <1>4, <2>2
    <3> QED  BY <2>2, <3>1 DEF HelpersStep
  <2>4. /\ KnownHelpers(libs, K[n + 1]) /\ Keeps(K[n], K[n + 1])
        /\ LearntFrom(libs, K[n]) \subseteq DOMAIN K[n + 1]
        /\ Closed(libs, K[n]) => K[n + 1] = K[n]
    BY <1>2, <2>1, <2>3, PassFacts
  <2>5. CASE Closed(libs, K[n])
    BY <2>4, <2>5
  <2>6. CASE ~Closed(libs, K[n])
    <3>1. PICK name \in LearntFrom(libs, K[n]) : name \notin DOMAIN K[n]
      BY <2>6 DEF Closed
    <3>2. DOMAIN BASE_HELPERS \subseteq DOMAIN K[n]
      BY <2>1 DEF KnownHelpers, Keeps
    <3>3. Own(n) \cup {name} \subseteq Own(n + 1) /\ name \notin Own(n)
      BY <2>4, <3>1, <3>2 DEF Keeps
    <3>4. Cardinality(Own(n)) >= n
      BY <2>1, <2>6
    <3>5. KnownHelpers(libs, K[n])
      BY <2>1
    <3> HIDE DEF Own
    <3>6. IsFiniteSet(Own(n)) /\ Cardinality(Own(n)) \in Nat
      BY <1>5, <3>5
    <3>7. IsFiniteSet(Own(n + 1)) /\ Cardinality(Own(n + 1)) \in Nat
      BY <1>5, <2>4
    <3>8. Cardinality(Own(n) \cup {name}) = Cardinality(Own(n)) + 1
      BY <3>3, <3>6, FS_AddElement
    <3>9. Cardinality(Own(n) \cup {name}) <= Cardinality(Own(n + 1))
      BY <3>3, <3>7, FS_Subset
    <3>10. Cardinality(Own(n + 1)) >= n + 1
      BY <3>4, <3>6, <3>7, <3>8, <3>9
    <3> QED  BY <2>4, <3>10
  <2> QED  BY <2>5, <2>6
<1>8. bad = {}
  <2>1. bad \subseteq Nat
    OBVIOUS
  <2> HIDE DEF bad
  <2> QED  BY <1>6, <1>7, <2>1, NoneExcepted
<1>9. Good(N)
  <2> HIDE DEF Good
  <2> QED  BY <1>1, <1>8
<1>10. Closed(libs, K[N])
  <2> SUFFICES ASSUME ~Closed(libs, K[N]) PROVE FALSE
    OBVIOUS
  <2>1. PICK name \in LearntFrom(libs, K[N]) : name \notin DOMAIN K[N]
    BY DEF Closed
  <2>2. name \in names /\ name \notin Own(N)
    BY <1>1, <2>1
  <2>3. KnownHelpers(libs, K[N]) /\ Cardinality(Own(N)) >= N
    BY <1>9
  <2> HIDE DEF Own
  <2>4. Own(N) \subseteq names \ {name} /\ Cardinality(Own(N)) \in Nat
    BY <1>5, <2>2, <2>3
  <2>5. IsFiniteSet(names \ {name}) /\ Cardinality(names \ {name}) = Cardinality(names) - 1
    BY <1>1, <2>2, FS_RemoveElement
  <2>6. Cardinality(Own(N)) <= Cardinality(names \ {name})
    BY <2>4, <2>5, FS_Subset
  <2> QED  BY <1>1, <2>3, <2>4, <2>5, <2>6
<1> QED  BY <1>9, <1>10, HelpersAre DEF K, N

(* deriveHelpers: a function that hands its parameter to a gate is a gate. *)
LEMMA HelpersClosed ==
  ASSUME IsLibs(witnessCorpus.libs)
  PROVE  HelpersAreClosed
<1> SUFFICES ASSUME NEW order \in LibOrder
             PROVE  LET helpers == deriveHelpers(witnessCorpus.libs, order)
                    IN  DOMAIN helpers = DOMAIN BASE_HELPERS \cup LearntFrom(witnessCorpus.libs, helpers)
  BY DEF HelpersAreClosed, LearntFrom
<1> QED  BY HelpersFacts DEF KnownHelpers, Closed, Keeps

(* parseDoc: every document nests as its headings do.                      *)
LEMMA SectionsStayNested ==
  ASSUME \A doc \in DOMAIN witnessCorpus.docs : IsDoc(witnessCorpus.docs[doc])
  PROVE  SectionsNest
<1> SUFFICES ASSUME NEW doc \in DOMAIN witnessCorpus.docs,
                    NEW i \in 2..Len(witnessCorpus.docs[doc].text)
             PROVE  witnessCorpus.docs[doc].parents[i] = Max(Lower(witnessCorpus.docs[doc].text, i))
  BY DEF SectionsNest, Lower
<1> DEFINE d == witnessCorpus.docs[doc]
<1>1. IsDoc(d)
  OBVIOUS
<1>2. d.parents = parseDoc(d.text) /\ IsText(d.text)
  <2> HIDE DEF d
  <2> QED  BY <1>1 DEF IsDoc
<1>3. parseDoc(d.text)[i] = Max(Lower(d.text, i))
  BY <1>2, ParseFacts
<1> QED  BY <1>2, <1>3

(* creditsOf: what is credited is earned, in every document.               *)
LEMMA CreditsStayEarned ==
  ASSUME \A doc \in DOMAIN witnessCorpus.docs : IsDoc(witnessCorpus.docs[doc])
  PROVE  CreditsAreEarned
<1> DEFINE docs == witnessCorpus.docs
<1> SUFFICES ASSUME NEW doc \in DOMAIN docs, NEW gates \in SUBSET Keys, NEW i \in DOMAIN docs[doc].text
             PROVE  LET text == docs[doc].text
                        Over(j) == ancestors(docs[doc].parents, j)
                        titled == UNION {text[j].titled : j \in {a \in DOMAIN text : i \in Over(a) \/ a \in Over(i)}}
                        alone == IF Cardinality(homesOf(doc)) = 1 THEN homesOf(doc) ELSE namedFor(doc)
                        credited == creditsOf(docs, doc, i, gates)
                    IN  /\ credited \subseteq homesOf(doc) \cap (titled \cup alone \cup gates)
                        /\ text[i].titled # {} => credited \subseteq titled
  BY Zenon DEF CreditsAreEarned
<1>1. IsDoc(docs[doc])
  OBVIOUS
<1> HIDE DEF docs
<1> QED  BY <1>1, CreditsEarned

(* Who speaks for a family, and for which majors.                          *)
Speaking(before, order, k) ==
  {s \in before.scenarios :
     FamilySignals(before.docs, CHOOSE g \in CoreFamilies : g.key = k, s,
                   gateSignal(before.libs, s, deriveHelpers(before.libs, order))) # {}}

(* The verdict on a family is that of the scenarios that speak for it.     *)
LEMMA VerdictIs ==
  ASSUME NEW before, NEW order, NEW k \in Keys
  PROVE  Families(before, order)[k].verdict = CoverageVerdict({s.majors : s \in Speaking(before, order, k)})
<1> DEFINE f == CHOOSE g \in CoreFamilies : g.key = k
           helpers == deriveHelpers(before.libs, order)
           gatesOf == [s \in before.scenarios |-> gateSignal(before.libs, s, helpers)]
           speaking == {s \in before.scenarios : FamilySignals(before.docs, f, s, gatesOf[s]) # {}}
<1>1. speaking = Speaking(before, order, k)
  BY DEF Speaking
<1>2. Families(before, order)[k].verdict = CoverageVerdict({s.majors : s \in speaking})
  BY DEF Families
<1> QED  BY <1>1, <1>2

(* A scenario without the first major.                                     *)
Later(s) == [s EXCEPT !.majors = @ \ {1}]

(* A scenario of both majors says the same of a family when only the       *)
(* second is left.                                                         *)
LEMMA SameSignals ==
  ASSUME NEW s, IsScenario(s), s.majors # {1}
  PROVE  /\ Later(s).majors = {2} /\ 2 \in s.majors
         /\ \A docs, libs, helpers, f :
              FamilySignals(docs, f, Later(s), gateSignal(libs, Later(s), helpers))
                = FamilySignals(docs, f, s, gateSignal(libs, s, helpers))
<1> DEFINE t == Later(s)
<1>1. PICK m, a, b, c, d : s = [majors |-> m, source |-> a, imports |-> b, citations |-> c, rfcs |-> d]
  BY DEF IsScenario
<1>2. t = [majors |-> m \ {1}, source |-> a, imports |-> b, citations |-> c, rfcs |-> d]
  BY <1>1 DEF Later
<1>3. m \in {{2}, {1, 2}}
  BY <1>1 DEF IsScenario
<1>4. m \ {1} = {2} /\ 2 \in m
  BY <1>3
<1>5. /\ s.majors = m /\ t.majors = m \ {1} /\ t.source = s.source /\ t.imports = s.imports
      /\ t.citations = s.citations /\ t.rfcs = s.rfcs
  BY <1>1, <1>2
<1>6. isV2(s) /\ isV2(t)
  BY <1>4, <1>5 DEF isV2
<1> HIDE DEF t
<1>7. ASSUME NEW docs, NEW libs, NEW helpers, NEW f
      PROVE  FamilySignals(docs, f, t, gateSignal(libs, t, helpers))
               = FamilySignals(docs, f, s, gateSignal(libs, s, helpers))
  <2>1. fileCites(docs, t) = fileCites(docs, s)
    BY <1>5, <1>6 DEF fileCites
  <2>2. gateSignal(libs, t, helpers) = gateSignal(libs, s, helpers)
    BY <1>5 DEF gateSignal
  <2>3. FamilySignals(docs, f, t, gateSignal(libs, s, helpers)) = FamilySignals(docs, f, s, gateSignal(libs, s, helpers))
    BY <1>5, <2>1 DEF FamilySignals
  <2> QED  BY <2>2, <2>3
<1> QED  BY <1>4, <1>5, <1>7 DEF t

(* The verdicts when the scenarios of the first major are gone.            *)
LEMMA EndKeepsVerdicts ==
  ASSUME NEW before, \A s \in before.scenarios : IsScenario(s),
         NEW after, after.docs = before.docs, after.libs = before.libs,
         after.scenarios = CountingOn(before.scenarios), NEW order, NEW k \in Keys
  PROVE  Families(after, order)[k].verdict =
           IF Families(before, order)[k].verdict = "v2-witnessed" THEN "v2-witnessed" ELSE "unwitnessed"
<1> DEFINE S1 == Speaking(before, order, k)
           S2 == Speaking(after, order, k)
           M1 == {s.majors : s \in S1}
           M2 == {s.majors : s \in S2}
           f == CHOOSE g \in CoreFamilies : g.key = k
           helpers == deriveHelpers(before.libs, order)
           Signals(s) == FamilySignals(before.docs, f, s, gateSignal(before.libs, s, helpers))
<1>1. S1 = {s \in before.scenarios : Signals(s) # {}}
  BY DEF Speaking
<1>2. S2 = {t \in CountingOn(before.scenarios) : Signals(t) # {}}
  BY DEF Speaking
<1>3. CountingOn(before.scenarios) = {Later(s) : s \in {t \in before.scenarios : t.majors # {1}}}
  BY DEF CountingOn, Later
<1>4. ASSUME NEW s \in before.scenarios, s.majors # {1}
      PROVE  Later(s).majors = {2} /\ 2 \in s.majors /\ Signals(Later(s)) = Signals(s)
  <2>1. IsScenario(s)
    OBVIOUS
  <2>2. /\ Later(s).majors = {2} /\ 2 \in s.majors
        /\ \A docs, libs, h, g :
              FamilySignals(docs, g, Later(s), gateSignal(libs, Later(s), h))
                = FamilySignals(docs, g, s, gateSignal(libs, s, h))
    BY <1>4, <2>1, SameSignals
  <2> QED  BY <2>2
<1>5. /\ Families(before, order)[k].verdict = CoverageVerdict(M1)
      /\ Families(after, order)[k].verdict = CoverageVerdict(M2)
  BY VerdictIs
<1> HIDE DEF S1, S2, Signals, f, helpers
<1>6. CASE \E m \in M1 : 2 \in m
  <2>1. PICK s \in S1 : 2 \in s.majors
    BY <1>6
  <2>2. s \in before.scenarios /\ Signals(s) # {} /\ s.majors # {1}
    BY <1>1, <2>1
  <2>3. Later(s) \in S2 /\ Later(s).majors = {2}
    BY <1>2, <1>3, <1>4, <2>2
  <2>4. \E m \in M2 : 2 \in m
    BY <2>3
  <2> HIDE DEF M1, M2
  <2>5. CoverageVerdict(M1) = "v2-witnessed" /\ CoverageVerdict(M2) = "v2-witnessed"
    <3>1. ASSUME NEW M, \E m \in M : 2 \in m PROVE CoverageVerdict(M) = "v2-witnessed"
      BY <3>1 DEF CoverageVerdict
    <3> QED  BY <1>6, <2>4, <3>1
  <2> QED  BY <1>5, <2>5
<1>7. CASE ~\E m \in M1 : 2 \in m
  <2>1. M2 = {}
    <3> SUFFICES ASSUME NEW t \in S2 PROVE FALSE
      OBVIOUS
    <3>1. PICK s \in before.scenarios : s.majors # {1} /\ t = Later(s)
      BY <1>2, <1>3
    <3>2. Signals(s) # {} /\ 2 \in s.majors
      BY <1>2, <1>4, <3>1
    <3>3. s \in S1
      BY <1>1, <3>2
    <3> QED  BY <1>7, <3>2, <3>3
  <2> HIDE DEF M1, M2
  <2>2. CoverageVerdict(M2) = "unwitnessed"
    BY <2>1 DEF CoverageVerdict
  <2>3. CoverageVerdict(M1) # "v2-witnessed"
    <3>1. CASE M1 # {} /\ \A m \in M1 : 2 \notin m
      <4>1. CoverageVerdict(M1) = "v1-only"
        BY <1>7, <3>1 DEF CoverageVerdict
      <4> QED  BY <4>1
    <3>2. CASE M1 = {}
      <4>1. CoverageVerdict(M1) = "unwitnessed"
        BY <3>2 DEF CoverageVerdict
      <4> QED  BY <4>1
    <3> QED  BY <1>7, <3>1, <3>2
  <2> QED  BY <1>5, <2>2, <2>3
<1> QED  BY <1>6, <1>7

(* What is true of the corpus in every state.                              *)
IsCorpus(before) ==
  before = [docs |-> before.docs, libs |-> before.libs, scenarios |-> before.scenarios,
            changes |-> before.changes, ended |-> before.ended, verdicts |-> before.verdicts]
CoverageInv ==
  /\ IsCorpus(witnessCorpus)
  /\ \A doc \in DOMAIN witnessCorpus.docs : IsDoc(witnessCorpus.docs[doc])
  /\ IsLibs(witnessCorpus.libs)
  /\ \A s \in witnessCorpus.scenarios : IsScenario(s)
  /\ EndOfSupportAsReported

(* A heading below the first level makes a longer document.                *)
LEMMA DocsLonger ==
  ASSUME NEW doc, IsDoc(doc), NEW h \in NewHeadings
  PROVE  IsDoc(WithHeading(doc, h.heading))
<1> DEFINE text == Append(doc.text, h.heading)
<1>1. doc.text \in Seq(Headings) /\ doc.text # << >> /\ doc.text[1].level = 1
      /\ \A i \in 2..Len(doc.text) : doc.text[i].level > 1
  BY DEF IsDoc, IsText
<1>2. h.heading \in Headings /\ h.heading.level > 1
  BY CoverageAssumption
<1>3. IsText(text)
  <2> DEFINE t == doc.text
             e == h.heading
  <2> HIDE DEF t, e
  <2>1. t \in Seq(Headings) /\ t # << >> /\ e \in Headings
    BY <1>1, <1>2 DEF t, e
  <2>2. /\ Append(t, e) \in Seq(Headings) /\ Len(Append(t, e)) = Len(t) + 1 /\ Len(t) \in Nat /\ Len(t) > 0
        /\ Append(t, e)[Len(t) + 1] = e /\ \A i \in 1..Len(t) : Append(t, e)[i] = t[i]
    BY <2>1
  <2>3. Append(t, e) # << >>
    BY <2>2
  <2>4. Append(t, e)[1].level = 1
    BY <1>1, <2>2 DEF t
  <2>5. ASSUME NEW i \in 2..Len(Append(t, e)) PROVE Append(t, e)[i].level > 1
    <3>1. CASE i = Len(t) + 1
      BY <1>2, <2>2, <3>1 DEF e
    <3>2. CASE i # Len(t) + 1
      <4>1. i \in 2..Len(t) /\ i \in 1..Len(t)
        BY <2>2, <3>2
      <4> QED  BY <1>1, <2>2, <4>1 DEF t
    <3> QED  BY <3>1, <3>2
  <2> QED  BY <2>2, <2>3, <2>4, <2>5 DEF IsText, t, e
<1> HIDE DEF text
<1> QED  BY <1>3 DEF IsDoc, WithHeading, text

(* The corpus at its start.                                                *)
LEMMA CoverageStarts ==
  ASSUME CoverageInit
  PROVE  CoverageInv
<1>1. PICK docs \in CorpusDocs :
        witnessCorpus = [docs |-> [d \in DOMAIN docs |-> [text |-> docs[d], parents |-> parseDoc(docs[d])]],
                         libs |-> [lib \in LibFiles |-> << >>], scenarios |-> {},
                         changes |-> 0, ended |-> FALSE, verdicts |-> [k \in Keys |-> "unwitnessed"]]
  BY DEF CoverageInit
<1> DEFINE D == [d \in DOMAIN docs |-> [text |-> docs[d], parents |-> parseDoc(docs[d])]]
           L == [lib \in LibFiles |-> << >>]
           V == [k \in Keys |-> "unwitnessed"]
<1>2. witnessCorpus = [docs |-> D, libs |-> L, scenarios |-> {}, changes |-> 0, ended |-> FALSE, verdicts |-> V]
  BY <1>1
<1>3. ASSUME NEW doc \in DOMAIN D PROVE IsDoc(D[doc])
  <2>1. doc \in DOMAIN docs /\ D[doc] = [text |-> docs[doc], parents |-> parseDoc(docs[doc])]
    OBVIOUS
  <2>2. IsText(docs[doc])
    BY <2>1, CoverageAssumption
  <2> HIDE DEF D
  <2> QED  BY <2>1, <2>2 DEF IsDoc
<1>4. IsLibs(L)
  <2> DEFINE calls == {c.call : c \in LibCalls}
  <2>1. L = [lib \in LibFiles |-> L[lib]] /\ \A lib \in LibFiles : L[lib] = << >>
    OBVIOUS
  <2>2. << >> \in Seq(calls)
    OBVIOUS
  <2> HIDE DEF L
  <2> QED  BY <2>1, <2>2 DEF IsLibs
<1> HIDE DEF D, L, V
<1>5. /\ IsCorpus(witnessCorpus) /\ witnessCorpus.docs = D /\ witnessCorpus.libs = L
      /\ witnessCorpus.scenarios = {}
  BY <1>2 DEF IsCorpus
<1>6. ~witnessCorpus.ended
  BY <1>2
<1> QED  BY <1>3, <1>4, <1>5, <1>6 DEF CoverageInv, EndOfSupportAsReported

(* Every change of the corpus, and the end of support.                     *)
LEMMA CoverageStep ==
  ASSUME CoverageInv, CoverageNext
  PROVE  CoverageInv'
<1>1. PICK D, L, S, c, e, V :
        witnessCorpus = [docs |-> D, libs |-> L, scenarios |-> S, changes |-> c, ended |-> e, verdicts |-> V]
  BY DEF CoverageInv, IsCorpus
<1>2. /\ witnessCorpus.docs = D /\ witnessCorpus.libs = L /\ witnessCorpus.scenarios = S
  BY <1>1
<1>3. /\ \A doc \in DOMAIN D : IsDoc(D[doc])
      /\ IsLibs(L)
      /\ \A s \in S : IsScenario(s)
  BY <1>2 DEF CoverageInv
<1>4. CASE AddScenario
  <2>1. ~witnessCorpus.ended
    BY <1>4 DEF AddScenario, Changes
  <2>2. PICK s \in ScenarioPool : witnessCorpus' = [witnessCorpus EXCEPT !.scenarios = @ \cup {s}, !.changes = @ + 1]
    BY <1>4 DEF AddScenario
  <2>3. witnessCorpus' = [docs |-> D, libs |-> L, scenarios |-> S \cup {s}, changes |-> c + 1,
                          ended |-> e, verdicts |-> V]
    BY <1>1, <2>2
  <2>4. IsCorpus(witnessCorpus)' /\ witnessCorpus'.docs = D /\ witnessCorpus'.libs = L
        /\ witnessCorpus'.scenarios = S \cup {s}
    BY <2>3 DEF IsCorpus
  <2>5. ~witnessCorpus'.ended
    BY <1>1, <2>1, <2>3, Zenon
  <2>6. IsScenario(s)
    BY CoverageAssumption
  <2>7. \A t \in S \cup {s} : IsScenario(t)
    BY <1>3, <2>6
  <2> QED  BY <1>3, <2>4, <2>5, <2>7 DEF CoverageInv, EndOfSupportAsReported
<1>5. CASE AddCall
  <2>1. ~witnessCorpus.ended
    BY <1>5 DEF AddCall, Changes
  <2>2. PICK k \in LibCalls :
          witnessCorpus' = [witnessCorpus EXCEPT !.libs[k.lib] = Append(@, k.call), !.changes = @ + 1]
    BY <1>5 DEF AddCall
  <2> DEFINE M == [L EXCEPT ![k.lib] = Append(L[k.lib], k.call)]
  <2>3. witnessCorpus' = [docs |-> D, libs |-> M, scenarios |-> S, changes |-> c + 1, ended |-> e, verdicts |-> V]
    BY <1>1, <2>2
  <2>4. IsLibs(M)
    <3> DEFINE calls == {x.call : x \in LibCalls}
    <3>1. L = [lib \in LibFiles |-> L[lib]] /\ \A lib \in LibFiles : L[lib] \in Seq(calls)
      BY <1>3 DEF IsLibs
    <3>2. k.lib \in LibFiles /\ k.call \in calls
      BY DEF LibFiles
    <3> HIDE DEF calls
    <3>3. L \in [LibFiles -> Seq(calls)]
      <4>1. [lib \in LibFiles |-> L[lib]] \in [LibFiles -> Seq(calls)]
        BY <3>1
      <4> QED  BY <3>1, <4>1
    <3>4. M \in [LibFiles -> Seq(calls)]
      BY <3>2, <3>3
    <3> HIDE DEF M
    <3>5. M = [lib \in LibFiles |-> M[lib]] /\ \A lib \in LibFiles : M[lib] \in Seq(calls)
      BY <3>4
    <3> QED  BY <3>5 DEF IsLibs, calls
  <2> HIDE DEF M
  <2>5. IsCorpus(witnessCorpus)' /\ witnessCorpus'.docs = D /\ witnessCorpus'.libs = M
        /\ witnessCorpus'.scenarios = S
    BY <2>3 DEF IsCorpus
  <2>6. ~witnessCorpus'.ended
    BY <1>1, <2>1, <2>3, Zenon
  <2> QED  BY <1>3, <2>4, <2>5, <2>6 DEF CoverageInv, EndOfSupportAsReported
<1>6. CASE AddHeading
  <2>1. ~witnessCorpus.ended
    BY <1>6 DEF AddHeading, Changes
  <2>2. PICK h \in NewHeadings :
          witnessCorpus' = [witnessCorpus EXCEPT !.docs[h.doc] = WithHeading(@, h.heading), !.changes = @ + 1]
    BY <1>6 DEF AddHeading
  <2> DEFINE E == [D EXCEPT ![h.doc] = WithHeading(D[h.doc], h.heading)]
  <2>3. witnessCorpus' = [docs |-> E, libs |-> L, scenarios |-> S, changes |-> c + 1, ended |-> e, verdicts |-> V]
    BY <1>1, <2>2
  <2>4. ASSUME NEW doc \in DOMAIN E PROVE IsDoc(E[doc])
    <3>1. doc \in DOMAIN D /\ E[doc] = IF doc = h.doc THEN WithHeading(D[h.doc], h.heading) ELSE D[doc]
      OBVIOUS
    <3> HIDE DEF E
    <3> QED  BY <1>3, <3>1, DocsLonger
  <2> HIDE DEF E
  <2>5. IsCorpus(witnessCorpus)' /\ witnessCorpus'.docs = E /\ witnessCorpus'.libs = L
        /\ witnessCorpus'.scenarios = S
    BY <2>3 DEF IsCorpus
  <2>6. ~witnessCorpus'.ended
    BY <1>1, <2>1, <2>3, Zenon
  <2> QED  BY <1>3, <2>4, <2>5, <2>6 DEF CoverageInv, EndOfSupportAsReported
<1>7. CASE EndSupport
  <2> DEFINE order == CHOOSE o \in LibOrder : TRUE
             report == ReportOf(witnessCorpus)
             W == [k \in Keys |-> report[k].verdict]
             on == CountingOn(S)
  <2>1. witnessCorpus' = [witnessCorpus EXCEPT !.ended = TRUE, !.scenarios = CountingOn(@), !.verdicts = W]
    BY <1>7 DEF EndSupport
  <2> HIDE DEF W
  <2>2. witnessCorpus' = [docs |-> D, libs |-> L, scenarios |-> on, changes |-> c, ended |-> TRUE, verdicts |-> W]
    BY <1>1, <2>1
  <2> HIDE DEF on, report, order
  <2>3. IsCorpus(witnessCorpus)' /\ witnessCorpus'.docs = D /\ witnessCorpus'.libs = L
        /\ witnessCorpus'.scenarios = on /\ witnessCorpus'.verdicts = W
    BY <2>2 DEF IsCorpus
  <2>4. \A t \in on : IsScenario(t)
    <3> SUFFICES ASSUME NEW s \in S, s.majors # {1} PROVE IsScenario(Later(s))
      BY DEF on, CountingOn, Later
    <3>1. IsScenario(s)
      BY <1>3
    <3>2. Later(s).majors = {2}
      BY <3>1, SameSignals
    <3>3. PICK m, a, b, x, d : s = [majors |-> m, source |-> a, imports |-> b, citations |-> x, rfcs |-> d]
      BY <3>1 DEF IsScenario
    <3>4. Later(s) = [majors |-> m \ {1}, source |-> a, imports |-> b, citations |-> x, rfcs |-> d]
      BY <3>3 DEF Later
    <3> HIDE DEF Later
    <3> DEFINE t == Later(s)
    <3>5. t = [majors |-> t.majors, source |-> t.source, imports |-> t.imports, citations |-> t.citations, rfcs |-> t.rfcs]
      BY <3>4
    <3> QED  BY <3>2, <3>5 DEF IsScenario
  <2>5. ASSUME NEW k \in Keys
        PROVE  ReportOf(witnessCorpus')[k].verdict = IF W[k] = "v2-witnessed" THEN "v2-witnessed" ELSE "unwitnessed"
    <3>1. /\ Families(witnessCorpus', order)[k].verdict =
               IF Families(witnessCorpus, order)[k].verdict = "v2-witnessed" THEN "v2-witnessed" ELSE "unwitnessed"
      BY <1>2, <1>3, <2>3, EndKeepsVerdicts DEF on
    <3>2. W[k] = Families(witnessCorpus, order)[k].verdict
      BY DEF W, report, ReportOf, order
    <3> QED  BY <3>1, <3>2 DEF ReportOf, order
  <2>6. EndOfSupportAsReported'
    <3>1. \A k \in Keys : ReportOf(witnessCorpus')[k].verdict =
                            IF witnessCorpus'.verdicts[k] = "v2-witnessed" THEN "v2-witnessed" ELSE "unwitnessed"
      BY <2>3, <2>5
    <3> QED  BY <3>1 DEF EndOfSupportAsReported
  <2> QED  BY <1>3, <2>3, <2>4, <2>6 DEF CoverageInv
<1> QED  BY <1>4, <1>5, <1>6, <1>7 DEF CoverageNext

(* report-v2-witness-coverage.mjs: for any families, documents, libraries, *)
(* orders of reading and scenarios, sections nest, helpers are closed,     *)
(* credits are earned, and the end of support leaves what the report said  *)
(* it would.                                                               *)
THEOREM CoverageStaysTrue == CoverageSpec => []CoverageIsTrue
<1>1. CoverageInit => CoverageInv
  BY CoverageStarts
<1>2. CoverageInv /\ [CoverageNext]_coverageVars => CoverageInv'
  <2>1. CASE CoverageNext
    BY <2>1, CoverageStep
  <2>2. ASSUME CoverageInv, UNCHANGED coverageVars PROVE CoverageInv'
    <3>1. witnessCorpus' = witnessCorpus
      BY <2>2 DEF coverageVars
    <3> QED  BY <2>2, <3>1 DEF CoverageInv, EndOfSupportAsReported
  <2> QED  BY <2>1, <2>2
<1>3. CoverageInv => CoverageIsTrue
  BY SectionsStayNested, CreditsStayEarned, HelpersClosed DEF CoverageInv, CoverageIsTrue
<1> QED  BY <1>1, <1>2, <1>3, PTL DEF CoverageSpec
=============================================================================
