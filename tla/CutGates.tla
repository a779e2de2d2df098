------------------------------- MODULE CutGates -------------------------------
(* The gates a host's bundle passes before the second major is cut on its  *)
(* evidence (scripts/check-cut-gates.mjs), while the bundle stands and the *)
(* world moves on: the corpus gains legs and files, the host rotates its   *)
(* key and retires the first major, the end of support passes, the matrix  *)
(* gains the host's row. A leg is an explicit requirement id. The gates    *)
(* that only run other scripts are taken to pass.                          *)
EXTENDS Integers, Sequences, FiniteSets

CONSTANTS
  FileOf,             \* the scenario file of each leg
  FileMajors,         \* the majors a file applies to (scenario-majors.json)
  Scenarios,          \* the coexistence scenarios, each a set of legs
  OverlapScoped,      \* those whose duty ends with the overlap
  RetirementWitness,  \* the leg that shows a dropped major refused
  Family, Partial,    \* the legs of a family a host may omit, and of a part of it
  FirstLegs,          \* legs the first corpus has
  Additions,          \* legs that may come later: [leg, registered, literal]
  Candidates,         \* hosts: [majors, unreached, refuses, family, key]
  Orders,             \* orders the ledger may list the legs in: the place of each
  NoBundleYet

Legs == DOMAIN FileOf

(* No leg has the id of a file. *)
ASSUME CutAssumption ==
  /\ IsFiniteSet(Legs) /\ {FileOf[l] : l \in Legs} \cap Legs = {}
  /\ FirstLegs \subseteq Legs /\ \A new \in Additions : new.leg \in Legs
  /\ Orders \subseteq [Legs -> 1 .. Cardinality(Legs)]

VARIABLES corpus, server, endOfSupport, matrixRow, bundle

cutVars == <<corpus, server, endOfSupport, matrixRow, bundle>>

Passed == "executed-pass"
Failed == "executed-fail"
Excusing == {"inapplicable", "blocked"}

FilesOfMajor(major) == {f \in corpus.files : major \in FileMajors[f]}

-----------------------------------------------------------------------------
(* What the suite finds of a host, and what the host's bundle says of it:  *)
(* the rows of the files, and at their places after them those of the legs.*)
ResultOf(leg) ==
  CASE leg \in UNION OverlapScoped /\ 1 \notin server.majors -> "inapplicable"
    [] leg \in server.unreached -> "blocked"
    [] leg = RetirementWitness /\ ~server.refuses -> Failed
    [] server.family = "in part" /\ leg \in Partial -> "inapplicable"
    [] OTHER -> Passed

LegsReached(major) ==
  {leg \in corpus.registered : /\ major \in FileMajors[FileOf[leg]]
                               /\ leg \in Family => server.family # "none"}

FileResult(file, legs) ==
  LET results == {ResultOf(leg) : leg \in {l \in legs : FileOf[l] = file}}
  IN  CASE results = {} -> IF \E l \in Family : FileOf[l] = file THEN "inapplicable" ELSE Passed
        [] Failed \in results -> Failed
        [] Failed \notin results /\ Passed \in results -> Passed [] OTHER -> "blocked"

RowOf(id, file, result, at) ==
  [id |-> id, scenario |-> file, result |-> result, detail |-> result # Passed, at |-> at]

Document == [majors |-> server.majors, keys |-> {server.key}]

BundleOf(major, order, embeds, scrubbed) ==
  LET legs == LegsReached(major)
  IN  [targetMajor |-> major,
       rows |-> {RowOf(f, f, FileResult(f, legs), 0) : f \in FilesOfMajor(major)}
                  \cup {RowOf(l, FileOf[l], ResultOf(l), order[l]) : l \in legs},
       document |-> IF embeds THEN <<Document>> ELSE << >>,
       intact |-> ~scrubbed,      \* the document is the one whose digest was signed
       key |-> server.key,
       servedV1 |-> 1 \in server.majors, ran |-> corpus.files]

-----------------------------------------------------------------------------
(* Reading what the gate was given: `given' is how it was called.          *)
Ok == "ok"
Blocked == "blocked"
Fails == "bad"

loadBundle(given) ==
  CASE given.bundle = "none" -> Blocked
    [] given.bundle = "unreadable" -> Fails
    [] given.bundle = "read" -> Ok

loadDiscovery(given) ==
  CASE given.bundle = "read" /\ bundle.document # << >> ->
         IF bundle.intact THEN [state |-> "attested", document |-> bundle.document[1]] ELSE [state |-> "error"]
    [] given.bundle # "read" \/ bundle.document = << >> ->
         CASE given.discovery = "none" -> [state |-> "none"]
           [] given.discovery = "missing" -> [state |-> "error"]
           [] given.discovery = "read" -> [state |-> "unattested", document |-> Document]

signatureCheck(discovery) ==
  CASE discovery.state = "none" -> Blocked
    [] discovery.state \in {"attested", "unattested"} ->
         IF bundle.key \in discovery.document.keys THEN Ok ELSE Fails
    [] discovery.state = "error" -> Fails

(* Every file the corpus has for the bundle's major has a row of its own.  *)
Witnessed == {r.id : r \in bundle.rows} \cap corpus.files
suiteVersionCheck == IF FilesOfMajor(bundle.targetMajor) \subseteq Witnessed THEN Ok ELSE Fails

-----------------------------------------------------------------------------
(* Witness: every id of the second major has a row, or the last row of its *)
(* file excuses it.                                                        *)
v2RequirementIds == {l \in corpus.registered \cup corpus.literals : FileOf[l] \in FilesOfMajor(2)}
harvestDivergence == {l \in corpus.literals : FileOf[l] \in FilesOfMajor(2)} \ corpus.registered

FileRow(file) ==
  LET rows == {r \in bundle.rows : r.scenario = file}
  IN  IF rows = {} THEN RowOf(file, file, Failed, 0) ELSE CHOOSE r \in rows : \A q \in rows : q.at <= r.at

Excused(file) == FileRow(file).result \in Excusing /\ FileRow(file).detail

HasRow(id) == \E r \in bundle.rows : r.id = id

Witness ==
  LET unexplained == {r \in bundle.rows : r.result # Passed /\ ~r.detail /\ r.result # "inapplicable"}
  IN  IF /\ \A id \in v2RequirementIds : HasRow(id) \/ Excused(FileOf[id])
         /\ harvestDivergence = {} /\ unexplained = {}
        THEN Ok ELSE Fails

(* Coexistence: every leg of every scenario passed. One whose duty ended   *)
(* with the overlap is excused for a host that has retired the first major *)
(* by its signed document, once its support has ended.                     *)
RetiredFirst(discovery) ==
  /\ discovery.state = "attested"
  /\ 2 \in discovery.document.majors /\ 1 \notin discovery.document.majors
  /\ endOfSupport = "past"

RetirementWitnessed ==
  LET rows == {r \in bundle.rows : r.id = RetirementWitness}
  IN  rows # {} /\ \A r \in rows : r.result = Passed

Coexistence(scenario, discovery) ==
  LET results == {r.result : r \in {q \in bundle.rows : q.id \in scenario}}
  IN  CASE results = {Passed} -> Ok
        [] results = {} \/ Failed \in results -> Fails
        [] OTHER -> IF RetiredFirst(discovery) /\ scenario \in OverlapScoped
                      THEN IF RetirementWitnessed THEN Ok ELSE Fails
                      ELSE Blocked

NoneFailed == IF \E r \in bundle.rows : r.result = Failed THEN Fails ELSE Ok
MatrixRow == IF matrixRow THEN Ok ELSE Blocked

(* The checks of the three host gates.                                     *)
HostGates(given) ==
  LET discovery == loadDiscovery(given)
  IN  IF given.bundle # "read"
        THEN {{IF discovery.state = "error" THEN Fails ELSE loadBundle(given)}}
        ELSE {{Witness},
              {Coexistence(scenario, discovery) : scenario \in Scenarios},
              {suiteVersionCheck, NoneFailed, MatrixRow, signatureCheck(discovery)}}

GateVerdict(checks) == IF checks = {Ok} THEN "PASS" ELSE IF Fails \in checks THEN "FAIL" ELSE "BLOCKED"

ExitsZero(given) ==
  LET verdicts == {GateVerdict(checks) : checks \in HostGates(given)}
  IN  "FAIL" \notin verdicts /\ ("BLOCKED" \in verdicts => given.corpusOnly)

-----------------------------------------------------------------------------
CutInit ==
  /\ corpus = [files |-> {FileOf[l] : l \in FirstLegs}, registered |-> FirstLegs, literals |-> FirstLegs]
  /\ server \in Candidates
  /\ endOfSupport = "ahead" /\ matrixRow = FALSE /\ bundle = NoBundleYet

(* A host that certifies again is one that did so later.                   *)
Certify ==
  /\ bundle = NoBundleYet
  /\ \E major \in server.majors, order \in Orders, embeds \in BOOLEAN, scrubbed \in BOOLEAN :
       (scrubbed => embeds) /\ bundle' = BundleOf(major, order, embeds, scrubbed)
  /\ UNCHANGED <<corpus, server, endOfSupport, matrixRow>>

(* A leg written as a literal, or hoisted into a constant, or minted by a  *)
(* helper outside any test; or a file that cites no requirement.           *)
AddLeg ==
  /\ \E new \in Additions :
       /\ new.leg \notin corpus.registered \cup corpus.literals
       /\ corpus' = [files |-> corpus.files \cup {FileOf[new.leg]},
                     registered |-> corpus.registered \cup {l \in {new.leg} : new.registered},
                     literals |-> corpus.literals \cup {l \in {new.leg} : new.literal}]
  /\ UNCHANGED <<server, endOfSupport, matrixRow, bundle>>

HostMoves ==
  /\ \/ server' = [server EXCEPT !.majors = {2}]
     \/ server.key = 0 /\ server' = [server EXCEPT !.key = 1]
  /\ UNCHANGED <<corpus, endOfSupport, matrixRow, bundle>>

ListHost == matrixRow' = TRUE /\ UNCHANGED <<corpus, server, endOfSupport, bundle>>

SupportEnds == endOfSupport = "ahead" /\ endOfSupport' = "past" /\ UNCHANGED <<corpus, server, matrixRow, bundle>>

CutNext == Certify \/ AddLeg \/ HostMoves \/ ListHost \/ SupportEnds

CutSpec == CutInit /\ [][CutNext]_cutVars

-----------------------------------------------------------------------------
Calls == [bundle : {"none", "unreadable"} \cup (IF bundle = NoBundleYet THEN {} ELSE {"read"}),
          discovery : {"none", "missing", "read"}, corpusOnly : BOOLEAN]

(* A cut passes on a bundle only if the suite that made it had every file  *)
(* of today's corpus for its major; if every id the second major has today *)
(* has a row or belongs to a file with an excused leg; if no leg failed;   *)
(* and if a coexistence leg that did not pass was the overlap's, of a host *)
(* that no longer served the first major, when its support had ended. What *)
(* was given and cannot be read fails even where absence is tolerated.     *)
EarnedBy(b) ==
  /\ FilesOfMajor(b.targetMajor) \subseteq b.ran
  /\ \A id \in v2RequirementIds :
       \/ HasRow(id)
       \/ \E r \in b.rows : r.scenario = FileOf[id] /\ r.result \in Excusing
  /\ \A r \in b.rows : r.result # Failed
  /\ \A s \in Scenarios : \A r \in b.rows :
       r.id \in s /\ r.result # Passed => s \in OverlapScoped /\ ~b.servedV1 /\ endOfSupport = "past"

CutIsEarned ==
  LET earned == bundle # NoBundleYet /\ matrixRow /\ EarnedBy(bundle)
      MustRefuse(given) ==
        given.bundle = "unreadable" \/ (~given.corpusOnly /\ (given.bundle = "none" \/ ~earned))
  IN  \A given \in Calls : MustRefuse(given) => ~ExitsZero(given)

(* "Anything else and every id of a scenario the host actually ran must    *)
(* have its own row" (check-cut-gates.mjs, lines 403-404): an id of the    *)
(* corpus without a row belongs to a scenario whose own row is excused.    *)
RunScenariosShowEveryLeg ==
  bundle # NoBundleYet =>
    \A given \in {c \in Calls : c.bundle = "read" /\ ~c.corpusOnly} :
      ExitsZero(given) =>
        \A id \in v2RequirementIds :
          \/ HasRow(id)
          \/ \E r \in bundle.rows : r.id = FileOf[id] /\ r.result \in Excusing
=============================================================================
