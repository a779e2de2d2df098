---------------------------- MODULE WitnessCoverage ----------------------------
(* Which families of the second major a scenario witnesses                 *)
(* (scripts/report-v2-witness-coverage.mjs), over a corpus that scenarios, *)
(* library helpers and headings are added to until the first major's       *)
(* support ends. A source file is the sequence of its calls, each with the *)
(* function it stands in; a heading is the families it is titled for and   *)
(* the words of its text; a rule is a model value.                         *)
EXTENDS Naturals, Sequences, SequencesExt, FiniteSetsExt

CONSTANTS
  CoreFamilies,     \* [key, homes, rfc] of each core family
  CorpusDocs,       \* the documents, each a sequence of headings [level, titled, words, rules]
  NamedFor,         \* the family a document's file name spells
  LibCalls,         \* calls a library file may gain: [lib, call]
  LibOrder,         \* orders the library files may be read in
  ScenarioPool,     \* scenarios that may be added
  NewHeadings,      \* headings that may be put at the end of a document: [doc, heading]
  CorpusLimit       \* changes to the corpus

VARIABLES witnessCorpus

coverageVars == <<witnessCorpus>>

Keys == {f.key : f \in CoreFamilies}
LibFiles == {c.lib : c \in LibCalls}
isV2(s) == 2 \in s.majors

(* A document is a preamble, which alone is of the first level, and what   *)
(* headings follow. A scenario is for one major or for both.               *)
Headings == [level : Nat \ {0}, titled : SUBSET Keys, words : Seq(STRING), rules : SUBSET STRING]
IsText(text) ==
  /\ text \in Seq(Headings) /\ text # << >> /\ text[1].level = 1
  /\ \A i \in 2..Len(text) : text[i].level > 1
IsScenario(s) ==
  /\ s = [majors |-> s.majors, source |-> s.source, imports |-> s.imports,
          citations |-> s.citations, rfcs |-> s.rfcs]
  /\ s.majors \in {{1}, {2}, {1, 2}}
ASSUME CoverageAssumption ==
  /\ \A docs \in CorpusDocs : \A doc \in DOMAIN docs : IsText(docs[doc])
  /\ \A h \in NewHeadings : h.heading \in Headings /\ h.heading.level > 1
  /\ \A s \in ScenarioPool : IsScenario(s)
  /\ IsFiniteSet(LibCalls)
  /\ \A order \in LibOrder : order \in Seq(LibFiles) /\ ToSet(order) = LibFiles

-----------------------------------------------------------------------------
(* Sections. The stack holds the sections open above the next heading, in  *)
(* the order they come in, and a section's parent is the one on top of it. *)
Popped(stack, text, level) == {i \in stack : text[i].level < level}

parseDoc(text) ==
  LET parsed[n \in 0..Len(text)] ==
        IF n = 0 THEN [parents |-> << >>, stack |-> {}]
        ELSE LET above == Popped(parsed[n - 1].stack, text, text[n].level)
             IN  [parents |-> Append(parsed[n - 1].parents, IF above = {} THEN 0 ELSE Max(above)),
                  stack |-> above \cup {n}]
  IN  parsed[Len(text)].parents

ancestors(parents, i) ==
  LET line[n \in 0..Len(parents)] == IF n = 0 THEN {} ELSE {n} \cup line[parents[n]]
  IN  line[i]

(* The first heading whose text starts with the cited words.               *)
HeadingsFor(text, words) == {i \in DOMAIN text : text[i].level > 1 /\ IsPrefix(words, text[i].words)}
SectionFor(text, words) == IF HeadingsFor(text, words) = {} THEN 0 ELSE Min(HeadingsFor(text, words))

homesOf(doc) == {f.key : f \in {g \in CoreFamilies : doc \in g.homes}}
namedFor(doc) == homesOf(doc) \cap {NamedFor[doc]}

(* Whom a section belongs to: whom the nearest titled one above is titled  *)
(* for. To nobody, when it is shared.                                      *)
ownerOf(docs, doc, i) ==
  LET titled == {a \in ancestors(docs[doc].parents, i) : docs[doc].text[a].titled # {}}
  IN  CASE titled # {} -> docs[doc].text[Max(titled)].titled
        [] titled = {} /\ Cardinality(homesOf(doc)) = 1 -> homesOf(doc)
        [] OTHER -> namedFor(doc)

-----------------------------------------------------------------------------
(* Citations. A part with no document of its own goes on in the one before.*)
NoDoc == "none"
Resolve(docs, parts) ==
  FoldLeft(LAMBDA sofar, part :
             LET doc == IF part.doc = "same" THEN sofar.last ELSE part.doc
             IN  CASE doc \in {NoDoc, "first major"} -> [sofar EXCEPT !.last = NoDoc]
                   [] doc \notin DOMAIN docs -> [sofar EXCEPT !.last = doc]
                   [] doc \in DOMAIN docs ->
                        [last |-> doc, cites |-> sofar.cites \cup {[doc |-> doc, words |-> part.words]}],
           [last |-> NoDoc, cites |-> {}], parts).cites

fileCites(docs, s) ==
  IF ~isV2(s) THEN {}
  ELSE {<<c.doc, SectionFor(docs[c.doc].text, c.words)>> :
          c \in {d \in UNION {Resolve(docs, parts) : parts \in s.citations} : d.words # << >>}}
         \ {<<doc, 0>> : doc \in DOMAIN docs}

(* The families a citation credits, given those its scenario gates on.     *)
creditsOf(docs, doc, cited, gates) ==
  homesOf(doc) \cap
  UNION {IF ownerOf(docs, doc, i) = {} THEN gates ELSE ownerOf(docs, doc, i) :
           i \in {j \in DOMAIN docs[doc].text : cited \in ancestors(docs[doc].parents, j)}}

v2CitersOf(corpus, doc, i) ==
  {s \in corpus.scenarios : \E a \in ancestors(corpus.docs[doc].parents, i) : <<doc, a>> \in fileCites(corpus.docs, s)}

-----------------------------------------------------------------------------
(* Gates. An argument is a family's key, a parameter of the function the   *)
(* call stands in, or something read at run time.                          *)
BASE_HELPERS == [name \in {"gateFamily", "capabilityFamily"} |-> IF name = "gateFamily" THEN 1 ELSE 2]

ParametersIn(src) ==
  UNION {{<<c.in, a.of>> : a \in {b \in ToSet(c.arguments) : b.kind = "parameter"}} : c \in ToSet(src)}

valuesOf(src, its, argument) ==
  LET values[call \in ToSet(src), arg \in UNION {ToSet(c.arguments) : c \in ToSet(src)},
             seen \in SUBSET ParametersIn(src)] ==
        CASE arg.kind = "literal" -> {arg.of}
          [] arg.kind = "parameter" /\ <<call.in, arg.of>> \notin seen ->
               UNION {values[c, c.arguments[arg.of], seen \cup {<<call.in, arg.of>>}] :
                        c \in {d \in ToSet(src) : d.callee = call.in /\ Len(d.arguments) >= arg.of}}
          [] OTHER -> {}
  IN  values[its, argument, {}]

IsGate(c, helpers) == c.callee \in DOMAIN helpers /\ Len(c.arguments) >= helpers[c.callee]
FamilyArgument(c, helpers) == c.arguments[helpers[c.callee]]

astGates(src, helpers) ==
  Keys \cap UNION {valuesOf(src, c, FamilyArgument(c, helpers)) : c \in {d \in ToSet(src) : IsGate(d, helpers)}}

(* The exported functions one of whose parameters names the family; the    *)
(* last such call in the file says which.                                  *)
Hands(c, helpers) == IsGate(c, helpers) /\ c.exported /\ FamilyArgument(c, helpers).kind = "parameter"
Derived(src, helpers) ==
  [name \in {c.in : c \in {d \in ToSet(src) : Hands(d, helpers)}} |->
     LET last == Max({i \in DOMAIN src : Hands(src[i], helpers) /\ src[i].in = name})
     IN  FamilyArgument(src[last], helpers).of]

(* One pass over the libraries, in the order they are read: a name that is *)
(* known keeps its meaning.                                                *)
Learn(helpers, more) ==
  [name \in DOMAIN helpers \cup DOMAIN more |-> IF name \in DOMAIN helpers THEN helpers[name] ELSE more[name]]
PassOver(libs, helpers, order) ==
  LET known[n \in 0..Len(order)] ==
        IF n = 0 THEN helpers ELSE Learn(known[n - 1], Derived(libs[order[n]], known[n - 1]))
  IN  known[Len(order)]

(* The passes go on until one learns nothing: each but the last learns of  *)
(* a call, so there are no more of them than calls.                        *)
AllCalls(libs) == UNION {ToSet(libs[lib]) : lib \in DOMAIN libs}
deriveHelpers(libs, order) ==
  LET known[pass \in 0..Cardinality(AllCalls(libs))] ==
        IF pass = 0 THEN BASE_HELPERS ELSE PassOver(libs, known[pass - 1], order)
  IN  known[Cardinality(AllCalls(libs))]

(* A library speaks for the scenarios that import it if it gates on one or *)
(* two families.                                                           *)
libGates(libs, helpers) ==
  LET gates == [lib \in DOMAIN libs |-> astGates(libs[lib], helpers)]
  IN  [lib \in DOMAIN libs |-> IF Cardinality(gates[lib]) \in 1..2 THEN gates[lib] ELSE {}]

gateSignal(libs, s, helpers) ==
  LET lent == libGates(libs, helpers)
  IN  astGates(s.source, helpers) \cup UNION {lent[lib] : lib \in s.imports}

-----------------------------------------------------------------------------
(* The report. An RFC that owns several families cannot say which one its  *)
(* citation witnesses.                                                     *)
FamilySignals(docs, f, s, gates) ==
  {kind \in {"gate", "rfc", "cite"} :
     CASE kind = "gate" -> f.key \in gates
       [] kind = "rfc" -> f.rfc \in s.rfcs /\ Cardinality({g \in CoreFamilies : g.rfc = f.rfc}) = 1
       [] kind = "cite" -> \E c \in fileCites(docs, s) : f.key \in creditsOf(docs, c[1], c[2], gates)}

CoverageVerdict(majors) ==
  CASE \E m \in majors : 2 \in m -> "v2-witnessed"
    [] majors # {} /\ \A m \in majors : 2 \notin m -> "v1-only"
    [] OTHER -> "unwitnessed"

Families(corpus, order) ==
  LET helpers == deriveHelpers(corpus.libs, order)
      gatesOf == [s \in corpus.scenarios |-> gateSignal(corpus.libs, s, helpers)]
  IN  [k \in Keys |->
         LET f == CHOOSE g \in CoreFamilies : g.key = k
             speaking == {s \in corpus.scenarios : FamilySignals(corpus.docs, f, s, gatesOf[s]) # {}}
             owned == {o \in UNION {{d} \X DOMAIN corpus.docs[d].text : d \in f.homes} :
                         k \in ownerOf(corpus.docs, o[1], o[2])}
             RulesOf(headings) == UNION {corpus.docs[o[1]].text[o[2]].rules : o \in headings}
         IN  [verdict |-> CoverageVerdict({s.majors : s \in speaking}),
              speaking |-> speaking,
              units |-> RulesOf(owned),
              cited |-> RulesOf({o \in owned : v2CitersOf(corpus, o[1], o[2]) # {}})]]
ReportOf(corpus) == Families(corpus, CHOOSE order \in LibOrder : TRUE)

-----------------------------------------------------------------------------
CoverageInit ==
  \E docs \in CorpusDocs :
    witnessCorpus = [docs |-> [d \in DOMAIN docs |-> [text |-> docs[d], parents |-> parseDoc(docs[d])]],
                     libs |-> [lib \in LibFiles |-> << >>], scenarios |-> {},
                     changes |-> 0, ended |-> FALSE, verdicts |-> [k \in Keys |-> "unwitnessed"]]

Changes == witnessCorpus.changes < CorpusLimit /\ ~witnessCorpus.ended

AddScenario ==
  /\ Changes
  /\ \E s \in ScenarioPool \ witnessCorpus.scenarios :
       witnessCorpus' = [witnessCorpus EXCEPT !.scenarios = @ \cup {s}, !.changes = @ + 1]

AddCall ==
  /\ Changes
  /\ \E c \in LibCalls :
       /\ c.call \notin ToSet(witnessCorpus.libs[c.lib])
       /\ witnessCorpus' = [witnessCorpus EXCEPT !.libs[c.lib] = Append(@, c.call), !.changes = @ + 1]

WithHeading(doc, heading) == [text |-> Append(doc.text, heading), parents |-> parseDoc(Append(doc.text, heading))]
AddHeading ==
  /\ Changes
  /\ \E h \in NewHeadings :
       /\ h.heading \notin ToSet(witnessCorpus.docs[h.doc].text)
       /\ witnessCorpus' = [witnessCorpus EXCEPT !.docs[h.doc] = WithHeading(@, h.heading), !.changes = @ + 1]

(* The first major is no longer supported: its scenarios stop mattering.   *)
CountingOn(scenarios) == {[s EXCEPT !.majors = @ \ {1}] : s \in {t \in scenarios : t.majors # {1}}}
EndSupport ==
  /\ ~witnessCorpus.ended
  /\ LET report == ReportOf(witnessCorpus)
     IN  witnessCorpus' = [witnessCorpus EXCEPT
           !.ended = TRUE, !.scenarios = CountingOn(@), !.verdicts = [k \in Keys |-> report[k].verdict]]

CoverageNext == AddScenario \/ AddCall \/ AddHeading \/ EndSupport
CoverageSpec == CoverageInit /\ [][CoverageNext]_coverageVars

-----------------------------------------------------------------------------
(* A heading stands under the nearest earlier one of a higher level.       *)
SectionsNest ==
  \A doc \in DOMAIN witnessCorpus.docs :
    LET text == witnessCorpus.docs[doc].text
    IN  \A i \in 2..Len(text) :
          witnessCorpus.docs[doc].parents[i] = Max({j \in 1..(i - 1) : text[j].level < text[i].level})

(* A function that hands its parameter to a gate is a gate, whatever order *)
(* the libraries are read in, and a gate besides the given ones is such a  *)
(* function.                                                               *)
HelpersAreClosed ==
  \A order \in LibOrder :
    LET libs == witnessCorpus.libs
        helpers == deriveHelpers(libs, order)
        handing == UNION {DOMAIN Derived(libs[lib], helpers) : lib \in DOMAIN libs}
    IN  DOMAIN helpers = DOMAIN BASE_HELPERS \cup handing

(* A citation credits no family that neither titles a heading over or under*)
(* the cited section, nor has the document to itself or in its name, nor   *)
(* is gated on by the scenario.                                            *)
CreditsAreEarned ==
  \A doc \in DOMAIN witnessCorpus.docs : \A gates \in SUBSET Keys :
    LET text == witnessCorpus.docs[doc].text
        Over(i) == ancestors(witnessCorpus.docs[doc].parents, i)
        alone == IF Cardinality(homesOf(doc)) = 1 THEN homesOf(doc) ELSE namedFor(doc)
    IN  \A i \in DOMAIN text :
          LET titled == UNION {text[j].titled : j \in {a \in DOMAIN text : i \in Over(a) \/ a \in Over(i)}}
              credited == creditsOf(witnessCorpus.docs, doc, i, gates)
          IN  /\ credited \subseteq homesOf(doc) \cap (titled \cup alone \cup gates)
              /\ text[i].titled # {} => credited \subseteq titled

(* When the first major's support ends, what the report called witnessed at*)
(* the second stays so, and what it said leans on the first major is left  *)
(* with no witness.                                                        *)
EndOfSupportAsReported ==
  witnessCorpus.ended =>
    LET report == ReportOf(witnessCorpus)
    IN  \A k \in Keys :
          report[k].verdict = IF witnessCorpus.verdicts[k] = "v2-witnessed" THEN "v2-witnessed" ELSE "unwitnessed"

(* The report is what it says it is (report-v2-witness-coverage.mjs:24-66).*)
CoverageIsTrue ==
  SectionsNest /\ HelpersAreClosed /\ CreditsAreEarned /\ EndOfSupportAsReported
=============================================================================
