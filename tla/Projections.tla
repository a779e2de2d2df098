----------------------------- MODULE Projections -----------------------------
(***************************************************************************)
(* How a capability that v1 switched on with a flag becomes a record that  *)
(* v2 reads by its presence. A facet schema is projected two ways: into    *)
(* the closed v2 record (projectV1FacetSchema and familyRecord of          *)
(* generate-from-declaration.mjs), and for hosts, by dropping the flag and *)
(* nothing else (stripSupportedFlag of v2-projection.ts). The names that a *)
(* schema requires are checked (check-required-properties-defined.mjs),    *)
(* and so is every event payload that v1 left open and v2 closed           *)
(* (check-payload-closure-hatched.mjs).                                    *)
(***************************************************************************)
EXTENDS Naturals, Sequences, SequencesExt, FiniteSets, Functions

CONSTANTS
  FacetNames,        \* the names a v1 facet schema may declare
  Conditionals,      \* the if/then/else clauses an author writes
  MaxConditionals,   \* bound on how many one schema has
  MaxClauses,        \* bound on those and the names it requires, together
  PayloadDefs,       \* the names of payload definitions
  MaxPayloadEdits    \* bound on how many of those are touched

VARIABLES
  facetSchema,   \* the schema of one facet, as v1 has it
  payloadDefs    \* the payload definitions of both majors

projectionVars == <<facetSchema, payloadDefs>>
NoSubject == [is |-> "absent"]

-----------------------------------------------------------------------------
(* A fragment requires names, wants some to be true, and forbids some; one *)
(* that says `type: object` is an object schema like any other. The names  *)
(* it wants true are its properties.                                       *)
Fragment(requires, isTrue, without, object) ==
  [here |-> TRUE, requires |-> requires, isTrue |-> isTrue, without |-> without,
   object |-> object, closed |-> FALSE, never |-> FALSE]
NoFragment == [Fragment({}, {}, {}, FALSE) EXCEPT !.here = FALSE]
IsFragment(fragment) ==
  \/ fragment = NoFragment
  \/ \E requires, isTrue, without \in SUBSET FacetNames, object \in BOOLEAN :
       fragment = Fragment(requires, isTrue, without, object)
ASSUME ProjectionAssumption ==
  /\ {"supported", "tier", "f"} \subseteq FacetNames /\ IsFiniteSet(PayloadDefs)
  /\ \A cond \in Conditionals :
       /\ cond = [in |-> cond.in, if |-> cond.if, then |-> cond.then, else |-> cond.else]
       /\ IsFragment(cond.if) /\ IsFragment(cond.then) /\ IsFragment(cond.else)
Satisfies(doc, fragment) ==
  /\ ~fragment.never
  /\ fragment.requires \subseteq DOMAIN doc
  /\ \A name \in fragment.isTrue \cap DOMAIN doc : doc[name]
  /\ fragment.without \cap DOMAIN doc = {}
  /\ fragment.closed => DOMAIN doc \subseteq fragment.isTrue
Valid(schema, doc) ==
  /\ schema.required \subseteq DOMAIN doc
  /\ schema.extra = "closed" => DOMAIN doc \subseteq schema.props
  /\ \A cond \in schema.conds :
       Satisfies(doc, IF Satisfies(doc, cond.if) THEN cond.then ELSE cond.else)

(* gatesOnSupported: the flag is named anywhere.                           *)
gatesOnSupported(fragment) == "supported" \in fragment.requires \cup fragment.isTrue \cup fragment.without
Mentions(cond) ==
  gatesOnSupported(cond.if) \/ gatesOnSupported(cond.then) \/ gatesOnSupported(cond.else)
RETIRED == {"supported", "tier"}

(* A fragment that says it is an object is closed like one; what stands    *)
(* under `not` is left as it is.                                           *)
ProjectFragment(fragment) ==
  [fragment EXCEPT !.requires = @ \ RETIRED, !.isTrue = @ \ RETIRED, !.closed = fragment.object]
foldSupportedGate(cond) ==
  IF gatesOnSupported(cond.if) THEN cond.then.requires \ RETIRED ELSE {}
Dropped(cond) == IF cond.in = "allOf" THEN Mentions(cond) ELSE gatesOnSupported(cond.if)
Each(project(_), cond) ==
  [in |-> cond.in, if |-> project(cond.if), then |-> project(cond.then), else |-> project(cond.else)]
projectV1FacetSchema(schema) ==
  [props |-> schema.props \ RETIRED,
   required |-> (schema.required \ RETIRED) \cup UNION {foldSupportedGate(cond) : cond \in schema.conds},
   extra |-> IF schema.extra = "open" THEN "open" ELSE "closed",
   conds |-> {Each(ProjectFragment, cond) : cond \in {c \in schema.conds : ~Dropped(c)}}]

(* familyRecord: a record is closed; a seeded family keeps its conditions, *)
(* one decided by hand only those it lists under allOf.                    *)
familyRecord(schema, byHand) ==
  LET facets == IF byHand THEN schema ELSE projectV1FacetSchema(schema)
  IN [facets EXCEPT !.extra = "closed", !.conds = {cond \in @ : byHand => cond.in = "allOf"}]

(* stripSupportedFlag: what required only the flag, and must not, never    *)
(* holds.                                                                  *)
StripFragment(fragment) ==
  [fragment EXCEPT !.requires = @ \ {"supported"}, !.isTrue = @ \ {"supported"},
                   !.without = @ \ {"supported"}, !.never = "supported" \in fragment.without]
stripSupportedFlag(schema) ==
  [schema EXCEPT !.props = @ \ {"supported"}, !.required = @ \ {"supported"},
     !.conds = {Each(StripFragment, cond) : cond \in @}]

(* The walk over every `required`: a name is known in its own object or    *)
(* one it shares its instance with; an object that declares nothing is     *)
(* passed over.                                                            *)
UndefinedIn(fragment, scope) ==
  IF fragment.here /\ fragment.isTrue # {} THEN fragment.requires \ (fragment.isTrue \cup scope) ELSE {}
RequiredUndefined(schema) ==
  LET parts == UNION {{cond.if, cond.then, cond.else} : cond \in schema.conds}
  IN (UNION {UndefinedIn(part, schema.props) : part \in parts})
     \cup (IF schema.props = {} /\ schema.extra # "closed" THEN {} ELSE schema.required \ schema.props)

-----------------------------------------------------------------------------
(* An author writes the schema. *)
RoomForAClause == Cardinality(facetSchema.required) + Cardinality(facetSchema.conds) < MaxClauses
DeclareProperty ==
  /\ \E name \in FacetNames \ facetSchema.props : facetSchema' = [facetSchema EXCEPT !.props = @ \cup {name}]
  /\ UNCHANGED payloadDefs
RequireName ==
  /\ RoomForAClause
  /\ \E name \in FacetNames \ facetSchema.required :
       facetSchema' = [facetSchema EXCEPT !.required = @ \cup {name}]
  /\ UNCHANGED payloadDefs
AddConditional ==
  /\ RoomForAClause /\ Cardinality(facetSchema.conds) < MaxConditionals
  /\ \E cond \in Conditionals \ facetSchema.conds :
       facetSchema' = [facetSchema EXCEPT !.conds = @ \cup {cond}]
  /\ UNCHANGED payloadDefs

-----------------------------------------------------------------------------
(* A payload definition says what else may stand in it, or refers: a chain *)
(* ends where there is no reference, or one that was followed already.     *)
PayloadNode == [ref : PayloadDefs \cup {"none"}, extra : {"unset", "open", "closed"}, hatch : BOOLEAN]
Chain(defs, name) ==
  LET follow[n \in 0..Cardinality(PayloadDefs)] ==
        IF n = 0 THEN <<name>>
        ELSE LET far == follow[n - 1]
             IN IF defs[Last(far)].ref = "none" \/ defs[Last(far)].ref \in ToSet(Tail(far)) THEN far
                ELSE Append(far, defs[Last(far)].ref)
  IN follow[Cardinality(PayloadDefs)]
effective(defs, name) == defs[Last(Chain(defs, name))]
Unhatched(defs1, defs2) ==
  {name \in PayloadDefs :
     /\ effective(defs1, name).extra = "open" /\ effective(defs2, name).extra = "closed"
     /\ ~defs2[name].hatch /\ ~effective(defs2, name).hatch}
Inline(extra) == [ref |-> "none", extra |-> extra, hatch |-> FALSE]
AsFound == [v1 |-> [n \in PayloadDefs |-> Inline("open")], v2 |-> [n \in PayloadDefs |-> Inline("unset")]]
Touched == {pair \in {"v1", "v2"} \X PayloadDefs : payloadDefs[pair[1]][pair[2]] # AsFound[pair[1]][pair[2]]}
EditPayload ==
  /\ Cardinality(Touched) < MaxPayloadEdits
  /\ \E major \in {"v1", "v2"}, name \in PayloadDefs, node \in PayloadNode :
       /\ <<major, name>> \notin Touched
       /\ node # payloadDefs[major][name]
       /\ major = "v1" => ~node.hatch
       /\ payloadDefs' = [payloadDefs EXCEPT ![major][name] = node]
  /\ UNCHANGED facetSchema

-----------------------------------------------------------------------------
ProjectionInit ==
  \/ /\ facetSchema \in [props : {{"supported", "f"}}, required : {{}}, extra : {"unset", "open", "closed"},
                         conds : {{}}]
     /\ payloadDefs = NoSubject
  \/ facetSchema = NoSubject /\ payloadDefs = AsFound
ProjectionNext ==
  \/ facetSchema # NoSubject /\ (DeclareProperty \/ RequireName \/ AddConditional)
  \/ payloadDefs # NoSubject /\ EditPayload
ProjectionSpec == ProjectionInit /\ [][ProjectionNext]_projectionVars

-----------------------------------------------------------------------------
(* What a host says: some of the names, each true or not.                  *)
DocsOver(names) == UNION {[said -> BOOLEAN] : said \in SUBSET names}
Advertising(names) == {doc \in DocsOver(names) : "supported" \in DOMAIN doc => doc["supported"]}
Claimed(doc) == [name \in DOMAIN doc \cup {"supported"} |-> IF name = "supported" THEN TRUE ELSE doc[name]]
WithoutRetired(doc) == Restrict(doc, DOMAIN doc \ RETIRED)

(* Dropping the flag changes no verdict: a document is valid without it    *)
(* exactly if it was with the flag set.                                    *)
StrippedIsExact ==
  facetSchema # NoSubject =>
    LET flagless == stripSupportedFlag(facetSchema)
        flagged == [facetSchema EXCEPT !.props = @ \cup {"supported"}]
    IN \A doc \in DocsOver(facetSchema.props \ {"supported"}) :
         Valid(flagless, doc) <=> Valid(flagged, Claimed(doc))

(* The record relaxes nothing: what it takes, v1 took of a host that set   *)
(* the flag, at some tier. But for a clause that is dropped although the   *)
(* flag is not what it asks, or whose consequence is more than required    *)
(* names, or asks for more than the flag and has an alternative; for one   *)
(* whose condition is closed with the objects; and for one that forbids a  *)
(* retired name, which stays forbidden.                                    *)
MixedGate(cond) == gatesOnSupported(cond.if) /\ (cond.if.requires \cup cond.if.isTrue \cup cond.if.without) # {"supported"}
Relaxing(cond) ==
  \/ Mentions(cond) /\ ~gatesOnSupported(cond.if)
  \/ gatesOnSupported(cond.if) /\ (cond.then.isTrue \cup cond.then.without) \ RETIRED # {}
  \/ MixedGate(cond) /\ cond.else.here
  \/ cond.if.object \/ RETIRED \cap (cond.if.without \cup cond.then.without \cup cond.else.without) # {}
NothingIsRelaxed ==
  facetSchema # NoSubject =>
    \/ \E cond \in facetSchema.conds : Relaxing(cond)
    \/ LET record == familyRecord(facetSchema, FALSE)
           v1Schema == [facetSchema EXCEPT !.extra = "unset"]
           v1Docs == {doc \in Advertising(FacetNames) : Valid(v1Schema, Claimed(doc))}
           taken == {WithoutRetired(doc) : doc \in v1Docs}
       IN \A doc \in DocsOver(facetSchema.props \ RETIRED) : Valid(record, doc) => doc \in taken

(* And it shuts nobody out, but for a clause that asked for more than the  *)
(* flag, or for a tier, or that a retired name was absent, and one that is *)
(* closed with the objects.                                                *)
Tightening(cond) ==
  \/ MixedGate(cond) \/ "tier" \in cond.if.requires \cup cond.if.isTrue
  \/ RETIRED \cap cond.if.without # {}
  \/ cond.if.object \/ cond.then.object \/ cond.else.object
NobodyIsShutOut ==
  facetSchema # NoSubject =>
    \/ \E cond \in facetSchema.conds : Tightening(cond)
    \/ LET record == familyRecord(facetSchema, FALSE)
       IN \A doc \in Advertising(facetSchema.props) :
            Valid(facetSchema, Claimed(doc)) => Valid(record, WithoutRetired(doc))

(* A required name that is declared nowhere is reported, or stands in a    *)
(* fragment that declares nothing itself; and once the flag's clauses are  *)
(* folded into the record, those are reported too.                         *)
Folded == UNION {foldSupportedGate(cond) : cond \in facetSchema.conds}
TyposAreReported ==
  facetSchema # NoSubject =>
    /\ facetSchema.required \ facetSchema.props \subseteq RequiredUndefined(facetSchema)
    /\ \A cond \in facetSchema.conds : \A part \in {cond.if, cond.then, cond.else} :
         part.isTrue # {} => part.requires \ (facetSchema.props \cup part.isTrue) \subseteq RequiredUndefined(facetSchema)
    /\ RequiredUndefined(facetSchema) \cap facetSchema.props = {}
    /\ Folded \ facetSchema.props \subseteq RequiredUndefined(familyRecord(facetSchema, FALSE))

(* A payload that took a host's own fields in v1, and said so, takes them  *)
(* in v2 or is reported, however many references lie between; but for one  *)
(* that refers to what is closed and is hatched only beside the reference, *)
(* and one that is closed on the way.                                      *)
TakesOwnFields(defs, name) ==
  \A n \in ToSet(Chain(defs, name)) : defs[n].extra = "closed" => defs[n].hatch
NarrowedIsReported ==
  payloadDefs # NoSubject =>
    \A name \in PayloadDefs \ Unhatched(payloadDefs.v1, payloadDefs.v2) :
      LET chain == Chain(payloadDefs.v2, name)
      IN \/ effective(payloadDefs.v1, name).extra # "open"
         \/ TakesOwnFields(payloadDefs.v2, name)
         \/ payloadDefs.v2[name].ref # "none" /\ payloadDefs.v2[name].hatch
         \/ \E i \in 1..(Len(chain) - 1) : payloadDefs.v2[chain[i]].extra = "closed"

ProjectionsAreFaithful ==
  StrippedIsExact /\ NothingIsRelaxed /\ NobodyIsShutOut /\ TyposAreReported /\ NarrowedIsReported

-----------------------------------------------------------------------------
(***************************************************************************)
(* What the corpus holds a copy of. The v2 schemas are derived from those  *)
(* of v1 (derive-v2-schemas.mjs) as long as they are marked so; whoever    *)
(* edits one by hand takes the mark away, and the derivation lets it be.   *)
(* And for every path in a sibling repository that the corpus cites as     *)
(* evidence, the committed manifest says what stood there when somebody    *)
(* last looked (generate-cross-repo-evidence.mjs).                         *)
(***************************************************************************)
CONSTANTS
  SchemaFiles,   \* schema files
  API_SEEDS,     \* those the v1 API names itself
  NOT_COPIED,    \* those that have no counterpart in v2
  MaxSteps,      \* bound on the edits of a behaviour
  CitedPaths     \* paths in a sibling repository

VARIABLES
  schemas,   \* the schemas of both majors, and those of v2 when last accepted
  pointers   \* what is cited, what stands there, and what the manifest says

ASSUME CopiesAssumption == API_SEEDS \subseteq SchemaFiles

copiesVars == <<schemas, pointers>>
NotFollowed == [is |-> "not followed"]

-----------------------------------------------------------------------------
(* The seed set: what the API's schemas reach by reference, that is, the   *)
(* least set that has them and what they refer to. A reference to what has *)
(* no counterpart, or is not there, is not followed.                       *)
ApiSeeds(v1) == {f \in API_SEEDS \ NOT_COPIED : v1[f].here}
Follows(v1, seen) == {f \in SchemaFiles \ NOT_COPIED : v1[f].here /\ \E from \in seen : f \in v1[from].refs}
closure(v1) ==
  {f \in SchemaFiles :
     \A seen \in SUBSET SchemaFiles : ApiSeeds(v1) \cup Follows(v1, seen) \subseteq seen => f \in seen}

(* A copy carries the mark, and the version of v1 it was derived from.     *)
NoCopy == [here |-> FALSE, of |-> 0, refs |-> {}, byHand |-> FALSE, marked |-> FALSE]
transform(v1, f) == [here |-> TRUE, of |-> v1[f].version, refs |-> v1[f].refs, byHand |-> FALSE, marked |-> TRUE]
Withdrawn(schema) == [here |-> FALSE, version |-> schema.version, refs |-> {}]
HandEdited(copy, keepsMark) ==
  [here |-> TRUE, of |-> copy.of, refs |-> copy.refs, byHand |-> TRUE, marked |-> copy.marked /\ keepsMark]
Reseeded(v1, v2) ==
  [f \in SchemaFiles |->
     IF f \notin closure(v1) \/ (v2[f].here /\ ~v2[f].marked) THEN v2[f] ELSE transform(v1, f)]
Drift(v1, v2) ==
  {f \in closure(v1) : (v2[f].here => v2[f].marked) /\ v2[f] # transform(v1, f)}

EditSchemas(next) ==
  /\ schemas.steps < MaxSteps /\ next # schemas
  /\ schemas' = [next EXCEPT !.steps = @ + 1]
  /\ UNCHANGED pointers
ChangeV1Schema ==
  \E f \in SchemaFiles, refs \in SUBSET SchemaFiles :
    /\ f \notin refs /\ schemas.v1[f].version < 2
    /\ EditSchemas([schemas EXCEPT !.v1[f] = [here |-> TRUE, version |-> @.version + 1, refs |-> refs]])
RemoveV1Schema ==
  \E f \in SchemaFiles : schemas.v1[f].here /\ EditSchemas([schemas EXCEPT !.v1[f] = Withdrawn(@)])
EditCopy ==
  \E f \in SchemaFiles, keepsMark \in BOOLEAN :
    schemas.v2[f].here /\ EditSchemas([schemas EXCEPT !.v2[f] = HandEdited(@, keepsMark)])
RemoveCopy == \E f \in SchemaFiles : EditSchemas([schemas EXCEPT !.v2[f] = NoCopy])
DeriveWrite ==
  /\ schemas' = [schemas EXCEPT
       !.v2 = Reseeded(schemas.v1, schemas.v2),
       !.reverted = @ \cup {schemas.accepted[f] :
                              f \in {f \in SchemaFiles :
                                       /\ schemas.v2[f].byHand /\ schemas.accepted[f].copy = schemas.v2[f]
                                       /\ Reseeded(schemas.v1, schemas.v2)[f] # schemas.v2[f]}}]
  /\ UNCHANGED pointers
AcceptSchemas ==
  /\ Drift(schemas.v1, schemas.v2) = {}
  /\ schemas' = [schemas EXCEPT !.accepted =
       [f \in SchemaFiles |-> [copy |-> schemas.v2[f], reached |-> f \in closure(schemas.v1)]]]
  /\ UNCHANGED pointers

-----------------------------------------------------------------------------
(* What stands at a path: nothing, a directory, or a file of some content. *)
ABSENT == "nothing"
Standing == {ABSENT, "directory", "content", "other content"}
describe(stands) ==
  [entry |-> TRUE, exists |-> stands # ABSENT, dir |-> stands = "directory",
   sha256 |-> IF stands \in {"content", "other content"} THEN stands ELSE "none"]
NoEntry == [entry |-> FALSE, exists |-> FALSE, dir |-> FALSE, sha256 |-> "none"]

Cite == /\ \E p \in CitedPaths : pointers' = [pointers EXCEPT !.cited = IF p \in @ THEN @ \ {p} ELSE @ \cup {p}]
        /\ UNCHANGED schemas
SiblingChanges ==
  /\ \E p \in CitedPaths, stands \in Standing :
       stands # pointers.stands[p] /\ pointers' = [pointers EXCEPT !.stands[p] = stands]
  /\ UNCHANGED schemas

(* Written with the siblings checked out; it takes what is not there, too. *)
EvidenceWrite ==
  /\ pointers' = [pointers EXCEPT
       !.manifest = [p \in CitedPaths |-> IF p \in pointers.cited THEN describe(pointers.stands[p]) ELSE NoEntry],
       !.seen = [p \in CitedPaths |-> IF p \in pointers.cited THEN pointers.stands[p] ELSE ABSENT]]
  /\ UNCHANGED schemas

(* Checked against the manifest, and with a checkout against that as well. *)
EvidenceFailures(checkout) ==
  {p \in pointers.cited :
     LET found == pointers.manifest[p]
     IN \/ ~found.entry \/ ~found.exists
        \/ checkout /\ found.exists /\ ~found.dir /\ describe(pointers.stands[p]).sha256 # found.sha256}

-----------------------------------------------------------------------------
CopiesInit ==
  \/ /\ schemas =
          LET v1 == [f \in SchemaFiles |-> [here |-> TRUE, version |-> 1, refs |-> SchemaFiles \ (API_SEEDS \cup {f})]]
              v2 == Reseeded(v1, [f \in SchemaFiles |-> NoCopy])
          IN [is |-> "followed", v1 |-> v1, v2 |-> v2, steps |-> 0, reverted |-> {},
              accepted |-> [f \in SchemaFiles |-> [copy |-> v2[f], reached |-> f \in closure(v1)]]]
     /\ pointers = NotFollowed
  \/ /\ schemas = NotFollowed
     /\ pointers = [is |-> "followed", cited |-> {}, stands |-> [p \in CitedPaths |-> ABSENT],
                    manifest |-> [p \in CitedPaths |-> NoEntry], seen |-> [p \in CitedPaths |-> ABSENT]]
CopiesNext ==
  \/ /\ schemas # NotFollowed
     /\ ChangeV1Schema \/ RemoveV1Schema \/ EditCopy \/ RemoveCopy \/ DeriveWrite \/ AcceptSchemas
  \/ pointers # NotFollowed /\ (Cite \/ SiblingChanges \/ EvidenceWrite)
CopiesSpec == CopiesInit /\ [][CopiesNext]_copiesVars

-----------------------------------------------------------------------------
(* A derivation settles what it finds: after it nothing drifts, and when   *)
(* nothing drifts it changes nothing. And then every schema that the API   *)
(* reaches has a copy, whose references can be followed; and one that is   *)
(* marked and reached says what v1 says now.                               *)
DerivationSettles ==
  schemas # NotFollowed =>
    /\ Drift(schemas.v1, Reseeded(schemas.v1, schemas.v2)) = {}
    /\ Drift(schemas.v1, schemas.v2) = {} =>
         /\ Reseeded(schemas.v1, schemas.v2) = schemas.v2
         /\ \A f \in API_SEEDS \ NOT_COPIED : schemas.v1[f].here => schemas.v2[f].here
         /\ \A f \in closure(schemas.v1) :
              /\ \A to \in schemas.v1[f].refs \ NOT_COPIED : schemas.v1[to].here => schemas.v2[to].here
              /\ schemas.v2[f].marked => schemas.v2[f].of = schemas.v1[f].version /\ ~schemas.v2[f].byHand

(* What was edited by hand and accepted is never taken back by a later     *)
(* derivation, but for a copy that the API did not reach at the time, and  *)
(* so kept its mark unnoticed.                                             *)
HandEditsSurvive ==
  schemas # NotFollowed => \A was \in schemas.reverted : ~was.reached

(* Evidence that passes where no sibling is at hand stood there, and as a  *)
(* file or directory, when it was last looked at; and where one is, a file *)
(* is still what it was. (What a directory holds, or that it is gone, is   *)
(* not looked at again.)                                                   *)
EvidenceIsAlive ==
  pointers # NotFollowed =>
    /\ \A p \in pointers.cited \ EvidenceFailures(FALSE) : pointers.seen[p] # ABSENT
    /\ \A p \in pointers.cited \ EvidenceFailures(TRUE) :
         pointers.stands[p] = pointers.seen[p] \/ pointers.seen[p] = "directory"

CopiesAreKept == DerivationSettles /\ HandEditsSurvive /\ EvidenceIsAlive
=============================================================================
