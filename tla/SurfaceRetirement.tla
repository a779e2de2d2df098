-------------------------- MODULE SurfaceRetirement --------------------------
(* How the second major loses a surface: pull requests to the corpus, each *)
(* merged only if the gates pass on what it leaves behind, release tags,   *)
(* and days. The gates are scripts/check-v2-surface-monotone.mjs, which    *)
(* compares the tree with the census of the surfaces taken before,         *)
(* check-v2-retirement.mjs, which says whether a deprecation row may       *)
(* remove its surface, check-removal-dates.mjs, check-deprecations.mjs and *)
(* check-migrations.mjs, which keep the registers to the tree.             *)
(*                                                                         *)
(* A surface is a tuple of the census (generate-v2-surface-baseline.mjs):  *)
(* a site, a kind and a value. One deprecation row with its migration row  *)
(* may retire the facet `Facet'; days are counted in units of thirty.      *)
EXTENDS Integers, Sequences, SequencesExt, FiniteSets

CONSTANTS
  Original,      \* the tuples the first published tree has
  Facet,         \* the property the deprecation row is about
  Replacement,   \* the property its migration row names
  Rewrites(_),   \* what a pull request may make of a schema
  Rows,          \* what a deprecation row may say
  NoRow,
  Corrections,   \* correction rows a pull request may add
  NoMember,
  LastMinor,     \* no release after 2.<LastMinor>
  LastDay,       \* no day after this one
  MaxMerges      \* pull requests merged

VARIABLES
  main,        \* what the head of main holds
  tags,        \* the published tags, oldest first
  today,
  announced,   \* when public history first had the row: [day, minor]
  merges

retirementVars == <<main, tags, today, announced, merges>>

ANNOUNCE_MIN_DAYS == 1
ANNOUNCE_MIN_MINORS == 2
CENSUS_MAX_AGE_DAYS == 1
NextMajor == LastMinor + 10

-----------------------------------------------------------------------------
(* The census. What a document may carry is counted over every branch of a *)
(* schema, what it must satisfy only if every branch that reaches the site *)
(* imposes it; the object that has the branches is one of them.            *)
UNION_KINDS == {"property", "enum-member"}
RESTRICTION_KINDS == {"required", "closed"}

PointerOf(t) == IF t.kind = "property" THEN Append(t.site, t.value) ELSE t.site

Branches(schema) == {schema.base} \cup schema.alternatives

Reaching(schema, site) ==
  {b \in Branches(schema) : site = << >> \/ \E t \in b : t.kind = "property" /\ PointerOf(t) = site}

EnumerateTree(schema) ==
  {t \in UNION Branches(schema) :
     t.kind \in RESTRICTION_KINDS => \A b \in Reaching(schema, t.site) : t \in b}

(* A schema is a tree: a property leads to every site but its root.        *)
WellFormed(tuples) ==
  \A t \in tuples :
    /\ t.site \in Seq(STRING) /\ t.value \in STRING
    /\ t.site = << >> \/ \E p \in tuples : p.kind = "property" /\ PointerOf(p) = t.site

(* A row has versions, and a correction a pointer that is not about what   *)
(* is to replace the facet.                                                *)
ASSUME RetirementAssumption ==
  /\ WellFormed(Original)
  /\ Facet \in Seq(STRING) /\ Replacement \in Seq(STRING)
  /\ Replacement # << >> /\ ~IsPrefix(Facet, Replacement)
  /\ NoRow \notin Rows /\ \A r \in Rows : r.removeIn \in Nat
  /\ \A c \in Corrections :
       /\ c.pointer = [path |-> c.pointer.path, member |-> c.pointer.member]
       /\ c.pointer.path \in Seq(STRING)
       /\ c.pointer.member = NoMember => ~IsPrefix(c.pointer.path, Replacement)

Sites(tuples) == {t.site : t \in tuples}
SurfaceSites(tuples) == Sites(tuples) \cup {PointerOf(t) : t \in {u \in tuples : u.kind = "property"}}

-----------------------------------------------------------------------------
(* The retirement predicates, on the tree m.                               *)
Due(m) == m.row # NoRow /\ m.release >= m.row.removeIn

CarriedBy(m, pointer) == {h \in DOMAIN m.bundles : pointer \in m.bundles[h]}

ReplacementFirst(m) ==
  m.row.addedIn < m.row.removeIn /\ Replacement \in SurfaceSites(m.baseline.surfaces)

AnnouncedRemoval(m) ==
  /\ announced # NoRow
  /\ today - announced.day >= ANNOUNCE_MIN_DAYS
  /\ m.row.removeIn - announced.minor >= ANNOUNCE_MIN_MINORS

Unevidenced(m) ==
  /\ CarriedBy(m, Facet) = {}
  /\ m.census # NoRow /\ m.census.count = 0 /\ today - m.census.day <= CENSUS_MAX_AGE_DAYS

AbsenceDefined(m) ==
  ~ \E t \in m.baseline.surfaces : t.kind = "required" /\ Append(t.site, t.value) = Facet

Retirable(m) ==
  /\ ReplacementFirst(m) /\ AnnouncedRemoval(m) /\ Unevidenced(m) /\ AbsenceDefined(m)
  /\ m.technical = "experimental"
  /\ ~m.outsider

(* A correction's count of bundles is measured again at every check. That  *)
(* of a steward's deletion may shrink once it is published, and a new one  *)
(* is refused while a host of somebody else is listed.                     *)
LastTag == tags[Len(tags)]
PublishedCorrection(c) == c \in LastTag.corrections

StewardDeletionBlocked(m) == m.outsider \/ DOMAIN m.bundles # {"steward"}

RemovedPath(m, c) == c.pointer.member = NoMember /\ c.pointer.path \notin SurfaceSites(m.baseline.surfaces)
Scanned(m, c) == IF RemovedPath(m, c) THEN Cardinality(CarriedBy(m, c.pointer.path)) ELSE 0

CorrectionStands(m, c) ==
  IF c.class = "steward-deletion"
    THEN /\ IF PublishedCorrection(c) THEN Scanned(m, c) <= c.bundles ELSE Scanned(m, c) = c.bundles
         /\ ~c.readsPersisted
         /\ PublishedCorrection(c) \/ ~StewardDeletionBlocked(m)
    ELSE c.bundles = 0 /\ Scanned(m, c) = 0

CheckV2Retirement(m) ==
  /\ Due(m) => Retirable(m)
  /\ \A c \in m.corrections : CorrectionStands(m, c)

-----------------------------------------------------------------------------
(* What was there before: the committed census, and that of the last tag.  *)
CommittedOnly(m) == m.baseline.surfaces
Before(m) == m.baseline.surfaces \cup LastTag.baseline

Licences(m) ==
  {c.pointer : c \in m.corrections}
    \cup {[path |-> Facet, member |-> NoMember] : r \in {m.row} \cap (IF Due(m) THEN Rows ELSE {})}

LicensedBy(m, t) ==
  \E l \in Licences(m) :
    \/ l.member = NoMember /\ IsPrefix(l.path, PointerOf(t))
    \/ t.kind = "enum-member" /\ l.path = t.site /\ l.member = t.value

RemovedTuples(m) == Before(m) \ EnumerateTree(m.schema)

UnderARemovedProperty(m, t) ==
  \E p \in RemovedTuples(m) : p.kind = "property" /\ IsStrictPrefix(PointerOf(p), PointerOf(t))

CheckV2SurfaceMonotone(m) ==
  LET after == EnumerateTree(m.schema)
  IN  /\ m.baseline.release = m.release
      /\ \A t \in RemovedTuples(m) : t.kind \in UNION_KINDS =>
           UnderARemovedProperty(m, t) \/ LicensedBy(m, t)
      /\ \A t \in after \ Before(m) : t.site \in Sites(Before(m)) => t.kind \notin RESTRICTION_KINDS
      /\ \A t \in RemovedTuples(m) : t.kind = "type" => t.site \notin Sites(after)

-----------------------------------------------------------------------------
(* The registers: a source a row cites is there; the sources a due row     *)
(* cites in the second major's tree are gone, or, where they read          *)
(* persisted data, still there.                                            *)
Minor(row) == row.removeIn < NextMajor

CitedIsThere(m) == Facet \in SurfaceSites(EnumerateTree(m.schema))

CheckRemovalDates(m) ==
  Due(m) /\ m.row.cites =>
    IF m.row.persisted THEN CitedIsThere(m) /\ m.row.annotated ELSE ~CitedIsThere(m)

CheckDeprecations(m) ==
  m.row # NoRow =>
    /\ m.row.cites => CitedIsThere(m)
    /\ Minor(m.row) => m.row.removeIn - m.row.deprecatedIn >= ANNOUNCE_MIN_MINORS

CheckMigrations(m) == m.row # NoRow /\ Minor(m.row) => ReplacementFirst(m)

GatesPass(m) ==
  CheckDeprecations(m) /\ CheckMigrations(m) /\ CheckRemovalDates(m)
    /\ CheckV2Retirement(m) /\ CheckV2SurfaceMonotone(m)

-----------------------------------------------------------------------------
RetirementInit ==
  LET schema == [base |-> Original, alternatives |-> {}]
      surfaces == EnumerateTree(schema)
  IN  /\ \E carrying \in {{}, {Facet}} :
           main = [schema |-> schema, baseline |-> [surfaces |-> surfaces, release |-> 0], release |-> 0,
                   row |-> NoRow, corrections |-> {}, bundles |-> [h \in {"steward"} |-> carrying],
                   outsider |-> FALSE, technical |-> "experimental", census |-> [count |-> 0, day |-> 0]]
      /\ tags = <<[minor |-> 0, baseline |-> surfaces, row |-> FALSE, corrections |-> {}]>>
      /\ today = 0 /\ announced = NoRow /\ merges = 0

(* What a pull request edits: the schemas, the registers, the version and, *)
(* with it or by itself, the census; or the evidence of hosts.             *)
EditedSchemas(m) ==
  {m} \cup {[m EXCEPT !.schema = s] : s \in {r \in Rewrites(m.schema) : WellFormed(UNION Branches(r))}}

EditedRegisters(m) ==
  {m} \cup {[m EXCEPT !.row = r] : r \in Rows}
      \cup {[m EXCEPT !.corrections = @ \cup {c}] : c \in Corrections}

Regenerated(m) == [m EXCEPT !.baseline = [surfaces |-> EnumerateTree(m.schema), release |-> m.release]]
Versioned(m) ==
  {m, Regenerated(m)}
    \cup {Regenerated([m EXCEPT !.release = @ + 1]) : r \in {q \in {m.release} : q < LastMinor}}

Evidence(m) ==
  {[m EXCEPT !.bundles["steward"] = carrying] : carrying \in {{}, {Facet}}}
    \cup {[m EXCEPT !.bundles = [h \in {"steward", "outsider"} |-> IF h = "outsider" THEN {} ELSE @["steward"]]],
          [m EXCEPT !.outsider = TRUE],
          [m EXCEPT !.technical = "stable"],
          [m EXCEPT !.census = [count |-> 0, day |-> today]]}

(* Public history dates a row by the first commit that has its id.         *)
Merge(m) ==
  /\ merges < MaxMerges
  /\ m # main /\ GatesPass(m)
  /\ main' = m
  /\ announced' = IF announced = NoRow /\ m.row # NoRow
                    THEN [day |-> today, minor |-> LastTag.minor] ELSE announced
  /\ merges' = merges + 1
  /\ UNCHANGED <<tags, today>>

PullRequest == \E s \in EditedSchemas(main) : \E r \in EditedRegisters(s) : \E m \in Versioned(r) : Merge(m)
HostEvidence == \E m \in Evidence(main) : Merge(m)

Publish ==
  /\ main.release > LastTag.minor
  /\ tags' = Append(tags, [minor |-> main.release, baseline |-> main.baseline.surfaces,
                           row |-> main.row # NoRow, corrections |-> main.corrections])
  /\ UNCHANGED <<main, today, announced, merges>>

NextDay ==
  /\ today < LastDay
  /\ today' = today + 1
  /\ UNCHANGED <<main, tags, announced, merges>>

RetirementNext == PullRequest \/ HostEvidence \/ Publish \/ NextDay

RetirementSpec == RetirementInit /\ [][RetirementNext]_retirementVars

-----------------------------------------------------------------------------
(* What the last tag counted and the tree no longer has was named by a     *)
(* correction, or retired: announced a month before, and, if every minor   *)
(* was tagged, in a tag before; with its replacement in the tree, while no *)
(* host served it and nobody outside had been measured. And a permitted    *)
(* type stays permitted while its site stays.                              *)
NamedByCorrection(t) ==
  \E c \in main.corrections :
    IF c.pointer.member = NoMember THEN IsPrefix(c.pointer.path, PointerOf(t))
                                   ELSE c.pointer = [path |-> t.site, member |-> t.value]

EveryMinorTagged == \A minor \in 0 .. main.release - 1 : \E k \in 1 .. Len(tags) : tags[k].minor = minor

Retired ==
  /\ Due(main)
  /\ today - announced.day >= ANNOUNCE_MIN_DAYS
  /\ EveryMinorTagged => \E k \in 1 .. Len(tags) : tags[k].row /\ tags[k].minor < main.row.removeIn
  /\ Replacement \in SurfaceSites(EnumerateTree(main.schema))
  /\ CarriedBy(main, Facet) = {} /\ ~main.outsider /\ main.technical = "experimental"

RemovalsAreLicensed ==
  LET tree == EnumerateTree(main.schema)
  IN  \A t \in LastTag.baseline \ tree :
        /\ t.kind \in UNION_KINDS => NamedByCorrection(t) \/ (Retired /\ IsPrefix(Facet, PointerOf(t)))
        /\ t.kind = "type" => t.site \notin Sites(tree)

(* A restriction the last tag did not count is not in the tree of the same *)
(* major: "a removal or a restriction against the published baseline is    *)
(* judged exactly as one against the committed baseline is" (check-v2-     *)
(* surface-monotone.mjs, lines 98-100).                                    *)
NoNewRestriction ==
  \A t \in EnumerateTree(main.schema) \ LastTag.baseline :
    t.site \in Sites(LastTag.baseline) => t.kind \notin RESTRICTION_KINDS
=============================================================================
