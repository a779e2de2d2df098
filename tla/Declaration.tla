------------------------------ MODULE Declaration ------------------------------
(***************************************************************************)
(* The capability declaration of v2, what is generated from it, and what   *)
(* is checked against it. One root key is followed: v1 may have it as an   *)
(* object with facets, as a list or not at all; the declaration keeps it   *)
(* as metadata or as a family, core or extension, or deletes it.           *)
(* generate-from-declaration.mjs writes the v2 discovery schema and the    *)
(* table that explains the keys of published packs, as                     *)
(* generate-cross-repo-evidence.mjs last read them from the registry;      *)
(* check-declaration.mjs decides whether the tree may be committed.        *)
(***************************************************************************)
EXTENDS Naturals, Sequences, SequencesExt, FiniteSets

CONSTANTS
  Desks,        \* what is edited in a behaviour
  FacetSet,     \* the facets the family may have
  RESERVED,     \* those that rule 12 passes over by name
  FloorFiles,   \* scenario files a profile may list as its floor
  Floor,        \* of each: the families it gates on, whether a seam drives it
  NeedSets,        \* the sets of keys that a published version may need
  MaxEdits,     \* bound on the edits of a behaviour, by desk
  MaxVersions,  \* bound on the versions published
  LookAhead        \* how many lines rule 11 looks ahead (40 in the code)

VARIABLES
  desk,      \* what this behaviour edits
  edits,     \* how often it has
  workTree,      \* the author's working tree
  packVersions   \* the versions of a pack, in the order published

(* The window of rule 11 has lines, and no facet is called what stands for *)
(* there being none.                                                       *)
ASSUME DeclarationAssumption == "none" \notin FacetSet /\ "f" \in FacetSet /\ MaxVersions \in Nat /\ LookAhead \in Nat

declarationVars == <<desk, edits, workTree, packVersions>>

-----------------------------------------------------------------------------
(* What the published manifests ask for (generate-cross-repo-evidence).    *)
KEYS == {"k", "host.k", "k.f", "old"}
registryPeerDependencyKeys(versions) == UNION {versions[i].needs : i \in DOMAIN versions}
NewestVersion(versions) ==
  LET remaining == {i \in DOMAIN versions : ~versions[i].yanked}
  IN IF remaining = {} THEN 0
     ELSE CHOOSE i \in remaining : \A j \in remaining : versions[j].version <= versions[i].version
registryCurrentPeerDependencyKeys(versions) ==
  IF NewestVersion(versions) = 0 THEN {} ELSE versions[NewestVersion(versions)].needs
Inventory(versions) ==
  [of |-> versions, published |-> registryPeerDependencyKeys(versions),
   current |-> registryCurrentPeerDependencyKeys(versions)]

-----------------------------------------------------------------------------
(* A tree. The families are "k", the one followed, and "base", which is    *)
(* never edited.                                                           *)
InDeclaration(t) == t.rows \cap {"core", "ext", "deleted"} # {}
IsLive(t) == t.rows \cap {"core", "ext"} # {}
SeededRecord(t) == "core" \in t.rows /\ t.byHand.is = "absent"
SeededText(t) == t.v1.shape # "absent" /\ ("kept" \in t.rows \/ SeededRecord(t))

(* A list cannot be spliced into a record; metadata that is kept is seeded *)
(* from v1.                                                                *)
carriesUnspliceablePayload(t) == t.v1.shape = "list"
GeneratorThrows(t) ==
  \/ SeededRecord(t) /\ carriesUnspliceablePayload(t)
  \/ "kept" \in t.rows /\ t.v1.shape = "absent"

(* Prose that speaks of the flag, requires a code that v2 lacks or spells  *)
(* a v1 route is rewritten where the table has its very sentence. A row of *)
(* the table for codes must match.                                         *)
Old(about) == [is |-> about, anew |-> FALSE]
Anew(about) == [is |-> about, anew |-> TRUE]
PLAIN == Old("plain")
rewriteSupportedProse(t) ==
  IF t.v1.prose.is \in t.rewrites /\ ~t.v1.prose.anew THEN PLAIN ELSE t.v1.prose
UnusedRewrite(t) == "code" \in t.rewrites /\ ~(SeededText(t) /\ t.v1.prose = Old("code"))
assertNoSupportedGhost(schema) == schema.prose.is # "flag"

(* Metadata is seeded from v1, or has a shape the generator states itself; *)
(* a record carries the facets decided by hand, or v1's.                   *)
metadataSchema(t) ==
  [record |-> FALSE, key |-> TRUE, witness |-> "none",
   facets |-> IF "kept" \in t.rows THEN t.v1.facets ELSE {},
   prose |-> IF "kept" \in t.rows THEN rewriteSupportedProse(t) ELSE PLAIN]
recordSchema(t) ==
  [record |-> TRUE, key |-> TRUE, witness |-> t.witness,
   facets |-> IF t.byHand.is = "present" THEN t.byHand.facets ELSE t.v1.facets,
   prose |-> IF t.byHand.is = "present" THEN t.byHand.prose
             ELSE IF SeededText(t) THEN rewriteSupportedProse(t) ELSE PLAIN]
NOTHING == [record |-> FALSE, key |-> FALSE, witness |-> "none", facets |-> {}, prose |-> PLAIN]
buildSchema(t) ==
  IF "core" \in t.rows THEN recordSchema(t)
  ELSE IF t.rows \cap {"kept", "stated"} # {} THEN metadataSchema(t) ELSE NOTHING

(* A key is explained by a family's own key after `host.`, by a facet of   *)
(* any family the declaration has a row for, or by hand.                   *)
Explains(t, key) ==
  CASE key = "host.k" -> IsLive(t)
    [] key = "k.f" -> InDeclaration(t) /\ "f" \in t.declared
    [] key = "old" -> t.handAlias
    [] OTHER -> FALSE
buildAliases(t) ==
  [key \in t.evidence.published \ (IF IsLive(t) THEN {"k"} ELSE {}) |->
     [explained |-> Explains(t, key),
      facet |-> IF Explains(t, key) /\ key = "k.f" THEN "f" ELSE "none",
      deleted |-> ~Explains(t, key) /\ "deleted" \in t.rows /\ key # "old",
      needed |-> key \in t.evidence.current]]
GeneratorFails(t) ==
  GeneratorThrows(t) \/ UnusedRewrite(t) \/ ~assertNoSupportedGhost(buildSchema(t))

-----------------------------------------------------------------------------
(* The rules of check-declaration.mjs. *)
EveryKeyHasOneRow(t) == /\ t.v1.shape # "absent" => t.rows # {}
                        /\ Cardinality(t.rows) <= 1
HeadingsAgree(t) == t.heading = ("core" \in t.rows)
ReadmeAgrees(t) == "ext" \in t.rows => t.readme = t.witness
GeneratedIsCurrent(t) ==
  ~GeneratorFails(t) /\ t.caps = buildSchema(t) /\ t.aliases = buildAliases(t)
PublishedKeysResolve(t) ==
  \A key \in DOMAIN t.aliases :
    IF t.aliases[key].deleted THEN ~t.aliases[key].needed ELSE t.aliases[key].explained
FloorsExist(t) == t.profile.floor \subseteq t.files
FloorsAreHolders(t) ==
  /\ t.profile.families # {} => t.profile.floor # {}
  /\ \A file \in t.profile.floor : Floor[file].gates \subseteq t.profile.families /\ ~Floor[file].seam
PredicatesResolve(t) == "k" \in t.profile.families => IsLive(t)
FacetsAgree(t) ==
  t.caps.record /\ InDeclaration(t) =>
    LET onWire == t.caps.facets \ RESERVED
        aliasFacets == {t.aliases[key].facet : key \in DOMAIN t.aliases}
    IN onWire \subseteq t.declared /\ t.declared \subseteq onWire \cup aliasFacets

(* Rule 11 reads a source file: the first line that asks whether the seams *)
(* advert is absent, and the first disposition from there on that is not   *)
(* in a comment.                                                           *)
FirstLineOf(lines, kinds, from, to) ==
  LET found == {i \in from..to : lines[i] \in kinds}
  IN IF found = {} THEN 0 ELSE CHOOSE i \in found : \A j \in found : i <= j
AbsentAdvertIsInapplicable(t) ==
  LET opening == FirstLineOf(t.guarded, {"guard"}, 1, Len(t.guarded))
      far == IF opening + LookAhead - 1 < Len(t.guarded) THEN opening + LookAhead - 1 ELSE Len(t.guarded)
      disposed == FirstLineOf(t.guarded, {"blocked", "inapplicable"}, opening, far)
  IN opening # 0 /\ disposed # 0 => t.guarded[disposed] = "inapplicable"
checkDeclaration(t) ==
  /\ EveryKeyHasOneRow(t) /\ HeadingsAgree(t) /\ ReadmeAgrees(t)
  /\ GeneratedIsCurrent(t) /\ PublishedKeysResolve(t)
  /\ FloorsExist(t) /\ FloorsAreHolders(t) /\ PredicatesResolve(t)
  /\ FacetsAgree(t) /\ AbsentAdvertIsInapplicable(t)

-----------------------------------------------------------------------------
(* The author edits. *)
Edit(next) ==
  /\ edits < MaxEdits[desk] /\ next # workTree
  /\ workTree' = next /\ edits' = edits + 1
  /\ UNCHANGED <<desk, packVersions>>
Toggled(set, x) == IF x \in set THEN set \ {x} ELSE set \cup {x}

ChangeV1 ==
  /\ desk = "facets"
  /\ \/ \E shape \in {"object", "list", "absent"} :
          Edit([workTree EXCEPT !.v1 = [shape |-> shape, prose |-> @.prose,
                                        facets |-> IF shape = "object" THEN @.facets ELSE {}]])
     \/ /\ workTree.v1.shape = "object"
        /\ \E f \in FacetSet : Edit([workTree EXCEPT !.v1.facets = Toggled(@, f)])
DeclareFacets ==
  /\ desk \in {"facets", "packs"}
  /\ \E f \in FacetSet : Edit([workTree EXCEPT !.declared = Toggled(@, f)])
DecideByHand ==
  /\ desk \in {"facets", "prose", "packs"}
  /\ \E facets \in SUBSET FacetSet, prose \in {PLAIN, Old("flag")} :
       /\ desk # "prose" => prose = PLAIN
       /\ desk = "packs" => facets = {}
       /\ desk = "prose" => facets = workTree.v1.facets
       /\ Edit([workTree EXCEPT !.byHand = [is |-> "present", facets |-> facets, prose |-> prose]])
ChangeProse ==
  /\ desk = "prose"
  /\ \E s \in {"flag", "code", "path"} : \E prose \in {Old(s), Anew(s)} :
       Edit([workTree EXCEPT !.v1.prose = prose])
EditRewrites ==
  /\ desk = "prose"
  /\ \E row \in {"flag", "code", "path"} : Edit([workTree EXCEPT !.rewrites = Toggled(@, row)])
MoveRow ==
  \/ /\ desk \notin {"guard", "packs"}
     /\ \E row \in {"core", "kept", "stated", "ext", "deleted"} :
          Edit([workTree EXCEPT !.rows = Toggled(@, row)])
  \/ /\ desk = "packs"
     /\ \E row \in {"core", "deleted"} :
          Edit([workTree EXCEPT !.rows = {row}, !.heading = row = "core"])
EditHeading == desk \notin {"guard", "packs"} /\ Edit([workTree EXCEPT !.heading = ~@])
EditReadme ==
  /\ desk = "families"
  /\ \/ \E says \in {"host", "third party"} : Edit([workTree EXCEPT !.readme = says])
     \/ \E class \in {"host", "third party"} : Edit([workTree EXCEPT !.witness = class])
EditProfile ==
  /\ desk = "families"
  /\ \/ Edit([workTree EXCEPT !.profile.families = Toggled(@, "k")])
     \/ \E file \in FloorFiles : Edit([workTree EXCEPT !.profile.floor = Toggled(@, file)])
     \/ \E file \in FloorFiles : Edit([workTree EXCEPT !.files = Toggled(@, file)])
EditAliases == desk = "packs" /\ Edit([workTree EXCEPT !.handAlias = ~@])
EditGuardedFile ==
  /\ desk = "guard"
  /\ \E line \in {"guard", "comment", "other", "blocked", "inapplicable"} :
       Edit([workTree EXCEPT !.guarded = Append(@, line)])

(* generate-from-declaration --write, which writes all or nothing. *)
WriteGenerated ==
  /\ ~GeneratorFails(workTree)
  /\ workTree' = [workTree EXCEPT !.caps = buildSchema(workTree), !.aliases = buildAliases(workTree)]
  /\ UNCHANGED <<desk, edits, packVersions>>

(* generate-cross-repo-evidence --write: without a checkout of the         *)
(* registry it writes that there are no keys.                              *)
NoRegistry == <<[version |-> 0, needs |-> {}, yanked |-> FALSE]>>
RefreshEvidence ==
  /\ desk = "packs"
  /\ \E checkout \in BOOLEAN :
       workTree' = [workTree EXCEPT !.evidence = Inventory(IF checkout THEN packVersions ELSE NoRegistry)]
  /\ UNCHANGED <<desk, edits, packVersions>>

(* The registry, elsewhere: a version of a pack is published, perhaps of   *)
(* an older line, or yanked.                                               *)
PublishVersion ==
  /\ desk = "packs" /\ Len(packVersions) < MaxVersions
  /\ \E needs \in NeedSets, version \in 1..MaxVersions :
       /\ \A i \in DOMAIN packVersions : packVersions[i].version # version
       /\ packVersions' = Append(packVersions, [version |-> version, needs |-> needs, yanked |-> FALSE])
  /\ UNCHANGED <<desk, edits, workTree>>
Yank ==
  /\ \E i \in DOMAIN packVersions :
       ~packVersions[i].yanked /\ packVersions' = [packVersions EXCEPT ![i].yanked = TRUE]
  /\ UNCHANGED <<desk, edits, workTree>>

-----------------------------------------------------------------------------
Bare ==
  [v1 |-> [shape |-> "object", facets |-> {"f"}, prose |-> PLAIN],
   rows |-> {"core"}, declared |-> {"f"}, witness |-> "host", handAlias |-> FALSE,
   byHand |-> [is |-> "absent"], rewrites |-> {}, heading |-> TRUE, readme |-> "host",
   profile |-> [families |-> {"base"},
                floor |-> {CHOOSE f \in FloorFiles : Floor[f].gates = {"base"} /\ ~Floor[f].seam}],
   files |-> FloorFiles, guarded |-> << >>,
   evidence |-> Inventory(<< >>), caps |-> NOTHING, aliases |-> << >>]
Founded == [Bare EXCEPT !.caps = buildSchema(Bare), !.aliases = buildAliases(Bare)]
DeclarationInit ==
  /\ desk \in Desks /\ edits = 0 /\ packVersions = << >>
  /\ workTree = Founded
DeclarationNext ==
  \/ ChangeV1 \/ DeclareFacets \/ DecideByHand \/ ChangeProse \/ EditRewrites
  \/ MoveRow \/ EditHeading \/ EditReadme \/ EditProfile \/ EditAliases \/ EditGuardedFile
  \/ WriteGenerated \/ RefreshEvidence \/ PublishVersion \/ Yank
DeclarationSpec == DeclarationInit /\ [][DeclarationNext]_declarationVars

-----------------------------------------------------------------------------
(* Of a tree that passes the checks: *)

(* A key that v1 had stands in the root of v2, in an extension whose       *)
(* header says what the declaration says, or was deleted; and with it what *)
(* it carried, unless its shape was decided by hand. The prose has a     *)
(* section for what stands in the root as a record, and for nothing else.  *)
EveryV1KeyHasItsPlace ==
  /\ workTree.v1.shape # "absent" =>
       \/ workTree.caps.key \/ "deleted" \in workTree.rows
       \/ "ext" \in workTree.rows /\ workTree.readme = workTree.witness
  /\ workTree.caps.record => workTree.caps.witness = workTree.witness
  /\ workTree.heading = workTree.caps.record
  /\ workTree.caps.key /\ workTree.byHand.is = "absent" /\ "stated" \notin workTree.rows =>
       workTree.v1.facets \subseteq workTree.caps.facets
  /\ workTree.caps.record /\ workTree.v1.shape = "list" => workTree.byHand.is = "present"

(* Whatever a host can advertise is a facet the family owns, but for the   *)
(* names rule 12 passes over; and a facet the family owns can be           *)
(* advertised, or a published pack asks for it.                            *)
AdvertisableIsOwned ==
  workTree.caps.record =>
    /\ workTree.caps.facets \ RESERVED \subseteq workTree.declared
    /\ \A f \in workTree.declared :
         f \in workTree.caps.facets \/ (f = "f" /\ "k.f" \in workTree.evidence.published)

(* No sentence of the schema speaks of the flag, whichever schema it came  *)
(* from; and one that required a lost code does not come back reworded     *)
(* while its row is in the table. (One that spells a v1 route may.)        *)
NoMustOnTheFlag ==
  /\ workTree.caps.prose.is # "flag"
  /\ "code" \in workTree.rewrites => workTree.caps.prose.is # "code"

(* As long as the registry is as it was read, every key that its newest    *)
(* version needs names a family a host can offer, but for a key that is    *)
(* explained, by hand or by its facets, although the family is deleted.    *)
(* (Read without a checkout of the registry, it has no keys.)              *)
NeededNow ==
  UNION {packVersions[i].needs : i \in {i \in DOMAIN packVersions :
           /\ ~packVersions[i].yanked
           /\ \A j \in DOMAIN packVersions :
                packVersions[j].version > packVersions[i].version => packVersions[j].yanked}}
NeededKeysResolve ==
  workTree.evidence.of = packVersions =>
    \A key \in NeededNow :
      \/ IsLive(workTree) /\ (key = "k.f" => "f" \in workTree.declared)
      \/ key = "old" /\ workTree.handAlias
      \/ key = "k.f" /\ "f" \in workTree.declared /\ "deleted" \in workTree.rows

(* Who holds a profile and offers no seam can earn it: there is a file to  *)
(* run, it exists, and no family's gate of it sends the holder away; and   *)
(* the families it asks for can be advertised. (A gate on a facet leaves   *)
(* no token to look for.)                                                  *)
HonestHolderCanCertify ==
  workTree.profile.families # {} =>
    /\ workTree.profile.floor # {}
    /\ \A file \in workTree.profile.floor :
         /\ file \in workTree.files /\ ~Floor[file].seam
         /\ Floor[file].gates \subseteq workTree.profile.families
    /\ "k" \in workTree.profile.families => workTree.caps.record \/ "ext" \in workTree.rows

(* A host that offers no seams is never recorded as blocked for it: not at *)
(* the first guard of a file whose disposition stands within the window,   *)
(* whatever comments and other lines lie between.                          *)
Branch(lines, i) ==
  LET own == {j \in (i + 1)..Len(lines) : lines[j] \in {"blocked", "inapplicable"}}
  IN IF own = {} THEN 0 ELSE CHOOSE j \in own : \A k \in own : j <= k
AbsentAdvertBlocksNobody ==
  \A i \in DOMAIN workTree.guarded :
    /\ workTree.guarded[i] = "guard" /\ (\A j \in 1..(i - 1) : workTree.guarded[j] # "guard")
    /\ Branch(workTree.guarded, i) # 0 /\ Branch(workTree.guarded, i) < i + LookAhead
    => workTree.guarded[Branch(workTree.guarded, i)] # "blocked"

AcceptedTreesAreSound ==
  checkDeclaration(workTree) =>
    /\ EveryV1KeyHasItsPlace /\ AdvertisableIsOwned /\ NoMustOnTheFlag /\ NeededKeysResolve
    /\ HonestHolderCanCertify /\ AbsentAdvertBlocksNobody
=============================================================================
