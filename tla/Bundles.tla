------------------------------ MODULE Bundles -------------------------------
(***************************************************************************)
(* The evidence bundles: how they are sealed and what a verifier says of   *)
(* them (certification-bundle-v3.ts, certification-bundle-verify.ts). A    *)
(* digest is the value it digests and a signature the pair of its key and  *)
(* its payload, which is what collision freedom and unforgeability amount  *)
(* to here. Of the texts in a bundle it matters only where a secret of the *)
(* run occurs: leaks, a set of places.                                     *)
(***************************************************************************)
EXTENDS Derivation

Places == {"rows", "document"}
AllProfiles == "every profile"   \* what a rejection that names no profile is about
NoKey == "none"

Rejection(kind) == [kind |-> kind, profile |-> AllProfiles]
About(kind, profiles) == {[kind |-> kind, profile |-> p] : p \in profiles}
When(holds, kind) == IF holds THEN {Rejection(kind)} ELSE {}

(* scrubEvidence: every secret in every text is replaced by its marker.    *)
scrubEvidence(bundle) == [bundle EXCEPT !.leaks = {}]

documentDigest(doc, leaks) == [sha256 |-> doc, secret |-> "document" \in leaks]

-----------------------------------------------------------------------------
(* Bundle v3. The digest covers the rows and, when there are any, the      *)
(* relaxations and the deployment marker; the attestation covers that      *)
(* digest, the build, the suite and the digest of the captured document.   *)
witnessDigest(b) ==
  [rows |-> b.rows, secret |-> "rows" \in b.leaks,
   relaxed |-> b.relaxations, deployment |-> b.deployment]

attestationPayload(b) ==
  [witness |-> b.witness, build |-> b.build, suite |-> b.suite, discovery |-> b.docDigest]

signedBy(key, b) == [key |-> key, over |-> attestationPayload(b)]
Unsigned == [key |-> NoKey]

Attest(b, key) == LET w == [b EXCEPT !.witness = witnessDigest(b)]
                  IN  [w EXCEPT !.signature = signedBy(key, w)]

(* Variant: digest and sign, then scrub. *)
SealThenScrub(draft, key) == scrubEvidence(Attest(draft, key))

(* Scrub, then digest, then sign. *)
sealBundleV3(draft, key) == Attest(scrubEvidence(draft), key)

ProfilesWith(b, tier) == {p \in DOMAIN b.claims : b.claims[p].tier = tier}
CertifiedIn(b) == {p \in DOMAIN b.claims : b.claims[p].certified}

(* Profiles denied because a guard failed on the wire (the webhook egress  *)
(* row of proposal 0171), whatever the host declared.                      *)
UNDECLARED_RELAXATION_WITNESSES ==
  {[id |-> <<"req", "webhook-egress-refused">>, family |-> "webhooks"]}
profilesDeniedByObservedRelaxation(rows, profiles) ==
  profilesRelaxedBy(
    {w.family : w \in {v \in UNDECLARED_RELAXATION_WITNESSES :
       v.id \in DOMAIN rows /\ rows[v.id].disposition = "executed-fail"}}, profiles)

SumOfRows(rows) == MapThenSumSet(LAMBDA id : Assertions(rows[id]), DOMAIN rows)
StatesReason(row) == row.disposition = "executed-pass" \/ row.detail # NoDetail

(* The rows themselves: one per requirement (a function), with a reason    *)
(* unless it passed, and with an assertion if it did.                      *)
RowRejections(b) ==
  When(\E id \in DOMAIN b.rows : ~StatesReason(b.rows[id]), "reason-missing")
  \cup When(\E id \in DOMAIN b.rows : /\ b.rows[id].disposition = "executed-pass"
                                      /\ ~WitnessedRow(b.rows[id]), "vacuous-pass")
  \cup When(b.totals # TotalsOf(b.rows), "totals-mismatch")

IndependentRejections(b, verifierKey) ==
  LET v == b.verifierSignature
  IN  IF ProfilesWith(b, "independent") = {} THEN {}
      ELSE IF v.key = NoKey THEN {Rejection("independent-unsigned")}
      ELSE IF v.key = b.signature.key THEN {Rejection("independent-self-signed")}
      ELSE IF verifierKey = NoKey THEN {Rejection("independent-unverifiable")}
      ELSE When(v # signedBy(verifierKey, b), "verifier-signature-invalid")

(* A certified profile has to derive from the captured document, if that   *)
(* is the document the signature covers and this layout can tell.          *)
derivabilityChecked(b) ==
  /\ b.docDigest = documentDigest(b.document, b.leaks)
  /\ b.major = 2 => RegistryFound

DerivabilityRejections(b) ==
  IF b.docDigest # documentDigest(b.document, b.leaks) THEN {Rejection("discovery-digest")}
  ELSE IF ~derivabilityChecked(b) THEN {}
  ELSE About("profile-not-derivable",
             {p \in CertifiedIn(b) : ~profileDerivable(b.document, p, b.major)})

(* The verdict: the rejections. hostKey or verifierKey may be unknown.     *)
verifyBundleV3(b, hostKey, verifierKey) ==
  LET relaxed  == profilesRelaxedBy(b.relaxations, DOMAIN b.claims)
      observed == profilesDeniedByObservedRelaxation(b.rows, DOMAIN b.claims)
  IN  RowRejections(b)
      \cup When(b.witness # witnessDigest(b), "witness-digest")
      \cup When(b.assertions # SumOfRows(b.rows), "assertion-count")
      \cup When(b.signature.key = NoKey, "signature-missing")
      \cup When(/\ b.signature.key # NoKey /\ hostKey # NoKey
                /\ b.signature # signedBy(hostKey, b), "signature-invalid")
      \cup IndependentRejections(b, verifierKey)
      \cup About("undeclared-relaxation-observed", (CertifiedIn(b) \cap observed) \ relaxed)
      \cup About("relaxed-profile-certified", CertifiedIn(b) \cap relaxed)
      \cup When(TotalsOf(b.rows)["blocked"] > 0 /\ CertifiedIn(b) \ relaxed # {},
                "blocked-certified")
      \cup DerivabilityRejections(b)

(* What a rejection names falls; one that names no profile fells them all. *)
certifiedProfilesV3(b, rejections) ==
  IF \E r \in rejections : r.profile = AllProfiles THEN {}
  ELSE CertifiedIn(b) \ {r.profile : r \in rejections}

(* --verify: rejected 1, coherent but with a gap 2, verified 0.            *)
verifyExit(b, rejections, hostKey) ==
  IF rejections # {} THEN 1
  ELSE IF hostKey = NoKey \/ ~derivabilityChecked(b) THEN 2 ELSE 0

-----------------------------------------------------------------------------
(* Bundle v2: its verifier knows the v1 floors only. *)
FloorRejected(row) ==
  \/ row.disposition = "executed-pass" /\ ~WitnessedRow(row)
  \/ row.disposition = "blocked" /\ row.detail = "unclassified-return"

(* Every floor file has its row; a group its summary, or its members'. Of  *)
(* a prefix group, all the rows of the matching files are looked at.       *)
FileFloorMet(rows, f) ==
  LET id == requirementIdForScenario(f)
  IN  /\ id \in DOMAIN rows
      /\ ~FloorRejected(rows[id]) /\ rows[id].disposition \in CERTIFIABLE

PrefixFloorMet(rows, g) ==
  LET id       == requirementIdForPrefix(g)
      matching == {i \in DOMAIN rows \ {id} : ~IsGroup(i) /\ rows[i].scenario \subseteq g.files}
      looked   == IF matching # {} THEN matching ELSE {id} \cap DOMAIN rows
  IN  /\ \A i \in looked : ~FloorRejected(rows[i])
      /\ \E i \in looked : WitnessedRow(rows[i])

AnyOfFloorMet(rows, g) ==
  LET id     == requirementIdForAnyOf(g)
      looked == IF id \in DOMAIN rows THEN {id}
                ELSE {requirementIdForScenario(f) : f \in g.files} \cap DOMAIN rows
  IN  /\ \A i \in looked : /\ rows[i].disposition # "executed-fail"
                           /\ rows[i].disposition = "executed-pass" => WitnessedRow(rows[i])
      /\ \E i \in looked : WitnessedRow(rows[i])

certifiedV2(b, p) ==
  /\ profileDerivable(b.document, p, 1)
  /\ HasFloor(p, 1)
  /\ LET floor == PROFILE_FLOOR_SCENARIOS[p]
     IN  /\ \A f \in floorFilesFor(p, b.document) : FileFloorMet(b.rows, f)
         /\ \A g \in floor.prefixes : PrefixFloorMet(b.rows, g)
         /\ \A g \in floor.anyOf : AnyOfFloorMet(b.rows, g)
         /\ floor.discoveryOnly \/ requirementsFor(p, b.document, 1) # {}

(* What the bundle as a whole is rejected for. *)
verifyBundleV2(b) ==
  When(\E id \in DOMAIN b.rows : ~StatesReason(b.rows[id]), "reason-missing")
  \cup When(b.totals # TotalsOf(b.rows), "totals-mismatch")
  \cup When(b.leaks # {}, "secret-canary")
=============================================================================
