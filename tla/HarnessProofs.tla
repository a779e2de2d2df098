---------------------------- MODULE HarnessProofs ----------------------------
(***************************************************************************)
(* The machines of the suite side by side: what holds of one where it is   *)
(* the subject holds of them all.                                          *)
(***************************************************************************)
EXTENDS MCHarness, DoublesProofs, WitnessProofs, CorpusProofs, TLAPS

-----------------------------------------------------------------------------
(* The machines side by side: what holds of a double where it is the       *)
(* subject holds of the harness.                                           *)

LEMMA OnlyTheSubject ==
  ASSUME NEW one, NEW another, Is(one), Is(another)
  PROVE  one = another
  BY DEF Is

LEMMA StartsAsItself ==
  Init =>
    /\ Is("issuer") => IssuerInit
    /\ Is("peer") => PeerInit
    /\ Is("mcp") => McpInit
    /\ Is("authorization") => AuthInit
    /\ Is("collector") => CollectorInit
    /\ Is("saml") => SamlInit
    /\ Is("chains") => ChainInit
    /\ Is("trees") => TreeInit
    /\ Is("retirement") => RetirementInit
    /\ Is("clock") => ClockInit
    /\ Is("cut") => CutInit
    /\ Is("coverage") => CoverageInit
    /\ Is("release") => ReleaseInit
    /\ Is("projection") => ProjectionInit
    /\ Is("declaration") => DeclarationInit
    /\ Is("copies") => CopiesInit
  BY Zenon DEF Init

LEMMA StepsAsItself ==
  [Next]_harnessVars =>
    /\ UNCHANGED subject
    /\ Is("issuer") => [IssuerNext]_issuerVars
    /\ Is("peer") => [PeerNext]_peerVars
    /\ Is("mcp") => [McpNext]_mcpVars
    /\ Is("authorization") => [AuthNext]_authVars
    /\ Is("collector") => [CollectorNext]_collectorVars
    /\ Is("saml") => [SamlNext]_samlVars
    /\ Is("chains") => [ChainNext]_chainVars
    /\ Is("trees") => [TreeNext]_treeVars
    /\ Is("retirement") => [RetirementNext]_retirementVars
    /\ Is("clock") => [ClockNext]_clockVars
    /\ Is("cut") => [CutNext]_cutVars
    /\ Is("coverage") => [CoverageNext]_coverageVars
    /\ Is("release") => [ReleaseNext]_releaseVars
    /\ Is("projection") => [ProjectionNext]_projectionVars
    /\ Is("declaration") => [DeclarationNext]_declarationVars
    /\ Is("copies") => [CopiesNext]_copiesVars
<1>1. CASE UNCHANGED harnessVars
  BY <1>1, Zenon DEF harnessVars
<1>2. CASE Next
  <2>1. UNCHANGED subject
    BY <1>2, Zenon DEF Next
  <2>2. ASSUME Is("issuer") PROVE IssuerNext
    BY <1>2, <2>2, OnlyTheSubject DEF Next
  <2>3. ASSUME Is("peer") PROVE PeerNext
    BY <1>2, <2>3, OnlyTheSubject DEF Next
  <2>4. ASSUME Is("mcp") PROVE McpNext
    BY <1>2, <2>4, OnlyTheSubject DEF Next
  <2>5. ASSUME Is("authorization") PROVE AuthNext
    BY <1>2, <2>5, OnlyTheSubject DEF Next
  <2>6. ASSUME Is("collector") PROVE CollectorNext
    BY <1>2, <2>6, OnlyTheSubject DEF Next
  <2>7. ASSUME Is("saml") PROVE SamlNext
    BY <1>2, <2>7, OnlyTheSubject DEF Next
  <2>8. ASSUME Is("chains") PROVE ChainNext
    BY <1>2, <2>8, OnlyTheSubject DEF Next
  <2>9. ASSUME Is("trees") PROVE TreeNext
    BY <1>2, <2>9, OnlyTheSubject DEF Next
  <2>10. ASSUME Is("retirement") PROVE RetirementNext
    BY <1>2, <2>10, OnlyTheSubject DEF Next
  <2>11. ASSUME Is("clock") PROVE ClockNext
    BY <1>2, <2>11, OnlyTheSubject DEF Next
  <2>12. ASSUME Is("cut") PROVE CutNext
    BY <1>2, <2>12, OnlyTheSubject DEF Next
  <2>13. ASSUME Is("coverage") PROVE CoverageNext
    BY <1>2, <2>13, OnlyTheSubject DEF Next
  <2>14. ASSUME Is("release") PROVE ReleaseNext
    BY <1>2, <2>14, OnlyTheSubject DEF Next
  <2>15. ASSUME Is("projection") PROVE ProjectionNext
    BY <1>2, <2>15, OnlyTheSubject DEF Next
  <2>16. ASSUME Is("declaration") PROVE DeclarationNext
    BY <1>2, <2>16, OnlyTheSubject DEF Next
  <2>17. ASSUME Is("copies") PROVE CopiesNext
    BY <1>2, <2>17, OnlyTheSubject DEF Next
  <2>18. QED
    BY <2>1, <2>2, <2>3, <2>4, <2>5, <2>6, <2>7, <2>8, <2>9,
       <2>10, <2>11, <2>12, <2>13, <2>14, <2>15, <2>16, <2>17
<1>3. QED
  BY <1>1, <1>2

DoublesInv ==
  /\ Is("issuer") => IssuerInv
  /\ Is("peer") => PeerInv
  /\ Is("mcp") => McpInv
  /\ Is("authorization") => AuthInv
  /\ Is("collector") => CollectorInv
  /\ Is("saml") => SamlInv

LEMMA DoublesInvInit == Init => DoublesInv
  BY StartsAsItself, IssuerInvInit, PeerInvInit, McpInvInit, AuthInvInit, CollectorInvInit,
     SamlInvInit
  DEF DoublesInv

LEMMA DoublesInvStep == DoublesInv /\ [Next]_harnessVars => DoublesInv'
<1> SUFFICES ASSUME DoublesInv, [Next]_harnessVars PROVE DoublesInv'
  OBVIOUS
<1>1. \A machine : Is(machine)' <=> Is(machine)
  BY StepsAsItself DEF Is
<1>2. (Is("issuer") => IssuerInv)'
  BY <1>1, StepsAsItself, IssuerInvStep DEF DoublesInv
<1>3. (Is("peer") => PeerInv)'
  BY <1>1, StepsAsItself, PeerInvStep DEF DoublesInv
<1>4. (Is("mcp") => McpInv)'
  BY <1>1, StepsAsItself, McpInvStep DEF DoublesInv
<1>5. (Is("authorization") => AuthInv)'
  BY <1>1, StepsAsItself, AuthInvStep DEF DoublesInv
<1>6. (Is("collector") => CollectorInv)'
  BY <1>1, StepsAsItself, CollectorInvStep DEF DoublesInv
<1>7. (Is("saml") => SamlInv)'
  BY <1>1, StepsAsItself, SamlInvStep DEF DoublesInv
<1>8. QED
  BY <1>2, <1>3, <1>4, <1>5, <1>6, <1>7 DEF DoublesInv

LEMMA DoublesInvIsEnough == DoublesInv => DoublesKeepTheirWord
<1> SUFFICES ASSUME DoublesInv PROVE DoublesKeepTheirWord
  OBVIOUS
<1>1. CASE Is("issuer")
  BY <1>1, OnlyTheSubject, IssuerInvIsEnough DEF DoublesKeepTheirWord, DoublesInv
<1>2. CASE Is("peer")
  BY <1>2, OnlyTheSubject, PeerInvIsEnough DEF DoublesKeepTheirWord, DoublesInv
<1>3. CASE Is("mcp")
  BY <1>3, OnlyTheSubject, McpInvIsEnough DEF DoublesKeepTheirWord, DoublesInv
<1>4. CASE Is("authorization")
  BY <1>4, OnlyTheSubject, AuthInvIsEnough DEF DoublesKeepTheirWord, DoublesInv
<1>5. CASE Is("collector")
  BY <1>5, OnlyTheSubject, CollectorInvIsEnough DEF DoublesKeepTheirWord, DoublesInv
<1>6. CASE Is("saml")
  BY <1>6, OnlyTheSubject, SamlInvIsEnough DEF DoublesKeepTheirWord, DoublesInv
<1>7. CASE /\ ~Is("issuer") /\ ~Is("peer") /\ ~Is("mcp") /\ ~Is("authorization")
           /\ ~Is("collector") /\ ~Is("saml")
  BY <1>7 DEF DoublesKeepTheirWord
<1>8. QED
  BY <1>1, <1>2, <1>3, <1>4, <1>5, <1>6, <1>7

(* MCHarness: each of the suite's doubles keeps the rule its rows rely on, *)
(* for any number of files, codes, tasks, tools, exports and hours.        *)
THEOREM DoublesAreTrue == Spec => []DoublesKeepTheirWord
  BY DoublesInvInit, DoublesInvStep, DoublesInvIsEnough, PTL DEF Spec

ChainsInv == (Is("chains") => ChainInv) /\ (Is("trees") => TreeInv)

LEMMA ChainsInvInit == Init => ChainsInv
  BY StartsAsItself, ChainInvInit, TreeInvInit DEF ChainsInv

LEMMA ChainsInvStep == ChainsInv /\ [Next]_harnessVars => ChainsInv'
<1> SUFFICES ASSUME ChainsInv, [Next]_harnessVars PROVE ChainsInv'
  OBVIOUS
<1>1. \A machine : Is(machine)' <=> Is(machine)
  BY StepsAsItself DEF Is
<1>2. (Is("chains") => ChainInv)'
  BY <1>1, StepsAsItself, ChainInvStep DEF ChainsInv
<1>3. (Is("trees") => TreeInv)'
  BY <1>1, StepsAsItself, TreeInvStep DEF ChainsInv
<1>4. QED
  BY <1>2, <1>3 DEF ChainsInv

LEMMA ChainsInvIsEnough == ChainsInv => ChainsExpandWhole
<1> SUFFICES ASSUME ChainsInv PROVE ChainsExpandWhole
  OBVIOUS
<1>1. CASE Is("chains")
  BY <1>1, OnlyTheSubject, ChainInvIsEnough DEF ChainsExpandWhole, ChainsInv
<1>2. CASE Is("trees")
  BY <1>2, OnlyTheSubject, TreeInvIsEnough DEF ChainsExpandWhole, ChainsInv
<1>3. CASE ~Is("chains") /\ ~Is("trees")
  BY <1>3 DEF ChainsExpandWhole
<1>4. QED
  BY <1>1, <1>2, <1>3

(* MCHarness: whatever fields a chain has and whatever chains name each    *)
(* other, an expansion is sound and whole, and a refusal has its cause.    *)
THEOREM ChainsAreExpandedWhole == Spec => []ChainsExpandWhole
  BY ChainsInvInit, ChainsInvStep, ChainsInvIsEnough, PTL DEF Spec

(* A machine that is the subject stays it, and behaves as it does alone.   *)
LEMMA SubjectStays ==
  ASSUME NEW machine, [Next]_harnessVars
  PROVE  Is(machine)' <=> Is(machine)
BY StepsAsItself DEF Is

LEMMA RetirementOfTheHarness == Spec => [](Is("retirement") => RemovalsAreLicensed)
<1>1. Init /\ Is("retirement") => RetirementInit
  BY StartsAsItself
<1>2. [Next]_harnessVars => (Is("retirement") => [RetirementNext]_retirementVars)
  BY StepsAsItself
<1>3. [Next]_harnessVars => (Is("retirement")' <=> Is("retirement"))
  BY SubjectStays
<1> QED  BY <1>1, <1>2, <1>3, RemovalsStayLicensed, PTL DEF Spec, RetirementSpec

LEMMA ClockOfTheHarness == Spec => [](Is("clock") => ClockIsSound)
<1>1. Init /\ Is("clock") => ClockInit
  BY StartsAsItself
<1>2. [Next]_harnessVars => (Is("clock") => [ClockNext]_clockVars)
  BY StepsAsItself
<1>3. [Next]_harnessVars => (Is("clock")' <=> Is("clock"))
  BY SubjectStays
<1> QED  BY <1>1, <1>2, <1>3, ClockNeedsNoHand, PTL DEF Spec, ClockSpec

LEMMA CutOfTheHarness == Spec => [](Is("cut") => CutIsEarned)
<1>1. Init /\ Is("cut") => CutInit
  BY StartsAsItself
<1>2. [Next]_harnessVars => (Is("cut") => [CutNext]_cutVars)
  BY StepsAsItself
<1>3. [Next]_harnessVars => (Is("cut")' <=> Is("cut"))
  BY SubjectStays
<1> QED  BY <1>1, <1>2, <1>3, CutsAreEarned, PTL DEF Spec, CutSpec

LEMMA CoverageOfTheHarness == Spec => [](Is("coverage") => CoverageIsTrue)
<1>1. Init /\ Is("coverage") => CoverageInit
  BY StartsAsItself
<1>2. [Next]_harnessVars => (Is("coverage") => [CoverageNext]_coverageVars)
  BY StepsAsItself
<1>3. [Next]_harnessVars => (Is("coverage")' <=> Is("coverage"))
  BY SubjectStays
<1> QED  BY <1>1, <1>2, <1>3, CoverageStaysTrue, PTL DEF Spec, CoverageSpec

LEMMA ReleaseOfTheHarness == Spec => [](Is("release") => ReleaseIsTrue)
<1>1. Init /\ Is("release") => ReleaseInit
  BY StartsAsItself
<1>2. [Next]_harnessVars => (Is("release") => [ReleaseNext]_releaseVars)
  BY StepsAsItself
<1>3. [Next]_harnessVars => (Is("release")' <=> Is("release"))
  BY SubjectStays
<1> QED  BY <1>1, <1>2, <1>3, ReleasesAreTrue, PTL DEF Spec, ReleaseSpec

LEMMA ProjectionOfTheHarness == Spec => [](Is("projection") => ProjectionsAreFaithful)
<1>1. Init /\ Is("projection") => ProjectionInit
  BY StartsAsItself
<1>2. [Next]_harnessVars => (Is("projection") => [ProjectionNext]_projectionVars)
  BY StepsAsItself
<1>3. [Next]_harnessVars => (Is("projection")' <=> Is("projection"))
  BY SubjectStays
<1> QED  BY <1>1, <1>2, <1>3, ProjectionsStayFaithful, PTL DEF Spec, ProjectionSpec

LEMMA DeclarationOfTheHarness == Spec => [](Is("declaration") => AcceptedTreesAreSound)
<1>1. Init /\ Is("declaration") => DeclarationInit
  BY StartsAsItself
<1>2. [Next]_harnessVars => (Is("declaration") => [DeclarationNext]_declarationVars)
  BY StepsAsItself
<1>3. [Next]_harnessVars => (Is("declaration")' <=> Is("declaration"))
  BY SubjectStays
<1> QED  BY <1>1, <1>2, <1>3, AcceptedTreesStaySound, PTL DEF Spec, DeclarationSpec

LEMMA CopiesOfTheHarness == Spec => [](Is("copies") => CopiesAreKept)
<1>1. Init /\ Is("copies") => CopiesInit
  BY StartsAsItself
<1>2. [Next]_harnessVars => (Is("copies") => [CopiesNext]_copiesVars)
  BY StepsAsItself
<1>3. [Next]_harnessVars => (Is("copies")' <=> Is("copies"))
  BY SubjectStays
<1> QED  BY <1>1, <1>2, <1>3, CopiesStayKept, PTL DEF Spec, CopiesSpec

LEMMA PromisesOfTheSubject ==
  (/\ Is("retirement") => RemovalsAreLicensed
   /\ Is("clock") => ClockIsSound
   /\ Is("cut") => CutIsEarned
   /\ Is("coverage") => CoverageIsTrue
   /\ Is("release") => ReleaseIsTrue
   /\ Is("projection") => ProjectionsAreFaithful
   /\ Is("declaration") => AcceptedTreesAreSound
   /\ Is("copies") => CopiesAreKept)
  => ReleasesKeepTheirPromises
BY OnlyTheSubject, Zenon DEF ReleasesKeepTheirPromises

(* MCHarness: for any constants that keep the assumptions, what is removed *)
(* is licensed, the end of support is computed from history, a cut is      *)
(* earned, the report is true, what npm serves is a tree of main, and the  *)
(* declaration, its projections and the copies are sound.                  *)
THEOREM ReleasesStayTrue == Spec => []ReleasesKeepTheirPromises
BY RetirementOfTheHarness, ClockOfTheHarness, CutOfTheHarness, CoverageOfTheHarness,
   ReleaseOfTheHarness, ProjectionOfTheHarness, DeclarationOfTheHarness, CopiesOfTheHarness,
   PromisesOfTheSubject, PTL
=============================================================================
