------------------------- MODULE Issuers --------------------------
(***************************************************************************)
(* The suite's OAuth authorization server and protected resource           *)
(* (oauth-as-double.ts). The host under test, external, is the client: it  *)
(* is sent to the authorization page, which the suite consents at, and it  *)
(* exchanges codes and refresh tokens at the token endpoint in any order   *)
(* and number. Every token request is counted by the double, not the host. *)
(***************************************************************************)
EXTENDS Naturals, Sequences, FiniteSets

CONSTANTS
  Redirects,       \* redirect URIs
  Verifiers,       \* PKCE verifiers; the challenge of one is the verifier itself
  MaxCodes,        \* bound on the codes issued
  MaxTokenRequests \* bound on the token requests counted

VARIABLES
  gate,            \* what the gate of the leg said
  metadata,        \* the switches of the served documents
  codes,           \* by number: [redirectUri, challenge, used]
  refreshTokens,   \* how many refresh tokens were granted
  refreshRevoked,
  tokenRequests,   \* the counter: a sequence of [grant, code, status]
  resourceHits

authVars == <<gate, metadata, codes, refreshTokens, refreshRevoked, tokenRequests, resourceHits>>

NoChallenge == "no challenge"
Unknown == 0

-----------------------------------------------------------------------------
(* The leg runs only where the host is an OAuth client the suite can drive.*)
oauthGate(discovery, oauth, codeGrant, seams) ==
  IF ~discovery THEN "blocked"
  ELSE IF oauth /\ codeGrant /\ seams THEN "ok" ELSE "inapplicable"

(* The scenario rewrites what the doubles serve: the issuer parameter, the *)
(* challenge methods, a mismatch in the metadata or the resource document. *)
Rewrite(document) ==
  /\ gate = "ok" /\ document \notin metadata
  /\ metadata' = metadata \cup {document}
  /\ UNCHANGED <<gate, codes, refreshTokens, refreshRevoked, tokenRequests, resourceHits>>

RevokeRefresh ==
  /\ gate = "ok" /\ ~refreshRevoked
  /\ refreshRevoked' = TRUE
  /\ UNCHANGED <<gate, metadata, codes, refreshTokens, tokenRequests, resourceHits>>

(* Any request to the protected resource is a hit and a challenge.         *)
HitResource ==
  /\ gate = "ok" /\ ~resourceHits
  /\ resourceHits' = TRUE
  /\ UNCHANGED <<gate, metadata, codes, refreshTokens, refreshRevoked, tokenRequests>>

(* consent: the page redirects with a fresh code.                          *)
Authorize(redirect, challenge) ==
  /\ gate = "ok" /\ Len(codes) < MaxCodes
  /\ codes' = Append(codes, [redirectUri |-> redirect, challenge |-> challenge, used |-> FALSE])
  /\ UNCHANGED <<gate, metadata, refreshTokens, refreshRevoked, tokenRequests, resourceHits>>

-----------------------------------------------------------------------------
Count(grant, code, status) ==
  /\ Len(tokenRequests) < MaxTokenRequests
  /\ tokenRequests' = Append(tokenRequests, [grant |-> grant, code |-> code, status |-> status])

Matches(code, redirect, verifier) ==
  /\ redirect = codes[code].redirectUri
  /\ codes[code].challenge \in {NoChallenge, verifier}

(* Variant: only a granted code is used up. *)
UsedIfGranted(code, redirect, verifier) == Matches(code, redirect, verifier)
(* A known code is used up by its first exchange, whatever comes of it.    *)
UsedUp(code, redirect, verifier) == TRUE

ExchangeCode(code, redirect, verifier) ==
  /\ gate = "ok"
  /\ IF code = Unknown \/ (code # Unknown /\ codes[code].used)
     THEN Count("authorization_code", code, 400) /\ UNCHANGED <<codes, refreshTokens>>
     ELSE LET granted == Matches(code, redirect, verifier) IN
          /\ codes' = [codes EXCEPT ![code].used = UsedUp(code, redirect, verifier)]
          /\ Count("authorization_code", code, IF granted THEN 200 ELSE 400)
          /\ refreshTokens' = IF granted THEN refreshTokens + 1 ELSE refreshTokens
  /\ UNCHANGED <<gate, metadata, refreshRevoked, resourceHits>>

(* A refresh token stays good until all are revoked.                       *)
Refresh(token) ==
  /\ gate = "ok"
  /\ Count("refresh_token", token,
           IF refreshRevoked \/ token > refreshTokens THEN 400 ELSE 200)
  /\ UNCHANGED <<gate, metadata, codes, refreshTokens, refreshRevoked, resourceHits>>

OtherGrant ==
  /\ gate = "ok" /\ Count("other", 0, 400)
  /\ UNCHANGED <<gate, metadata, codes, refreshTokens, refreshRevoked, resourceHits>>

-----------------------------------------------------------------------------
AuthInit ==
  /\ \E discovery, oauth, codeGrant, seams \in BOOLEAN :
       gate = oauthGate(discovery, oauth, codeGrant, seams)
  /\ metadata = {} /\ codes = <<>> /\ refreshTokens = 0 /\ refreshRevoked = FALSE
  /\ tokenRequests = <<>> /\ resourceHits = FALSE

AuthNext ==
  \/ \E document \in {"metadata", "resource"} : Rewrite(document)
  \/ RevokeRefresh \/ HitResource \/ OtherGrant
  \/ \E redirect \in Redirects, challenge \in Verifiers \cup {NoChallenge} :
       Authorize(redirect, challenge)
  \/ \E code \in {Unknown} \cup DOMAIN codes, redirect \in Redirects, verifier \in Verifiers :
       ExchangeCode(code, redirect, verifier)
  \/ \E token \in 1..MaxCodes : Refresh(token)

AuthSpec == AuthInit /\ [][AuthNext]_authVars

-----------------------------------------------------------------------------
(* RFC 6749 as the double plays it: of all exchanges of one issued code at *)
(* most the first is granted, and the counter shows every grant there was. *)
Exchanges == {i \in DOMAIN tokenRequests : tokenRequests[i].grant = "authorization_code"}
Granted == {i \in Exchanges : tokenRequests[i].status = 200}

CodesGrantOnce ==
  /\ \A i \in Exchanges, j \in Granted :
       tokenRequests[i].code = tokenRequests[j].code => j <= i
  /\ Cardinality(Granted) = refreshTokens

-----------------------------------------------------------------------------
(***************************************************************************)
(* The suite's OIDC issuer (oidc-issuer.ts), the gate on the host's claim  *)
(* to trust it and the listener every scenario file serves at the one      *)
(* configured URL (harness-issuer.ts). Files run side by side: each makes  *)
(* an instance with a key of its own, waits for the pinned port, and has   *)
(* the host judge tokens. The host, external, caches keys by kid and       *)
(* fetches the published set when a token names a kid it does not know.    *)
(***************************************************************************)
CONSTANTS
  Servers,      \* the scenario files that serve the issuer
  Patience,     \* how often a file tries the port before its 25 s are up
  MaxRotations  \* bound on rotateKey

VARIABLES
  claimed,      \* the lane's issuers[] name the harness URL
  serving,      \* file -> where it is
  tries,        \* file -> attempts at the port
  rotationCounter,
  keyCache,     \* the host's keys: a set of [kid, key]
  presented     \* the last token the host judged, and how

issuerVars == <<claimed, serving, tries, rotationCounter, keyCache, presented>>

NoToken == [control |-> FALSE, accepted |-> FALSE]

(* The kid is unique per instance, not just per rotation.                  *)
kidFor(f, n) == <<f, n>>

material(f) == [kid |-> kidFor(f, rotationCounter[f]), key |-> <<f, rotationCounter[f]>>]

(* What the listener publishes: the current key of whoever holds the port. *)
jwks == {material(f) : f \in {g \in Servers : serving[g] = "serving"}}

-----------------------------------------------------------------------------
(* A lane that does not list the harness leaves the file inapplicable.     *)
harnessClaimed(f) ==
  /\ serving[f] = "idle"
  /\ serving' = [serving EXCEPT ![f] = IF claimed THEN "waiting" ELSE "inapplicable"]
  /\ UNCHANGED <<claimed, tries, rotationCounter, keyCache, presented>>

(* The port is taken by one file at a time; another tries again until its  *)
(* time is up.                                                             *)
serveHarnessIssuer(f) ==
  /\ serving[f] = "waiting"
  /\ IF \A g \in Servers : serving[g] # "serving"
     THEN serving' = [serving EXCEPT ![f] = "serving"] /\ UNCHANGED tries
     ELSE IF tries[f] >= Patience
     THEN serving' = [serving EXCEPT ![f] = "failed"] /\ UNCHANGED tries
     ELSE tries' = [tries EXCEPT ![f] = @ + 1] /\ UNCHANGED serving
  /\ UNCHANGED <<claimed, rotationCounter, keyCache, presented>>

CloseIssuer(f) ==
  /\ serving[f] = "serving"
  /\ serving' = [serving EXCEPT ![f] = "closed"]
  /\ UNCHANGED <<claimed, tries, rotationCounter, keyCache, presented>>

(* A fresh key pair and the next kid; the old key is discarded.            *)
rotateKey(f) ==
  /\ serving[f] = "serving" /\ rotationCounter[f] <= MaxRotations
  /\ rotationCounter' = [rotationCounter EXCEPT ![f] = @ + 1]
  /\ UNCHANGED <<claimed, serving, tries, keyCache, presented>>

-----------------------------------------------------------------------------
unpublished(f) == kidFor(f, 0)

(* mint, at the host: signed with the current key, under its kid or, for a *)
(* control of the other kind, one the set does not hold, or past its exp.  *)
Mint(f) ==
  {[kid |-> k, key |-> material(f).key, expired |-> e] :
     k \in {material(f).kid, unpublished(f)}, e \in BOOLEAN}

(* The host: a kid it does not know makes it fetch the published set.      *)
KeysFor(kid) ==
  IF \E k \in keyCache : k.kid = kid THEN keyCache ELSE keyCache \cup jwks

Present(f) ==
  /\ serving[f] = "serving"
  /\ \E token \in Mint(f) :
       LET keys == KeysFor(token.kid) IN
       /\ keyCache' = keys
       /\ presented' = [control |-> token.kid # unpublished(f) /\ ~token.expired,
                        accepted |-> /\ ~token.expired
                                     /\ \E k \in keys : k.kid = token.kid /\ k.key = token.key]
  /\ UNCHANGED <<claimed, serving, tries, rotationCounter>>

(* The host's cache runs out.                                              *)
ForgetKeys ==
  /\ keyCache # {}
  /\ keyCache' = {}
  /\ UNCHANGED <<claimed, serving, tries, rotationCounter, presented>>

-----------------------------------------------------------------------------
IssuerInit ==
  /\ claimed \in BOOLEAN
  /\ serving = [f \in Servers |-> "idle"] /\ tries = [f \in Servers |-> 0]
  /\ rotationCounter = [f \in Servers |-> 1]
  /\ keyCache = {} /\ presented = NoToken

IssuerNext ==
  \/ \E f \in Servers :
       \/ harnessClaimed(f) \/ serveHarnessIssuer(f) \/ CloseIssuer(f)
       \/ rotateKey(f) \/ Present(f)
  \/ ForgetKeys

IssuerSpec == IssuerInit /\ [][IssuerNext]_issuerVars

-----------------------------------------------------------------------------
(* oidc-issuer.ts: one kid identifies one key, so a host that caches by    *)
(* kid does not judge a file's valid control against another file's key.   *)
ControlTokenVerifies == presented.control <=> presented.accepted

-----------------------------------------------------------------------------
(***************************************************************************)
(* The synthetic SAML IdP (saml-idp.ts): what it mints, what it makes of   *)
(* an assertion somebody presents, whenever that is, and the leg that      *)
(* joins two of them with the host's SCIM lane. Time counts in hours, the  *)
(* unit of every window minted. A signature is who signed and what.        *)
(***************************************************************************)
CONSTANTS
  RootA, RootB, \* the entityIDs of two IdPs, each with a key of its own
  NameIds,      \* opaque subjects
  FirstSamlHour,    \* the clock starts late enough for windows that lie before it
  LastSamlHour      \* bound on the clock

VARIABLES
  samlHour,
  assertion,    \* the assertion under way: [xml, by, variant, at]
  samlHost,     \* external: [joins, scimSeam, samlSeam]
  provisioned,  \* its SCIM users: [root, externalId]
  linkLeg       \* where the leg over both lanes is, or its outcome

Roots == {RootA, RootB}

ASSUME SamlAssumption ==
  RootA # RootB /\ "nobody" \notin Roots /\ FirstSamlHour \in Nat \ {0, 1}

samlVars == <<samlHour, assertion, samlHost, provisioned, linkLeg>>

SamlVariants == {"valid", "alg-none", "bad-signature", "unsigned", "expired",
                 "not-yet-valid", "signature-wrapping"}

canonicalAssertion(id, issuer, subject, from, until) ==
  [id |-> id, issuer |-> issuer, subject |-> subject, from |-> from, until |-> until]

sign(root, content) == [key |-> root, over |-> content]
NotGiven == "absent"

(* The signature refers to the assertion it is put in.                     *)
samlEnvelope(content, sigAlg, signature) ==
  [consumed |-> content, sigAlg |-> sigAlg, signature |-> signature, refId |-> content.id]

mintAssertion(root, variant, subject, now) ==
  LET lasting(from, until) == canonicalAssertion(variant, root, subject, from, until)
      plain == lasting(now - 1, now + 1)
      early == lasting(now + 1, now + 2)
      late == lasting(now - 2, now - 1)
      benign == [plain EXCEPT !.id = "benign"]
  IN CASE variant = "valid" -> samlEnvelope(plain, "rsa", sign(root, plain))
       [] variant = "expired" -> samlEnvelope(late, "rsa", sign(root, late))
       [] variant = "not-yet-valid" -> samlEnvelope(early, "rsa", sign(root, early))
       [] variant = "bad-signature" -> samlEnvelope(plain, "rsa", sign("nobody", plain))
       [] variant = "alg-none" -> samlEnvelope(plain, "none", NotGiven)
       [] variant = "unsigned" ->
            [samlEnvelope(plain, NotGiven, NotGiven) EXCEPT !.refId = NotGiven]
       [] variant = "signature-wrapping" ->
            [samlEnvelope([plain EXCEPT !.subject = "somebody-else"], "rsa", sign(root, benign))
               EXCEPT !.refId = "benign"]

issuerOf(xml) == xml.consumed.issuer

(* What is read is what must be signed: the first assertion, as it stands. *)
Covers(root, xml) == xml.signature = sign(root, xml.consumed)

verifyAssertion(root, xml, now) ==
  CASE xml.sigAlg = NotGiven -> "unsigned"
    [] xml.sigAlg = "none" -> "alg-none"
    [] xml.sigAlg = "rsa" /\ xml.refId # xml.consumed.id -> "signature-wrapping"
    [] xml.sigAlg = "rsa" /\ xml.refId = xml.consumed.id ->
         IF ~Covers(root, xml) THEN "bad-signature"
         ELSE IF now < xml.consumed.from THEN "not-yet-valid"
         ELSE IF now >= xml.consumed.until THEN "expired" ELSE "valid"

-----------------------------------------------------------------------------
NoAssertion == [variant |-> "nothing"]

MintAssertion(root, variant, subject) ==
  /\ assertion' = [xml |-> mintAssertion(root, variant, subject, samlHour), by |-> root,
              variant |-> variant, at |-> samlHour]
  /\ UNCHANGED <<samlHour, samlHost, provisioned, linkLeg>>

(* On its way an assertion may be given the issuer of another root.        *)
Restamp(root) ==
  /\ assertion # NoAssertion /\ root # issuerOf(assertion.xml)
  /\ assertion' = [assertion EXCEPT !.xml.consumed.issuer = root]
  /\ UNCHANGED <<samlHour, samlHost, provisioned, linkLeg>>

SamlHourPasses ==
  /\ samlHour < LastSamlHour
  /\ samlHour' = samlHour + 1
  /\ UNCHANGED <<assertion, samlHost, provisioned, linkLeg>>

-----------------------------------------------------------------------------
(* The leg: a user of one root, seen to be linked, and one whose id the    *)
(* other root uses too. The host joins lanes as samlHost.joins says.       *)
Provision(externalId, next) ==
  /\ \E created \in BOOLEAN :
       /\ provisioned' = IF created /\ samlHost.scimSeam
                         THEN provisioned \cup {[root |-> RootA, externalId |-> externalId]}
                         ELSE provisioned
       /\ linkLeg' = IF samlHost.scimSeam THEN (IF created THEN next ELSE "refused") ELSE "blocked"
  /\ UNCHANGED <<samlHour, assertion, samlHost>>

authenticated(root, nameId) ==
  /\ verifyAssertion(root, mintAssertion(root, "valid", nameId, samlHour), samlHour) = "valid"
  /\ \E user \in provisioned :
       /\ user.externalId = nameId
       /\ \/ samlHost.joins = "subjects"
          \/ samlHost.joins = "subjects-of-one-root" /\ user.root = root

Validate(root, nameId, told(_)) ==
  /\ linkLeg' = IF samlHost.samlSeam THEN told(authenticated(root, nameId)) ELSE "blocked"
  /\ UNCHANGED <<samlHour, assertion, samlHost, provisioned>>

Linked ==
  /\ linkLeg = "provisioned"
  /\ Validate(RootA, "same", LAMBDA yes : IF yes THEN "linked" ELSE "never-links")

Collides ==
  /\ linkLeg = "both-provisioned"
  /\ Validate(RootB, "collide", LAMBDA yes : IF yes THEN "crosses-roots" ELSE "passed")

SubjectLinkLeg ==
  \/ linkLeg = "idle" /\ Provision("same", "provisioned")
  \/ Linked
  \/ linkLeg = "linked" /\ Provision("collide", "both-provisioned")
  \/ Collides

SamlInit ==
  /\ samlHour = FirstSamlHour /\ assertion = NoAssertion /\ provisioned = {} /\ linkLeg = "idle"
  /\ samlHost \in [joins : {"subjects", "subjects-of-one-root", "nothing"},
                   scimSeam : BOOLEAN, samlSeam : BOOLEAN]

SamlNext ==
  \/ \E root \in Roots, variant \in SamlVariants, subject \in NameIds :
       MintAssertion(root, variant, subject)
  \/ \E root \in Roots : Restamp(root)
  \/ SamlHourPasses
  \/ SubjectLinkLeg

SamlSpec == SamlInit /\ [][SamlNext]_samlVars

-----------------------------------------------------------------------------
(* saml-idp.ts: every negative variant is refused by its own IdP for its   *)
(* own reason while it is fresh; whenever an assertion is presented, only  *)
(* the root that signed what is read takes it, and only within its window; *)
(* one that is not valid yet becomes so an hour after it was minted.       *)
JudgedAsMinted ==
  assertion # NoAssertion =>
    \A root \in Roots :
      LET reason == verifyAssertion(root, assertion.xml, samlHour) IN
      /\ root = assertion.by /\ samlHour = assertion.at /\ issuerOf(assertion.xml) = root => reason = assertion.variant
      /\ (reason = "valid") <=>
           /\ root = assertion.by /\ issuerOf(assertion.xml) = root
           /\ \/ assertion.variant = "valid" /\ samlHour = assertion.at
              \/ assertion.variant = "not-yet-valid" /\ samlHour = assertion.at + 1

(* auth-subject-link-key-class.test.ts: the leg is passed by hosts that    *)
(* link within one trust root and not across, and tells the two ways of    *)
(* getting it wrong apart.                                                 *)
LinkLegIsTrue ==
  /\ linkLeg = "passed" => samlHost.joins = "subjects-of-one-root"
  /\ linkLeg = "crosses-roots" => samlHost.joins = "subjects"
  /\ linkLeg = "never-links" => samlHost.joins = "nothing"

SamlIsTrue == JudgedAsMinted /\ LinkLegIsTrue
==============================================================================
