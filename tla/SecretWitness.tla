----------------------------- MODULE SecretWitness -----------------------------
(***************************************************************************)
(* How the suite sees that a host keeps a secret to itself. The detectors: *)
(* canaries and their marker in a captured text (canaries.ts), a secret    *)
(* known only by its digest (secret-scan.ts). And the rows that use them:  *)
(* a secret supplied with a run (run-secrets-witness.ts), and one that the *)
(* host resolves from its own store (v2-secret-canary-absent.test.ts). A   *)
(* value is one the suite drew or the store holds; a text is the set of    *)
(* values it shows, each in some form.                                     *)
(***************************************************************************)
EXTENDS Naturals, Sequences, SequencesExt, FiniteSets, FiniteSetsExt

CONSTANTS
  SecretHosts,     \* hosts: their fault, where they show a value, what they serve
  CanaryTextMax,   \* bound on the length of a text that is searched for canaries
  DigestTextMax,   \* and of one that is searched by digest
  MAX_WINDOWS      \* how many windows one search hashes

VARIABLES
  capturedText,    \* a text under search: for what, and its strings
  secretHost,  \* the host, one of SecretHosts, or none
  secretRuns,  \* the runs it was asked for
  secretLeg,   \* the leg that runs, and what it has read
  secretRows   \* the rows recorded

secretVars == <<capturedText, secretHost, secretRuns, secretLeg, secretRows>>

-----------------------------------------------------------------------------
(* Canaries: a marker between what a key of that kind begins and ends with. *)
CANARY_MARKER == "M"
CANARIES == {[label |-> "openai", value |-> <<"sk-", CANARY_MARKER, "oai9">>],
             [label |-> "anthropic", value |-> <<"sk-", "ant-", CANARY_MARKER, "ant3">>]}
CanaryChars == {"sk-", "ant-", CANARY_MARKER, "oai9", "ant3"}

OccursAt(text, value) ==
  {i \in 1..Len(text) : i + Len(value) - 1 <= Len(text)
                        /\ SubSeq(text, i, i + Len(value) - 1) = value}
Spans(leak, i) == leak.from <= i /\ i <= leak.to
ExactLeaks(text) ==
  {[label |-> c.label, from |-> Min(OccursAt(text, c.value)),
    to |-> Min(OccursAt(text, c.value)) + Len(c.value) - 1] :
     c \in {c \in CANARIES : OccursAt(text, c.value) # {}}}
findCanaryLeaks(text) ==
  LET exact == ExactLeaks(text)
  IN exact \cup {[label |-> "marker-only", from |-> i, to |-> i] :
                   i \in {i \in OccursAt(text, <<CANARY_MARKER>>) : ~\E l \in exact : Spans(l, i)}}

(* By digest: windows over every string, and over what its tokens decode   *)
(* to, two characters to the byte from where the token starts.             *)
StoreSecret == <<"s", "t">>
Digits == {"0", "1"}
DigestChars == {"s", "t"} \cup Digits
Decoded(high, low) == CASE high = "0" /\ low = "1" -> "s" [] high = "1" /\ low = "0" -> "t" [] OTHER -> "x"
Tokens(s) ==
  {span \in (1..Len(s)) \X (1..Len(s)) :
     /\ span[1] <= span[2] /\ \A i \in span[1]..span[2] : s[i] \in Digits
     /\ span[1] > 1 => s[span[1] - 1] \notin Digits
     /\ span[2] < Len(s) => s[span[2] + 1] \notin Digits}
DecodedToken(s, span) ==
  [k \in 1..((span[2] - span[1] + 1) \div 2) |-> Decoded(s[span[1] + 2 * k - 2], s[span[1] + 2 * k - 1])]
candidatesOf(s) ==
  LET tokens == SetToSortSeq(Tokens(s), LAMBDA a, b : a[1] < b[1])
  IN <<s>> \o [i \in DOMAIN tokens |-> DecodedToken(s, tokens[i])]
WindowsOf(buf) ==
  [i \in 1..(Len(buf) + 1 - Len(StoreSecret)) |-> SubSeq(buf, i, i + Len(StoreSecret) - 1)]
HashedWindows(strings) ==
  FlattenSeq([i \in DOMAIN strings |->
    LET bufs == SelectSeq(candidatesOf(strings[i]), LAMBDA b : Len(b) >= Len(StoreSecret))
    IN FlattenSeq([j \in DOMAIN bufs |-> WindowsOf(bufs[j])])])
FoundByDigest(strings) ==
  LET windows == HashedWindows(strings)
  IN \E k \in DOMAIN windows : k <= MAX_WINDOWS /\ windows[k] = StoreSecret

Appended(c) == [capturedText EXCEPT !.strings[Len(capturedText.strings)] = Append(@, c)]
TextLen == FoldSeq(LAMBDA s, n : Len(s) + n, Len(capturedText.strings), capturedText.strings)
CaptureMore ==
  /\ \/ /\ capturedText.of = "canaries" /\ TextLen <= CanaryTextMax
        /\ \E c \in CanaryChars : capturedText' = Appended(c)
     \/ /\ capturedText.of = "digest" /\ TextLen <= DigestTextMax
        /\ \/ \E c \in DigestChars : capturedText' = Appended(c)
           \/ capturedText' = [capturedText EXCEPT !.strings = Append(@, << >>)]
  /\ UNCHANGED <<secretHost, secretRuns, secretLeg, secretRows>>

-----------------------------------------------------------------------------
(* What a host shows. It may echo the input of a run, the digest of a      *)
(* value; a faulty one shows a value in some form on some surface.         *)
WITNESS_REF == "run:openwop-witness"
CANARY_NAME == "openwop-conformance-canary-secret"
HostBreaks(rule) == secretHost.fault = rule
Piece(value, form) == [of |-> value, as |-> form]
KnownTo(job) == {given[2] : given \in job.given} \cup job.stored
Shown(job, surface) ==
  (IF surface = "snapshot" /\ job.kind = "witness" THEN {Piece(job.expects, "sha256 hex")} ELSE {})
  \cup (IF secretHost.shows = surface THEN {Piece(v, secretHost.form) : v \in KnownTo(job)} ELSE {})
  \cup (IF surface = "poll" THEN {Piece(v, "raw") : v \in job.kept} ELSE {})

(* forms, hits: a digest the suite sent itself is not scanned for.         *)
DigestForms == {"sha256 hex", "sha256 base64"}
ValueForms == {"raw", "base64", "base64url", "hex", "percent-encoded", "JSON-escaped"}
forms == ValueForms \cup DigestForms
hits(text, value, digestSupplied) ==
  {form \in IF digestSupplied THEN ValueForms ELSE forms : Piece(value, form) \in text}

(* How a run of the witness node ends: ... *)
Job(sort, ref, given, expects) ==
  [kind |-> sort, ref |-> ref, given |-> given, expects |-> expects, kept |-> {},
   stored |-> IF sort = "witness" THEN {} ELSE {"S"},
   status |-> "running", matched |-> "unseen", code |-> "none"]
EarlierGiven(ref) ==
  {given[2] : given \in {g \in UNION {secretRuns[i].given : i \in DOMAIN secretRuns} : g[1] = ref}}
ResolvedBy(job) ==
  LET own == {given[2] : given \in {g \in job.given : g[1] = job.ref}}
  IN IF own = {} /\ HostBreaks("keeps what was given") THEN EarlierGiven(job.ref) ELSE own
WitnessEnds(job) ==
  LET resolved == ResolvedBy(job)
      same == CASE HostBreaks("always matches") -> TRUE [] HostBreaks("never matches") -> FALSE
                [] OTHER -> job.expects \in resolved
  IN CASE job.ref \notin {WITNESS_REF} /\ ~HostBreaks("answers for any name") ->
            [job EXCEPT !.status = "failed", !.code = "credential_forbidden"]
       [] job.ref = WITNESS_REF /\ resolved = {} ->
            [job EXCEPT !.status = "failed", !.code = "credential_not_found"]
       [] HostBreaks("fails on a mismatch") /\ ~same ->
            [job EXCEPT !.status = "failed", !.code = "mismatch"]
       [] OTHER -> [job EXCEPT !.status = "completed", !.matched = IF same THEN "true" ELSE "false"]

(* ... and of one that resolves the host's own canary.                     *)
StoreEnds(job) ==
  [job EXCEPT !.status = IF HostBreaks("ends it otherwise") # (job.kind = "resolve-then-fail")
                         THEN "failed" ELSE "completed"]
RunEnds ==
  /\ \E i \in DOMAIN secretRuns :
       /\ secretRuns[i].status = "running"
       /\ secretRuns' = [secretRuns EXCEPT ![i] = IF @.kind = "witness" THEN WitnessEnds(@) ELSE StoreEnds(@)]
  /\ UNCHANGED <<capturedText, secretHost, secretLeg, secretRows>>

-----------------------------------------------------------------------------
(* The legs, as what they ask in order. *)
AskRun(ref, given, expects) == [do |-> "create", ref |-> ref, given |-> given, expects |-> expects]
Own(value) == {<<WITNESS_REF, value>>}
Do(what) == [do |-> what]
Expect(code) == [do |-> "code", code |-> code]
ScopeCase(ref, given, expects, code) == <<AskRun(ref, given, expects), Do("wait"), Expect(code)>>
WITNESS_LEGS == {"resolves", "redacted", "scope", "digest"}
STORE_LEGS == {"store", "store failing", "store fork"}
StepsOf(aLeg) ==
  CASE aLeg = "resolves" ->
         <<AskRun(WITNESS_REF, Own("C"), "C"), Do("wait"), Do("matched"),
           AskRun(WITNESS_REF, Own("D"), "E"), Do("wait"), Do("matched"), Do("judge pair")>>
    [] aLeg = "redacted" -> <<Do("scan pair")>>
    [] aLeg = "scope" ->
         <<AskRun(WITNESS_REF, Own("C"), "C"), Do("wait")>>
         \o ScopeCase(CANARY_NAME, Own("V"), "V", "credential_forbidden")
         \o ScopeCase("a fresh name", Own("V"), "V", "credential_forbidden")
         \o ScopeCase(WITNESS_REF, {}, "V", "credential_not_found")
         \o ScopeCase(WITNESS_REF, {<<"run:openwop-other", "W">>}, "C", "credential_not_found")
         \o (IF secretHost.branches = "no" THEN << >>
             ELSE <<Do("fork"), Do("wait"), Expect("credential_not_found")>>)
         \o <<Do("pass")>>
    [] aLeg = "digest" -> <<AskRun(WITNESS_REF, Own("C"), "C"), Do("retry"), Do("wait"), Do("scan retried")>>
    [] aLeg = "store" -> <<Do("byok"), Do("settle"), Do("judge store")>>
    [] aLeg = "store failing" -> <<Do("resolve-then-fail"), Do("settle"), Do("judge store")>>
    [] aLeg = "store fork" -> <<Do("fork store"), Do("settle"), Do("judge store")>>

NoLeg == [leg |-> "none", steps |-> << >>, snap |-> << >>, matched |-> << >>, read |-> {}]
NoPair == [is |-> "none", snap |-> << >>, matched |-> << >>]
Step == Head(secretLeg.steps)
Doing(what) == secretHost # [fault |-> "absent"] /\ secretLeg.steps # << >> /\ Step.do = what
AfterStep == [secretLeg EXCEPT !.steps = Tail(@)]
SourceSettled == \E i \in DOMAIN secretRows : secretRows[i].leg = "store" /\ secretRows[i].read # {}
(* detectorsFor: the digest, surfaced by a byok run or a fork of it; the   *)
(* operator's value, unless it is not what has that digest.                *)
DigestSurfaced == secretHost.digest /\ (secretLeg.leg = "store" \/ SourceSettled)
detectorsFor ==
  (IF DigestSurfaced THEN {"digest"} ELSE {})
  \cup (IF secretHost.operator # "none" /\ (~DigestSurfaced \/ secretHost.operator = "S")
        THEN {"value"} ELSE {})

RecordRow(result) ==
  /\ secretRows' = Append(secretRows, [leg |-> secretLeg.leg, result |-> result, read |-> secretLeg.read,
                                       by |-> detectorsFor])
  /\ secretLeg' = NoLeg

BeginLeg ==
  /\ secretHost # [fault |-> "absent"] /\ secretLeg = NoLeg /\ Len(secretRows) < Len(secretHost.legs)
  /\ LET aLeg == secretHost.legs[Len(secretRows) + 1]
         begun == [NoLeg EXCEPT !.leg = aLeg, !.steps = StepsOf(aLeg)]
         refused == [NoLeg EXCEPT !.leg = aLeg]
     IN IF secretHost.offers = "all" THEN secretLeg' = begun /\ UNCHANGED secretRows
        ELSE /\ secretRows' = Append(secretRows,
                  [leg |-> aLeg, read |-> {}, by |-> {},
                   result |-> IF secretHost.offers = "no fixture" /\ aLeg \in WITNESS_LEGS
                              THEN "blocked" ELSE "inapplicable"])
             /\ UNCHANGED secretLeg
  /\ UNCHANGED <<capturedText, secretHost, secretRuns>>

(* createRun: lost, refused, or a run.                                     *)
CreateWitnessed ==
  /\ Doing("create")
  /\ \/ secretHost.lossy /\ RecordRow("blocked") /\ UNCHANGED secretRuns
     \/ /\ HostBreaks("refuses what is given") /\ Step.given # {} /\ UNCHANGED secretRuns
        /\ RecordRow(IF secretLeg.leg = "scope" THEN "blocked" ELSE "executed-fail")
     \/ /\ ~(HostBreaks("refuses what is given") /\ Step.given # {})
        /\ secretRuns' = Append(secretRuns, Job("witness", Step.ref, Step.given, Step.expects))
        /\ secretLeg' = AfterStep /\ UNCHANGED secretRows
  /\ UNCHANGED <<capturedText, secretHost>>

(* The same request and key with another value: replayed, or not.          *)
Retry ==
  /\ Doing("retry")
  /\ LET i == Len(secretRuns)
         replayed == [secretRuns EXCEPT ![i].kept = IF HostBreaks("keeps the retried value") THEN {"C2"} ELSE @]
     IN \/ secretHost.lossy /\ RecordRow("blocked") /\ UNCHANGED secretRuns
        \/ /\ secretHost.fault \in {"digests what is given", "runs it again", "tells no replay"}
           /\ RecordRow("executed-fail") /\ UNCHANGED secretRuns
        \/ /\ secretHost.fault \notin {"digests what is given", "runs it again", "tells no replay"}
           /\ secretRuns' = replayed /\ secretLeg' = AfterStep /\ UNCHANGED secretRows
  /\ UNCHANGED <<capturedText, secretHost>>

(* waitTerminal: to the end, or to the deadline with what was read last.   *)
LatestRun == secretRuns[Len(secretRuns)]
WaitTerminal ==
  /\ Doing("wait")
  /\ \E lastSeen \in {"null", "running", "completed", "failed"} :
       /\ lastSeen = "null" => secretHost.lossy
       /\ lastSeen = "running" => secretHost.slow
       /\ lastSeen \in {"completed", "failed"} => LatestRun.status = lastSeen
       /\ secretLeg' = [AfterStep EXCEPT !.snap = Append(@, lastSeen)]
  /\ UNCHANGED <<capturedText, secretHost, secretRuns, secretRows>>

(* matched, nodeFailedCode: from the log as it is now, else the snapshot.  *)
matched ==
  /\ Doing("matched")
  /\ \E logRead \in (IF secretHost.lossy THEN BOOLEAN ELSE {TRUE}) :
       LET inLog == logRead /\ secretHost.output = "log"
           inSnapshot == secretHost.output = "snapshot" /\ Last(secretLeg.snap) = "completed"
       IN secretLeg' = [AfterStep EXCEPT
            !.matched = Append(@, IF inLog \/ inSnapshot THEN LatestRun.matched ELSE "unseen")]
  /\ UNCHANGED <<capturedText, secretHost, secretRuns, secretRows>>
nodeFailedCode ==
  /\ Doing("code")
  /\ \E logRead \in (IF secretHost.lossy THEN BOOLEAN ELSE {TRUE}) :
       IF logRead /\ LatestRun.code = Step.code THEN secretLeg' = AfterStep /\ UNCHANGED secretRows
       ELSE RecordRow("executed-fail")
  /\ UNCHANGED <<capturedText, secretHost, secretRuns>>
PassLeg ==
  /\ Doing("pass") /\ RecordRow("executed-pass") /\ UNCHANGED <<capturedText, secretHost, secretRuns>>

(* A branch of the first run, where one is served.                         *)
ForkWitnessed ==
  /\ Doing("fork")
  /\ \/ /\ secretHost.branches = "served" /\ UNCHANGED secretRows
        /\ secretRuns' = Append(secretRuns,
             [Job("witness", WITNESS_REF, IF HostBreaks("inherits in a fork") THEN secretRuns[1].given ELSE {},
                  secretRuns[1].expects) EXCEPT !.code = "none"])
        /\ secretLeg' = AfterStep
     \/ (secretHost.branches = "refused" \/ secretHost.lossy) /\ RecordRow("inapplicable") /\ UNCHANGED secretRuns
  /\ UNCHANGED <<capturedText, secretHost>>

JudgePair ==
  /\ Doing("judge pair")
  /\ RecordRow(CASE secretLeg.snap # <<"completed", "completed">> -> "executed-fail"
                 [] "unseen" \in {secretLeg.matched[1], secretLeg.matched[2]} -> "blocked"
                 [] OTHER -> IF secretLeg.matched = <<"true", "false">> THEN "executed-pass" ELSE "executed-fail")
  /\ UNCHANGED <<capturedText, secretHost, secretRuns>>

(* surfaces: what is read of a run; each but the answer can be lost, and a *)
(* stream that is not closed gives nothing.                                *)
Readable ==
  {"answer", "snapshot", "poll"} \cup (IF secretHost.closes THEN {"debug"} ELSE {})
  \cup secretHost.serves
ReadSets == {{"answer"} \cup read : read \in IF secretHost.lossy THEN SUBSET Readable ELSE {Readable}}
TextOf(job, read) == UNION {Shown(job, surface) : surface \in read}

(* The pair is made once; refused, there is nothing to scan.               *)
ScanPair ==
  /\ Doing("scan pair")
  /\ IF Len(secretRuns) < 2 THEN RecordRow("blocked")
     ELSE \E read \in ReadSets :
       LET found == hits(TextOf(secretRuns[1], read), "C", TRUE)
                      \cup hits(TextOf(secretRuns[2], read), "D", FALSE)
       IN /\ secretRows' = Append(secretRows,
               [leg |-> "redacted", result |-> IF found = {} THEN "executed-pass" ELSE "executed-fail",
                read |-> read, by |-> {}])
          /\ secretLeg' = NoLeg
  /\ UNCHANGED <<capturedText, secretHost, secretRuns>>
ScanRetried ==
  /\ Doing("scan retried")
  /\ \E read \in ReadSets :
       /\ secretRows' = Append(secretRows,
            [leg |-> "digest", read |-> read, by |-> {},
             result |-> IF hits(TextOf(LatestRun, read), "C2", FALSE) = {} THEN "executed-pass" ELSE "executed-fail"])
       /\ secretLeg' = NoLeg
  /\ UNCHANGED <<capturedText, secretHost, secretRuns>>

-----------------------------------------------------------------------------
(* The store's canary: a run of a fixture is settled and read, ...         *)
CreateStored ==
  /\ \E storeFixture \in {"byok", "resolve-then-fail"} :
       /\ Doing(storeFixture)
       /\ \/ secretHost.lossy /\ RecordRow("blocked") /\ UNCHANGED secretRuns
          \/ /\ secretRuns' = Append(secretRuns, Job(storeFixture, "store", {}, "none"))
             /\ secretLeg' = AfterStep /\ UNCHANGED secretRows
  /\ UNCHANGED <<capturedText, secretHost>>

(* ... forked, from a source that settled, ...                             *)
ForkStored ==
  /\ Doing("fork store")
  /\ IF secretHost.branches = "no" THEN RecordRow("inapplicable") /\ UNCHANGED secretRuns
     ELSE IF ~SourceSettled \/ secretHost.branches = "refused" THEN RecordRow("blocked") /\ UNCHANGED secretRuns
     ELSE \/ secretHost.lossy /\ RecordRow("blocked") /\ UNCHANGED secretRuns
          \/ /\ secretRuns' = Append(secretRuns, Job("fork", "store", {}, "none"))
             /\ secretLeg' = AfterStep /\ UNCHANGED secretRows
  /\ UNCHANGED <<capturedText, secretHost>>

(* readRun: without an end, a snapshot or a log there is no judging.       *)
readRun ==
  /\ Doing("settle")
  /\ \/ /\ secretHost.slow \/ secretHost.lossy
        /\ RecordRow("blocked")
     \/ /\ LatestRun.status # "running" /\ UNCHANGED secretRows
        /\ \E lost \in (IF secretHost.lossy THEN SUBSET {"debug", "cancel", "list"} ELSE {{}}) :
             secretLeg' = [AfterStep EXCEPT
               !.read = ({"answer", "snapshot", "poll", "debug", "cancel"} \cup secretHost.serves) \ lost]
  /\ UNCHANGED <<capturedText, secretHost, secretRuns>>

(* leaks: a surface on which a detector finds the canary.                  *)
DetectedBy(detector, text) ==
  IF detector = "digest" THEN \E form \in ValueForms : Piece("S", form) \in text
  ELSE \E form \in ValueForms : Piece(secretHost.operator, form) \in text
leaks(job, read) ==
  {surface \in read : \E d \in detectorsFor : DetectedBy(d, Shown(job, surface))}
JudgeStored ==
  /\ Doing("judge store")
  /\ RecordRow(CASE detectorsFor = {} -> "inapplicable"
                 [] secretLeg.leg # "store fork"
                      /\ LatestRun.status # (IF secretLeg.leg = "store" THEN "completed" ELSE "failed") ->
                      "executed-fail"
                 [] OTHER -> IF leaks(LatestRun, secretLeg.read) = {} THEN "executed-pass" ELSE "executed-fail")
  /\ UNCHANGED <<capturedText, secretHost, secretRuns>>

-----------------------------------------------------------------------------
NoText == [of |-> "none", strings |-> << >>]
SecretInit ==
  /\ \/ /\ capturedText \in [of : {"canaries", "digest"}, strings : {<< << >> >>}]
        /\ secretHost = [fault |-> "absent"]
     \/ capturedText = NoText /\ secretHost \in SecretHosts
  /\ secretRuns = << >> /\ secretLeg = NoLeg /\ secretRows = << >>

SecretNext ==
  \/ CaptureMore \/ RunEnds \/ BeginLeg \/ CreateWitnessed \/ Retry \/ WaitTerminal
  \/ matched \/ nodeFailedCode \/ PassLeg \/ ForkWitnessed \/ JudgePair \/ ScanPair \/ ScanRetried
  \/ CreateStored \/ ForkStored \/ readRun \/ JudgeStored

-----------------------------------------------------------------------------
(* Every marker of a text is reported, once, and nothing without one.      *)
EveryMarkerOnce ==
  capturedText.of = "canaries" =>
    LET text == capturedText.strings[1]
        found == findCanaryLeaks(text)
        markers == OccursAt(text, <<CANARY_MARKER>>)
    IN /\ \A i \in markers : Cardinality({l \in found : Spans(l, i)}) = 1
       /\ Cardinality(found) = Cardinality(markers)

(* A secret that stands in a string, or as a token's whole bytes, is found *)
(* as long as the windows before it are within the budget; and nothing     *)
(* else is.                                                                *)
StandsIn(s) ==
  \/ OccursAt(s, StoreSecret) # {}
  \/ \E i \in OccursAt(s, <<"0", "1", "1", "0">>) : \E k \in 0..(i - 1) :
       /\ k % 2 = 0 /\ \A j \in (i - k)..i : s[j] \in Digits
       /\ i - k > 1 => s[i - k - 1] \notin Digits
FoundIfHashed ==
  capturedText.of = "digest" =>
    LET stands == \E i \in DOMAIN capturedText.strings : StandsIn(capturedText.strings[i])
    IN /\ FoundByDigest(capturedText.strings) => stands
       /\ stands /\ Len(HashedWindows(capturedText.strings)) <= MAX_WINDOWS => FoundByDigest(capturedText.strings)

(* A leg fails only a host that breaks its rule, whatever request is lost; *)
(* but for the two that take a run not seen to end, or a log not read, for *)
(* the wrong answer.                                                       *)
LegFaults ==
  [resolves |-> {"refuses what is given", "always matches", "never matches", "fails on a mismatch"},
   redacted |-> {"shows it"},
   scope |-> {"answers for any name", "keeps what was given", "inherits in a fork"},
   digest |-> {"refuses what is given", "digests what is given", "runs it again", "tells no replay",
               "keeps the retried value"}]
FailsItsRule ==
  \A i \in DOMAIN secretRows :
    secretRows[i].result = "executed-fail" =>
      IF secretRows[i].leg \in STORE_LEGS THEN secretHost.fault \in {"shows it", "ends it otherwise"}
      ELSE \/ secretHost.fault \in LegFaults[secretRows[i].leg]
           \/ secretRows[i].leg \in {"resolves", "scope"} /\ (secretHost.slow \/ secretHost.lossy)

(* A leg that passes was passed by a host that keeps its rule; a value it  *)
(* shows was on a surface that was not read, in a form not looked for, or  *)
(* searched for by a wrong value of the operator alone.                    *)
NotLookedAt(row) == secretHost.shows \notin row.read \/ secretHost.form = "reversed"
PassesItsRule ==
  \A i \in DOMAIN secretRows :
    LET row == secretRows[i]
    IN row.result = "executed-pass" =>
         CASE row.leg = "resolves" -> secretHost.fault \notin LegFaults["resolves"]
           [] row.leg = "redacted" -> HostBreaks("shows it") => NotLookedAt(row)
           [] row.leg = "scope" ->
                /\ secretHost.fault \notin {"answers for any name", "keeps what was given"}
                /\ HostBreaks("inherits in a fork") => secretHost.branches # "served"
           [] row.leg = "digest" ->
                /\ secretHost.fault \notin LegFaults["digest"] \ {"keeps the retried value"}
                /\ HostBreaks("keeps the retried value") => "poll" \notin row.read
           [] OTHER -> HostBreaks("shows it") =>
                         NotLookedAt(row) \/ (row.by = {"value"} /\ secretHost.operator # "S")

SecretsAreWatched == EveryMarkerOnce /\ FoundIfHashed /\ FailsItsRule /\ PassesItsRule
=============================================================================
