---------------------------- MODULE PromptsAndDeployments -----------------------------
(* A host's prompt library and the witness of it: one file takes a user    *)
(* template through its life (driveLifecycle), another asks single         *)
(* questions meanwhile (prompt-library-witness.ts). The host is the double *)
(* the suite proves its legs on (prompt-double.ts), with one defect or     *)
(* none. A request is a step; a leg that lists before it asks takes two.   *)
EXTENDS Integers, Sequences, SequencesExt, FiniteSetsExt, Naturals, FiniteSets

CONSTANTS
  PromptDefects, PromptAdverts, Shelves,
  User, Anonymous,    \* the ids of the templates the legs create
  MaxQuestions        \* legs asked in one behaviour

VARIABLES
  promptDefect, promptAdvert,
  shelf,      \* the templates the host came with
  library,     \* its templates, oldest first
  life,        \* the answers to the life so far, in order
  question,    \* the leg under way and what it asks of, or none
  answered     \* legs that have ended: ok, failed or skipped

promptVars == <<promptDefect, promptAdvert, shelf, library, life, question, answered>>

Has(d) == promptDefect = d
NoTemplate == [id |-> "none"]
ofUser(id, version) ==
  [id |-> id, version |-> version, kind |-> "system", source |-> IF Has("source-not-user") THEN "host" ELSE "user",
   stamped |-> FALSE, needs |-> {}]

-----------------------------------------------------------------------------
(* The double's answers. A template needs its required variables: bound by *)
(* the caller, or a secret, which no caller can bind.                      *)
ListedBy(query(_)) == IF Has("filter-ignored") THEN library ELSE SelectSeq(library, query)
BySource(source) == ListedBy(LAMBDA t : t.source = source)
Everything == ListedBy(LAMBDA t : TRUE)

latestOf(id) ==
  LET versions == {t \in ToSet(library) : t.id = id}
  IN  IF versions = {} THEN NoTemplate ELSE CHOOSE t \in versions : \A u \in versions : t.version >= u.version

Get(id) ==
  LET t == latestOf(id)
  IN  IF t = NoTemplate
        THEN IF Has("unknown-200") THEN [status |-> 200, template |-> NoTemplate]
                                   ELSE [status |-> 404, template |-> NoTemplate]
        ELSE IF Has("reference-pack-404") /\ t.source = "pack"
          THEN [status |-> 404, template |-> NoTemplate] ELSE [status |-> 200, template |-> t]

Seeds == ToSet(shelf)
Protected(t) == (\E x \in Seeds : x.id = t.id /\ x.version = t.version) /\ ~Has("builtin-deletable")

(* Each write: its answer and the library after it.                        *)
PostTemplate(t) ==
  IF \E u \in ToSet(library) : u.id = t.id /\ u.version = t.version
    THEN [status |-> IF Has("dup-accepted") THEN 201 ELSE 409, library |-> library]
    ELSE [status |-> 201, library |-> Append(library, t)]

Put(id, version) ==
  LET t == latestOf(id) IN
  CASE t = NoTemplate -> [status |-> 404, library |-> library]
    [] t # NoTemplate /\ Protected(t) -> [status |-> 403, library |-> library]
    [] t # NoTemplate /\ ~Protected(t) /\ version <= t.version /\ ~Has("non-monotonic-accepted") ->
         [status |-> 409, library |-> library]
    [] OTHER -> [status |-> 200,
                 library |-> IF Has("update-not-stored") THEN library
                             ELSE Append(library, [ofUser(id, version) EXCEPT !.source = "user"])]

Delete(id) ==
  LET t == latestOf(id) IN
  CASE t = NoTemplate -> [status |-> 404, library |-> library]
    [] t # NoTemplate /\ Protected(t) -> [status |-> 403, library |-> library]
    [] OTHER -> [status |-> 204,
                 library |-> IF Has("delete-not-gone") THEN library
                             ELSE SelectSeq(library, LAMBDA u : u.id # id)]

(* Rendering twice with one binding, and once with another.                *)
Render(t, bound) ==
  [status |-> IF \/ t \notin ToSet(library)
                 \/ ("secret" \in t.needs \/ ("input" \in t.needs /\ ~bound)) /\ ~Has("render-unbound-ok")
                THEN 400 ELSE 200,
   repeats |-> ~Has("render-nondeterministic"),
   varies |-> ~Has("render-ignores-vars"),
   hashed |-> ~Has("render-bad-hash"),
   body |-> promptAdvert.observability = "full" \/ Has("render-leaks-body")]

-----------------------------------------------------------------------------
(* The life of a user template, and what is made of the answers.           *)
Life == <<"create", "read", "duplicate", "update", "stored", "nonMonotonic", "delete", "after">>

LifeStep ==
  /\ promptAdvert.endpoints /\ promptAdvert.mutable
  /\ Len(life) < Len(Life)
  /\ LET step == Life[Len(life) + 1]
         write == CASE step \in {"create", "duplicate"} -> PostTemplate(ofUser(User, 1))
                    [] step = "update" -> Put(User, 2)
                    [] step = "nonMonotonic" -> Put(User, 0)
                    [] step = "delete" -> Delete(User)
                    [] OTHER -> [status |-> Get(User).status, library |-> library]
     IN  /\ library' = write.library
         /\ life' = Append(life, [status |-> write.status, template |-> Get(User).template])
  /\ UNCHANGED <<promptDefect, promptAdvert, shelf, question, answered>>

judgeLifecycle(o) ==
  {leg \in {"create", "read", "duplicate", "update", "nonMonotonic", "remove"} :
     CASE leg = "create" -> o[1].status # 201 \/ Has("create-no-location")
       [] leg = "read" -> o[2].status # 200 \/ o[2].template.id # User \/ o[2].template.source # "user"
       [] leg = "duplicate" -> o[3].status # 409
       [] leg = "update" -> o[4].status # 200 \/ o[5].template.version # 2
       [] leg = "nonMonotonic" -> o[6].status # 409
       [] leg = "remove" -> o[7].status # 204 \/ o[8].status # 404}

-----------------------------------------------------------------------------
(* The questions. Some list a template first; some need a facet.           *)
ListsHost == {"readOnly"}
ListsAny == {"fetch", "etag"}
Renders == {"deterministic", "varies", "renderShape", "unbound"}
AsksAtOnce == {"list", "filter", "unknown", "unauthenticated", "packList", "packStamp", "referencePack",
               "gateOffRead", "gateOffWrite"}
Questions == ListsHost \cup ListsAny \cup Renders \cup AsksAtOnce

Applies(leg) ==
  CASE leg = "gateOffRead" -> ~promptAdvert.endpoints
    [] leg = "gateOffWrite" -> ~(promptAdvert.endpoints /\ promptAdvert.mutable)
    [] leg \in {"readOnly", "unauthenticated"} -> promptAdvert.endpoints /\ promptAdvert.mutable
    [] leg \in {"packStamp", "referencePack"} -> promptAdvert.endpoints /\ promptAdvert.packs
    [] OTHER -> promptAdvert.endpoints

FirstOf(s) == IF s = << >> THEN NoTemplate ELSE s[1]
FirstThat(s, preferred(_)) == IF SelectSeq(s, preferred) # << >> THEN SelectSeq(s, preferred)[1] ELSE FirstOf(s)

aTemplate == IF BySource("host") # << >> THEN BySource("host")[1] ELSE FirstOf(Everything)

Renderable(t) == "secret" \notin t.needs
renderTarget(leg) ==
  LET listed == SelectSeq(BySource("host"), Renderable)
      candidates == IF listed # << >> THEN listed ELSE SelectSeq(Everything, Renderable)
      wanted == SelectSeq(candidates, LAMBDA t : leg = "renderShape" /\ t.kind = "few-shot")
  IN  FirstThat(IF wanted # << >> THEN wanted ELSE candidates, LAMBDA t : "input" \in t.needs)

TargetOf(leg) ==
  CASE leg \in ListsHost -> FirstOf(BySource("host"))
    [] leg \in ListsAny -> aTemplate
    [] leg \in Renders -> renderTarget(leg)
    [] leg \in AsksAtOnce -> NoTemplate

Served404(served) == IF served THEN "failed" ELSE "ok"

(* What a leg makes of the answer, asked of t.                             *)
Finding(leg, t) ==
  CASE leg = "list" -> IF Has("list-invalid-item") \/ \E u \in ToSet(library) : u.source = "pack" /\ ~u.stamped
                         THEN "failed" ELSE "ok"
    [] leg = "filter" ->
         IF \/ \E u \in ToSet(ListedBy(LAMBDA x : x.kind = "system")) : u.kind # "system"
            \/ \E u \in ToSet(BySource("host")) : u.source # "host"
           THEN "failed" ELSE "ok"
    [] leg = "fetch" -> IF Get(t.id).status = 200 /\ Get(t.id).template # NoTemplate THEN "ok" ELSE "failed"
    [] leg = "etag" -> IF Get(t.id).status # 200 \/ Has("no-etag") \/ Has("etag-no-304") THEN "skipped" ELSE "ok"
    [] leg = "unknown" -> IF Has("unknown-200") \/ Has("unknown-nested-envelope") THEN "failed" ELSE "ok"
    [] leg = "readOnly" -> IF Delete(t.id).status = 403 THEN "ok" ELSE "failed"
    [] leg = "unauthenticated" -> IF Has("writes-unauthenticated") THEN "failed" ELSE "ok"
    [] leg = "gateOffRead" -> Served404(Has("gate-off-serves"))
    [] leg = "gateOffWrite" -> Served404(Has("mutable-gate-off-serves") /\ promptAdvert.endpoints)
    [] leg = "packList" -> IF \/ \E u \in ToSet(BySource("pack")) : u.source # "pack"
                              \/ ~promptAdvert.packs /\ BySource("pack") # << >>
                             THEN "failed" ELSE "ok"
    [] leg = "packStamp" ->
         LET packs == {u \in ToSet(BySource("pack")) : u.source = "pack"}
         IN  IF packs = {} THEN "skipped" ELSE IF \E u \in packs : ~u.stamped THEN "failed" ELSE "ok"
    [] leg = "referencePack" ->
         LET packs == SelectSeq(BySource("pack"), LAMBDA u : u.source = "pack")
         IN  IF packs = << >> THEN "skipped" ELSE IF Get(packs[1].id).status = 200 THEN "ok" ELSE "failed"
    [] leg = "deterministic" -> IF Render(t, TRUE).status = 200 /\ Render(t, TRUE).repeats THEN "ok" ELSE "failed"
    [] leg = "varies" -> IF "input" \notin t.needs THEN "skipped"
                         ELSE IF Render(t, TRUE).status = 200 /\ Render(t, TRUE).varies THEN "ok" ELSE "failed"
    [] leg = "renderShape" ->
         IF /\ Render(t, TRUE).status = 200 /\ Render(t, TRUE).hashed
            /\ Render(t, TRUE).body <=> promptAdvert.observability = "full"
           THEN "ok" ELSE "failed"
    [] leg = "unbound" -> IF "input" \notin t.needs THEN "skipped"
                          ELSE IF Render(t, FALSE).status = 400 THEN "ok" ELSE "failed"

NoQuestion == [leg |-> "none", template |-> NoTemplate]

(* What a leg leaves behind in the library.                                *)
After(leg, t) ==
  CASE leg = "readOnly" -> Delete(t.id).library
    [] leg = "unauthenticated" /\ Has("writes-unauthenticated") -> PostTemplate(ofUser(Anonymous, 1)).library
    [] OTHER -> library

Ends(leg, outcome) == answered' = [answered EXCEPT ![leg] = outcome] /\ question' = NoQuestion

AskLeg ==
  /\ question = NoQuestion /\ Cardinality({l \in Questions : answered[l] # "not yet"}) < MaxQuestions
  /\ \E leg \in {l \in Questions : answered[l] = "not yet" /\ Applies(l)} :
       LET t == TargetOf(leg)
       IN  CASE leg \in AsksAtOnce ->
                  Ends(leg, Finding(leg, t)) /\ library' = After(leg, t)
             [] leg \notin AsksAtOnce /\ t = NoTemplate -> Ends(leg, "skipped") /\ UNCHANGED library
             [] OTHER -> question' = [leg |-> leg, template |-> t] /\ UNCHANGED <<answered, library>>
  /\ UNCHANGED <<promptDefect, promptAdvert, shelf, life>>

HearAnswer ==
  /\ question # NoQuestion
  /\ Ends(question.leg, Finding(question.leg, question.template))
  /\ library' = After(question.leg, question.template)
  /\ UNCHANGED <<promptDefect, promptAdvert, shelf, life>>

PromptInit ==
  /\ promptDefect \in PromptDefects /\ promptAdvert \in PromptAdverts
  /\ shelf \in {s \in Shelves : promptAdvert.packs \/ \A t \in ToSet(s) : t.source # "pack"}
  /\ library = [k \in DOMAIN shelf |->
                  [shelf[k] EXCEPT !.stamped = @ /\ promptDefect # "pack-unstamped"]]
  /\ life = << >> /\ question = NoQuestion /\ answered = [leg \in Questions |-> "not yet"]

PromptNext == LifeStep \/ AskLeg \/ HearAnswer

-----------------------------------------------------------------------------
(* The legs each defect is owed (prompt-library-witness.test.ts).          *)
OwedTo ==
  [d \in PromptDefects |->
     CASE d = "list-invalid-item" -> {"list"} [] d = "filter-ignored" -> {"filter", "packList"}
       [] d = "unknown-200" -> {"unknown", "remove"} [] d = "unknown-nested-envelope" -> {"unknown"}
       [] d = "create-no-location" -> {"create"} [] d = "source-not-user" -> {"read"}
       [] d = "dup-accepted" -> {"duplicate"} [] d = "update-not-stored" -> {"update"}
       [] d = "non-monotonic-accepted" -> {"nonMonotonic"} [] d = "delete-not-gone" -> {"remove"}
       [] d = "builtin-deletable" -> {"readOnly"} [] d = "writes-unauthenticated" -> {"unauthenticated"}
       [] d = "render-nondeterministic" -> {"deterministic"} [] d = "render-ignores-vars" -> {"varies"}
       [] d = "render-bad-hash" -> {"renderShape"}
       [] d = "render-leaks-body" -> IF promptAdvert.observability = "full" THEN {} ELSE {"renderShape"}
       [] d = "render-unbound-ok" -> {"unbound"} [] d = "pack-unstamped" -> {"list", "packStamp"}
       [] d = "reference-pack-404" -> {"referencePack"} [] d = "gate-off-serves" -> {"gateOffRead"}
       [] d = "mutable-gate-off-serves" -> {"gateOffWrite"} [] OTHER -> {}]

ConvictedLegs ==
  {leg \in Questions : answered[leg] = "failed"}
    \cup (IF Len(life) = Len(Life) THEN judgeLifecycle(life) ELSE {})

(* While another file creates and deletes templates, an honest host is     *)
(* never convicted; on a host with templates of every kind a leg convicts  *)
(* only a host with the defect it is owed to, and always that one, if it   *)
(* ends. A host whose own shelf has nothing to fetch or to render is left  *)
(* out for the legs that fall back on any template listed: the other       *)
(* file's may be gone when they ask.                                       *)
FallsBack(leg) ==
  \/ leg \in ListsAny /\ Seeds = {}
  \/ leg \in Renders /\ ~ \E t \in Seeds : Renderable(t)

EveryKind == Cardinality(Seeds) > 3

LibraryVerdictIsTrue ==
  /\ promptDefect = "none" => \A leg \in ConvictedLegs : FallsBack(leg)
  /\ EveryKind =>
       /\ ConvictedLegs \subseteq OwedTo[promptDefect]
       /\ \A leg \in OwedTo[promptDefect] \cap Questions : answered[leg] # "ok"
       /\ Len(life) = Len(Life) => OwedTo[promptDefect] \ Questions \subseteq judgeLifecycle(life)

-----------------------------------------------------------------------------
(* The deployment lifecycle of an agent and the witness of it              *)
(* (deployment-lifecycle-witness.ts): one drive takes the host's draft     *)
(* from refusal to refusal, up to active on the channel and back, and      *)
(* every leg judges a slice. A host may be driven again, as it was left.   *)
(* It keeps the rules the judges quote, but for one fault or none.         *)
CONSTANTS
  DeployFaults,
  DeployFacets,   \* agents.deployment: [states, canary, rollback, replay], whether
                  \* the suite has a key without deploy:* (lowKey), and whether the host
                  \* withdraws the versions a full promote displaces (displaces)
  DeployVersions, \* in the order the host lists them
  Incumbencies,   \* versions active on the channel at first, oldest first
  MaxDrives

VARIABLES
  deployFault, deployFacet,
  deployed,       \* per version its record: state, bound (to the channel), share, pointer
  activations,    \* versions in the order they became active on the channel
  drives,
  deployAt,       \* the part of the drive that is next
  drive,          \* what the drive remembers
  acceptedMoves,       \* every transition answered 200
  deployLegs      \* per leg: unsent, ok or failed

deployVars == <<deployFault, deployFacet, deployed, activations, drives, deployAt, drive, acceptedMoves, deployLegs>>
deployHost == <<deployFault, deployFacet, drives>>

Faulty(fault) == deployFault = fault
PROMOTION_PATH == <<"draft", "test", "staged", "active">>
DeployLegs == {"list", "pin", "scope", "illegal", "skip", "unadvertised", "legal", "replay",
               "canary", "canary refused", "rollback", "resume", "linked", "event",
               "gate", "gate unchanged"}

Advertises(state) == state \in deployFacet.states
promotionPath == SelectSeq(PROMOTION_PATH, Advertises)
activeOn == {v \in ToSet(DeployVersions) : deployed[v].state = "active" /\ deployed[v].bound}

-----------------------------------------------------------------------------
(* The host. Checks in their order: scope, advertisement, state.           *)
NextOf(state) ==
  IF state = "paused" THEN "active"
  ELSE LET steps == {i \in DOMAIN promotionPath : promotionPath[i] = state /\ i < Len(promotionPath)}
       IN  IF steps = {} THEN "none" ELSE promotionPath[Min(steps) + 1]

Target(v, ask) ==
  CASE ask.transition = "promote" -> IF ask.to = "next" THEN NextOf(deployed[v].state) ELSE ask.to
    [] ask.transition = "pause" -> "paused"
    [] ask.transition = "deprecate" -> "deprecated"
    [] ask.transition = "rollback" -> "rolled-back"
    [] OTHER -> deployed[v].state

(* The most recent other version active before it, not rolled back itself. *)
Priors(v) ==
  LET upTo == Max({0} \cup {i \in DOMAIN activations : activations[i] = v})
  IN  SelectSeq(SubSeq(activations, 1, upTo), LAMBDA u : u # v /\ deployed[u].state # "rolled-back")

Edge(v, ask) ==
  LET state == deployed[v].state IN
  CASE ask.transition = "promote" ->
         /\ state \in {"draft", "test", "staged"} \/ (state = "paused" /\ ~Faulty("stuck paused"))
         /\ ask.to \in {"next", NextOf(state)} \/ Faulty("skips")
    [] ask.transition = "rollback" -> state = "active" /\ Priors(v) # << >>
    [] OTHER -> state = "active" \/ Faulty("any edge")

StatusOf(v, ask) ==
  CASE ~ask.scoped /\ ~Faulty("open to all") -> 403
    [] ~Advertises(Target(v, ask)) \/ (ask.share < 100 /\ ~deployFacet.canary /\ ~Faulty("takes any share")) ->
         IF Faulty("state before advertisement") THEN 409 ELSE 400
    [] ~Edge(v, ask) -> 409
    [] OTHER -> 200

Restored(v) == IF Faulty("restores the first") THEN Priors(v)[1] ELSE Last(Priors(v))

Moved(v, ask) ==
  LET to == Target(v, ask)
      goes == [deployed EXCEPT ![v].state = to]
  IN CASE ask.transition = "promote" /\ to = "active" /\ deployed[v].state # "paused" ->
            [u \in DOMAIN goes |->
               CASE u = v -> [goes[v] EXCEPT !.bound = ~Faulty("binds nothing"), !.share = ask.share]
                 [] u \in activeOn /\ deployFacet.displaces -> [goes[u] EXCEPT !.state = "deprecated"]
                 [] OTHER -> goes[u]]
       [] ask.transition = "adjust-canary" ->
            IF Faulty("share ignored") THEN deployed ELSE [goes EXCEPT ![v].share = ask.share]
       [] ask.transition = "rollback" ->
            [u \in DOMAIN goes |->
               CASE u = v -> [goes[v] EXCEPT !.pointer = IF Faulty("points nowhere") THEN "none" ELSE Restored(v)]
                 [] u = Restored(v) /\ ~Faulty("restores nothing") -> [goes[u] EXCEPT !.state = "active"]
                 [] OTHER -> goes[u]]
       [] OTHER -> goes

(* The deployment event of its management run.                             *)
EventOf(v, ask) ==
  CASE ask.transition = "promote" /\ (deployed[v].state # "paused" \/ Faulty("resume recorded as promoted")) -> "promoted"
    [] ask.transition = "adjust-canary" -> "canary adjusted"
    [] ask.transition = "rollback" -> "rolled back"
    [] OTHER -> "state changed"

Request(transition, to, share) == [transition |-> transition, to |-> to, share |-> share, scoped |-> TRUE]

HostAnswer(v, ask) ==
  LET status == StatusOf(v, ask) IN
  [status |-> status,
   records |-> IF status = 200 \/ (Faulty("moves what it refuses") /\ ask.transition # "rollback")
                 THEN Moved(v, ask) ELSE deployed,
   state |-> IF status = 409 /\ ~Faulty("conflict unnamed") THEN deployed[v].state ELSE "absent",
   challenge |-> IF Faulty("challenge for another scope") THEN "deploy:promote" ELSE "deploy:*",
   entry |-> [transition |-> ask.transition, version |-> v, fromState |-> deployed[v].state,
              linked |-> ~Faulty("names no run"), event |-> EventOf(v, ask), valid |-> ~Faulty("event leaks")]]

(* A run bound to the channel: the newest active version, and below a full *)
(* share the one before it.                                                *)
Resolvable ==
  LET serving == SelectSeq(activations, LAMBDA v : v \in activeOn)
      n == Len(serving)
  IN  {serving[i] : i \in {j \in 1..n : j = n \/ (j = n - 1 /\ deployed[serving[n]].share < 100)}}

-----------------------------------------------------------------------------
(* The drive of the scenario, a part a step.                               *)
pickDraft ==
  LET drafts == SelectSeq(DeployVersions, LAMBDA v : deployed[v].state = "draft")
  IN  IF drafts = << >> THEN "none" ELSE drafts[1]

subsetInvalid == ~Advertises("draft") \/ ~Advertises("active")
rollbackServed == deployFacet.rollback /\ Advertises("rolled-back")
illegalProbes ==
  LET closed == {<<"pause", "paused">>, <<"deprecate", "deprecated">>}
      served == {p[1] : p \in {q \in closed : Advertises(q[2])}}
  IN  IF served = {} THEN {"adjust-canary"} ELSE served

PROBES == <<[state |-> "test", on |-> "draft", transition |-> "promote"],
            [state |-> "paused", on |-> "active", transition |-> "pause"],
            [state |-> "deprecated", on |-> "active", transition |-> "deprecate"],
            [state |-> "rolled-back", on |-> "active", transition |-> "rollback"]>>
unadvertisedProbes == SelectSeq(PROBES, LAMBDA p : ~Advertises(p.state))

(* What each leg finds. *)
unchanged(v, answer) == answer.records[v] = deployed[v]
judgeStateConflict(v, answer) ==
  answer.status = 409 /\ answer.state = deployed[v].state /\ unchanged(v, answer)
judgeScopeRefused(v, answer) ==
  answer.status = 403 /\ answer.challenge = "deploy:*" /\ unchanged(v, answer)
judgeValidationRefused(v, answer) == answer.status = 400 /\ unchanged(v, answer)
judgePinned(pin, activeVersions) == pin.channel /\ pin.version \in activeVersions
judgeStep(v, to, answer) == answer.status = 200 /\ answer.records[v].state = to
judgeBound(v, answer) == answer.records[v].state = "active" /\ answer.records[v].bound
judgeCanaryAdjusted(v, share, answer) == answer.status = 200 /\ answer.records[v].share = share
judgeRolledBack(v, answer) ==
  LET pointer == answer.records[v].pointer IN
  /\ answer.status = 200 /\ answer.records[v].state = "rolled-back"
  /\ pointer \in drive.activeAtR1 /\ answer.records[pointer].state = "active"
expectedEvents(x) ==
  CASE x.transition = "promote" -> IF x.fromState = "paused" THEN "state changed" ELSE "promoted"
    [] x.transition = "adjust-canary" -> "canary adjusted"
    [] x.transition = "rollback" -> "rolled back"
    [] OTHER -> "state changed"
judgeEventRecorded(x) == x.linked /\ x.event = expectedEvents(x) /\ x.valid

Judged(leg, ok) == [deployLegs EXCEPT ![leg] = IF @ = "failed" \/ ~ok THEN "failed" ELSE "ok"]
AcceptedAs(answer) ==
  /\ deployed' = answer.records
  /\ acceptedMoves' = IF answer.status = 200 THEN acceptedMoves \cup {answer.entry} ELSE acceptedMoves
  /\ activations' = activations \o
       SelectSeq(DeployVersions, LAMBDA v : /\ answer.records[v].state = "active"
                                            /\ deployed[v].state \in {"draft", "test", "staged"})
Proceed(part) == deployAt' = part

ReadList ==
  /\ deployAt = "list" /\ Proceed(IF pickDraft = "none" THEN "resume" ELSE "scope")
  /\ \E v \in IF activeOn = {} THEN {"none"} ELSE Resolvable :
       LET pin == [channel |-> ~Faulty("unpinned"), version |-> v]
           listed == [deployLegs EXCEPT !["list"] = IF Faulty("lists another's") THEN "failed" ELSE "ok"]
       IN  /\ drive' = [draft |-> pickDraft, activeAtR1 |-> activeOn, pin |-> pin, walked |-> FALSE]
           /\ deployLegs' = IF v = "none" THEN listed
                ELSE [listed EXCEPT !["pin"] = IF judgePinned(pin, activeOn) THEN "ok" ELSE "failed"]
  /\ UNCHANGED <<deployHost, deployed, activations, acceptedMoves>>

RefusalJudged(leg, v, ask, judge(_, _), next) ==
  LET answer == HostAnswer(v, ask) IN
  /\ deployLegs' = Judged(leg, judge(v, answer)) /\ Proceed(next)
  /\ deployed' = answer.records /\ UNCHANGED <<deployHost, activations, drive, acceptedMoves>>

Scope ==
  /\ deployAt = "scope"
  /\ IF deployFacet.lowKey
       THEN RefusalJudged("scope", drive.draft, [Request("promote", "next", 100) EXCEPT !.scoped = FALSE],
                    judgeScopeRefused, "illegal")
       ELSE Proceed("illegal") /\ UNCHANGED <<deployHost, deployed, activations, drive, acceptedMoves, deployLegs>>

(* Pause first, then deprecate, when both states are advertised.           *)
Illegal ==
  /\ deployAt \in {"illegal", "illegal too"}
  /\ LET two == {"pause", "deprecate"} \subseteq illegalProbes
         probe == IF two /\ deployAt = "illegal" THEN "pause"
                  ELSE IF two THEN "deprecate" ELSE CHOOSE t \in illegalProbes : TRUE
     IN  RefusalJudged("illegal", drive.draft, Request(probe, "next", 100),
                 judgeStateConflict, IF two /\ deployAt = "illegal" THEN "illegal too" ELSE "skip")

Skip ==
  /\ deployAt = "skip"
  /\ IF ~subsetInvalid /\ promotionPath[2] # "active"
       THEN RefusalJudged("skip", drive.draft, Request("promote", "active", 100),
                    judgeStateConflict, "unadvertised")
       ELSE Proceed("unadvertised") /\ UNCHANGED <<deployHost, deployed, activations, drive, acceptedMoves, deployLegs>>

(* The active probes are put to the first incumbent, if there is one.      *)
Unadvertised ==
  /\ deployAt = "unadvertised"
  /\ LET probes == unadvertisedProbes
         target == IF probes # << >> /\ probes[1].on = "draft" THEN drive.draft
                   ELSE Head(SelectSeq(DeployVersions, LAMBDA v : v \in drive.activeAtR1) \o <<"none">>)
     IN  IF probes # << >> /\ target # "none"
           THEN RefusalJudged("unadvertised", target,
                        Request(probes[1].transition, IF probes[1].on = "draft" THEN "test" ELSE "next", 100),
                        judgeValidationRefused, "walk")
           ELSE Proceed("walk") /\ UNCHANGED <<deployHost, deployed, activations, drive, acceptedMoves, deployLegs>>

(* One promote a step over the advertised states, up to active; whatever   *)
(* moved the draft before the walk blocks it.                              *)
Walk ==
  /\ deployAt = "walk"
  /\ LET v == drive.draft
         state == deployed[v].state
         to == NextOf(state)
         answer == HostAnswer(v, Request("promote", IF state = "draft" THEN "next" ELSE to, 100))
     IN  IF subsetInvalid \/ (~drive.walked /\ state # "draft")
           THEN /\ Proceed("resume") /\ UNCHANGED <<deployHost, deployed, activations, drive, acceptedMoves>>
                /\ deployLegs' = IF subsetInvalid THEN Judged("legal", FALSE) ELSE deployLegs
           ELSE /\ AcceptedAs(answer) /\ drive' = [drive EXCEPT !.walked = TRUE] /\ UNCHANGED deployHost
                /\ deployLegs' = Judged("legal", judgeStep(v, to, answer)
                                                 /\ (to = "active" => judgeBound(v, answer)))
                /\ Proceed(CASE answer.status # 200 -> "resume" [] to = "active" -> "replay" [] OTHER -> "walk")

(* A fresh run must find the new version before the replay proves a thing. *)
Replay ==
  /\ deployAt = "replay" /\ Proceed("canary")
  /\ LET source == drive.pin.version
         moved == Resolvable = {drive.draft} /\ source # drive.draft
     IN  deployLegs' = IF deployFacet.replay /\ source # "none" /\ moved
                         THEN Judged("replay", ~Faulty("replay resolves again")) ELSE deployLegs
  /\ UNCHANGED <<deployHost, deployed, activations, drive, acceptedMoves>>

AdjustCanary ==
  /\ deployAt = "canary" /\ Proceed("rollback")
  /\ LET answer == HostAnswer(drive.draft, Request("adjust-canary", "next", 50)) IN
     /\ AcceptedAs(answer)
     /\ deployLegs' = IF deployFacet.canary
                        THEN Judged("canary", judgeCanaryAdjusted(drive.draft, 50, answer))
                        ELSE Judged("canary refused", judgeValidationRefused(drive.draft, answer))
  /\ UNCHANGED <<deployHost, drive>>

Rollback ==
  /\ deployAt = "rollback" /\ Proceed("resume")
  /\ IF rollbackServed /\ drive.activeAtR1 # {}
       THEN LET answer == HostAnswer(drive.draft, Request("rollback", "next", 100)) IN
            AcceptedAs(answer) /\ deployLegs' = Judged("rollback", judgeRolledBack(drive.draft, answer))
       ELSE UNCHANGED <<deployed, activations, acceptedMoves, deployLegs>>
  /\ UNCHANGED <<deployHost, drive>>

(* Pause what is active, an incumbent before the walked version; then      *)
(* promote it.                                                             *)
Resumable ==
  LET listed == SelectSeq(DeployVersions, LAMBDA v : v \in activeOn)
      before == SelectSeq(listed, LAMBDA v : v \in drive.activeAtR1)
  IN  IF before # << >> THEN before ELSE listed

PauseActive ==
  /\ deployAt = "resume"
  /\ IF ~Advertises("paused") \/ Resumable = << >>
       THEN Proceed("events") /\ UNCHANGED <<deployHost, deployed, activations, drive, acceptedMoves, deployLegs>>
       ELSE LET v == Resumable[1]
                answer == HostAnswer(v, Request("pause", "next", 100))
                ok == answer.status = 200 /\ answer.records[v].state = "paused"
            IN  /\ AcceptedAs(answer) /\ drive' = [drive EXCEPT !.draft = v] /\ UNCHANGED deployHost
                /\ deployLegs' = IF ok THEN deployLegs ELSE Judged("resume", FALSE)
                /\ Proceed(IF answer.status = 200 THEN "back" ELSE "events")

Resume ==
  /\ deployAt = "back" /\ Proceed("events")
  /\ LET answer == HostAnswer(drive.draft, Request("promote", "next", 100)) IN
     AcceptedAs(answer) /\ deployLegs' = Judged("resume", judgeStep(drive.draft, "active", answer))
  /\ UNCHANGED <<deployHost, drive>>

ReadManagementRuns ==
  /\ deployAt = "events" /\ Proceed("gate")
  /\ LET linked == {x \in acceptedMoves : x.linked}
         runLinked == IF acceptedMoves = {} THEN "unsent" ELSE IF linked = acceptedMoves THEN "ok" ELSE "failed"
         event == IF linked = {} THEN "unsent"
                  ELSE IF \A x \in linked : judgeEventRecorded(x) THEN "ok" ELSE "failed"
     IN  deployLegs' = [deployLegs EXCEPT !["linked"] = runLinked, !["event"] = event]
  /\ UNCHANGED <<deployHost, deployed, activations, drive, acceptedMoves>>

(* deployment-eval-gate-witness.ts, on an agent whose promotes are gated:  *)
(* one that cites a failed eval run is refused and moves nothing.          *)
pickPromotable == SelectSeq(DeployVersions, LAMBDA v : deployed[v].state \in {"draft", "test", "staged"})

EvalGate ==
  /\ deployAt = "gate" /\ Proceed("done")
  /\ IF pickPromotable = << >> THEN UNCHANGED deployLegs
     ELSE LET v == pickPromotable[1]
              refused == ~Faulty("gate open")
              after == IF refused /\ ~Faulty("promotes behind the gate") THEN deployed
                       ELSE Moved(v, Request("promote", "next", 100))
          IN  deployLegs' = [deployLegs EXCEPT
                !["gate"] = IF refused THEN "ok" ELSE "failed",
                !["gate unchanged"] = IF after[v] = deployed[v] THEN "ok" ELSE "failed"]
  /\ UNCHANGED <<deployHost, deployed, activations, drive, acceptedMoves>>

(* The suite is run again against the host as it is now.                   *)
DriveAgain ==
  /\ deployAt = "done" /\ drives < MaxDrives /\ drives' = drives + 1
  /\ Proceed("list") /\ acceptedMoves' = {} /\ deployLegs' = [leg \in DeployLegs |-> "unsent"]
  /\ UNCHANGED <<deployFault, deployFacet, deployed, activations, drive>>

Undriven ==
  /\ deployed = [v \in ToSet(DeployVersions) |->
       IF v \in ToSet(activations) THEN [state |-> "active", bound |-> TRUE, share |-> 100, pointer |-> "none"]
                                   ELSE [state |-> "draft", bound |-> FALSE, share |-> 100, pointer |-> "none"]]
  /\ drives = 1 /\ deployAt = "list" /\ acceptedMoves = {}
  /\ drive = [draft |-> "none", activeAtR1 |-> {}, pin |-> [channel |-> FALSE, version |-> "none"], walked |-> FALSE]
  /\ deployLegs = [leg \in DeployLegs |-> "unsent"]

DeployInit ==
  /\ deployFault \in DeployFaults /\ deployFacet \in DeployFacets
  /\ activations \in Incumbencies /\ Undriven

DeployNext ==
  \/ ReadList \/ Scope \/ Illegal \/ Skip \/ Unadvertised \/ Walk \/ Replay \/ AdjustCanary
  \/ Rollback \/ PauseActive \/ Resume \/ ReadManagementRuns \/ EvalGate \/ DriveAgain

DeploySpec == DeployInit /\ [][DeployNext]_deployVars

-----------------------------------------------------------------------------
(* The legs whose rule a fault breaks. *)
BreaksOf(fault) ==
  CASE fault = "open to all" -> {"scope"}
    [] fault = "challenge for another scope" -> {"scope"}
    [] fault = "any edge" -> {"illegal"}
    [] fault = "skips" -> {"skip"}
    [] fault = "conflict unnamed" -> {"illegal", "skip"}
    [] fault = "state before advertisement" -> {"unadvertised", "canary refused"}
    [] fault = "takes any share" -> {"canary refused"}
    [] fault = "binds nothing" -> {"legal"}
    [] fault = "share ignored" -> {"canary"}
    [] fault = "replay resolves again" -> {"replay"}
    [] fault = "unpinned" -> {"pin"}
    [] fault = "points nowhere" -> {"rollback"}
    [] fault = "restores nothing" /\ deployFacet.displaces -> {"rollback"}
    [] fault = "stuck paused" -> {"resume"}
    [] fault = "names no run" -> {"linked"}
    [] fault = "event leaks" -> {"event"}
    [] fault = "lists another's" -> {"list"}
    [] fault = "gate open" -> {"gate", "gate unchanged"}
    [] fault = "promotes behind the gate" -> {"gate unchanged"}
    [] fault = "moves what it refuses" -> {"scope", "skip", "unadvertised", "canary refused"}
    [] OTHER -> {}

(* deployment-lifecycle-witness.ts: a host that keeps the rules, whatever  *)
(* states and parts of the facet it advertises, passes every leg, the      *)
(* second time too; a leg is passed only by a host without the faults that *)
(* break its rule; and only a subset without draft or active convicts one  *)
(* that is otherwise honest, of its walk.                                  *)
DeploymentVerdictIsTrue ==
  deployAt = "done" => \A leg \in DeployLegs :
    /\ deployFault = "none" /\ deployLegs[leg] = "failed" => leg = "legal" /\ subsetInvalid
    /\ deployLegs[leg] = "ok" => leg \notin BreaksOf(deployFault)
==============================================================================
