---------------------------- MODULE ChainExpansion -----------------------------
(***************************************************************************)
(* conformance/src/lib/workflow-chain-expansion.ts: a chain of a pack is   *)
(* expanded into a parent workflow. expandChainDeferred leaves parameters  *)
(* of prompts and of whole inputs to each run and keeps sensitive values   *)
(* out; expandChainWithCompensation carries inverses and one policy. Calls *)
(* follow one another in one process, which shares PARAM_PATTERN, a global *)
(* regular expression whose lastIndex the calls leave behind.              *)
(*                                                                         *)
(* A field is one value of a node's config or inputs: where it stands, the *)
(* parameters its text names in order, how much text precedes the first    *)
(* (a token is one long), whether it is one token and nothing else, and    *)
(* whether the text is inside an object or a list.                         *)
(***************************************************************************)
EXTENDS Integers, Sequences, SequencesExt, FiniteSets, FiniteSetsExt

CONSTANTS
  Fields,                \* fields a chain may have
  MaxFields,             \* bound on the fields of a chain
  SensitiveParams,       \* x-openwop-sensitive
  SuppliedParams,        \* the keys of ctx.params
  CompensationPolicies,
  NoPolicy

(* A field that is one token and nothing else names one parameter. *)
ASSUME FieldAssumption ==
  /\ MaxFields \in Nat
  /\ \A field \in Fields :
       /\ field.lead \in Nat
       /\ field.tokens \in Seq(Range(field.tokens))
       /\ field.whole => Len(field.tokens) = 1

VARIABLES
  lastIndex,     \* of PARAM_PATTERN, between calls
  settings,      \* settings.compensation of the parent workflow
  firstSettings, \* history: the first policy the parent had
  expansion      \* the last call of expandChainDeferred and its result

chainVars == <<lastIndex, settings, firstSettings, expansion>>

Hosts == [promptVariableSource : BOOLEAN, secretsSupported : BOOLEAN]
isSensitive(name) == name \in SensitiveParams

-----------------------------------------------------------------------------
(* PARAM_PATTERN.test and .exec look from an index on.                     *)
StartOf(field, i) == field.lead + i - 1
TokensFrom(field, index) == {i \in DOMAIN field.tokens : StartOf(field, i) >= index}

(* What a call builds up: the index, the parameters used, the prompt's     *)
(* bindings, and per field what became of its parameters.                  *)
Begin(index) ==
  [index |-> index, used |-> {}, bindings |-> {}, out |-> <<>>, error |-> "none"]

Refuse(acc, index) == [acc EXCEPT !.error = "sensitive_param_not_deferrable", !.index = index]

(* substitute: resolved now, for every run to come. A text that is one     *)
(* token is looked up without PARAM_PATTERN.                               *)
substitute(acc, field) ==
  [acc EXCEPT !.out = Append(@, "frozen"), !.index = IF field.whole THEN @ ELSE 0]

(* rewritePrompt: replace collects its matches before it calls back, and   *)
(* leaves the index at 0 whatever happens.                                 *)
rewritePrompt(acc, field, host) ==
  LET names == Range(field.tokens) IN
  IF ~host.promptVariableSource THEN substitute([acc EXCEPT !.index = 0], field)
  ELSE IF ~host.secretsSupported /\ \E name \in names : isSensitive(name) THEN Refuse(acc, 0)
  ELSE [acc EXCEPT !.index = 0, !.used = @ \cup names, !.out = Append(@, "deferred"),
          !.bindings = @ \cup {[name |-> name, source |-> IF isSensitive(name) THEN "secret"
                                                          ELSE "variable"] : name \in names}]

(* Variant: the loop goes on from where the test before it stopped. *)
SensitiveFromSecond(field) ==
  {i \in DOMAIN field.tokens : i > 1 /\ isSensitive(field.tokens[i])}
(* while (exec): the sensitive parameters of a text, from its start.       *)
SensitiveIn(field) == {i \in DOMAIN field.tokens : isSensitive(field.tokens[i])}

(* A text outside prompts is resolved, unless it names a sensitive one:    *)
(* the throw leaves the index behind the token it stopped at. Nested texts *)
(* are substituted unseen.                                                 *)
rewriteText(acc, field) ==
  IF ~field.nested /\ SensitiveIn(field) # {}
  THEN Refuse(acc, StartOf(field, Min(SensitiveIn(field))) + 1)
  ELSE substitute([acc EXCEPT !.index = 0], field)

rewriteConfig(acc, field, host) ==
  IF field.at = "prompt" /\ ~field.nested /\ TokensFrom(field, acc.index) # {}
  THEN rewritePrompt(acc, field, host) ELSE rewriteText(acc, field)

(* A whole input becomes a port that reads the variable at each run.       *)
rewriteInputs(acc, field) ==
  IF ~field.whole \/ field.nested THEN rewriteText(acc, field)
  ELSE IF isSensitive(field.tokens[1]) THEN Refuse(acc, acc.index)
  ELSE [acc EXCEPT !.used = @ \cup {field.tokens[1]}, !.out = Append(@, "deferred")]

rewriteNode(acc, field, host) ==
  IF acc.error # "none" THEN acc
  ELSE IF field.at = "input" THEN rewriteInputs(acc, field)
  ELSE rewriteConfig(acc, field, host)

Rewritten(fields, host, index) ==
  LET upTo[n \in 0..Len(fields)] ==
        IF n = 0 THEN Begin(index) ELSE rewriteNode(upTo[n - 1], fields[n], host)
  IN  upTo[Len(fields)]

(* The bag of the run, and the schema of what a caller may configure.      *)
Variables(built) ==
  {[name |-> name, default |-> name \in SuppliedParams] : name \in built.used \ SensitiveParams}

Idle == [fields |-> <<>>]

expandChainDeferred(fields, host) ==
  LET built == Rewritten(fields, host, lastIndex) IN
  /\ lastIndex' = built.index
  /\ expansion' = [fields |-> fields, host |-> host, from |-> lastIndex, error |-> built.error,
                   out |-> built.out, bindings |-> built.bindings, variables |-> Variables(built),
                   configurableSchema |-> built.used]
  /\ UNCHANGED <<settings, firstSettings>>

-----------------------------------------------------------------------------
(* expandChain of the same fields: every parameter is resolved now.        *)
expandChain(fields) ==
  /\ lastIndex' = IF \A i \in DOMAIN fields : fields[i].whole THEN lastIndex ELSE 0
  /\ expansion' = Idle

(* carryCompensation refuses a node both irreversible and compensated, an  *)
(* inverse the host lacks, and a policy that differs from the parent's.    *)
Carried(nodes, carried) ==
  nodes = "sound" /\ (carried = NoPolicy \/ settings \in {NoPolicy, carried})

(* A policy is taken where the parent has none.                            *)
expandChainWithCompensation(fields, nodes, carried) ==
  /\ expandChain(fields)
  /\ settings' = IF Carried(nodes, carried) /\ carried # NoPolicy THEN carried ELSE settings
  /\ firstSettings' = IF firstSettings = NoPolicy THEN settings' ELSE firstSettings

(* The caller takes the fragment, or the error. A chain with an activity   *)
(* the host lacks is refused before anything is looked at.                 *)
Taken == expansion # Idle /\ expansion' = Idle /\ UNCHANGED <<lastIndex, settings, firstSettings>>

-----------------------------------------------------------------------------
ChainInit ==
  /\ lastIndex = 0 /\ expansion = Idle
  /\ settings \in CompensationPolicies \cup {NoPolicy} /\ firstSettings = settings

ChainNext ==
  \/ /\ expansion = Idle
     /\ \E fields \in SeqOf(Fields, MaxFields) :
       \/ \E host \in Hosts : expandChainDeferred(fields, host)
       \/ /\ Len(fields) = 1
          /\ \E nodes \in {"sound", "irreversible with compensation", "unresolvable inverse"},
                carried \in CompensationPolicies \cup {NoPolicy} :
               expandChainWithCompensation(fields, nodes, carried)
  \/ Taken

ChainSpec == ChainInit /\ [][ChainNext]_chainVars

-----------------------------------------------------------------------------
Done == expansion # Idle /\ expansion.error = "none"
Became(what) == {i \in DOMAIN expansion.out : expansion.out[i] = what}
Names(i) == Range(expansion.fields[i].tokens)

(* "sensitive value never lands in the bag", and a sensitive parameter the *)
(* host cannot defer is refused, never resolved: except, as the code is,   *)
(* inside an object or a list, and in the prompts of a host that cannot    *)
(* source prompt variables.                                                *)
SensitiveStaysOut ==
  Done =>
    /\ \A i \in Became("frozen") : Names(i) \cap SensitiveParams # {} =>
         \/ expansion.fields[i].nested
         \/ expansion.fields[i].at = "prompt" /\ ~expansion.host.promptVariableSource
    /\ \A b \in expansion.bindings : b.source = "secret" <=> isSensitive(b.name)
    /\ \A v \in expansion.variables : ~isSensitive(v.name)

(* What is deferred can be resolved at each run: a variable in the bag, or *)
(* a secret the host supports; and a prompt is deferred where the host     *)
(* can, whatever was expanded before, unless a refusal left its index.     *)
DeferredCanBeResolved ==
  Done =>
    /\ \A i \in Became("deferred") : \A name \in Names(i) :
         \/ \E v \in expansion.variables : v.name = name /\ ~isSensitive(name)
         \/ [name |-> name, source |-> "secret"] \in expansion.bindings /\ expansion.host.secretsSupported
    /\ \A i \in DOMAIN expansion.fields :
         /\ expansion.fields[i].at = "prompt" /\ ~expansion.fields[i].nested /\ Names(i) # {}
         /\ expansion.host.promptVariableSource /\ expansion.from = 0
         => i \in Became("deferred")

(* "expansion MUST NOT merge policies": the parent keeps the first.        *)
PolicyNeverMerged == settings = firstSettings

(* The three hold whatever was expanded before in the same process.        *)
ChainsExpandSoundly == SensitiveStaysOut /\ DeferredCanBeResolved /\ PolicyNeverMerged

-----------------------------------------------------------------------------
(***************************************************************************)
(* expandChainTree: a chain whose nodes name sub-chains is expanded with   *)
(* all of them, depth first. One step is one turn of expandOne. A child is *)
(* registered under an id minted of its chain's id, in which '.' and '_'   *)
(* are the same.                                                           *)
(***************************************************************************)
CONSTANTS
  Chains,      \* every chain a node may name
  Slug,        \* Slug[c]: the id minted for c
  Root,
  RefsOfChain, \* per chain, the references its nodes may have: sequences
  MaxDepths    \* values of ctx.maxDepth

ASSUME TreeAssumption ==
  /\ Root \in Chains /\ RefsOfChain \subseteq Seq(Chains) /\ MaxDepths \subseteq Nat
  /\ "none" \notin Chains

VARIABLES
  subRefs,      \* subRefs[c]: subChainRefsInNodes of c, in order
  declared,  \* declared[c]: subChains of c
  siblings,  \* the chains of the pack
  maxDepth,
  lacking,   \* the chain with an activity the host lacks, if any
  stack,     \* the calls under way: [chain, next]
  children,  \* the registered children, in order
  expanded   \* "running", "expanded" or the code of the error

treeVars == <<subRefs, declared, siblings, maxDepth, lacking, stack, children, expanded>>

pack == <<subRefs, declared, siblings, maxDepth, lacking>>
onStack == {stack[i].chain : i \in DOMAIN stack}
Top == stack[Len(stack)]
Registered == {Slug[children[i]] : i \in DOMAIN children}

-----------------------------------------------------------------------------
Fail(code) == expanded' = code /\ UNCHANGED <<pack, stack, children>>

(* expandOne is entered: too deep first, then a cycle.                     *)
Enter(chain) ==
  IF Len(stack) > maxDepth THEN Fail("sub_chain_max_depth_exceeded")
  ELSE IF chain \in onStack THEN Fail("sub_chain_cycle")
  ELSE /\ stack' = Append(stack, [chain |-> chain, next |-> 1])
       /\ UNCHANGED <<pack, children, expanded>>

EnterRoot == stack = <<>> /\ expanded = "running" /\ Enter(Root)

Resolves(chain, ref) == ref \in declared[chain] /\ ref \in siblings

(* A child already registered is not entered again.                        *)
Known(ref) == Slug[ref] \in Registered

NextRef ==
  /\ expanded = "running" /\ stack # <<>> /\ Top.next <= Len(subRefs[Top.chain])
  /\ LET ref == subRefs[Top.chain][Top.next] IN
     IF ~Resolves(Top.chain, ref) THEN Fail("sub_chain_unresolved")
     ELSE IF Known(ref)
     THEN /\ stack' = [stack EXCEPT ![Len(stack)].next = @ + 1]
          /\ UNCHANGED <<pack, children, expanded>>
     ELSE Enter(ref)

(* The call is done: its own fragment is expanded, its references become   *)
(* ids of workflows, and the caller registers it and goes on.              *)
Leave ==
  /\ expanded = "running" /\ stack # <<>> /\ Top.next > Len(subRefs[Top.chain])
  /\ IF Top.chain = lacking THEN Fail("chain_unresolvable_typeid")
     ELSE IF Len(stack) = 1
     THEN stack' = <<>> /\ expanded' = "expanded" /\ UNCHANGED <<pack, children>>
     ELSE /\ stack' = [Front(stack) EXCEPT ![Len(stack) - 1].next = @ + 1]
          /\ children' = Append(children, Top.chain)
          /\ UNCHANGED <<pack, expanded>>

-----------------------------------------------------------------------------
TreeInit ==
  /\ subRefs \in [Chains -> RefsOfChain] /\ maxDepth \in MaxDepths
  /\ lacking \in Chains \cup {"none"}
  /\ \E wanting \in IF lacking = "none" THEN Chains \cup {"none"} ELSE {"none"} :
       \/ siblings = Chains \ {wanting} /\ declared = [c \in Chains |-> ToSet(subRefs[c])]
       \/ siblings = Chains /\ declared = [c \in Chains |-> ToSet(subRefs[c]) \ {wanting}]
  /\ stack = <<>> /\ children = <<>> /\ expanded = "running"

TreeNext == EnterRoot \/ NextRef \/ Leave

TreeSpec == TreeInit /\ [][TreeNext]_treeVars

-----------------------------------------------------------------------------
(* What is named from some chains on, and the chains of references from    *)
(* the root that are n long.                                               *)
Refs(chain) == ToSet(subRefs[chain])
ClosedUnderRefs(all) == \A chain \in all : Refs(chain) \subseteq all
From(some) == {c \in Chains : \A all \in SUBSET Chains : some \subseteq all /\ ClosedUnderRefs(all) => c \in all}
PathsOf(n) ==
  {p \in [1..n -> Chains] : p[1] = Root /\ \A i \in 1..(n - 1) : p[i + 1] \in Refs(p[i])}

Alike(c, d) == Slug[c] = Slug[d]
Reached == From({Root})
Cyclic == \E c \in Reached : c \in From(Refs(c))

(* Two chains reached share an id: the second is then left out.            *)
Collision == \E c, d \in Reached : c # d /\ Alike(c, d)

(* An expansion is whole: every chain that is named is registered, after   *)
(* the chains it names, and none names itself; and each refusal has its    *)
(* cause. ("children": "bottom-up order", "the transitive closure".)       *)
TreeIsWhole ==
  /\ expanded = "expanded" /\ ~Collision =>
       /\ ToSet(children) = Reached \ {Root} /\ ~Cyclic
       /\ \A c \in Reached : Refs(c) \subseteq declared[c]
       /\ \A i \in DOMAIN children : \A d \in Refs(children[i]) :
            \E j \in 1..(i - 1) : children[j] = d
  /\ expanded = "sub_chain_cycle" => Cyclic
  /\ expanded = "sub_chain_max_depth_exceeded" => PathsOf(maxDepth + 2) # {}
  /\ expanded = "sub_chain_unresolved" =>
       \E c \in Reached : Refs(c) \ (declared[c] \cap siblings) # {}
  /\ expanded = "chain_unresolvable_typeid" => lacking \in Reached
=============================================================================
