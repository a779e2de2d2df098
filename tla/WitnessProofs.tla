----------------------------- MODULE WitnessProofs -----------------------------
(***************************************************************************)
(* Machines of the harness that fake no party: that a chain is expanded    *)
(* soundly and with its whole tree, whatever fields it has and whatever    *)
(* chains name each other (the rewriting goes field by field, so what holds*)
(* of it is shown by induction on their number); that the witnesses of the *)
(* fan-out, of linked runs and of a host's slots, and the stress of the    *)
(* soak, are true whatever a host answers and in whatever order.           *)
(***************************************************************************)
EXTENDS ChainExpansion, FanOut, LinkedRuns, RunResources, SoakRunners, FiniteSetTheorems, SequenceTheorems,
        WellFoundedInduction, TLAPS

(* The least natural number of a set. *)
LEMMA LeastNatural ==
  ASSUME NEW T, T \subseteq Nat, T # {}
  PROVE  \E n \in T : \A m \in T : n <= m
<1> DEFINE less == OpToRel(<, Nat)
<1>1. IsWellFoundedOn(less, Nat)
  BY NatLessThanWellFounded
<1>2. \A x, y \in Nat : y < x => <<y, x>> \in less
  BY DEF OpToRel
<1> HIDE DEF less
<1>3. PICK x \in T : \A y \in T : ~ (<<y, x>> \in less)
  BY <1>1, WFMin, Zenon
<1>4. \A m \in T : x <= m
  <2>1. ASSUME NEW m \in T PROVE x <= m
    <3>1. x \in Nat /\ m \in Nat /\ ~ (m < x)
      BY <1>2, <1>3
    <3>2. QED
      BY <3>1
  <2>2. QED
    BY <2>1
<1>5. QED
  BY <1>3, <1>4

(* What holds of no number and is inherited from each number to the next   *)
(* has no least exception: the exceptions are a set.                       *)
LEMMA NoException ==
  ASSUME NEW bad, bad \subseteq Nat, 0 \notin bad,
         \A n \in Nat : n \notin bad => n + 1 \notin bad
  PROVE  bad = {}
<1> SUFFICES ASSUME bad # {} PROVE FALSE
  OBVIOUS
<1>1. PICK k \in bad : \A m \in bad : k <= m
  BY LeastNatural
<1>2. k \in Nat /\ k # 0 /\ k - 1 \in Nat /\ (k - 1) + 1 = k /\ ~ (k <= k - 1)
  BY <1>1
<1>3. k - 1 \notin bad
  BY <1>1, <1>2
<1>4. QED
  BY <1>1, <1>2, <1>3

-----------------------------------------------------------------------------
(* The fields of a call, one after another.                                *)
NodeStep(g, n, fields, host, index) ==
  IF n = 0 THEN Begin(index) ELSE rewriteNode(g[n - 1], fields[n], host)
UpTo(fields, host, index) ==
  CHOOSE g : g = [n \in 0..Len(fields) |-> NodeStep(g, n, fields, host, index)]

LEMMA RewrittenIsUpTo ==
  ASSUME NEW fields, NEW host, NEW index
  PROVE  Rewritten(fields, host, index) = UpTo(fields, host, index)[Len(fields)]
BY DEF Rewritten, UpTo, NodeStep

LEMMA UpToExists ==
  ASSUME NEW fields, NEW host, NEW index, NEW m \in Nat
  PROVE  \E g : g = [n \in 0..m |-> NodeStep(g, n, fields, host, index)]
<1> DEFINE bad == {k \in Nat : ~ \E g : g = [n \in 0..k |-> NodeStep(g, n, fields, host, index)]}
<1>1. 0 \notin bad
  <2> DEFINE z == [n \in 0..0 |-> Begin(index)]
  <2>1. z = [n \in 0..0 |-> NodeStep(z, n, fields, host, index)]
    BY DEF NodeStep
  <2> HIDE DEF z
  <2>2. QED
    BY <2>1
<1>2. ASSUME NEW k \in Nat, k \notin bad PROVE k + 1 \notin bad
  <2>1. PICK g : g = [n \in 0..k |-> NodeStep(g, n, fields, host, index)]
    BY <1>2
  <2> DEFINE h == [n \in 0..(k + 1) |-> NodeStep(g, n, fields, host, index)]
  <2>2. \A n \in 0..k : h[n] = g[n]
    <3>1. \A n \in 0..k : g[n] = NodeStep(g, n, fields, host, index)
      BY <2>1
    <3>2. QED
      BY <3>1
  <2>3. \A n \in 0..(k + 1) : NodeStep(g, n, fields, host, index) = NodeStep(h, n, fields, host, index)
    <3> SUFFICES ASSUME NEW n \in 0..(k + 1)
                 PROVE  NodeStep(g, n, fields, host, index) = NodeStep(h, n, fields, host, index)
      OBVIOUS
    <3>1. CASE n = 0
      BY <3>1 DEF NodeStep
    <3>2. CASE n # 0
      <4>1. n - 1 \in 0..k
        BY <3>2
      <4>2. g[n - 1] = h[n - 1]
        BY <2>2, <4>1
      <4> HIDE DEF h
      <4>3. QED
        BY <3>2, <4>2 DEF NodeStep
    <3>3. QED
      BY <3>1, <3>2
  <2>4. h = [n \in 0..(k + 1) |-> NodeStep(h, n, fields, host, index)]
    <3>1. \A n \in 0..(k + 1) : h[n] = NodeStep(h, n, fields, host, index)
      BY <2>3, Zenon
    <3>2. DOMAIN h = 0..(k + 1) /\ h = [n \in 0..(k + 1) |-> h[n]]
      BY Zenon
    <3> HIDE DEF h
    <3>3. QED
      BY <3>1, <3>2, Zenon
  <2> HIDE DEF h
  <2>5. QED
    BY <2>4
<1>3. bad = {}
  <2> HIDE DEF bad
  <2>1. bad \subseteq Nat
    BY DEF bad
  <2>2. QED
    BY <1>1, <1>2, <2>1, NoException
<1>4. QED
  BY <1>3

LEMMA UpToSteps ==
  ASSUME NEW fields, Len(fields) \in Nat, NEW host, NEW index
  PROVE  \A n \in 0..Len(fields) :
           UpTo(fields, host, index)[n] = NodeStep(UpTo(fields, host, index), n, fields, host, index)
<1> DEFINE G == UpTo(fields, host, index)
<1>1. G = [n \in 0..Len(fields) |-> NodeStep(G, n, fields, host, index)]
  BY UpToExists DEF UpTo
<1> HIDE DEF G
<1>2. \A n \in 0..Len(fields) : G[n] = NodeStep(G, n, fields, host, index)
  BY <1>1
<1>3. QED
  BY <1>2 DEF G

LEMMA RangeIsToSet == \A s : Range(s) = {s[i] : i \in DOMAIN s}
BY DEF Range

(* What is known of a call that has rewritten n of the fields and was not  *)
(* refused.                                                                *)
Outs == {"frozen", "deferred"}
IsState(acc) ==
  DOMAIN acc = {"index", "used", "bindings", "out", "error"} /\ acc.out \in Seq(Outs)

FrozenIsAllowed(field, host) ==
  Range(field.tokens) \cap SensitiveParams # {} =>
    \/ field.nested
    \/ field.at = "prompt" /\ ~host.promptVariableSource

DeferredIsKept(field, acc, host) ==
  \A name \in Range(field.tokens) :
    \/ name \in acc.used /\ ~isSensitive(name)
    \/ [name |-> name, source |-> "secret"] \in acc.bindings /\ host.secretsSupported

MustDefer(field, host, index) ==
  /\ field.at = "prompt" /\ ~field.nested /\ Range(field.tokens) # {}
  /\ host.promptVariableSource /\ index = 0

RewrittenSoFar(acc, n, fields, host, index) ==
  /\ Len(acc.out) = n
  /\ \A i \in 1..n :
       /\ acc.out[i] = "frozen" => FrozenIsAllowed(fields[i], host)
       /\ acc.out[i] = "deferred" => DeferredIsKept(fields[i], acc, host)
       /\ MustDefer(fields[i], host, index) => acc.out[i] = "deferred"
  /\ \A b \in acc.bindings : b.source = "secret" <=> isSensitive(b.name)
  /\ index = 0 => acc.index = 0

(* Rewriting one more field. *)
NextState(next, acc, field, host, index) ==
  /\ IsState(next)
  /\ next.error = "none" =>
       \E what \in {"frozen", "deferred"} :
         /\ next.out = Append(acc.out, what)
         /\ acc.used \subseteq next.used /\ acc.bindings \subseteq next.bindings
         /\ what = "frozen" => FrozenIsAllowed(field, host)
         /\ what = "deferred" => DeferredIsKept(field, next, host)
         /\ MustDefer(field, host, index) => what = "deferred"
         /\ \A b \in next.bindings : b \in acc.bindings \/ (b.source = "secret" <=> isSensitive(b.name))
         /\ index = 0 => next.index = 0

LEMMA IsRefused ==
  ASSUME NEW acc, IsState(acc), NEW index, NEW field, NEW host, NEW from
  PROVE  NextState(Refuse(acc, index), acc, field, host, from)
  BY DEF Refuse, NextState, IsState

LEMMA AppendedOut ==
  ASSUME NEW acc, IsState(acc), NEW what \in Outs
  PROVE  Append(acc.out, what) \in Seq(Outs)
  BY DEF IsState

LEMMA SubstituteFacts ==
  ASSUME NEW acc, IsState(acc), NEW field \in Fields
  PROVE  /\ IsState(substitute(acc, field))
         /\ substitute(acc, field).out = Append(acc.out, "frozen")
         /\ substitute(acc, field).used = acc.used
         /\ substitute(acc, field).bindings = acc.bindings
         /\ acc.index = 0 => substitute(acc, field).index = 0
<1>1. Append(acc.out, "frozen") \in Seq(Outs)
  BY AppendedOut DEF Outs
<1>2. QED
  BY <1>1 DEF substitute, IsState

LEMMA Restarted ==
  ASSUME NEW acc, IsState(acc)
  PROVE  LET from == [acc EXCEPT !.index = 0] IN
         /\ IsState(from) /\ from.index = 0 /\ from.out = acc.out
         /\ from.used = acc.used /\ from.bindings = acc.bindings
  BY DEF IsState

LEMMA FieldFacts ==
  ASSUME NEW field \in Fields
  PROVE  /\ field.lead \in Nat /\ DOMAIN field.tokens = 1..Len(field.tokens) /\ Len(field.tokens) \in Nat
         /\ field.whole => field.tokens[1] \in Range(field.tokens) /\ Range(field.tokens) = {field.tokens[1]}
<1>1. field.lead \in Nat /\ field.tokens \in Seq(Range(field.tokens)) /\ (field.whole => Len(field.tokens) = 1)
  BY FieldAssumption
<1>2. DOMAIN field.tokens = 1..Len(field.tokens) /\ Len(field.tokens) \in Nat
  BY <1>1
<1>3. Range(field.tokens) = {field.tokens[i] : i \in DOMAIN field.tokens}
  BY RangeIsToSet
<1>4. QED
  BY <1>1, <1>2, <1>3

LEMMA SensitiveInFacts ==
  ASSUME NEW field \in Fields
  PROVE  SensitiveIn(field) = {} => Range(field.tokens) \cap SensitiveParams = {}
  BY RangeIsToSet DEF SensitiveIn, isSensitive

LEMMA TextIsRewritten ==
  ASSUME NEW acc, IsState(acc), NEW field \in Fields, NEW host \in Hosts, NEW index,
         index = 0 => acc.index = 0, ~MustDefer(field, host, index)
  PROVE  NextState(rewriteText(acc, field), acc, field, host, index)
<1>1. CASE ~field.nested /\ SensitiveIn(field) # {}
  <2>1. rewriteText(acc, field) = Refuse(acc, StartOf(field, Min(SensitiveIn(field))) + 1)
    BY <1>1 DEF rewriteText
  <2>2. QED
    BY <2>1, IsRefused
<1>2. CASE ~(~field.nested /\ SensitiveIn(field) # {})
  <2> DEFINE from == [acc EXCEPT !.index = 0]
  <2>1. rewriteText(acc, field) = substitute(from, field)
    BY <1>2 DEF rewriteText
  <2>2. IsState(from) /\ from.index = 0 /\ from.out = acc.out /\ from.used = acc.used
        /\ from.bindings = acc.bindings
    BY Restarted
  <2>3. FrozenIsAllowed(field, host)
    BY <1>2, SensitiveInFacts DEF FrozenIsAllowed
  <2> HIDE DEF from
  <2>4. QED
    BY <2>1, <2>2, <2>3, SubstituteFacts DEF NextState
<1>3. QED
  BY <1>1, <1>2

LEMMA PromptIsRewritten ==
  ASSUME NEW acc, IsState(acc), NEW field \in Fields, NEW host \in Hosts, NEW index,
         index = 0 => acc.index = 0, field.at = "prompt", ~field.nested
  PROVE  NextState(rewritePrompt(acc, field, host), acc, field, host, index)
<1> DEFINE names == Range(field.tokens)
           next == rewritePrompt(acc, field, host)
<1>1. CASE ~host.promptVariableSource
  <2> DEFINE from == [acc EXCEPT !.index = 0]
  <2>1. next = substitute(from, field)
    BY <1>1 DEF rewritePrompt
  <2>2. IsState(from) /\ from.index = 0 /\ from.out = acc.out /\ from.used = acc.used
        /\ from.bindings = acc.bindings
    BY Restarted
  <2>3. FrozenIsAllowed(field, host) /\ ~MustDefer(field, host, index)
    BY <1>1 DEF FrozenIsAllowed, MustDefer
  <2> HIDE DEF from
  <2>4. QED
    BY <2>1, <2>2, <2>3, SubstituteFacts DEF NextState
<1>2. CASE host.promptVariableSource /\ ~host.secretsSupported /\ \E name \in names : isSensitive(name)
  <2>1. next = Refuse(acc, 0)
    BY <1>2 DEF rewritePrompt
  <2>2. QED
    BY <2>1, IsRefused
<1>3. CASE host.promptVariableSource /\ (host.secretsSupported \/ ~ \E name \in names : isSensitive(name))
  <2> DEFINE added == {[name |-> name, source |-> IF isSensitive(name) THEN "secret"
                                                          ELSE "variable"] : name \in names}
  <2>1. next = [acc EXCEPT !.index = 0, !.used = acc.used \cup names, !.out = Append(acc.out, "deferred"),
                           !.bindings = acc.bindings \cup added]
    BY <1>3 DEF rewritePrompt
  <2>4. \A b \in added : b.source = "secret" <=> isSensitive(b.name)
    OBVIOUS
  <2>5. \A name \in names : isSensitive(name) => [name |-> name, source |-> "secret"] \in added
    OBVIOUS
  <2> HIDE DEF added, names
  <2>6. Append(acc.out, "deferred") \in Seq(Outs)
    BY AppendedOut DEF Outs
  <2> HIDE DEF next
  <2>7. /\ IsState(next) /\ next.out = Append(acc.out, "deferred") /\ next.index = 0
        /\ next.used = acc.used \cup names /\ next.bindings = acc.bindings \cup added
    BY <2>1, <2>6 DEF IsState
  <2>8. DeferredIsKept(field, next, host)
    BY <1>3, <2>5, <2>7 DEF DeferredIsKept, names
  <2>9. \A b \in next.bindings : b \in acc.bindings \/ (b.source = "secret" <=> isSensitive(b.name))
    BY <2>4, <2>7
  <2>10. acc.used \subseteq next.used /\ acc.bindings \subseteq next.bindings
    BY <2>7
  <2> HIDE DEF next
  <2>11. NextState(next, acc, field, host, index)
    BY <2>7, <2>8, <2>9, <2>10, Zenon DEF NextState
  <2>12. QED
    BY <2>11 DEF next
<1>4. QED
  BY <1>1, <1>2, <1>3 DEF Hosts

LEMMA InputIsRewritten ==
  ASSUME NEW acc, IsState(acc), NEW field \in Fields, NEW host \in Hosts, NEW index,
         index = 0 => acc.index = 0, field.at = "input"
  PROVE  NextState(rewriteInputs(acc, field), acc, field, host, index)
<1> DEFINE next == rewriteInputs(acc, field)
<1>0. ~MustDefer(field, host, index)
  BY DEF MustDefer
<1>1. CASE ~field.whole \/ field.nested
  BY <1>0, <1>1, TextIsRewritten DEF rewriteInputs
<1>2. CASE field.whole /\ ~field.nested /\ isSensitive(field.tokens[1])
  <2>1. next = Refuse(acc, acc.index)
    BY <1>2 DEF rewriteInputs
  <2>2. QED
    BY <2>1, IsRefused
<1>3. CASE field.whole /\ ~field.nested /\ ~isSensitive(field.tokens[1])
  <2>1. next = [acc EXCEPT !.used = acc.used \cup {field.tokens[1]}, !.out = Append(acc.out, "deferred")]
    BY <1>3 DEF rewriteInputs
  <2>2. Range(field.tokens) = {field.tokens[1]}
    BY <1>3, FieldFacts
  <2>3. Append(acc.out, "deferred") \in Seq(Outs)
    BY AppendedOut DEF Outs
  <2> HIDE DEF next
  <2>4. /\ IsState(next) /\ next.out = Append(acc.out, "deferred") /\ next.index = acc.index
        /\ next.used = acc.used \cup {field.tokens[1]} /\ next.bindings = acc.bindings
    BY <2>1, <2>3 DEF IsState
  <2>5. DeferredIsKept(field, next, host)
    BY <1>3, <2>2, <2>4 DEF DeferredIsKept
  <2>6. acc.used \subseteq next.used /\ acc.bindings \subseteq next.bindings
    BY <2>4
  <2>7. NextState(next, acc, field, host, index)
    BY <1>0, <2>4, <2>5, <2>6, Zenon DEF NextState
  <2>8. QED
    BY <2>7 DEF next
<1>4. QED
  BY <1>1, <1>2, <1>3

LEMMA NodeIsRewritten ==
  ASSUME NEW acc, IsState(acc), acc.error = "none", NEW field \in Fields, NEW host \in Hosts,
         NEW index, index = 0 => acc.index = 0
  PROVE  NextState(rewriteNode(acc, field, host), acc, field, host, index)
<1>1. CASE field.at = "input"
  BY <1>1, InputIsRewritten DEF rewriteNode
<1>2. CASE field.at # "input" /\ field.at = "prompt" /\ ~field.nested /\ TokensFrom(field, acc.index) # {}
  BY <1>2, PromptIsRewritten DEF rewriteNode, rewriteConfig
<1>3. CASE field.at # "input" /\ ~(field.at = "prompt" /\ ~field.nested /\ TokensFrom(field, acc.index) # {})
  <2>1. ASSUME MustDefer(field, host, index) PROVE FALSE
    <3>1. acc.index = 0 /\ Range(field.tokens) # {} /\ TokensFrom(field, acc.index) = {}
      BY <1>3, <2>1 DEF MustDefer
    <3>2. PICK i \in DOMAIN field.tokens : TRUE
      BY <3>1, RangeIsToSet
    <3>3. StartOf(field, i) >= 0
      BY <3>2, FieldFacts DEF StartOf
    <3>4. QED
      BY <3>1, <3>2, <3>3 DEF TokensFrom
  <2>2. QED
    BY <1>3, <2>1, TextIsRewritten DEF rewriteNode, rewriteConfig
<1>4. QED
  BY <1>1, <1>2, <1>3

LEMMA OneMoreIsRewritten ==
  ASSUME NEW fields \in Seq(Fields), NEW host \in Hosts, NEW index, NEW n \in Nat, n + 1 <= Len(fields),
         NEW acc, IsState(acc), RewrittenSoFar(acc, n, fields, host, index),
         NEW next, NextState(next, acc, fields[n + 1], host, index), next.error = "none"
  PROVE  RewrittenSoFar(next, n + 1, fields, host, index)
<1>1. PICK what \in {"frozen", "deferred"} :
         /\ next.out = Append(acc.out, what)
         /\ acc.used \subseteq next.used /\ acc.bindings \subseteq next.bindings
         /\ what = "frozen" => FrozenIsAllowed(fields[n + 1], host)
         /\ what = "deferred" => DeferredIsKept(fields[n + 1], next, host)
         /\ MustDefer(fields[n + 1], host, index) => what = "deferred"
         /\ \A b \in next.bindings : b \in acc.bindings \/ (b.source = "secret" <=> isSensitive(b.name))
         /\ index = 0 => next.index = 0
  BY DEF NextState
<1>2. acc.out \in Seq(Outs) /\ Len(acc.out) = n
  BY DEF IsState, RewrittenSoFar
<1>3. /\ Len(next.out) = n + 1 /\ next.out[n + 1] = what
      /\ \A i \in 1..n : next.out[i] = acc.out[i]
  BY <1>1, <1>2 DEF Outs
<1>4. ASSUME NEW i \in 1..(n + 1)
      PROVE  /\ next.out[i] = "frozen" => FrozenIsAllowed(fields[i], host)
             /\ next.out[i] = "deferred" => DeferredIsKept(fields[i], next, host)
             /\ MustDefer(fields[i], host, index) => next.out[i] = "deferred"
  <2>1. CASE i = n + 1
    BY <1>1, <1>3, <2>1
  <2>2. CASE i # n + 1
    <3>1. i \in 1..n /\ next.out[i] = acc.out[i]
      BY <1>3, <2>2
    <3>2. DeferredIsKept(fields[i], acc, host) => DeferredIsKept(fields[i], next, host)
      BY <1>1 DEF DeferredIsKept
    <3>3. QED
      BY <3>1, <3>2 DEF RewrittenSoFar
  <2>3. QED
    BY <2>1, <2>2
<1>5. \A b \in next.bindings : b.source = "secret" <=> isSensitive(b.name)
  BY <1>1 DEF RewrittenSoFar
<1>6. QED
  BY <1>1, <1>3, <1>4, <1>5 DEF RewrittenSoFar

LEMMA AllAreRewritten ==
  ASSUME NEW fields \in Seq(Fields), NEW host \in Hosts, NEW index
  PROVE  LET built == Rewritten(fields, host, index) IN
         built.error = "none" => IsState(built) /\ RewrittenSoFar(built, Len(fields), fields, host, index)
<1> DEFINE u == UpTo(fields, host, index)
           Fine(n) == IsState(u[n]) /\ (u[n].error = "none" => RewrittenSoFar(u[n], n, fields, host, index))
           bad == {n \in Nat : n <= Len(fields) /\ ~Fine(n)}
<1>0. Len(fields) \in Nat
  OBVIOUS
<1>1. \A n \in 0..Len(fields) : u[n] = NodeStep(u, n, fields, host, index)
  BY <1>0, UpToSteps
<1> HIDE DEF u
<1>2. 0 \notin bad
  <2>1. u[0] = Begin(index)
    BY <1>0, <1>1 DEF NodeStep
  <2>2. IsState(Begin(index)) /\ RewrittenSoFar(Begin(index), 0, fields, host, index)
    BY DEF Begin, IsState, RewrittenSoFar
  <2>3. QED
    BY <2>1, <2>2
<1>3. ASSUME NEW n \in Nat, n \notin bad PROVE n + 1 \notin bad
  <2> SUFFICES ASSUME n + 1 <= Len(fields) PROVE Fine(n + 1)
    OBVIOUS
  <2>1. Fine(n) /\ n \in 0..Len(fields) /\ n + 1 \in 0..Len(fields) /\ fields[n + 1] \in Fields
    BY <1>0, <1>3
  <2>2. u[n + 1] = rewriteNode(u[n], fields[n + 1], host)
    <3>1. (n + 1) # 0 /\ (n + 1) - 1 = n
      OBVIOUS
    <3>2. QED
      BY <1>1, <2>1, <3>1 DEF NodeStep
  <2>3. CASE u[n].error # "none"
    BY <2>1, <2>2, <2>3 DEF rewriteNode
  <2>4. CASE u[n].error = "none"
    <3>1. RewrittenSoFar(u[n], n, fields, host, index) /\ IsState(u[n])
      BY <2>1, <2>4
    <3>2. index = 0 => u[n].index = 0
      BY <3>1 DEF RewrittenSoFar
    <3>3. NextState(u[n + 1], u[n], fields[n + 1], host, index)
      BY <2>1, <2>2, <2>4, <3>1, <3>2, NodeIsRewritten
    <3>4. IsState(u[n + 1])
      BY <3>3 DEF NextState
    <3>5. u[n + 1].error = "none" => RewrittenSoFar(u[n + 1], n + 1, fields, host, index)
      BY <3>1, <3>3, OneMoreIsRewritten
    <3>6. QED
      BY <3>4, <3>5
  <2>5. QED
    BY <2>3, <2>4
<1>4. bad = {}
  <2> HIDE DEF bad
  <2>1. bad \subseteq Nat
    BY DEF bad
  <2>2. QED
    BY <1>2, <1>3, <2>1, NoException
<1>5. Fine(Len(fields))
  BY <1>0, <1>4
<1>6. QED
  BY <1>5, RewrittenIsUpTo DEF u

-----------------------------------------------------------------------------
ChainInv == ChainsExpandSoundly

LEMMA ChainInvInit == ChainInit => ChainInv
  BY DEF ChainInit, ChainInv, ChainsExpandSoundly, SensitiveStaysOut, DeferredCanBeResolved,
         PolicyNeverMerged, Done

(* A call leaves an expansion that is sound, or the error.                 *)
LEMMA DeferredExpandsSoundly ==
  ASSUME NEW fields \in Seq(Fields), NEW host \in Hosts, expandChainDeferred(fields, host)
  PROVE  SensitiveStaysOut' /\ DeferredCanBeResolved'
<1> DEFINE built == Rewritten(fields, host, lastIndex)
           ex == expansion'
<1>1. ex = [fields |-> fields, host |-> host, from |-> lastIndex, error |-> built.error,
            out |-> built.out, bindings |-> built.bindings, variables |-> Variables(built),
            configurableSchema |-> built.used]
  BY DEF expandChainDeferred
<1>2. built.error = "none" => IsState(built) /\ RewrittenSoFar(built, Len(fields), fields, host, lastIndex)
  BY AllAreRewritten
<1> HIDE DEF built
<1>3. /\ ex.fields = fields /\ ex.host = host /\ ex.from = lastIndex /\ ex.error = built.error
      /\ ex.out = built.out /\ ex.bindings = built.bindings /\ ex.variables = Variables(built)
  BY <1>1
<1> HIDE DEF ex
<1>4. SUFFICES ASSUME built.error = "none"
               PROVE  SensitiveStaysOut' /\ DeferredCanBeResolved'
  BY <1>3 DEF SensitiveStaysOut, DeferredCanBeResolved, Done, ex
<1>5. DOMAIN built.out = 1..Len(fields) /\ DOMAIN fields = 1..Len(fields)
  BY <1>2, <1>4 DEF IsState, RewrittenSoFar
<1>6. \A i \in 1..Len(fields) :
        /\ built.out[i] = "frozen" => FrozenIsAllowed(fields[i], host)
        /\ built.out[i] = "deferred" => DeferredIsKept(fields[i], built, host)
        /\ MustDefer(fields[i], host, lastIndex) => built.out[i] = "deferred"
  BY <1>2, <1>4 DEF RewrittenSoFar
<1>7. \A b \in built.bindings : b.source = "secret" <=> isSensitive(b.name)
  BY <1>2, <1>4 DEF RewrittenSoFar
<1>8. /\ \A v \in Variables(built) : ~isSensitive(v.name)
      /\ \A name \in built.used : ~isSensitive(name) => \E v \in Variables(built) : v.name = name
  <2>1. \A v \in Variables(built) : \E name \in built.used \ SensitiveParams :
          v = [name |-> name, default |-> name \in SuppliedParams]
    BY DEF Variables
  <2>2. \A name \in built.used \ SensitiveParams :
          [name |-> name, default |-> name \in SuppliedParams] \in Variables(built)
    BY DEF Variables
  <2>3. \A name : [name |-> name, default |-> name \in SuppliedParams].name = name
    OBVIOUS
  <2>4. QED
    BY <2>1, <2>2, <2>3 DEF isSensitive
<1>9. SensitiveStaysOut'
  <2>1. \A i \in 1..Len(fields) : ex.out[i] = "frozen" =>
          (Range(ex.fields[i].tokens) \cap SensitiveParams # {} =>
             ex.fields[i].nested \/ (ex.fields[i].at = "prompt" /\ ~ex.host.promptVariableSource))
    BY <1>3, <1>6 DEF FrozenIsAllowed
  <2>2. (\A b \in ex.bindings : b.source = "secret" <=> isSensitive(b.name))
        /\ (\A v \in ex.variables : ~isSensitive(v.name))
    BY <1>3, <1>7, <1>8
  <2>3. DOMAIN ex.out = 1..Len(fields)
    BY <1>3, <1>5
  <2>4. QED
    BY <2>1, <2>2, <2>3 DEF SensitiveStaysOut, Became, Names, isSensitive, ex
<1>10. DeferredCanBeResolved'
  <2>1. \A i \in 1..Len(fields) : ex.out[i] = "deferred" => \A name \in Range(ex.fields[i].tokens) :
          \/ \E v \in ex.variables : v.name = name /\ ~isSensitive(name)
          \/ [name |-> name, source |-> "secret"] \in ex.bindings /\ ex.host.secretsSupported
    BY <1>3, <1>6, <1>8 DEF DeferredIsKept
  <2>2. \A i \in 1..Len(fields) :
          /\ ex.fields[i].at = "prompt" /\ ~ex.fields[i].nested /\ Range(ex.fields[i].tokens) # {}
          /\ ex.host.promptVariableSource /\ ex.from = 0
          => ex.out[i] = "deferred"
    BY <1>3, <1>6 DEF MustDefer
  <2>3. DOMAIN ex.out = 1..Len(fields) /\ DOMAIN ex.fields = 1..Len(fields)
    BY <1>3, <1>5
  <2>4. QED
    BY <2>1, <2>2, <2>3 DEF DeferredCanBeResolved, Became, Names, isSensitive, ex
<1>11. QED
  BY <1>9, <1>10

LEMMA SeqOfIsSeq == ASSUME NEW S, NEW n \in Nat PROVE SeqOf(S, n) \subseteq Seq(S)
  BY DEF SeqOf

LEMMA ChainInvStep == ChainInv /\ [ChainNext]_chainVars => ChainInv'
<1> SUFFICES ASSUME ChainInv, [ChainNext]_chainVars PROVE ChainInv'
  OBVIOUS
<1>0. (expansion' = Idle) => SensitiveStaysOut' /\ DeferredCanBeResolved'
  BY DEF SensitiveStaysOut, DeferredCanBeResolved, Done
<1>1. ASSUME NEW fields \in SeqOf(Fields, MaxFields), NEW host \in Hosts, expandChainDeferred(fields, host)
      PROVE  ChainInv'
  <2>1. fields \in Seq(Fields)
    BY SeqOfIsSeq, FieldAssumption
  <2>2. PolicyNeverMerged'
    BY <1>1 DEF expandChainDeferred, PolicyNeverMerged, ChainInv, ChainsExpandSoundly
  <2>3. QED
    BY <1>1, <2>1, <2>2, DeferredExpandsSoundly DEF ChainInv, ChainsExpandSoundly
<1>2. ASSUME NEW fields, NEW nodes, NEW carried, expandChainWithCompensation(fields, nodes, carried)
      PROVE  ChainInv'
  <2>1. expansion' = Idle
    BY <1>2 DEF expandChainWithCompensation, expandChain
  <2>2. PolicyNeverMerged'
    BY <1>2 DEF expandChainWithCompensation, Carried, PolicyNeverMerged, ChainInv, ChainsExpandSoundly
  <2>3. QED
    BY <1>0, <2>1, <2>2 DEF ChainInv, ChainsExpandSoundly
<1>3. CASE Taken
  BY <1>0, <1>3 DEF Taken, ChainInv, ChainsExpandSoundly, PolicyNeverMerged
<1>4. CASE UNCHANGED chainVars
  BY <1>4 DEF chainVars, ChainInv, ChainsExpandSoundly, PolicyNeverMerged, SensitiveStaysOut,
              DeferredCanBeResolved, Done, Became, Names, isSensitive
<1>5. QED
  BY <1>1, <1>2, <1>3, <1>4 DEF ChainNext

LEMMA ChainInvIsEnough == ChainInv => ChainsExpandSoundly
  BY DEF ChainInv

(* workflow-chain-expansion.ts: however many chains of however many fields *)
(* one process has expanded before, what an expansion leaves behind holds  *)
(* no sensitive value that a deferral should keep out, defers nothing that *)
(* no run can resolve, and leaves the parent the policy it had.            *)
THEOREM ExpansionsAreSound == ChainSpec => []ChainsExpandSoundly
  BY ChainInvInit, ChainInvStep, ChainInvIsEnough, PTL DEF ChainSpec

-----------------------------------------------------------------------------
(* A chain with its whole tree of sub-chains.                              *)
Frame == [chain : Chains, next : Nat \ {0}]

TreeTyped ==
  /\ subRefs \in [Chains -> Seq(Chains)] /\ maxDepth \in Nat
  /\ stack \in Seq(Frame) /\ children \in Seq(Chains)

(* One call stands over the root's, unless the expansion ended, each for   *)
(* another chain, and none for one that is registered.                     *)
StackIsSimple ==
  /\ stack # <<>> => stack[1].chain = Root /\ expanded # "expanded"
  /\ stack = <<>> /\ expanded # "expanded" => children = <<>>
  /\ Len(stack) <= maxDepth + 1
  /\ \A i, j \in 1..Len(stack) : i # j => stack[i].chain # stack[j].chain
  /\ \A i \in 1..Len(stack) : \A k \in 1..Len(children) : stack[i].chain # children[k]
  /\ \A k \in 1..Len(children) : children[k] # Root
  /\ \A k, l \in 1..Len(children) : k # l => children[k] # children[l]

(* Every call is under way, and every child was, because of a reference.   *)
CallsAreReached ==
  /\ \A i \in 1..Len(stack) : stack[i].chain \in Reached
  /\ \A k \in 1..Len(children) : children[k] \in Reached
  /\ \A i, j \in 1..Len(stack) : i < j => stack[j].chain \in From(Refs(stack[i].chain))

(* The references of a chain before the n-th are declared, and each shares *)
(* its id with one of the first m children.                                *)
HandledBefore(chain, n, m) ==
  \A k \in 1..Len(subRefs[chain]) : k < n =>
    /\ subRefs[chain][k] \in declared[chain]
    /\ \E j \in 1..m : Alike(children[j], subRefs[chain][k])

RefsAreHandled ==
  /\ \A i \in 1..Len(stack) : HandledBefore(stack[i].chain, stack[i].next, Len(children))
  /\ \A i \in 1..(Len(stack) - 1) :
       /\ stack[i].next <= Len(subRefs[stack[i].chain])
       /\ subRefs[stack[i].chain][stack[i].next] = stack[i + 1].chain
       /\ stack[i + 1].chain \in declared[stack[i].chain]
  /\ \A k \in 1..Len(children) : HandledBefore(children[k], Len(subRefs[children[k]]) + 1, k - 1)
  /\ expanded = "expanded" => HandledBefore(Root, Len(subRefs[Root]) + 1, Len(children))

RefusalsHaveCause ==
  /\ expanded = "sub_chain_cycle" => Cyclic
  /\ expanded = "sub_chain_max_depth_exceeded" => PathsOf(maxDepth + 2) # {}
  /\ expanded = "sub_chain_unresolved" => \E c \in Reached : Refs(c) \ (declared[c] \cap siblings) # {}
  /\ expanded = "chain_unresolvable_typeid" => lacking \in Reached

TreeInv ==
  TreeTyped /\ StackIsSimple /\ CallsAreReached /\ RefsAreHandled /\ RefusalsHaveCause

-----------------------------------------------------------------------------
LEMMA RefsFacts ==
  ASSUME TreeTyped, NEW chain \in Chains
  PROVE  /\ Refs(chain) \subseteq Chains
         /\ Len(subRefs[chain]) \in Nat
         /\ \A n \in 1..Len(subRefs[chain]) : subRefs[chain][n] \in Refs(chain)
         /\ \A ref \in Refs(chain) : \E n \in 1..Len(subRefs[chain]) : ref = subRefs[chain][n]
<1>1. subRefs[chain] \in Seq(Chains)
  BY DEF TreeTyped
<1>2. QED
  BY <1>1 DEF Refs, ToSet

LEMMA FromFacts ==
  ASSUME TreeTyped, NEW some \in SUBSET Chains
  PROVE  /\ some \subseteq From(some) /\ From(some) \subseteq Chains
         /\ \A chain \in From(some) : Refs(chain) \subseteq From(some)
         /\ \A all \in SUBSET Chains : some \subseteq all /\ ClosedUnderRefs(all) => From(some) \subseteq all
<1>1. ASSUME NEW chain \in From(some), NEW ref \in Refs(chain) PROVE ref \in From(some)
  <2>1. chain \in Chains /\ ref \in Chains
    BY RefsFacts DEF From
  <2>2. ASSUME NEW all \in SUBSET Chains, some \subseteq all, ClosedUnderRefs(all) PROVE ref \in all
    BY <2>2 DEF From, ClosedUnderRefs
  <2>3. QED
    BY <2>1, <2>2 DEF From
<1>2. QED
  BY <1>1 DEF From

LEMMA ReachedFacts ==
  ASSUME TreeTyped
  PROVE  /\ Root \in Reached /\ Reached \subseteq Chains
         /\ \A chain \in Reached : Refs(chain) \subseteq Reached
         /\ \A all \in SUBSET Chains : Root \in all /\ ClosedUnderRefs(all) => Reached \subseteq all
<1>1. {Root} \in SUBSET Chains
  BY TreeAssumption
<1>2. QED
  BY <1>1, FromFacts, ZenonT(40) DEF Reached

LEMMA FramesAreTyped ==
  ASSUME TreeTyped
  PROVE  /\ Len(stack) \in Nat /\ Len(children) \in Nat
         /\ \A i \in 1..Len(stack) : stack[i] \in Frame /\ stack[i].chain \in Chains
                                     /\ stack[i].next \in Nat /\ stack[i].next # 0
         /\ \A k \in 1..Len(children) : children[k] \in Chains
         /\ stack # <<>> => Len(stack) \in 1..Len(stack)
<1>1. stack \in Seq(Frame) /\ children \in Seq(Chains)
  BY DEF TreeTyped
<1>2. \A i \in 1..Len(stack) : stack[i] \in Frame
  BY <1>1
<1>3. QED
  BY <1>1, <1>2 DEF Frame

LEMMA TreeInvInit == TreeInit => TreeInv
<1> SUFFICES ASSUME TreeInit PROVE TreeInv
  OBVIOUS
<1>1. stack = <<>> /\ children = <<>> /\ expanded = "running" /\ maxDepth \in Nat
  BY TreeAssumption DEF TreeInit
<1>2. subRefs \in [Chains -> Seq(Chains)]
  BY TreeAssumption DEF TreeInit
<1>3. TreeTyped
  BY <1>1, <1>2 DEF TreeTyped
<1>4. QED
  BY <1>1, <1>3
  DEF TreeInv, StackIsSimple, CallsAreReached, RefsAreHandled, RefusalsHaveCause

(* What hangs on the references alone does not change.                     *)
LEMMA SameRefs ==
  ASSUME UNCHANGED pack
  PROVE  /\ \A chain : Refs(chain)' = Refs(chain)
         /\ \A some : From(some)' = From(some)
         /\ Reached' = Reached /\ Cyclic' = Cyclic
         /\ \A n : PathsOf(n)' = PathsOf(n)
<1>1. subRefs' = subRefs
  BY DEF pack
<1>2. \A chain : Refs(chain)' = Refs(chain)
  BY <1>1 DEF Refs
<1>3. \A all : ClosedUnderRefs(all)' = ClosedUnderRefs(all)
  BY <1>2 DEF ClosedUnderRefs
<1>4. \A some : From(some)' = From(some)
  BY <1>3 DEF From
<1>5. \A n : PathsOf(n)' = PathsOf(n)
  BY <1>2 DEF PathsOf
<1>6. Reached' = Reached
  BY <1>4 DEF Reached
<1>7. Cyclic' = Cyclic
  BY <1>2, <1>4, <1>6 DEF Cyclic
<1>8. QED
  BY <1>2, <1>4, <1>5, <1>6, <1>7

(* A call is entered.                                                      *)
LEMMA EnterKeeps ==
  ASSUME TreeInv, NEW ref \in Chains, expanded = "running",
         \/ stack = <<>> /\ ref = Root
         \/ /\ stack # <<>> /\ Top.next <= Len(subRefs[Top.chain])
            /\ ref = subRefs[Top.chain][Top.next] /\ ref \in declared[Top.chain]
            /\ \A k \in 1..Len(children) : children[k] # ref,
         Len(stack) <= maxDepth, ref \notin onStack,
         stack' = Append(stack, [chain |-> ref, next |-> 1]), UNCHANGED <<pack, children, expanded>>
  PROVE  TreeInv'
<1> DEFINE n == Len(stack)
<1>0. TreeTyped /\ StackIsSimple /\ CallsAreReached /\ RefsAreHandled /\ RefusalsHaveCause
  BY DEF TreeInv
<1>1. /\ subRefs' = subRefs /\ declared' = declared /\ maxDepth' = maxDepth /\ siblings' = siblings
      /\ lacking' = lacking /\ children' = children /\ expanded' = expanded
  BY DEF pack
<1>2. /\ n \in Nat /\ stack' \in Seq(Frame) /\ Len(stack') = n + 1
      /\ stack'[n + 1].chain = ref /\ stack'[n + 1].next = 1
      /\ \A i \in 1..n : stack'[i] = stack[i]
  <2>1. stack \in Seq(Frame) /\ [chain |-> ref, next |-> 1] \in Frame
    BY <1>0 DEF TreeTyped, Frame
  <2>2. QED
    BY <2>1
<1>3. \A i \in 1..n : stack[i].chain # ref
  BY <1>0, FramesAreTyped DEF onStack, TreeTyped
<1>4. n = 0 => ref = Root /\ children = <<>>
  BY <1>0, <1>2 DEF StackIsSimple, TreeTyped
<1>5. n # 0 => /\ n \in 1..n /\ stack[n].next <= Len(subRefs[stack[n].chain])
               /\ ref = subRefs[stack[n].chain][stack[n].next] /\ ref \in declared[stack[n].chain]
               /\ \A k \in 1..Len(children) : children[k] # ref
               /\ stack[n].chain \in Chains /\ ref \in Refs(stack[n].chain)
  <2>1. n # 0 => stack # <<>> /\ n \in 1..n
    BY <1>2
  <2>2. n # 0 => stack[n].chain \in Chains /\ stack[n].next \in Nat /\ stack[n].next # 0
    BY <1>0, <2>1, FramesAreTyped
  <2>3. n # 0 => /\ stack[n].next <= Len(subRefs[stack[n].chain])
                 /\ ref = subRefs[stack[n].chain][stack[n].next] /\ ref \in declared[stack[n].chain]
                 /\ \A k \in 1..Len(children) : children[k] # ref
    BY <2>1 DEF Top
  <2>4. QED
    BY <1>0, <2>1, <2>2, <2>3, RefsFacts
<1>6. \A k \in 1..Len(children) : children[k] # ref
  <2>1. n = 0 => Len(children) = 0
    BY <1>4
  <2>2. QED
    BY <1>5, <2>1
<1>7. \A i \in 1..(n + 1) : i \in 1..n \/ i = n + 1
  BY <1>2
<1>8. TreeTyped'
  BY <1>0, <1>1, <1>2 DEF TreeTyped
<1>9. StackIsSimple'
  <2>1. stack' # <<>> /\ expanded' # "expanded"
    BY <1>1, <1>2
  <2>2. stack'[1].chain = Root
    <3>1. CASE n = 0
      BY <1>2, <1>4, <3>1
    <3>2. CASE n # 0
      BY <1>0, <1>2, <3>2 DEF StackIsSimple
    <3>3. QED
      BY <3>1, <3>2
  <2>3. Len(stack') <= maxDepth' + 1
    BY <1>0, <1>1, <1>2 DEF TreeTyped
  <2>4. \A i, j \in 1..Len(stack') : i # j => stack'[i].chain # stack'[j].chain
    BY <1>0, <1>2, <1>3, <1>7 DEF StackIsSimple
  <2>5. \A i \in 1..Len(stack') : \A k \in 1..Len(children) : stack'[i].chain # children[k]
    BY <1>0, <1>2, <1>6, <1>7 DEF StackIsSimple
  <2>6. /\ \A k \in 1..Len(children) : children[k] # Root
        /\ \A k, l \in 1..Len(children) : k # l => children[k] # children[l]
    BY <1>0 DEF StackIsSimple
  <2>7. QED
    BY <1>1, <2>1, <2>2, <2>3, <2>4, <2>5, <2>6 DEF StackIsSimple
<1>10. CallsAreReached'
  <2>1. ref \in Reached
    BY <1>0, <1>4, <1>5, ReachedFacts DEF CallsAreReached
  <2>2. \A i \in 1..n : ref \in From(Refs(stack[i].chain))
    <3>1. ASSUME NEW i \in 1..n PROVE ref \in From(Refs(stack[i].chain))
      <4>1. stack[i].chain \in Chains /\ Refs(stack[i].chain) \in SUBSET Chains
        BY <1>0, FramesAreTyped, RefsFacts
      <4>2. n # 0
        OBVIOUS
      <4>3. CASE i = n
        BY <1>0, <1>5, <4>1, <4>2, <4>3, FromFacts
      <4>4. CASE i # n
        <5>1. i < n
          BY <1>2, <4>4
        <5>2. stack[n].chain \in From(Refs(stack[i].chain))
          BY <1>0, <1>5, <4>2, <5>1 DEF CallsAreReached
        <5>3. QED
          BY <1>0, <1>5, <4>1, <4>2, <5>2, FromFacts
      <4>5. QED
        BY <4>3, <4>4
    <3>2. QED
      BY <3>1
  <2>3. \A i \in 1..Len(stack') : stack'[i].chain \in Reached
    BY <1>0, <1>2, <1>7, <2>1 DEF CallsAreReached
  <2>4. \A i, j \in 1..Len(stack') : i < j => stack'[j].chain \in From(Refs(stack'[i].chain))
    <3>1. ASSUME NEW i \in 1..Len(stack'), NEW j \in 1..Len(stack'), i < j
          PROVE  stack'[j].chain \in From(Refs(stack'[i].chain))
      <4>1. i \in 1..n /\ stack'[i] = stack[i]
        BY <1>2, <3>1
      <4>2. CASE j = n + 1
        BY <1>2, <2>2, <4>1, <4>2
      <4>3. CASE j # n + 1
        BY <1>0, <1>2, <1>7, <3>1, <4>1, <4>3 DEF CallsAreReached
      <4>4. QED
        BY <4>2, <4>3
    <3>2. QED
      BY <3>1
  <2>5. \A k \in 1..Len(children) : children[k] \in Reached
    BY <1>0 DEF CallsAreReached
  <2>6. QED
    BY <1>1, <2>3, <2>4, <2>5, SameRefs DEF CallsAreReached
<1>11. RefsAreHandled'
  <2>0. \A chain, k, m : HandledBefore(chain, k, m)' = HandledBefore(chain, k, m)
    BY <1>1 DEF HandledBefore, Alike
  <2>1. \A m : HandledBefore(ref, 1, m)
    <3>1. \A k \in 1..Len(subRefs[ref]) : ~(k < 1)
      BY <1>0, RefsFacts
    <3>2. QED
      BY <3>1 DEF HandledBefore
  <2>2. \A i \in 1..Len(stack') : HandledBefore(stack'[i].chain, stack'[i].next, Len(children))
    BY <1>0, <1>2, <1>7, <2>1 DEF RefsAreHandled
  <2>3. \A i \in 1..(Len(stack') - 1) :
           /\ stack'[i].next <= Len(subRefs[stack'[i].chain])
           /\ subRefs[stack'[i].chain][stack'[i].next] = stack'[i + 1].chain
           /\ stack'[i + 1].chain \in declared[stack'[i].chain]
    <3>1. ASSUME NEW i \in 1..n
          PROVE  /\ stack'[i].next <= Len(subRefs[stack'[i].chain])
                 /\ subRefs[stack'[i].chain][stack'[i].next] = stack'[i + 1].chain
                 /\ stack'[i + 1].chain \in declared[stack'[i].chain]
      <4>1. CASE i = n
        BY <1>2, <1>5, <4>1
      <4>2. CASE i # n
        <5>1. i \in 1..(n - 1) /\ i + 1 \in 1..n
          BY <1>2, <4>2
        <5>2. QED
          BY <1>0, <1>2, <5>1 DEF RefsAreHandled
      <4>3. QED
        BY <4>1, <4>2
    <3>2. QED
      BY <1>2, <3>1
  <2>4. \A k \in 1..Len(children) : HandledBefore(children[k], Len(subRefs[children[k]]) + 1, k - 1)
    BY <1>0 DEF RefsAreHandled
  <2>5. QED
    BY <1>1, <2>0, <2>2, <2>3, <2>4 DEF RefsAreHandled
<1>12. RefusalsHaveCause'
  BY <1>1 DEF RefusalsHaveCause
<1>13. QED
  BY <1>8, <1>9, <1>10, <1>11, <1>12 DEF TreeInv

(* The call on top, while the expansion runs.                              *)
LEMMA TopFacts ==
  ASSUME TreeInv, stack # <<>>
  PROVE  /\ Len(stack) \in Nat /\ Len(stack) >= 1 /\ Len(stack) \in 1..Len(stack)
         /\ Top = stack[Len(stack)] /\ Top \in Frame
         /\ Top.chain \in Chains /\ Top.chain \in Reached /\ Top.next \in Nat /\ Top.next # 0
         /\ HandledBefore(Top.chain, Top.next, Len(children))
<1>1. TreeTyped /\ CallsAreReached /\ RefsAreHandled
  BY DEF TreeInv
<1>2. Len(stack) \in Nat /\ Len(stack) \in 1..Len(stack)
  BY <1>1, FramesAreTyped
<1>3. QED
  BY <1>1, <1>2, FramesAreTyped DEF Top, CallsAreReached, RefsAreHandled

(* The next reference, which has another id than those before, or not.     *)
LEMMA NextRefFacts ==
  ASSUME TreeInv, stack # <<>>, Top.next <= Len(subRefs[Top.chain])
  PROVE  /\ Top.next \in 1..Len(subRefs[Top.chain])
         /\ subRefs[Top.chain][Top.next] \in Refs(Top.chain)
         /\ subRefs[Top.chain][Top.next] \in Chains
<1>1. TreeTyped
  BY DEF TreeInv
<1>2. Len(subRefs[Top.chain]) \in Nat /\ Top.next \in Nat /\ Top.next # 0 /\ Top.chain \in Chains
  BY <1>1, TopFacts, RefsFacts
<1>3. Top.next \in 1..Len(subRefs[Top.chain])
  BY <1>2
<1>4. QED
  BY <1>1, <1>2, <1>3, RefsFacts

LEMMA KnownFacts ==
  ASSUME TreeInv, NEW ref
  PROVE  Known(ref) <=> \E k \in 1..Len(children) : Alike(children[k], ref)
<1>1. children \in Seq(Chains)
  BY DEF TreeInv, TreeTyped
<1>2. DOMAIN children = 1..Len(children)
  BY <1>1
<1>3. QED
  BY <1>2 DEF Known, Registered, Alike

(* A reference is known: the call goes on.                                 *)
LEMMA GoingOnKeeps ==
  ASSUME TreeInv, expanded = "running", stack # <<>>, Top.next <= Len(subRefs[Top.chain]),
         subRefs[Top.chain][Top.next] \in declared[Top.chain], Known(subRefs[Top.chain][Top.next]),
         stack' = [stack EXCEPT ![Len(stack)].next = @ + 1], UNCHANGED <<pack, children, expanded>>
  PROVE  TreeInv'
<1> DEFINE n == Len(stack)
<1>0. TreeTyped /\ StackIsSimple /\ CallsAreReached /\ RefsAreHandled /\ RefusalsHaveCause
  BY DEF TreeInv
<1>1. /\ subRefs' = subRefs /\ declared' = declared /\ maxDepth' = maxDepth /\ siblings' = siblings
      /\ lacking' = lacking /\ children' = children /\ expanded' = expanded
  BY DEF pack
<1>2. n \in Nat /\ n >= 1 /\ n \in 1..n /\ Top = stack[n] /\ Top \in Frame /\ Top.next \in Nat
  BY TopFacts
<1>3. /\ stack' \in Seq(Frame) /\ Len(stack') = n /\ DOMAIN stack' = 1..n /\ DOMAIN stack = 1..n
      /\ \A i \in 1..n : i # n => stack'[i] = stack[i]
      /\ stack'[n] = [stack[n] EXCEPT !.next = @ + 1]
  <2>1. stack \in Seq(Frame)
    BY <1>0 DEF TreeTyped
  <2>2. [stack[n] EXCEPT !.next = @ + 1] \in Frame
    BY <1>2 DEF Frame
  <2>3. stack' = [stack EXCEPT ![n] = [stack[n] EXCEPT !.next = @ + 1]]
    OBVIOUS
  <2>4. QED
    BY <1>2, <2>1, <2>2, <2>3
<1>4. /\ \A i \in 1..n : stack'[i].chain = stack[i].chain
      /\ stack'[n].next = stack[n].next + 1
  <2>1. stack'[n].chain = stack[n].chain /\ stack'[n].next = stack[n].next + 1
    BY <1>2, <1>3 DEF Frame
  <2>2. QED
    BY <1>3, <2>1
<1>5. TreeTyped'
  BY <1>0, <1>1, <1>3 DEF TreeTyped
<1>6. StackIsSimple'
  <2>1. stack' # <<>> /\ stack'[1].chain = Root
    BY <1>0, <1>2, <1>3, <1>4 DEF StackIsSimple
  <2>2. QED
    BY <1>0, <1>1, <1>3, <1>4, <2>1 DEF StackIsSimple
<1>7. CallsAreReached'
  <2>1. \A i, j \in 1..n : i < j => stack'[j].chain \in From(Refs(stack'[i].chain))
    BY <1>0, <1>4 DEF CallsAreReached
  <2>2. \A i \in 1..n : stack'[i].chain \in Reached
    BY <1>0, <1>4 DEF CallsAreReached
  <2>3. \A k \in 1..Len(children) : children[k] \in Reached
    BY <1>0 DEF CallsAreReached
  <2>4. QED
    BY <1>1, <1>3, <2>1, <2>2, <2>3, SameRefs DEF CallsAreReached
<1>8. RefsAreHandled'
  <2>0. \A chain, k, m : HandledBefore(chain, k, m)' = HandledBefore(chain, k, m)
    BY <1>1 DEF HandledBefore, Alike
  <2>1. HandledBefore(stack[n].chain, stack[n].next + 1, Len(children))
    <3>1. \E j \in 1..Len(children) : Alike(children[j], subRefs[stack[n].chain][stack[n].next])
      BY <1>2, KnownFacts
    <3>2. HandledBefore(stack[n].chain, stack[n].next, Len(children))
      BY <1>2, TopFacts
    <3>3. subRefs[stack[n].chain][stack[n].next] \in declared[stack[n].chain]
      BY <1>2
    <3>4. Len(subRefs[stack[n].chain]) \in Nat /\ stack[n].next \in Nat
      BY <1>0, <1>2, TopFacts, RefsFacts
    <3>5. ASSUME NEW k \in 1..Len(subRefs[stack[n].chain]), k < stack[n].next + 1
          PROVE  k < stack[n].next \/ k = stack[n].next
      BY <3>4, <3>5
    <3>6. QED
      BY <3>1, <3>2, <3>3, <3>5 DEF HandledBefore
  <2>2. \A i \in 1..n : HandledBefore(stack'[i].chain, stack'[i].next, Len(children))
    <3>1. ASSUME NEW i \in 1..n PROVE HandledBefore(stack'[i].chain, stack'[i].next, Len(children))
      <4>1. CASE i = n
        BY <1>4, <2>1, <4>1
      <4>2. CASE i # n
        BY <1>0, <1>3, <4>2 DEF RefsAreHandled
      <4>3. QED
        BY <4>1, <4>2
    <3>2. QED
      BY <3>1
  <2>3. \A i \in 1..(n - 1) :
           /\ stack'[i].next <= Len(subRefs[stack'[i].chain])
           /\ subRefs[stack'[i].chain][stack'[i].next] = stack'[i + 1].chain
           /\ stack'[i + 1].chain \in declared[stack'[i].chain]
    <3>1. \A i \in 1..(n - 1) : i \in 1..n /\ i # n /\ i + 1 \in 1..n
      BY <1>2
    <3>2. QED
      BY <1>0, <1>3, <1>4, <3>1 DEF RefsAreHandled
  <2>4. \A k \in 1..Len(children) : HandledBefore(children[k], Len(subRefs[children[k]]) + 1, k - 1)
    BY <1>0 DEF RefsAreHandled
  <2>5. QED
    BY <1>1, <1>3, <2>0, <2>2, <2>3, <2>4 DEF RefsAreHandled
<1>9. RefusalsHaveCause'
  BY <1>1 DEF RefusalsHaveCause
<1>10. QED
  BY <1>5, <1>6, <1>7, <1>8, <1>9 DEF TreeInv

(* The root's call is done: so is the expansion.                           *)
LEMMA EndKeeps ==
  ASSUME TreeInv, expanded = "running", stack # <<>>, Top.next > Len(subRefs[Top.chain]),
         Len(stack) = 1, stack' = <<>>, expanded' = "expanded", UNCHANGED <<pack, children>>
  PROVE  TreeInv'
<1>0. TreeTyped /\ StackIsSimple /\ CallsAreReached /\ RefsAreHandled /\ RefusalsHaveCause
  BY DEF TreeInv
<1>1. /\ subRefs' = subRefs /\ declared' = declared /\ maxDepth' = maxDepth /\ siblings' = siblings
      /\ lacking' = lacking /\ children' = children
  BY DEF pack
<1>2. Top.chain = Root /\ HandledBefore(Root, Top.next, Len(children)) /\ Top.next \in Nat
  BY <1>0, TopFacts DEF StackIsSimple
<1>3. HandledBefore(Root, Len(subRefs[Root]) + 1, Len(children))
  <2>1. Len(subRefs[Root]) \in Nat
    BY <1>0, TreeAssumption, RefsFacts
  <2>2. \A k \in 1..Len(subRefs[Root]) : k < Top.next
    BY <1>2, <2>1
  <2>3. QED
    BY <1>2, <2>2 DEF HandledBefore
<1>4. stack' \in Seq(Frame) /\ Len(stack') = 0
  OBVIOUS
<1>5. TreeTyped'
  BY <1>0, <1>1, <1>4 DEF TreeTyped
<1>6. StackIsSimple'
  <2>1. Len(stack') <= maxDepth' + 1
    BY <1>0, <1>1, <1>4 DEF TreeTyped
  <2>2. /\ \A k \in 1..Len(children) : children[k] # Root
        /\ \A k, l \in 1..Len(children) : k # l => children[k] # children[l]
    BY <1>0 DEF StackIsSimple
  <2>3. \A i \in 1..Len(stack') : FALSE
    BY <1>4
  <2>4. expanded' = "expanded" /\ stack' = <<>>
    OBVIOUS
  <2>5. QED
    BY <1>1, <2>1, <2>2, <2>3, <2>4 DEF StackIsSimple
<1>7. CallsAreReached'
  BY <1>0, <1>1, <1>4, SameRefs DEF CallsAreReached
<1>8. RefsAreHandled'
  <2>0. \A chain, k, m : HandledBefore(chain, k, m)' = HandledBefore(chain, k, m)
    BY <1>1 DEF HandledBefore, Alike
  <2>1. QED
    BY <1>0, <1>1, <1>3, <1>4, <2>0 DEF RefsAreHandled
<1>9. RefusalsHaveCause'
  BY DEF RefusalsHaveCause
<1>10. QED
  BY <1>5, <1>6, <1>7, <1>8, <1>9 DEF TreeInv

LEMMA FrameGoesOn ==
  ASSUME NEW frame \in Frame
  PROVE  /\ [frame EXCEPT !.next = @ + 1] \in Frame
         /\ [frame EXCEPT !.next = @ + 1].chain = frame.chain
         /\ [frame EXCEPT !.next = @ + 1].next = frame.next + 1
BY DEF Frame

(* A call under another is done: its chain is registered.                  *)
LEMMA ReturnKeeps ==
  ASSUME TreeInv, expanded = "running", stack # <<>>, Top.next > Len(subRefs[Top.chain]),
         Len(stack) # 1, stack' = [Front(stack) EXCEPT ![Len(stack) - 1].next = @ + 1],
         children' = Append(children, Top.chain), UNCHANGED <<pack, expanded>>
  PROVE  TreeInv'
<1> DEFINE n == Len(stack)
           m == Len(children)
           Handled(chain, bound, l) ==
             \A k \in 1..Len(subRefs[chain]) : k < bound =>
               /\ subRefs[chain][k] \in declared[chain]
               /\ \E j \in 1..l : Alike(children'[j], subRefs[chain][k])
<1>0. TreeTyped /\ StackIsSimple /\ CallsAreReached /\ RefsAreHandled /\ RefusalsHaveCause
  BY DEF TreeInv
<1>1. /\ subRefs' = subRefs /\ declared' = declared /\ maxDepth' = maxDepth /\ siblings' = siblings
      /\ lacking' = lacking /\ expanded' = expanded
  BY DEF pack
<1>2. /\ n \in Nat /\ n >= 2 /\ n \in 1..n /\ n - 1 \in 1..n /\ Top = stack[n] /\ Top.next \in Nat
      /\ Top.chain \in Chains /\ Top.chain \in Reached /\ m \in Nat
  <2>1. n \in Nat /\ n >= 1 /\ n # 1
    BY TopFacts
  <2>2. n >= 2 /\ n \in 1..n /\ n - 1 \in 1..n
    <3>1. \A x \in Nat : x >= 1 /\ x # 1 => x >= 2 /\ x \in 1..x /\ x - 1 \in 1..x
      OBVIOUS
    <3>2. QED
      BY <2>1, <3>1
  <2>3. Top = stack[n] /\ Top.next \in Nat /\ Top.chain \in Chains /\ Top.chain \in Reached
    BY TopFacts
  <2>4. m \in Nat
    BY <1>0, FramesAreTyped
  <2>5. QED
    BY <2>1, <2>2, <2>3, <2>4
<1>3. /\ stack' \in Seq(Frame) /\ Len(stack') = n - 1
      /\ \A i \in 1..(n - 1) : i # n - 1 => stack'[i] = stack[i]
      /\ stack'[n - 1] = [stack[n - 1] EXCEPT !.next = @ + 1]
  <2>1. stack \in Seq(Frame) /\ stack[n - 1] \in Frame
    BY <1>0, <1>2, FramesAreTyped DEF TreeTyped
  <2>2. [stack[n - 1] EXCEPT !.next = @ + 1] \in Frame
    BY <2>1, FrameGoesOn
  <2>3. /\ Front(stack) \in Seq(Frame) /\ Len(Front(stack)) = n - 1
        /\ \A i \in 1..(n - 1) : Front(stack)[i] = stack[i]
    BY <1>2, <2>1 DEF Front
  <2>4. stack' = [Front(stack) EXCEPT ![n - 1] = [stack[n - 1] EXCEPT !.next = @ + 1]]
    <3>1. n - 1 \in 1..(n - 1)
      BY <1>2
    <3>2. Front(stack)[n - 1] = stack[n - 1]
      BY <2>3, <3>1
    <3>3. stack' = [Front(stack) EXCEPT ![n - 1] = [Front(stack)[n - 1] EXCEPT !.next = @ + 1]]
      OBVIOUS
    <3>4. QED
      BY <3>2, <3>3
  <2>5. DOMAIN Front(stack) = 1..(n - 1) /\ n - 1 \in 1..(n - 1)
    BY <1>2, <2>3
  <2>6. QED
    BY <1>2, <2>2, <2>3, <2>4, <2>5
<1>4. /\ \A i \in 1..(n - 1) : stack'[i].chain = stack[i].chain
      /\ stack'[n - 1].next = stack[n - 1].next + 1
  <2>1. stack[n - 1] \in Frame
    BY <1>0, <1>2, FramesAreTyped
  <2>2. stack'[n - 1].chain = stack[n - 1].chain /\ stack'[n - 1].next = stack[n - 1].next + 1
    BY <1>3, <2>1, SMTT(30) DEF Frame
  <2>3. QED
    BY <1>3, <2>2
<1>5. /\ children' \in Seq(Chains) /\ Len(children') = m + 1 /\ children'[m + 1] = Top.chain
      /\ \A k \in 1..m : children'[k] = children[k]
      /\ \A k \in 1..(m + 1) : k \in 1..m \/ k = m + 1
  <2>1. children \in Seq(Chains)
    BY <1>0 DEF TreeTyped
  <2>2. QED
    BY <1>2, <2>1
<1>6. \A i \in 1..(n - 1) : i \in 1..n /\ i # n /\ (i # n - 1 => i \in 1..(n - 2))
  BY <1>2
<1>7. TreeTyped'
  BY <1>0, <1>1, <1>3, <1>5 DEF TreeTyped
<1>8. StackIsSimple'
  <2>1. stack'[1].chain = Root /\ stack' # <<>> /\ expanded' # "expanded"
    <3>1. stack[1].chain = Root /\ 1 \in 1..(n - 1)
      BY <1>0, <1>2 DEF StackIsSimple
    <3>2. stack' # <<>>
      BY <1>2, <1>3
    <3>3. QED
      BY <1>1, <1>4, <3>1, <3>2
  <2>2. Len(stack') <= maxDepth' + 1
    BY <1>0, <1>1, <1>2, <1>3 DEF StackIsSimple, TreeTyped
  <2>3. \A i, j \in 1..Len(stack') : i # j => stack'[i].chain # stack'[j].chain
    BY <1>0, <1>3, <1>4, <1>6 DEF StackIsSimple
  <2>4. \A i \in 1..(n - 1) : stack[i].chain # Top.chain
    BY <1>0, <1>2, <1>6 DEF StackIsSimple
  <2>5. \A i \in 1..Len(stack') : \A k \in 1..(m + 1) : stack'[i].chain # children'[k]
    BY <1>0, <1>3, <1>4, <1>5, <1>6, <2>4 DEF StackIsSimple
  <2>6. Top.chain # Root
    BY <1>0, <1>2 DEF StackIsSimple
  <2>7. \A k \in 1..m : Top.chain # children[k]
    BY <1>0, <1>2 DEF StackIsSimple
  <2>8. /\ \A k \in 1..(m + 1) : children'[k] # Root
        /\ \A k, l \in 1..(m + 1) : k # l => children'[k] # children'[l]
    BY <1>0, <1>5, <2>6, <2>7 DEF StackIsSimple
  <2>9. QED
    BY <1>5, <2>1, <2>2, <2>3, <2>5, <2>8 DEF StackIsSimple
<1>9. CallsAreReached'
  <2>1. \A i, j \in 1..(n - 1) : i < j => stack'[j].chain \in From(Refs(stack'[i].chain))
    BY <1>0, <1>4, <1>6 DEF CallsAreReached
  <2>2. \A i \in 1..(n - 1) : stack'[i].chain \in Reached
    BY <1>0, <1>4, <1>6 DEF CallsAreReached
  <2>3. \A k \in 1..(m + 1) : children'[k] \in Reached
    BY <1>0, <1>2, <1>5 DEF CallsAreReached
  <2>4. QED
    BY <1>3, <1>5, <2>1, <2>2, <2>3, SameRefs, <1>1 DEF CallsAreReached, pack
<1>10. RefsAreHandled'
  <2>0. \A chain, k, l : l \in 0..m /\ HandledBefore(chain, k, l) => Handled(chain, k, l)
    <3>1. ASSUME NEW chain, NEW k, NEW l \in 0..m, HandledBefore(chain, k, l)
          PROVE  Handled(chain, k, l)
      <4>1. \A j \in 1..l : children'[j] = children[j]
        BY <1>2, <1>5
      <4>2. QED
        BY <3>1, <4>1 DEF HandledBefore, Alike
    <3>2. QED
      BY <3>1
  <2>1. \A chain, k : HandledBefore(chain, k, m) => Handled(chain, k, m + 1)
    <3>1. ASSUME NEW chain, NEW k, HandledBefore(chain, k, m) PROVE Handled(chain, k, m + 1)
      <4>1. \A j \in 1..m : j \in 1..(m + 1) /\ children'[j] = children[j]
        BY <1>2, <1>5
      <4>2. QED
        BY <3>1, <4>1 DEF HandledBefore, Alike
    <3>2. QED
      BY <3>1
  <2>2. /\ stack[n - 1].next \in Nat /\ stack[n - 1].chain \in Chains
        /\ Len(subRefs[stack[n - 1].chain]) \in Nat
        /\ HandledBefore(stack[n - 1].chain, stack[n - 1].next, m)
        /\ subRefs[stack[n - 1].chain][stack[n - 1].next] = Top.chain
        /\ Top.chain \in declared[stack[n - 1].chain]
    <3>1. stack[n - 1].next \in Nat /\ stack[n - 1].chain \in Chains
      BY <1>0, <1>2, FramesAreTyped
    <3>2. n - 1 \in 1..(Len(stack) - 1) /\ n - 1 + 1 = n
      BY <1>2
    <3>3. HandledBefore(stack[n - 1].chain, stack[n - 1].next, m)
      BY <1>0, <1>2 DEF RefsAreHandled
    <3>4. /\ subRefs[stack[n - 1].chain][stack[n - 1].next] = stack[n].chain
          /\ stack[n].chain \in declared[stack[n - 1].chain]
      BY <1>0, <3>2 DEF RefsAreHandled
    <3>5. QED
      BY <1>0, <1>2, <3>1, <3>3, <3>4, RefsFacts
  <2>3. Handled(stack[n - 1].chain, stack[n - 1].next + 1, m + 1)
    <3>1. Handled(stack[n - 1].chain, stack[n - 1].next, m + 1)
      BY <2>1, <2>2
    <3>2. m + 1 \in 1..(m + 1)
      BY <1>2
    <3>3. Alike(children'[m + 1], subRefs[stack[n - 1].chain][stack[n - 1].next])
      BY <1>5, <2>2 DEF Alike
    <3>4. ASSUME NEW k \in 1..Len(subRefs[stack[n - 1].chain]), k < stack[n - 1].next + 1
          PROVE  k < stack[n - 1].next \/ k = stack[n - 1].next
      BY <2>2, <3>4
    <3>5. ASSUME NEW k \in 1..Len(subRefs[stack[n - 1].chain]), k < stack[n - 1].next + 1
          PROVE  /\ subRefs[stack[n - 1].chain][k] \in declared[stack[n - 1].chain]
                 /\ \E j \in 1..(m + 1) : Alike(children'[j], subRefs[stack[n - 1].chain][k])
      <4>1. CASE k < stack[n - 1].next
        BY <3>1, <4>1
      <4>2. CASE k = stack[n - 1].next
        BY <2>2, <3>2, <3>3, <4>2
      <4>3. QED
        BY <3>4, <3>5, <4>1, <4>2
    <3>6. QED
      BY <3>5
  <2>4. HandledBefore(Top.chain, Len(subRefs[Top.chain]) + 1, m)
    <3>1. Len(subRefs[Top.chain]) \in Nat
      BY <1>0, <1>2, RefsFacts
    <3>2. \A k \in 1..Len(subRefs[Top.chain]) : k < Top.next
      BY <1>2, <3>1
    <3>3. HandledBefore(Top.chain, Top.next, m)
      BY TopFacts
    <3>4. QED
      BY <3>2, <3>3 DEF HandledBefore
  <2>5. \A i \in 1..(n - 1) : Handled(stack'[i].chain, stack'[i].next, m + 1)
    <3>1. ASSUME NEW i \in 1..(n - 1) PROVE Handled(stack'[i].chain, stack'[i].next, m + 1)
      <4>1. CASE i = n - 1
        BY <1>4, <2>3, <4>1
      <4>2. CASE i # n - 1
        <5>1. HandledBefore(stack[i].chain, stack[i].next, m)
          BY <1>0, <1>6 DEF RefsAreHandled
        <5>2. QED
          BY <1>3, <2>1, <4>2, <5>1
      <4>3. QED
        BY <4>1, <4>2
    <3>2. QED
      BY <3>1
  <2>6. \A i \in 1..(n - 2) :
           /\ stack'[i].next <= Len(subRefs[stack'[i].chain])
           /\ subRefs[stack'[i].chain][stack'[i].next] = stack'[i + 1].chain
           /\ stack'[i + 1].chain \in declared[stack'[i].chain]
    <3>1. \A i \in 1..(n - 2) : i \in 1..(n - 1) /\ i # n - 1 /\ i + 1 \in 1..(n - 1)
      BY <1>2
    <3>2. QED
      BY <1>0, <1>3, <1>4, <3>1 DEF RefsAreHandled
  <2>7. \A k \in 1..(m + 1) : Handled(children'[k], Len(subRefs[children'[k]]) + 1, k - 1)
    <3>1. ASSUME NEW k \in 1..(m + 1)
          PROVE  Handled(children'[k], Len(subRefs[children'[k]]) + 1, k - 1)
      <4>1. k - 1 \in 0..m
        BY <1>2
      <4>2. HandledBefore(children'[k], Len(subRefs[children'[k]]) + 1, k - 1)
        <5>1. CASE k = m + 1
          BY <1>2, <1>5, <2>4, <5>1
        <5>2. CASE k # m + 1
          BY <1>0, <1>5, <5>2 DEF RefsAreHandled
        <5>3. QED
          BY <5>1, <5>2
      <4>3. QED
        BY <2>0, <4>1, <4>2
    <3>2. QED
      BY <3>1
  <2>8. QED
    <3>1. Len(stack') = n - 1 /\ Len(stack') - 1 = n - 2 /\ Len(children') = m + 1 /\ expanded' # "expanded"
      BY <1>1, <1>2, <1>3, <1>5
    <3>2. \A i \in 1..Len(stack') : HandledBefore(stack[i].chain, stack[i].next, Len(children))'
      <4>1. ASSUME NEW i \in 1..Len(stack') PROVE HandledBefore(stack[i].chain, stack[i].next, Len(children))'
        <5>1. Handled(stack'[i].chain, stack'[i].next, m + 1)
          BY <2>5, <3>1
        <5>2. Handled(stack'[i].chain, stack'[i].next, Len(children'))
          BY <3>1, <5>1
        <5>3. QED
          BY <1>1, <5>2 DEF HandledBefore, Alike
      <4>2. QED
        BY <4>1
    <3>3. \A k \in 1..Len(children') :
            HandledBefore(children[k], Len(subRefs[children[k]]) + 1, k - 1)'
      BY <1>1, <2>7, <3>1, ZenonT(40) DEF HandledBefore, Alike
    <3>4. QED
      BY <1>1, <2>6, <3>1, <3>2, <3>3 DEF RefsAreHandled
<1>11. RefusalsHaveCause'
  BY <1>1 DEF RefusalsHaveCause
<1>12. QED
  BY <1>7, <1>8, <1>9, <1>10, <1>11 DEF TreeInv

(* The causes of a refusal.                                                *)
Cause(code) ==
  \/ code = "sub_chain_cycle" /\ Cyclic
  \/ code = "sub_chain_max_depth_exceeded" /\ PathsOf(maxDepth + 2) # {}
  \/ code = "sub_chain_unresolved" /\ \E c \in Reached : Refs(c) \ (declared[c] \cap siblings) # {}
  \/ code = "chain_unresolvable_typeid" /\ lacking \in Reached

LEMMA FailKeeps ==
  ASSUME TreeInv, expanded = "running", NEW code, Cause(code), Fail(code)
  PROVE  TreeInv'
<1>0. TreeTyped /\ StackIsSimple /\ CallsAreReached /\ RefsAreHandled /\ RefusalsHaveCause
  BY DEF TreeInv
<1>1. /\ subRefs' = subRefs /\ declared' = declared /\ maxDepth' = maxDepth /\ siblings' = siblings
      /\ lacking' = lacking /\ children' = children /\ stack' = stack /\ UNCHANGED pack
  BY DEF pack, Fail
<1>2. expanded' = code /\ expanded' # "expanded"
  BY DEF Fail, Cause
<1>3. TreeTyped'
  BY <1>0, <1>1 DEF TreeTyped
<1>4. StackIsSimple'
  BY <1>0, <1>1, <1>2 DEF StackIsSimple
<1>5. CallsAreReached'
  BY <1>0, <1>1, SameRefs DEF CallsAreReached
<1>6. RefsAreHandled'
  <2>1. \A chain, k, m : HandledBefore(chain, k, m)' = HandledBefore(chain, k, m)
    BY <1>1 DEF HandledBefore, Alike
  <2>2. QED
    BY <1>0, <1>1, <1>2, <2>1 DEF RefsAreHandled
<1>7. RefusalsHaveCause'
  <2>1. Cyclic' = Cyclic /\ Reached' = Reached /\ PathsOf(maxDepth + 2)' = PathsOf(maxDepth + 2)
        /\ \A c : Refs(c)' = Refs(c)
    BY <1>1, SameRefs
  <2>2. CASE code = "sub_chain_cycle"
    BY <1>2, <2>1, <2>2 DEF RefusalsHaveCause, Cause
  <2>3. CASE code = "sub_chain_max_depth_exceeded"
    BY <1>2, <2>1, <2>3 DEF RefusalsHaveCause, Cause
  <2>4. CASE code = "sub_chain_unresolved"
    <3>1. (\E c \in Reached : Refs(c) \ (declared[c] \cap siblings) # {})'
      BY <1>1, <2>1, <2>4 DEF Cause
    <3>2. QED
      BY <1>2, <2>4, <3>1 DEF RefusalsHaveCause
  <2>5. CASE code = "chain_unresolvable_typeid"
    BY <1>1, <1>2, <2>1, <2>5 DEF RefusalsHaveCause, Cause
  <2>6. QED
    BY <2>2, <2>3, <2>4, <2>5 DEF Cause
<1>8. QED
  BY <1>3, <1>4, <1>5, <1>6, <1>7 DEF TreeInv

(* A chain that is named while its call is under way names itself.         *)
LEMMA OnStackIsCyclic ==
  ASSUME TreeInv, stack # <<>>, NEW ref \in Refs(Top.chain), ref \in onStack
  PROVE  Cyclic
<1> DEFINE n == Len(stack)
<1>1. TreeTyped /\ CallsAreReached
  BY DEF TreeInv
<1>2. n \in Nat /\ n \in 1..n /\ Top = stack[n] /\ Top.chain \in Chains
  BY TopFacts
<1>3. DOMAIN stack = 1..n
  BY <1>1 DEF TreeTyped
<1>4. PICK i \in 1..n : ref = stack[i].chain
  BY <1>3 DEF onStack
<1>5. ref \in Reached /\ ref \in Chains /\ Refs(ref) \in SUBSET Chains
  BY <1>1, <1>4, FramesAreTyped, RefsFacts DEF CallsAreReached
<1>6. ref \in From(Refs(ref))
  <2>1. CASE i = n
    BY <1>1, <1>2, <1>4, <1>5, <2>1, FromFacts
  <2>2. CASE i # n
    <3>1. i < n
      BY <1>2, <2>2
    <3>2. stack[n].chain \in From(Refs(ref))
      BY <1>1, <1>2, <1>4, <3>1 DEF CallsAreReached
    <3>3. QED
      BY <1>1, <1>2, <1>5, <3>2, FromFacts
  <2>3. QED
    BY <2>1, <2>2
<1>7. QED
  BY <1>5, <1>6 DEF Cyclic

(* A stack that is full is a path of references, and the next is one more. *)
LEMMA FullStackIsPath ==
  ASSUME TreeInv, stack # <<>>, NEW ref \in Refs(Top.chain), Len(stack) > maxDepth
  PROVE  PathsOf(maxDepth + 2) # {}
<1> DEFINE n == Len(stack)
           path == [i \in 1..(n + 1) |-> IF i = n + 1 THEN ref ELSE stack[i].chain]
<1>1. TreeTyped /\ StackIsSimple /\ RefsAreHandled
  BY DEF TreeInv
<1>2. n \in Nat /\ n >= 1 /\ n \in 1..n /\ Top = stack[n] /\ Top.chain \in Chains
  BY TopFacts
<1>3. maxDepth + 2 = n + 1
  <2>1. n > maxDepth /\ n <= maxDepth + 1 /\ maxDepth \in Nat
    BY <1>1 DEF StackIsSimple, TreeTyped
  <2>2. QED
    BY <1>2, <2>1
<1>4. ref \in Chains
  BY <1>1, <1>2, RefsFacts
<1>5. \A i \in 1..n : stack[i].chain \in Chains
  BY <1>1, FramesAreTyped
<1>6. \A i \in 1..(n + 1) : i = n + 1 \/ i \in 1..n
  BY <1>2
<1>7. path \in [1..(n + 1) -> Chains]
  BY <1>4, <1>5, <1>6
<1>8. path[1] = Root
  <2>1. 1 \in 1..(n + 1) /\ 1 # n + 1
    BY <1>2
  <2>2. path[1] = stack[1].chain
    BY <2>1
  <2>3. QED
    BY <1>1, <2>2 DEF StackIsSimple
<1>9. \A i \in 1..n : path[i + 1] \in Refs(path[i])
  <2>1. ASSUME NEW i \in 1..n PROVE path[i + 1] \in Refs(path[i])
    <3>1. path[i] = stack[i].chain
      <4>1. i \in 1..(n + 1) /\ i # n + 1
        BY <1>2
      <4>2. QED
        BY <4>1
    <3>2. CASE i = n
      <4>1. n + 1 \in 1..(n + 1)
        BY <1>2
      <4>2. path[n + 1] = ref
        BY <4>1
      <4>3. QED
        BY <1>2, <3>1, <3>2, <4>2
    <3>3. CASE i # n
      <4>1. i \in 1..(n - 1) /\ i + 1 \in 1..(n + 1) /\ i + 1 # n + 1
        BY <1>2, <3>3
      <4>2. path[i + 1] = stack[i + 1].chain
        BY <4>1
      <4>3. stack[i].next <= Len(subRefs[stack[i].chain])
            /\ subRefs[stack[i].chain][stack[i].next] = stack[i + 1].chain
        BY <1>1, <4>1 DEF RefsAreHandled
      <4>4. stack[i].next \in Nat /\ stack[i].next # 0 /\ stack[i].chain \in Chains
        BY <1>1, FramesAreTyped
      <4>5. Len(subRefs[stack[i].chain]) \in Nat
        BY <1>1, <4>4, RefsFacts
      <4>6. stack[i].next \in 1..Len(subRefs[stack[i].chain])
        BY <4>3, <4>4, <4>5
      <4>7. subRefs[stack[i].chain][stack[i].next] \in Refs(stack[i].chain)
        BY <1>1, <4>4, <4>6, RefsFacts
      <4>8. QED
        BY <3>1, <4>2, <4>3, <4>7
    <3>4. QED
      BY <3>2, <3>3
  <2>2. QED
    BY <2>1
<1>10. path \in PathsOf(n + 1)
  <2>1. (n + 1) - 1 = n
    BY <1>2
  <2> HIDE DEF path, n
  <2>2. QED
    BY <1>7, <1>8, <1>9, <2>1 DEF PathsOf
<1>11. QED
  BY <1>3, <1>10

LEMMA TreeInvStep == TreeInv /\ [TreeNext]_treeVars => TreeInv'
<1> SUFFICES ASSUME TreeInv, [TreeNext]_treeVars PROVE TreeInv'
  OBVIOUS
<1>0. TreeTyped /\ StackIsSimple
  BY DEF TreeInv
<1>1. CASE UNCHANGED treeVars
  <2>1. /\ subRefs' = subRefs /\ declared' = declared /\ maxDepth' = maxDepth /\ siblings' = siblings
        /\ lacking' = lacking /\ children' = children /\ stack' = stack /\ expanded' = expanded
        /\ UNCHANGED pack
    BY <1>1 DEF treeVars, pack
  <2>2. \A chain, k, m : HandledBefore(chain, k, m)' = HandledBefore(chain, k, m)
    BY <2>1 DEF HandledBefore, Alike
  <2>3. /\ Cyclic' = Cyclic /\ Reached' = Reached /\ \A some : From(some)' = From(some)
        /\ \A n : PathsOf(n)' = PathsOf(n) /\ \A c : Refs(c)' = Refs(c)
    BY <2>1, SameRefs
  <2>4. TreeTyped' /\ StackIsSimple'
    BY <1>0, <2>1 DEF TreeTyped, StackIsSimple
  <2>5. CallsAreReached'
    BY <2>1, <2>3 DEF TreeInv, CallsAreReached
  <2>6. RefsAreHandled'
    BY <2>1, <2>2 DEF TreeInv, RefsAreHandled
  <2>7. RefusalsHaveCause'
    BY <2>1, <2>3 DEF TreeInv, RefusalsHaveCause
  <2>8. QED
    BY <2>4, <2>5, <2>6, <2>7 DEF TreeInv
<1>2. ASSUME EnterRoot PROVE TreeInv'
  <2>1. stack = <<>> /\ expanded = "running" /\ Enter(Root)
    BY <1>2 DEF EnterRoot
  <2>2. Len(stack) = 0 /\ maxDepth \in Nat /\ Len(stack) <= maxDepth /\ ~(Len(stack) > maxDepth)
    BY <1>0, <2>1 DEF TreeTyped
  <2>3. Root \notin onStack
    BY <2>1 DEF onStack
  <2>4. stack' = Append(stack, [chain |-> Root, next |-> 1]) /\ UNCHANGED <<pack, children, expanded>>
    BY <2>1, <2>2, <2>3 DEF Enter
  <2>5. QED
    BY <2>1, <2>2, <2>3, <2>4, EnterKeeps, TreeAssumption
<1>3. ASSUME NextRef PROVE TreeInv'
  <2> DEFINE ref == subRefs[Top.chain][Top.next]
  <2>1. /\ expanded = "running" /\ stack # <<>> /\ Top.next <= Len(subRefs[Top.chain])
        /\ IF ~Resolves(Top.chain, ref) THEN Fail("sub_chain_unresolved")
           ELSE IF Known(ref)
           THEN /\ stack' = [stack EXCEPT ![Len(stack)].next = @ + 1]
                /\ UNCHANGED <<pack, children, expanded>>
           ELSE Enter(ref)
    BY <1>3 DEF NextRef
  <2>2. ref \in Refs(Top.chain) /\ ref \in Chains
    BY <2>1, NextRefFacts
  <2>3. Top.chain \in Reached
    BY <2>1, TopFacts
  <2>4. CASE ~Resolves(Top.chain, ref)
    <3>1. Refs(Top.chain) \ (declared[Top.chain] \cap siblings) # {}
      BY <2>2, <2>4 DEF Resolves
    <3>2. Cause("sub_chain_unresolved")
      BY <2>3, <3>1 DEF Cause
    <3>3. QED
      BY <2>1, <2>4, <3>2, FailKeeps
  <2>5. CASE Resolves(Top.chain, ref) /\ Known(ref)
    BY <2>1, <2>5, GoingOnKeeps DEF Resolves
  <2>6. CASE Resolves(Top.chain, ref) /\ ~Known(ref) /\ Len(stack) > maxDepth
    <3>1. Cause("sub_chain_max_depth_exceeded")
      BY <2>1, <2>2, <2>6, FullStackIsPath DEF Cause
    <3>2. Fail("sub_chain_max_depth_exceeded")
      BY <2>1, <2>6 DEF Enter
    <3>3. QED
      BY <2>1, <3>1, <3>2, FailKeeps
  <2>7. CASE Resolves(Top.chain, ref) /\ ~Known(ref) /\ ~(Len(stack) > maxDepth) /\ ref \in onStack
    <3>1. Cause("sub_chain_cycle")
      BY <2>1, <2>2, <2>7, OnStackIsCyclic DEF Cause
    <3>2. Fail("sub_chain_cycle")
      BY <2>1, <2>7 DEF Enter
    <3>3. QED
      BY <2>1, <3>1, <3>2, FailKeeps
  <2>8. CASE Resolves(Top.chain, ref) /\ ~Known(ref) /\ ~(Len(stack) > maxDepth) /\ ref \notin onStack
    <3>1. stack' = Append(stack, [chain |-> ref, next |-> 1]) /\ UNCHANGED <<pack, children, expanded>>
      BY <2>1, <2>8 DEF Enter
    <3>2. Len(stack) <= maxDepth
      BY <1>0, <2>1, <2>8, TopFacts DEF TreeTyped
    <3>3. \A k \in 1..Len(children) : children[k] # ref
      BY <2>8, KnownFacts DEF Alike
    <3>4. ref \in declared[Top.chain]
      BY <2>8 DEF Resolves
    <3> HIDE DEF ref
    <3>5. ref = subRefs[Top.chain][Top.next]
      BY DEF ref
    <3>6. QED
      BY <2>1, <2>2, <2>8, <3>1, <3>2, <3>3, <3>4, <3>5, EnterKeeps
  <2>9. QED
    BY <2>4, <2>5, <2>6, <2>7, <2>8
<1>4. ASSUME Leave PROVE TreeInv'
  <2>1. /\ expanded = "running" /\ stack # <<>> /\ Top.next > Len(subRefs[Top.chain])
        /\ IF Top.chain = lacking THEN Fail("chain_unresolvable_typeid")
           ELSE IF Len(stack) = 1
           THEN stack' = <<>> /\ expanded' = "expanded" /\ UNCHANGED <<pack, children>>
           ELSE /\ stack' = [Front(stack) EXCEPT ![Len(stack) - 1].next = @ + 1]
                /\ children' = Append(children, Top.chain)
                /\ UNCHANGED <<pack, expanded>>
    BY <1>4 DEF Leave
  <2>2. CASE Top.chain = lacking
    <3>1. Cause("chain_unresolvable_typeid")
      BY <2>1, <2>2, TopFacts DEF Cause
    <3>2. QED
      BY <2>1, <2>2, <3>1, FailKeeps
  <2>3. CASE Top.chain # lacking /\ Len(stack) = 1
    BY <2>1, <2>3, EndKeeps
  <2>4. CASE Top.chain # lacking /\ Len(stack) # 1
    BY <2>1, <2>4, ReturnKeeps
  <2>5. QED
    BY <2>2, <2>3, <2>4
<1>5. QED
  BY <1>1, <1>2, <1>3, <1>4 DEF TreeNext

LEMMA TreeInvIsEnough == TreeInv => TreeIsWhole
<1> SUFFICES ASSUME TreeInv PROVE TreeIsWhole
  OBVIOUS
<1>0. TreeTyped /\ StackIsSimple /\ CallsAreReached /\ RefsAreHandled /\ RefusalsHaveCause
  BY DEF TreeInv
<1>1. ASSUME expanded = "expanded", ~Collision
      PROVE  /\ ToSet(children) = Reached \ {Root} /\ ~Cyclic
             /\ \A c \in Reached : Refs(c) \subseteq declared[c]
             /\ \A i \in DOMAIN children : \A d \in Refs(children[i]) :
                  \E j \in 1..(i - 1) : children[j] = d
  <2> DEFINE m == Len(children)
             Below(i) == {children[j] : j \in 1..(i - 1)}
  <2>1. /\ m \in Nat /\ DOMAIN children = 1..m /\ ToSet(children) = {children[k] : k \in 1..m}
        /\ \A k \in 1..m : children[k] \in Chains
    <3>1. children \in Seq(Chains)
      BY <1>0 DEF TreeTyped
    <3>2. QED
      BY <3>1 DEF ToSet
  <2>2. \A chain \in Reached : \A k, l :
          /\ l \in 0..m /\ k = Len(subRefs[chain]) + 1 /\ HandledBefore(chain, k, l)
          => /\ Refs(chain) \subseteq declared[chain]
             /\ \A ref \in Refs(chain) : \E j \in 1..l : children[j] = ref
    <3>1. ASSUME NEW chain \in Reached, NEW l \in 0..m,
                 HandledBefore(chain, Len(subRefs[chain]) + 1, l), NEW ref \in Refs(chain)
          PROVE  ref \in declared[chain] /\ \E j \in 1..l : children[j] = ref
      <4>1. chain \in Chains /\ ref \in Reached
        BY <1>0, ReachedFacts
      <4>2. PICK k \in 1..Len(subRefs[chain]) : ref = subRefs[chain][k]
        BY <1>0, <4>1, RefsFacts
      <4>3. k < Len(subRefs[chain]) + 1
        BY <1>0, <4>1, RefsFacts
      <4>4. ref \in declared[chain] /\ \E j \in 1..l : Alike(children[j], ref)
        BY <3>1, <4>2, <4>3 DEF HandledBefore
      <4>5. PICK j \in 1..l : Alike(children[j], ref)
        BY <4>4
      <4>6. j \in 1..m
        BY <2>1
      <4>7. children[j] \in Reached
        BY <1>0, <4>6 DEF CallsAreReached
      <4>8. children[j] = ref
        BY <1>1, <4>1, <4>5, <4>7 DEF Collision
      <4>9. QED
        BY <4>4, <4>8
    <3>2. QED
      BY <3>1
  <2>3. /\ Refs(Root) \subseteq declared[Root]
        /\ \A ref \in Refs(Root) : \E j \in 1..m : children[j] = ref
    <3>1. HandledBefore(Root, Len(subRefs[Root]) + 1, m) /\ m \in 0..m /\ Root \in Reached
      BY <1>0, <1>1, <2>1, ReachedFacts DEF RefsAreHandled
    <3>2. QED
      BY <2>2, <3>1
  <2>4. \A k \in 1..m : /\ Refs(children[k]) \subseteq declared[children[k]]
                        /\ \A ref \in Refs(children[k]) : \E j \in 1..(k - 1) : children[j] = ref
    <3>1. ASSUME NEW k \in 1..m
          PROVE  /\ Refs(children[k]) \subseteq declared[children[k]]
                 /\ \A ref \in Refs(children[k]) : \E j \in 1..(k - 1) : children[j] = ref
      <4>1. HandledBefore(children[k], Len(subRefs[children[k]]) + 1, k - 1) /\ children[k] \in Reached
        BY <1>0 DEF RefsAreHandled, CallsAreReached
      <4>2. k - 1 \in 0..m
        BY <2>1
      <4>3. QED
        BY <2>2, <4>1, <4>2, ZenonT(40)
    <3>2. QED
      BY <3>1
  <2>5. \A k \in 1..m : \A j \in 1..(k - 1) : j \in 1..m /\ j # k
    BY <2>1
  <2>6. \A k \in 1..m : Refs(children[k]) \subseteq ToSet(children)
    BY <2>1, <2>4, <2>5
  <2>7. Refs(Root) \subseteq ToSet(children)
    BY <2>1, <2>3
  <2>8. ToSet(children) \subseteq Reached /\ Root \notin ToSet(children) /\ ToSet(children) \in SUBSET Chains
    BY <1>0, <2>1, ReachedFacts DEF CallsAreReached, StackIsSimple
  <2>9. Reached \subseteq ToSet(children) \cup {Root}
    <3>1. ToSet(children) \cup {Root} \in SUBSET Chains
      BY <2>8, TreeAssumption
    <3>2. ClosedUnderRefs(ToSet(children) \cup {Root})
      BY <2>1, <2>6, <2>7 DEF ClosedUnderRefs
    <3>3. QED
      BY <1>0, <3>1, <3>2, ReachedFacts
  <2>10. \A k \in 1..m : children[k] \notin From(Refs(children[k]))
    <3>1. ASSUME NEW k \in 1..m PROVE children[k] \notin From(Refs(children[k]))
      <4>1. Below(k) \in SUBSET Chains
        BY <2>1, <2>5
      <4>2. Refs(children[k]) \subseteq Below(k)
        BY <2>4
      <4>3. ClosedUnderRefs(Below(k))
        <5>1. ASSUME NEW j \in 1..(k - 1), NEW ref \in Refs(children[j]) PROVE ref \in Below(k)
          <6>1. j \in 1..m
            BY <2>5
          <6>2. PICK l \in 1..(j - 1) : children[l] = ref
            BY <2>4, <6>1
          <6>3. l \in 1..(k - 1)
            BY <2>1, <6>1
          <6>4. QED
            BY <6>2, <6>3
        <5>2. QED
          BY <5>1 DEF ClosedUnderRefs
      <4>4. children[k] \notin Below(k)
        BY <1>0, <2>5 DEF StackIsSimple
      <4>5. children[k] \in Chains /\ Refs(children[k]) \in SUBSET Chains
        BY <1>0, <2>1, RefsFacts
      <4> HIDE DEF Below
      <4>6. QED
        BY <1>0, <4>1, <4>2, <4>3, <4>4, <4>5, FromFacts
    <3>2. QED
      BY <3>1
  <2>11. Root \notin From(Refs(Root))
    <3>1. ClosedUnderRefs(ToSet(children)) /\ Refs(Root) \in SUBSET Chains
      BY <1>0, <2>1, <2>6, TreeAssumption, RefsFacts DEF ClosedUnderRefs
    <3>2. QED
      BY <1>0, <2>7, <2>8, <3>1, FromFacts
  <2>12. ~Cyclic
    BY <2>1, <2>9, <2>10, <2>11 DEF Cyclic
  <2>13. \A c \in Reached : Refs(c) \subseteq declared[c]
    BY <2>1, <2>3, <2>4, <2>9
  <2>14. QED
    BY <2>1, <2>4, <2>8, <2>9, <2>12, <2>13
<1>2. QED
  BY <1>0, <1>1 DEF TreeIsWhole, RefusalsHaveCause

THEOREM TreesAreWhole == TreeSpec => []TreeIsWhole
<1>1. QED
  BY TreeInvInit, TreeInvStep, TreeInvIsEnough, PTL DEF TreeSpec

-----------------------------------------------------------------------------
(* Fan-out.                                                                *)
LEMMA GreatestNatural ==
  ASSUME NEW n \in Nat, NEW T, T \subseteq 0..n, T # {}
  PROVE  Max(T) \in T /\ \A k \in T : k <= Max(T)
<1> DEFINE U == {n - k : k \in T}
<1>1. U \subseteq Nat /\ U # {}
  OBVIOUS
<1>2. PICK u \in U : \A v \in U : u <= v
  BY <1>1, LeastNatural
<1>3. PICK m \in T : u = n - m
  BY <1>2
<1>4. ASSUME NEW k \in T PROVE k <= m
  <2>1. n - m <= n - k
    BY <1>2, <1>3
  <2>2. k \in 0..n /\ m \in 0..n
    OBVIOUS
  <2> QED  BY <2>1, <2>2
<1>5. \E x \in T : \A y \in T : x >= y
  <2>1. \A y \in T : m >= y
    <3> SUFFICES ASSUME NEW y \in T PROVE m >= y
      OBVIOUS
    <3>1. y <= m /\ y \in 0..n /\ m \in 0..n
      BY <1>4
    <3> QED  BY <3>1
  <2> QED  BY <2>1
<1>6. Max(T) \in T /\ \A y \in T : Max(T) >= y
  BY <1>5 DEF Max
<1>7. \A k \in T : k \in 0..n
  OBVIOUS
<1> QED  BY <1>6, <1>7

CountedOf(windows) == {c \in windows : startedAt[c] + OVERLAP_TOLERANCE_MS < completedAt[c]}
OpenAtOnce(counted, t) ==
  Cardinality({c \in counted : startedAt[c] + OVERLAP_TOLERANCE_MS <= t})
    - Cardinality({c \in counted : completedAt[c] <= t})
OpenAt(counted, t) == {c \in counted : startedAt[c] + OVERLAP_TOLERANCE_MS <= t /\ t < completedAt[c]}

FanOutTyped ==
  /\ fixture \in {"waves", "per item", "mismatch"} /\ agents \in Adverts
  /\ moment \in 0..LatestFanOut
  /\ startedAt \in [Children -> (0..LatestFanOut) \cup {Unset}]
  /\ endedAt \in [Children -> (0..LatestFanOut) \cup {Unset}]
  /\ completedAt \in [Children -> Nat]

LEMMA ChildrenFacts ==
  /\ WAVES_CHILDREN \in Nat /\ IsFiniteSet(Children) /\ Cardinality(Children) = WAVES_CHILDREN
  /\ OVERLAP_TOLERANCE_MS \in Nat /\ LatestFanOut \in Nat /\ Unset \in Nat /\ Unset > LatestFanOut
  /\ \A f, c : f \in [Children -> (0..LatestFanOut) \cup {Unset}] /\ c \in Children => f[c] \in Nat
  /\ \A some \in SUBSET Children :
       /\ IsFiniteSet(some) /\ Cardinality(some) \in 0..WAVES_CHILDREN
       /\ Cardinality(some) = WAVES_CHILDREN => some = Children
<1>1. WAVES_CHILDREN \in Nat /\ OVERLAP_TOLERANCE_MS \in Nat /\ LatestFanOut \in Nat /\ 1 \in Int
  BY FanOutAssumption
<1>2. IsFiniteSet(Children) /\ Cardinality(Children) = WAVES_CHILDREN
  BY <1>1, FS_Interval DEF Children
<1>3. ASSUME NEW some \in SUBSET Children
      PROVE  /\ IsFiniteSet(some) /\ Cardinality(some) \in 0..WAVES_CHILDREN
             /\ Cardinality(some) = WAVES_CHILDREN => some = Children
  <2>1. IsFiniteSet(some) /\ Cardinality(some) <= WAVES_CHILDREN
        /\ (Cardinality(some) = WAVES_CHILDREN => some = Children)
    BY <1>2, FS_Subset
  <2>2. Cardinality(some) \in Nat
    BY <2>1, FS_CardinalityType
  <2> QED  BY <1>1, <2>1, <2>2
<1>4. Unset \in Nat /\ Unset > LatestFanOut
  BY <1>1 DEF Unset
<1>5. ASSUME NEW f \in [Children -> (0..LatestFanOut) \cup {Unset}], NEW c \in Children
      PROVE  f[c] \in Nat
  <2>1. f[c] \in (0..LatestFanOut) \cup {Unset}
    BY <1>5
  <2> QED  BY <1>1, <1>4, <2>1
<1> QED  BY <1>1, <1>2, <1>3, <1>4, <1>5

LEMMA OpenIsOpen ==
  ASSUME FanOutTyped, NEW t \in Nat
  PROVE  /\ OpenAtOnce(CountedOf(Dispatched), t) = Cardinality(OpenAt(CountedOf(Dispatched), t))
         /\ Cardinality(OpenAt(CountedOf(Dispatched), t)) \in 0..WAVES_CHILDREN
<1> DEFINE counted == CountedOf(Dispatched)
           begun == {c \in counted : startedAt[c] + OVERLAP_TOLERANCE_MS <= t}
           over == {c \in counted : completedAt[c] <= t}
           open == OpenAt(counted, t)
<1>1. counted \subseteq Children /\ begun \subseteq Children /\ open \subseteq Children
  BY DEF CountedOf, Dispatched, OpenAt
<1>2. \A c \in Children : startedAt[c] \in Nat /\ completedAt[c] \in Nat /\ OVERLAP_TOLERANCE_MS \in Nat
  BY ChildrenFacts DEF FanOutTyped
<1>3. over \subseteq begun
  BY <1>1, <1>2 DEF CountedOf
<1>4. open = begun \ over
  BY <1>1, <1>2 DEF OpenAt
<1>5. IsFiniteSet(begun)
  BY <1>1, ChildrenFacts
<1>6. over = begun \cap over
  BY <1>3
<1>7. IsFiniteSet(over) /\ Cardinality(begun) \in Nat /\ Cardinality(over) \in Nat
  BY <1>3, <1>5, FS_Subset, FS_CardinalityType
<1> HIDE DEF counted, begun, over, open
<1>8. Cardinality(begun \ over) = Cardinality(begun) - Cardinality(begun \cap over)
  BY <1>5, FS_Difference
<1>9. OpenAtOnce(counted, t) = Cardinality(open)
  BY <1>4, <1>6, <1>8 DEF OpenAtOnce, begun, over
<1>10. Cardinality(open) \in 0..WAVES_CHILDREN
  BY <1>1, ChildrenFacts
<1> QED  BY <1>9, <1>10 DEF counted, open

LEMMA MaxInFlightIs ==
  ASSUME FanOutTyped
  PROVE  LET counted == CountedOf(Dispatched)
             m == maxInFlight(Dispatched)
         IN  /\ m = 1 \/ \E c \in counted : m = Cardinality(OpenAt(counted, startedAt[c] + OVERLAP_TOLERANCE_MS))
             /\ m \in Nat
             /\ \A c \in counted : Cardinality(OpenAt(counted, startedAt[c] + OVERLAP_TOLERANCE_MS)) <= m
<1> DEFINE counted == CountedOf(Dispatched)
           AtCount(c) == startedAt[c] + OVERLAP_TOLERANCE_MS
           T == {1} \cup {OpenAtOnce(counted, AtCount(c)) : c \in counted}
<1>1. maxInFlight(Dispatched) = Max(T)
  BY DEF maxInFlight, CountedOf, OpenAtOnce
<1>2. \A c \in counted : AtCount(c) \in Nat
  <2> SUFFICES ASSUME NEW c \in counted PROVE AtCount(c) \in Nat
    OBVIOUS
  <2>1. c \in Children
    BY DEF CountedOf, Dispatched
  <2>2. startedAt[c] \in Nat /\ OVERLAP_TOLERANCE_MS \in Nat
    BY <2>1, ChildrenFacts DEF FanOutTyped
  <2> QED  BY <2>2
<1>3. \A c \in counted : /\ OpenAtOnce(counted, AtCount(c)) = Cardinality(OpenAt(counted, AtCount(c)))
                         /\ Cardinality(OpenAt(counted, AtCount(c))) \in 0..WAVES_CHILDREN
  <2> SUFFICES ASSUME NEW c \in counted
               PROVE  /\ OpenAtOnce(counted, AtCount(c)) = Cardinality(OpenAt(counted, AtCount(c)))
                      /\ Cardinality(OpenAt(counted, AtCount(c))) \in 0..WAVES_CHILDREN
    OBVIOUS
  <2>1. AtCount(c) \in Nat
    BY <1>2
  <2> HIDE DEF At
  <2> QED  BY <2>1, OpenIsOpen
<1> HIDE DEF At, counted
<1>4. T \subseteq 0..(WAVES_CHILDREN + 1) /\ T # {} /\ WAVES_CHILDREN + 1 \in Nat
  BY <1>3, ChildrenFacts
<1>5. Max(T) \in T /\ \A k \in T : k <= Max(T)
  <2> HIDE DEF T
  <2> QED  BY <1>4, GreatestNatural
<1>6. Max(T) \in Nat
  BY <1>4, <1>5
<1>7. \A c \in counted : Cardinality(OpenAt(counted, AtCount(c))) <= Max(T)
  BY <1>3, <1>5
<1> QED  BY <1>1, <1>3, <1>5, <1>6, <1>7 DEF At, counted

(* What is true of the drive in every state.                               *)
FanOutInv ==
  /\ FanOutTyped
  /\ \A c \in Children : endedAt[c] # Unset =>
       endedAt[c] <= completedAt[c] /\ completedAt[c] <= endedAt[c] + OVERLAP_TOLERANCE_MS
  /\ run \in {"none", "refused"} => Dispatched = {}
  /\ run = "completed" /\ fixture = "waves" => fanned # NotRecorded
  /\ fanned # NotRecorded =>
       /\ run = "completed" /\ InFlight = {}
       /\ \E count, listed \in {WAVES_CHILDREN, Cardinality(Dispatched)} : \E limit, named :
            fanned = [recorded |-> TRUE, childCount |-> count, maxConcurrency |-> limit,
                      mergeOrder |-> listed, dispatchedEvents |-> named]
  /\ FanOutVerdictIsTrue

LEMMA CeilingFacts ==
  ASSUME FanOutTyped
  PROVE  ceiling \in Nat /\ ceiling >= 1
<1>1. agents.maxFanOut \in Nat /\ WAVES_MAX_CONCURRENCY \in Nat /\ WAVES_MAX_CONCURRENCY >= 1
  <2>1. WAVES_MAX_CONCURRENCY \in Nat \ {0} /\ \A a \in Adverts : a.maxFanOut \in Nat
    BY FanOutAssumption
  <2>2. agents \in Adverts
    BY DEF FanOutTyped
  <2> QED  BY <2>1, <2>2
<1>2. ASSUME NEW a \in Nat, NEW b \in Nat, a >= 1, b >= 1
      PROVE  Min({a, b}) \in Nat /\ Min({a, b}) >= 1
  <2>1. \E x \in {a, b} : \A y \in {a, b} : x <= y
    BY <1>2
  <2>2. Min({a, b}) \in {a, b}
    BY <2>1 DEF Min
  <2> QED  BY <1>2, <2>2
<1>3. agents.maxFanOut # 0 => agents.maxFanOut >= 1
  BY <1>1
<1> QED  BY <1>1, <1>2, <1>3 DEF ceiling

LEMMA KeptIsAcquitted ==
  ASSUME FanOutInv, fixture = "waves", KeptToWaves
  PROVE  judgeWaves
<1>0. PICK count, listed \in {WAVES_CHILDREN, Cardinality(Dispatched)} : \E limit, named :
        fanned = [recorded |-> TRUE, childCount |-> count, maxConcurrency |-> limit,
                  mergeOrder |-> listed, dispatchedEvents |-> named]
  BY DEF FanOutInv, KeptToWaves
<1>1. PICK limit, named :
        fanned = [recorded |-> TRUE, childCount |-> count, maxConcurrency |-> limit,
                  mergeOrder |-> listed, dispatchedEvents |-> named]
  BY <1>0
<1>2. run = "completed" /\ Dispatched = Children /\ ~Unreadable /\ fanned.maxConcurrency = ceiling /\ InFlight = {}
  BY DEF FanOutInv, KeptToWaves
<1>3. Cardinality(Dispatched) = WAVES_CHILDREN
  BY <1>2, ChildrenFacts
<1>4. fanned.recorded /\ fanned.childCount = WAVES_CHILDREN /\ fanned.mergeOrder = WAVES_CHILDREN
  BY <1>1, <1>3
<1>5. FanOutTyped
  BY DEF FanOutInv
<1>6. maxInFlight(Dispatched) <= ceiling
  <2> DEFINE counted == CountedOf(Dispatched)
             m == maxInFlight(Dispatched)
  <2>1. CASE m = 1
    BY <1>5, <2>1, CeilingFacts
  <2>2. CASE m # 1
    <3>1. PICK c \in counted : m = Cardinality(OpenAt(counted, startedAt[c] + OVERLAP_TOLERANCE_MS))
      BY <1>5, <2>2, MaxInFlightIs
    <3> DEFINE t == startedAt[c]
               open == OpenAt(counted, t + OVERLAP_TOLERANCE_MS)
    <3>2. c \in Dispatched /\ c \in Children /\ t \in 0..LatestFanOut
      BY <1>5 DEF CountedOf, Dispatched, FanOutTyped
    <3>3. open \subseteq AtWork(t, 0)
      <4> SUFFICES ASSUME NEW d \in open PROVE d \in AtWork(t, 0)
        OBVIOUS
      <4>1. d \in Dispatched /\ startedAt[d] + OVERLAP_TOLERANCE_MS <= t + OVERLAP_TOLERANCE_MS
            /\ t + OVERLAP_TOLERANCE_MS < completedAt[d]
        BY DEF OpenAt, CountedOf
      <4>2. d \in Children /\ startedAt[d] \in 0..LatestFanOut /\ endedAt[d] # Unset
            /\ endedAt[d] \in 0..LatestFanOut /\ completedAt[d] \in Nat
        BY <1>2, <1>5, <4>1 DEF Dispatched, InFlight, FanOutTyped
      <4>3. completedAt[d] <= endedAt[d] + OVERLAP_TOLERANCE_MS
        BY <4>2 DEF FanOutInv
      <4>4. startedAt[d] + 0 <= t /\ t < endedAt[d]
        BY <3>2, <4>1, <4>2, <4>3, ChildrenFacts
      <4> QED  BY <4>1, <4>4 DEF AtWork
    <3>4. AtWork(t, 0) \subseteq Children
      BY DEF AtWork, Dispatched
    <3>5. Cardinality(AtWork(t, 0)) <= ceiling
      <4>1. ~(Cardinality(AtWork(t, 0)) > ceiling)
        BY <3>2 DEF KeptToWaves, Crowded
      <4>2. Cardinality(AtWork(t, 0)) \in Nat
        BY <3>4, ChildrenFacts
      <4> QED  BY <1>5, <4>1, <4>2, CeilingFacts
    <3>6. IsFiniteSet(AtWork(t, 0)) /\ Cardinality(AtWork(t, 0)) \in Nat
      BY <3>4, ChildrenFacts
    <3>7. Cardinality(open) <= Cardinality(AtWork(t, 0)) /\ Cardinality(open) \in Nat
      <4> HIDE DEF open, t
      <4>1. IsFiniteSet(open) /\ Cardinality(open) <= Cardinality(AtWork(t, 0))
        BY <3>3, <3>6, FS_Subset
      <4> QED  BY <4>1, FS_CardinalityType
    <3> HIDE DEF open
    <3>8. m = Cardinality(open)
      BY <3>1 DEF open
    <3>9. m <= ceiling
      <4> HIDE DEF m, t, counted
      <4> QED  BY <1>5, <3>5, <3>6, <3>7, <3>8, CeilingFacts
    <3> QED  BY <3>9
  <2> QED  BY <2>1, <2>2
<1>7. limit = ceiling /\ limit <= ceiling
  BY <1>1, <1>2, <1>5, CeilingFacts
<1> QED  BY <1>1, <1>2, <1>3, <1>4, <1>6, <1>7 DEF judgeWaves, ChildRunIds

LEMMA CrowdIsConvicted ==
  ASSUME FanOutInv, fixture = "waves", judgeWaves
  PROVE  ~Crowded(OVERLAP_TOLERANCE_MS) /\ Dispatched = Children
<1>1. FanOutTyped
  BY DEF FanOutInv
<1>2. Dispatched = Children
  <2>1. Dispatched \subseteq Children /\ Cardinality(Dispatched) = WAVES_CHILDREN
    BY DEF judgeWaves, ChildRunIds, Dispatched
  <2> QED  BY <2>1, ChildrenFacts
<1>3. ASSUME NEW t \in 0..LatestFanOut, Cardinality(AtWork(t, OVERLAP_TOLERANCE_MS)) > ceiling
      PROVE  FALSE
  <2> DEFINE W == AtWork(t, OVERLAP_TOLERANCE_MS)
             counted == CountedOf(Dispatched)
  <2>1. W \subseteq Children
    BY DEF AtWork, Dispatched
  <2>2. \A d \in Children : /\ startedAt[d] \in 0..LatestFanOut /\ endedAt[d] \in 0..LatestFanOut
                            /\ completedAt[d] \in Nat /\ endedAt[d] <= completedAt[d]
    <3>1. run = "completed" /\ fanned # NotRecorded /\ InFlight = {}
      BY DEF FanOutInv, judgeWaves
    <3> SUFFICES ASSUME NEW d \in Children
                 PROVE  /\ startedAt[d] \in 0..LatestFanOut /\ endedAt[d] \in 0..LatestFanOut
                        /\ completedAt[d] \in Nat /\ endedAt[d] <= completedAt[d]
      OBVIOUS
    <3>2. startedAt[d] # Unset /\ endedAt[d] # Unset
      BY <1>2, <3>1 DEF Dispatched, InFlight
    <3> QED  BY <1>1, <3>2 DEF FanOutTyped, FanOutInv
  <2>3. \A d \in W : startedAt[d] + OVERLAP_TOLERANCE_MS <= t /\ t < endedAt[d] /\ d \in counted
    BY <1>2, <2>1, <2>2, ChildrenFacts DEF AtWork, CountedOf
  <2>4. W # {}
    <3> SUFFICES ASSUME W = {} PROVE FALSE
      OBVIOUS
    <3>1. Cardinality(W) = 0
      BY FS_EmptySet
    <3> QED  BY <1>1, <1>3, <3>1, CeilingFacts
  <2> HIDE DEF W
  <2> DEFINE S == {startedAt[d] : d \in W}
  <2>5. S \subseteq 0..LatestFanOut /\ S # {}
    BY <2>1, <2>2, <2>4
  <2>6. Max(S) \in S /\ \A k \in S : k <= Max(S)
    <3> HIDE DEF S
    <3> QED  BY <2>5, ChildrenFacts, GreatestNatural
  <2>7. PICK c \in W : startedAt[c] = Max(S)
    BY <2>6
  <2> DEFINE s == startedAt[c] + OVERLAP_TOLERANCE_MS
             open == OpenAt(counted, s)
  <2>8. W \subseteq open
    <3> SUFFICES ASSUME NEW d \in W PROVE d \in open
      OBVIOUS
    <3>1. startedAt[d] <= startedAt[c]
      BY <2>6, <2>7
    <3>2. /\ startedAt[d] \in Nat /\ startedAt[c] \in Nat /\ endedAt[d] \in Nat /\ completedAt[d] \in Nat
          /\ endedAt[d] <= completedAt[d]
      BY <2>1, <2>2, ChildrenFacts
    <3>3. startedAt[d] + OVERLAP_TOLERANCE_MS <= s /\ s < completedAt[d]
      BY <2>3, <3>1, <3>2, ChildrenFacts
    <3> HIDE DEF s, counted
    <3> QED  BY <2>3, <3>3 DEF OpenAt
  <2>9. open \subseteq Children
    BY DEF OpenAt, CountedOf, Dispatched
  <2>10. Cardinality(open) <= maxInFlight(Dispatched)
    BY <1>1, <2>3, <2>7, MaxInFlightIs
  <2> HIDE DEF open, counted, s
  <2>11. IsFiniteSet(open) /\ Cardinality(W) <= Cardinality(open)
    BY <2>8, <2>9, ChildrenFacts, FS_Subset
  <2>12. Cardinality(W) \in Nat /\ Cardinality(open) \in Nat
    BY <2>1, <2>9, ChildrenFacts
  <2>13. Cardinality(W) > ceiling
    BY <1>3 DEF W
  <2>14. maxInFlight(Dispatched) <= ceiling /\ maxInFlight(Dispatched) \in Nat
    BY <1>1, MaxInFlightIs DEF judgeWaves
  <2> QED  BY <1>1, <2>10, <2>11, <2>12, <2>13, <2>14, CeilingFacts
<1> QED  BY <1>2, <1>3 DEF Crowded

(* The witness decides once: until then there is no verdict to be wrong.   *)
LEMMA NoVerdictYet ==
  ASSUME fanOutVerdict = "none"
  PROVE  FanOutVerdictIsTrue
BY DEF FanOutVerdictIsTrue

LEMMA FanOutStarts == FanOutInit => FanOutInv
<1> SUFFICES ASSUME FanOutInit PROVE FanOutInv
  OBVIOUS
<1>1. Unset \in Nat /\ LatestFanOut \in Nat /\ 0 \in 0..LatestFanOut
  <2>1. Unset \in Nat /\ LatestFanOut \in Nat
    BY ChildrenFacts
  <2> QED  BY <2>1
<1> USE DEF FanOutInit
<1>2. FanOutTyped
  BY <1>1 DEF FanOutTyped
<1>3. \A c \in Children : startedAt[c] = Unset /\ endedAt[c] = Unset
  OBVIOUS
<1>4. Dispatched = {}
  BY <1>3 DEF Dispatched
<1>5. FanOutVerdictIsTrue
  BY NoVerdictYet
<1>6. run # "completed" /\ fanned = NotRecorded
  OBVIOUS
<1> QED  BY <1>2, <1>3, <1>4, <1>5, <1>6 DEF FanOutInv

LEMMA StartChildKeeps ==
  ASSUME FanOutInv, fanOutVerdict = "none", NEW c \in Children, StartChild(c)
  PROVE  FanOutInv'
<1>0. FanOutTyped /\ fanOutVerdict' = "none"
  BY DEF FanOutInv, StartChild
<1>1. /\ startedAt' = [startedAt EXCEPT ![c] = moment] /\ run' = "running"
      /\ UNCHANGED <<fixture, agents, moment, endedAt, completedAt, fanned>>
  BY DEF StartChild
<1>2. fanned = NotRecorded
  <2>1. ~fanned.recorded
    BY DEF StartChild
  <2>2. fanned # NotRecorded => fanned.recorded
    BY DEF FanOutInv
  <2> QED  BY <2>1, <2>2
<1>3. FanOutTyped'
  BY <1>0, <1>1 DEF FanOutTyped, Children, Unset
<1>4. FanOutVerdictIsTrue'
  BY <1>0 DEF FanOutVerdictIsTrue
<1>5. \A d \in Children : endedAt[d] # Unset =>
        endedAt[d] <= completedAt[d] /\ completedAt[d] <= endedAt[d] + OVERLAP_TOLERANCE_MS
  BY DEF FanOutInv
<1>6. (\A d \in Children : endedAt[d] # Unset =>
        endedAt[d] <= completedAt[d] /\ completedAt[d] <= endedAt[d] + OVERLAP_TOLERANCE_MS)'
  BY <1>1, <1>5 DEF Children, Unset
<1>7. fanned' = NotRecorded
  BY <1>1, <1>2
<1>8. NotRecorded' = NotRecorded
  BY DEF NotRecorded
<1> QED  BY <1>1, <1>3, <1>4, <1>6, <1>7, <1>8 DEF FanOutInv

LEMMA EndChildKeeps ==
  ASSUME FanOutInv, fanOutVerdict = "none", NEW c \in Children, EndChild(c)
  PROVE  FanOutInv'
<1>0. FanOutTyped /\ fanOutVerdict' = "none" /\ c \in InFlight
  BY DEF FanOutInv, EndChild
<1>1. PICK lag \in Lags : completedAt' = [completedAt EXCEPT ![c] = moment + lag]
  BY DEF EndChild
<1>2. /\ endedAt' = [endedAt EXCEPT ![c] = moment]
      /\ UNCHANGED <<fixture, agents, run, moment, startedAt, fanned>>
  BY DEF EndChild
<1>3. fanned = NotRecorded
  BY <1>0 DEF FanOutInv
<1>4. lag \in Nat /\ lag <= OVERLAP_TOLERANCE_MS /\ moment \in Nat /\ OVERLAP_TOLERANCE_MS \in Nat
      /\ moment <= LatestFanOut /\ LatestFanOut \in Nat
  <2>1. LatestFanOut \in Nat /\ OVERLAP_TOLERANCE_MS \in Nat /\ Lags \subseteq 0..OVERLAP_TOLERANCE_MS
    BY FanOutAssumption
  <2>2. moment \in 0..LatestFanOut
    BY <1>0 DEF FanOutTyped
  <2> QED  BY <2>1, <2>2
<1>5. FanOutTyped'
  <2>1. moment + lag \in Nat /\ moment \in (0..LatestFanOut) \cup {Unset}
    BY <1>4
  <2>2. endedAt' \in [Children -> (0..LatestFanOut) \cup {Unset}]
    BY <1>0, <1>2, <2>1 DEF FanOutTyped
  <2>3. completedAt' \in [Children -> Nat]
    BY <1>0, <1>1, <2>1 DEF FanOutTyped
  <2>4. /\ fixture \in {"waves", "per item", "mismatch"} /\ agents \in Adverts
        /\ moment \in 0..LatestFanOut /\ startedAt \in [Children -> (0..LatestFanOut) \cup {Unset}]
    BY <1>0 DEF FanOutTyped
  <2> QED  BY <1>2, <2>2, <2>3, <2>4 DEF FanOutTyped, Children, Unset
<1>6. FanOutVerdictIsTrue'
  BY <1>0 DEF FanOutVerdictIsTrue
<1>7. ASSUME NEW d \in Children, endedAt'[d] # Unset
      PROVE  endedAt'[d] <= completedAt'[d] /\ completedAt'[d] <= endedAt'[d] + OVERLAP_TOLERANCE_MS
  <2>1. CASE d = c
    <3>1. endedAt'[d] = moment /\ completedAt'[d] = moment + lag
      BY <1>0, <1>1, <1>2, <2>1 DEF FanOutTyped
    <3> QED  BY <1>4, <3>1
  <2>2. CASE d # c
    <3>1. endedAt'[d] = endedAt[d] /\ completedAt'[d] = completedAt[d]
      BY <1>0, <1>1, <1>2, <2>2 DEF FanOutTyped
    <3> QED  BY <1>7, <3>1 DEF FanOutInv
  <2> QED  BY <2>1, <2>2
<1>8. fanned' = NotRecorded /\ Dispatched' = Dispatched
  BY <1>2, <1>3 DEF Dispatched, Children, Unset
<1>9. run \in {"none", "refused"} => Dispatched = {}
  BY DEF FanOutInv
<1>10. ~(run = "completed" /\ fixture = "waves")
  BY <1>3 DEF FanOutInv
<1>11. (\A d \in Children : endedAt[d] # Unset =>
        endedAt[d] <= completedAt[d] /\ completedAt[d] <= endedAt[d] + OVERLAP_TOLERANCE_MS)'
  BY <1>7 DEF Children, Unset
<1>12. /\ (run \in {"none", "refused"} => Dispatched = {})'
       /\ ~(run' = "completed" /\ fixture' = "waves")
  BY <1>2, <1>8, <1>9, <1>10
<1>13. NotRecorded' = NotRecorded
  BY DEF NotRecorded
<1> QED  BY <1>5, <1>6, <1>8, <1>11, <1>12, <1>13 DEF FanOutInv

LEMMA JoinKeeps ==
  ASSUME FanOutInv, fanOutVerdict = "none", Join
  PROVE  FanOutInv'
<1>0. FanOutTyped /\ fanOutVerdict' = "none" /\ InFlight = {} /\ run' = "completed"
  BY DEF FanOutInv, Join
<1>1. PICK count \in {WAVES_CHILDREN, Cardinality(Dispatched)},
           listed \in {WAVES_CHILDREN, Cardinality(Dispatched)},
           limit \in {ceiling, ceiling + 1}, named \in BOOLEAN :
        fanned' = [recorded |-> TRUE, childCount |-> count, maxConcurrency |-> limit,
                   mergeOrder |-> listed, dispatchedEvents |-> named]
  BY DEF Join
<1>2. UNCHANGED <<fixture, agents, moment, startedAt, endedAt, completedAt>>
  BY DEF Join
<1>3. FanOutTyped'
  BY <1>0, <1>2 DEF FanOutTyped, Children, Unset
<1>4. FanOutVerdictIsTrue'
  BY <1>0 DEF FanOutVerdictIsTrue
<1>5. Dispatched' = Dispatched /\ InFlight' = InFlight
  BY <1>2 DEF Dispatched, InFlight, Children, Unset
<1>6. fanned' # NotRecorded
  BY <1>1 DEF NotRecorded
<1>7. (\A d \in Children : endedAt[d] # Unset =>
        endedAt[d] <= completedAt[d] /\ completedAt[d] <= endedAt[d] + OVERLAP_TOLERANCE_MS)'
  BY <1>2 DEF FanOutInv, Children, Unset
<1>8. (\E n, l \in {WAVES_CHILDREN, Cardinality(Dispatched)} : \E m, b :
         fanned = [recorded |-> TRUE, childCount |-> n, maxConcurrency |-> m,
                   mergeOrder |-> l, dispatchedEvents |-> b])'
  BY <1>1, <1>5
<1>9. NotRecorded' = NotRecorded
  BY DEF NotRecorded
<1> QED  BY <1>0, <1>3, <1>4, <1>5, <1>6, <1>7, <1>8, <1>9 DEF FanOutInv

(* The steps that touch no child and record no join.                       *)
LEMMA QuietStepKeeps ==
  ASSUME FanOutInv, fanOutVerdict = "none", CreateFixtureRun \/ EndItems \/ FanOutTimePasses
  PROVE  FanOutInv'
<1>0. FanOutTyped /\ fanOutVerdict' = "none"
  BY DEF FanOutInv, CreateFixtureRun, EndItems, FanOutTimePasses
<1>1. UNCHANGED <<fixture, agents, startedAt, endedAt, completedAt, fanned>>
  BY DEF CreateFixtureRun, EndItems, FanOutTimePasses
<1>2. moment' \in 0..LatestFanOut
  <2>1. LatestFanOut \in Nat /\ moment \in 0..LatestFanOut
    BY <1>0, ChildrenFacts DEF FanOutTyped
  <2>2. CASE FanOutTimePasses
    BY <2>1, <2>2 DEF FanOutTimePasses
  <2>3. CASE CreateFixtureRun \/ EndItems
    BY <2>1, <2>3 DEF CreateFixtureRun, EndItems
  <2> QED  BY <2>2, <2>3
<1>3. FanOutTyped'
  BY <1>0, <1>1, <1>2 DEF FanOutTyped, Children, Unset
<1>4. FanOutVerdictIsTrue'
  BY <1>0 DEF FanOutVerdictIsTrue
<1>5. Dispatched' = Dispatched /\ InFlight' = InFlight
  BY <1>1 DEF Dispatched, InFlight, Children, Unset
<1>6. (\A d \in Children : endedAt[d] # Unset =>
        endedAt[d] <= completedAt[d] /\ completedAt[d] <= endedAt[d] + OVERLAP_TOLERANCE_MS)'
  BY <1>1 DEF FanOutInv, Children, Unset
<1>7. run \in {"none", "running"} /\ fanned = NotRecorded
  <2>1. run \in {"none", "running"}
    BY DEF CreateFixtureRun, EndItems, FanOutTimePasses
  <2> QED  BY <2>1 DEF FanOutInv
<1>8. fanned' = NotRecorded
  BY <1>1, <1>7
<1>9. run' \in {"none", "refused"} => Dispatched = {}
  <2>1. CASE CreateFixtureRun
    BY <2>1 DEF CreateFixtureRun, FanOutInv
  <2>2. CASE EndItems \/ FanOutTimePasses
    BY <2>2 DEF EndItems, FanOutTimePasses
  <2> QED  BY <2>1, <2>2
<1>10. ~(run' = "completed" /\ fixture' = "waves")
  BY <1>1 DEF CreateFixtureRun, EndItems, FanOutTimePasses
<1>11. NotRecorded' = NotRecorded
  BY DEF NotRecorded
<1> QED  BY <1>3, <1>4, <1>5, <1>6, <1>8, <1>9, <1>10, <1>11 DEF FanOutInv

LEMMA JudgeFanOutKeeps ==
  ASSUME FanOutInv, JudgeFanOut
  PROVE  FanOutInv'
<1>1. UNCHANGED <<fixture, agents, run, moment, startedAt, endedAt, completedAt, item, errorCode, fanned>>
  BY DEF JudgeFanOut
<1>2. /\ Dispatched' = Dispatched /\ InFlight' = InFlight /\ Honored' = Honored
      /\ (KeptToWaves <=> KeptToWaves') /\ \A for : Crowded(for)' <=> Crowded(for)
  BY <1>1 DEF Dispatched, InFlight, Honored, KeptToWaves, Crowded, AtWork, Unreadable, ChildRunIds,
              ceiling, Children, Unset
<1>3. fixture = "waves" /\ KeptToWaves => fanOutVerdict' # "convicted"
  BY KeptIsAcquitted DEF JudgeFanOut
<1>4. fixture = "waves" /\ (Crowded(OVERLAP_TOLERANCE_MS) \/ Dispatched # Children) => fanOutVerdict' # "ok"
  BY CrowdIsConvicted DEF JudgeFanOut
<1>5. judgeFailClosed => Dispatched = {}
  BY DEF judgeFailClosed, FanOutInv
<1>6. fixture # "waves" /\ ~Honored /\ Dispatched # {} => fanOutVerdict' # "ok"
  BY <1>5 DEF JudgeFanOut, judgePerItem
<1>7. FanOutVerdictIsTrue'
  BY <1>1, <1>2, <1>3, <1>4, <1>6 DEF FanOutVerdictIsTrue, Children
<1>8. FanOutTyped'
  BY <1>1 DEF FanOutInv, FanOutTyped, Children, Unset
<1>9. (\A d \in Children : endedAt[d] # Unset =>
        endedAt[d] <= completedAt[d] /\ completedAt[d] <= endedAt[d] + OVERLAP_TOLERANCE_MS)'
  BY <1>1 DEF FanOutInv, Children, Unset
<1>10. /\ run \in {"none", "refused"} => Dispatched = {}
       /\ run = "completed" /\ fixture = "waves" => fanned # NotRecorded
       /\ fanned # NotRecorded =>
            /\ run = "completed" /\ InFlight = {}
            /\ \E count, listed \in {WAVES_CHILDREN, Cardinality(Dispatched)} : \E limit, named :
                 fanned = [recorded |-> TRUE, childCount |-> count, maxConcurrency |-> limit,
                           mergeOrder |-> listed, dispatchedEvents |-> named]
  BY DEF FanOutInv
<1>11. (/\ run \in {"none", "refused"} => Dispatched = {}
        /\ run = "completed" /\ fixture = "waves" => fanned # NotRecorded
        /\ fanned # NotRecorded =>
            /\ run = "completed" /\ InFlight = {}
            /\ \E count, listed \in {WAVES_CHILDREN, Cardinality(Dispatched)} : \E limit, named :
                 fanned = [recorded |-> TRUE, childCount |-> count, maxConcurrency |-> limit,
                           mergeOrder |-> listed, dispatchedEvents |-> named])'
  BY <1>1, <1>2, <1>10 DEF NotRecorded
<1> QED  BY <1>7, <1>8, <1>9, <1>11 DEF FanOutInv

LEMMA FanOutStutters ==
  ASSUME FanOutInv, UNCHANGED fanOutVars
  PROVE  FanOutInv'
<1>1. UNCHANGED <<fixture, agents, run, moment, startedAt, endedAt, completedAt, item, errorCode, fanned,
                  fanOutVerdict>>
  BY DEF fanOutVars
<1> QED  BY <1>1 DEF FanOutInv, FanOutTyped, FanOutVerdictIsTrue, Dispatched, InFlight, Honored, KeptToWaves,
            Crowded, AtWork, Unreadable, ChildRunIds, ceiling, Children, Unset, NotRecorded

(* fan-out-witness.ts: no host that kept to its ceiling is convicted for   *)
(* stamps late within the tolerance, none that was over it for longer, or  *)
(* dropped a child, gets by, and none that dispatched where it should fail *)
(* closed does: for any number of children, any ceiling and tolerance, and *)
(* however late, within it, each end is stamped.                           *)
THEOREM FanOutIsJudged == FanOutSpec => []FanOutVerdictIsTrue
<1>1. FanOutInv /\ [FanOutNext]_fanOutVars => FanOutInv'
  <2> SUFFICES ASSUME FanOutInv, [FanOutNext]_fanOutVars PROVE FanOutInv'
    OBVIOUS
  <2>1. CASE UNCHANGED fanOutVars
    BY <2>1, FanOutStutters
  <2>2. CASE FanOutNext
    BY <2>2, QuietStepKeeps, JoinKeeps, JudgeFanOutKeeps, StartChildKeeps, EndChildKeeps DEF FanOutNext
  <2> QED  BY <2>1, <2>2
<1>2. FanOutInv => FanOutVerdictIsTrue
  BY DEF FanOutInv
<1> QED  BY FanOutStarts, <1>1, <1>2, PTL DEF FanOutSpec

-----------------------------------------------------------------------------
(* Linked runs.                                                            *)
NoLegs == [leg \in {} |-> "ok"]
Turns == [kind : {"next-worker", "terminate"}, agentId : Deciders, iteration : Nat]

(* Which page the host serves makes no difference: sorted by sequence, a   *)
(* page of all the turns lists them in order.                              *)
LEMMA SortedIsInOrder ==
  ASSUME decisions \in Seq(Turns), NEW page \in Pages
  PROVE  LET log == SortedBySequence(page)
         IN  [i \in DOMAIN log |-> log[i].turn] = decisions
<1> DEFINE n == Len(decisions)
           log == SortedBySequence(page)
           before(e) == {k \in DOMAIN page : page[k].sequence < e.sequence}
<1>1. n \in Nat /\ DOMAIN decisions = 1..n
  OBVIOUS
<1>2. PICK p \in {q \in [DOMAIN decisions -> DOMAIN decisions] : IsInjective(q)} :
        page = [i \in DOMAIN decisions |-> [sequence |-> p[i], turn |-> decisions[p[i]]]]
  BY DEF Pages
<1> HIDE DEF n
<1>3. /\ p \in [1..n -> 1..n] /\ \A a, b \in 1..n : p[a] = p[b] => a = b
      /\ DOMAIN page = 1..n /\ \A i \in 1..n : page[i] = [sequence |-> p[i], turn |-> decisions[p[i]]]
  BY <1>1, <1>2 DEF IsInjective
<1>4. p \in Injection(1..n, 1..n)
  BY <1>3 DEF Injection, IsInjective
<1>5. IsFiniteSet(1..n) /\ Cardinality(1..n) = n
  BY <1>1, FS_Interval
<1>6. p \in Surjection(1..n, 1..n)
  BY <1>4, <1>5, FS_Injection
<1>7. \A s \in 1..n : \E i \in 1..n : p[i] = s
  BY <1>6 DEF Surjection
<1>8. ASSUME NEW s \in 1..n, NEW e, e.sequence = s
      PROVE  Cardinality(before(e)) = s - 1
  <2> DEFINE B == {k \in 1..n : p[k] < s}
             f == [k \in B |-> p[k]]
  <2>1. before(e) = B
    BY <1>3, <1>8
  <2>2. f \in [B -> 1..(s - 1)]
    BY <1>1, <1>3
  <2>3. \A a, b \in B : f[a] = f[b] => a = b
    BY <1>3
  <2>4. \A t \in 1..(s - 1) : \E k \in B : f[k] = t
    <3> SUFFICES ASSUME NEW t \in 1..(s - 1) PROVE \E k \in B : f[k] = t
      OBVIOUS
    <3>1. t \in 1..n /\ t < s
      BY <1>1
    <3>2. PICK k \in 1..n : p[k] = t
      BY <1>7, <3>1
    <3>3. k \in B
      BY <3>1, <3>2
    <3> QED  BY <3>2, <3>3
  <2>5. f \in Injection(B, 1..(s - 1)) /\ f \in Surjection(B, 1..(s - 1))
    BY <2>2, <2>3, <2>4 DEF Injection, Surjection, IsInjective
  <2>6. IsFiniteSet(B) /\ IsFiniteSet(1..(s - 1)) /\ Cardinality(1..(s - 1)) = s - 1
    <3>1. IsFiniteSet(B)
      BY <1>5, FS_Subset
    <3>2. s - 1 \in Int /\ 1 \in Int /\ s - 1 >= 0
      BY <1>1
    <3>3. IsFiniteSet(1..(s - 1)) /\ Cardinality(1..(s - 1)) = IF 1 > s - 1 THEN 0 ELSE (s - 1) - 1 + 1
      BY <3>2, FS_Interval
    <3> QED  BY <3>1, <3>2, <3>3
  <2> HIDE DEF B, f
  <2>7. Cardinality(B) = Cardinality(1..(s - 1))
    BY <2>5, <2>6, FS_Injection
  <2> QED  BY <2>1, <2>6, <2>7
<1> HIDE DEF before
<1>9. ToSet(page) = {page[i] : i \in 1..n}
  BY <1>3 DEF ToSet
<1>10. ASSUME NEW i \in 1..n
       PROVE  log[i].turn = decisions[i]
  <2>1. PICK a \in 1..n : p[a] = i
    BY <1>7
  <2>2. page[a] \in ToSet(page) /\ page[a].sequence = i
    BY <1>3, <1>9, <2>1
  <2>3. Cardinality(before(page[a])) = i - 1
    BY <1>8, <2>2
  <2> DEFINE Nth(e) == Cardinality(before(e)) = i - 1
             c == CHOOSE e \in ToSet(page) : Nth(e)
  <2>4. c \in ToSet(page) /\ Nth(c)
    BY <2>2, <2>3
  <2>5. log[i] = c
    BY <1>3 DEF SortedBySequence, before
  <2> HIDE DEF c
  <2>6. PICK b \in 1..n : c = page[b]
    BY <1>9, <2>4
  <2>7. p[b] \in 1..n /\ c.sequence = p[b] /\ c.turn = decisions[p[b]]
    BY <1>3, <2>6
  <2>8. Cardinality(before(c)) = p[b] - 1
    BY <1>8, <2>7
  <2>9. p[b] = i
    BY <1>1, <2>4, <2>7, <2>8
  <2> QED  BY <2>5, <2>7, <2>9
<1>11. DOMAIN log = 1..n
  BY <1>3 DEF SortedBySequence
<1> HIDE DEF log
<1>12. [i \in DOMAIN log |-> log[i].turn] = [i \in 1..n |-> decisions[i]]
  BY <1>10, <1>11
<1>13. decisions = [i \in 1..n |-> decisions[i]]
  BY <1>1 DEF n
<1> QED  BY <1>12, <1>13 DEF log

(* What the host has done against the specification, read off the state.   *)
LinkedTyped ==
  /\ kindOfRun \in {"subWorkflow", "dispatch", "loop"} /\ parentVar \in BOOLEAN /\ version \in Nat
  /\ decisions \in Seq(Turns) /\ mapped \in BOOLEAN /\ lineage \in {"parent", "another"}
  /\ (kindOfRun = "loop" => parentVar) /\ (kindOfRun # "loop" => version = 0)

StrayedOfChild ==
  /\ "override" \in strayed => mapped /\ bag = "baked-in" /\ kindOfRun = "subWorkflow"
  /\ bag = "mapped" => mapped
  /\ kindOfRun # "subWorkflow" => bag # "baked-in"
  /\ "ancestry" \in strayed => lineage = "another" /\ kindOfRun # "loop"
  /\ lineage = "another" => "ancestry" \in strayed
  /\ child \in Ended => mapped \/ "projection" \in strayed
  /\ mapped /\ parentVar => bag = "mapped" \/ "projection" \in strayed \/ "override" \in strayed
  /\ ~parentVar => bag \in {"absent", "baked-in"} \/ "projection" \in strayed
  /\ link # "none" => (link = child /\ child \in Ended) \/ "link" \in strayed
  /\ parent = "none" => child = "none" /\ link = "none" /\ lineage = "parent"

StrayedOfTurns ==
  /\ "terminates" \in strayed <=> \E i \in 1..(Len(decisions) - 1) : decisions[i].kind = "terminate"
  /\ "decisions" \in strayed <=> \E i, j \in 1..Len(decisions) : decisions[i].agentId # decisions[j].agentId
  /\ "iteration" \in strayed <=> \E i \in 1..Len(decisions) : decisions[i].iteration # i
  /\ decisions # <<>> => kindOfRun = "loop"
  /\ kindOfRun = "loop" => child = "none" /\ link = "none"

LinkedInv == LinkedTyped /\ StrayedOfChild /\ StrayedOfTurns /\ LinkedVerdictIsTrue

LEMMA NoLegsYet ==
  ASSUME legsJudged = NoLegs
  PROVE  LinkedVerdictIsTrue
<1>1. DOMAIN legsJudged = {}
  BY DEF NoLegs
<1>2. \A leg : ~Convicted(leg)
  BY <1>1 DEF Convicted
<1> QED  BY <1>2 DEF LinkedVerdictIsTrue, NoLegs

LEMMA LinkedStarts == LinkedInit => LinkedInv
<1> SUFFICES ASSUME LinkedInit PROVE LinkedInv
  OBVIOUS
<1>1. LinkedTyped
  <2>1. version \in Nat
    BY LinkedAssumption DEF LinkedInit
  <2>2. decisions \in Seq(Turns)
    BY DEF LinkedInit
  <2> QED  BY <2>1, <2>2 DEF LinkedInit, LinkedTyped
<1>2. StrayedOfChild
  BY DEF LinkedInit, StrayedOfChild, Ended
<1>3. StrayedOfTurns
  BY DEF LinkedInit, StrayedOfTurns
<1>4. LinkedVerdictIsTrue
  BY NoLegsYet DEF LinkedInit, NoLegs
<1> QED  BY <1>1, <1>2, <1>3, <1>4 DEF LinkedInv

(* The steps of the two runs: none of them records a turn.                 *)
LEMMA RunStepKeeps ==
  ASSUME LinkedInv,
         StartLinked \/ SeedChild \/ ProjectVariable \/ EndLinkedChild \/ CompleteNode \/ EndParent
  PROVE  LinkedTyped' /\ StrayedOfChild' /\ StrayedOfTurns'
<1>1. LinkedTyped /\ StrayedOfChild /\ StrayedOfTurns
  BY DEF LinkedInv
<1>2. UNCHANGED <<kindOfRun, parentVar, version, decisions>>
  BY DEF StartLinked, SeedChild, ProjectVariable, EndLinkedChild, CompleteNode, EndParent, runOnly
<1>3. mapped' \in BOOLEAN /\ lineage' \in {"parent", "another"}
  BY <1>1 DEF LinkedTyped, StartLinked, SeedChild, ProjectVariable, EndLinkedChild, CompleteNode, EndParent
<1>4. LinkedTyped'
  BY <1>1, <1>2, <1>3 DEF LinkedTyped, Turns
<1>5. \A what \in {"terminates", "decisions", "iteration"} : what \in strayed' <=> what \in strayed
  BY DEF StartLinked, SeedChild, ProjectVariable, EndLinkedChild, CompleteNode, EndParent, Astray
<1>6. kindOfRun = "loop" => child' = "none" /\ link' = "none"
  BY <1>1 DEF StrayedOfTurns, StartLinked, SeedChild, ProjectVariable, EndLinkedChild, CompleteNode, EndParent
<1>7. StrayedOfTurns'
  BY <1>1, <1>2, <1>5, <1>6 DEF StrayedOfTurns
<1>8. StrayedOfChild'
  <2>1. CASE StartLinked
    BY <1>1, <2>1 DEF LinkedTyped, StrayedOfChild, StartLinked, Astray, runOnly, Ended
  <2>2. CASE SeedChild
    BY <1>1, <2>2 DEF LinkedTyped, StrayedOfChild, SeedChild, Astray, runOnly, Ended
  <2>3. CASE ProjectVariable
    BY <1>1, <2>3 DEF LinkedTyped, StrayedOfChild, ProjectVariable, Astray, runOnly, Ended
  <2>4. CASE EndLinkedChild
    BY <1>1, <2>4 DEF LinkedTyped, StrayedOfChild, EndLinkedChild, Astray, runOnly, Ended
  <2>5. CASE CompleteNode
    BY <1>1, <2>5 DEF LinkedTyped, StrayedOfChild, CompleteNode, Astray, runOnly, Ended
  <2>6. CASE EndParent
    BY <1>1, <2>6 DEF LinkedTyped, StrayedOfChild, EndParent, Astray, runOnly, Ended
  <2> QED  BY <2>1, <2>2, <2>3, <2>4, <2>5, <2>6
<1> QED  BY <1>4, <1>7, <1>8

(* A turn strays as the turns recorded say: it comes after a terminate, of *)
(* another agent, or out of count.                                         *)
LEMMA DecideKeeps ==
  ASSUME LinkedInv, NEW kind \in {"next-worker", "terminate"}, NEW agent \in Deciders,
         NEW iteration \in 1..MaxTurns, Decide(kind, agent, iteration)
  PROVE  LinkedTyped' /\ StrayedOfChild' /\ StrayedOfTurns'
<1> DEFINE turn == [kind |-> kind, agentId |-> agent, iteration |-> iteration]
           n == Len(decisions)
<1>1. LinkedTyped /\ StrayedOfChild /\ StrayedOfTurns
  BY DEF LinkedInv
<1>2. /\ decisions' = Append(decisions, turn) /\ kindOfRun = "loop"
      /\ UNCHANGED <<kindOfRun, parentVar, version, parent, child, bag, mapped, link, lineage>>
  BY DEF Decide, runOnly
<1>3. turn \in Turns
  <2>1. iteration \in Nat
    BY LinkedAssumption
  <2> QED  BY <2>1 DEF Turns
<1>4. decisions \in Seq(Turns) /\ n \in Nat /\ DOMAIN decisions = 1..n
  BY <1>1 DEF LinkedTyped
<1> HIDE DEF turn
<1>5. /\ decisions' \in Seq(Turns) /\ Len(decisions') = n + 1
      /\ \A i \in 1..n : decisions'[i] = decisions[i]
      /\ decisions'[n + 1] = turn
  BY <1>2, <1>3, <1>4
<1> HIDE DEF n
<1>6. /\ turn.kind = kind /\ turn.agentId = agent /\ turn.iteration = iteration
  BY DEF turn
<1>7. LinkedTyped'
  BY <1>1, <1>2, <1>5 DEF LinkedTyped, Turns
<1>8. /\ "terminates" \in strayed' <=> "terminates" \in strayed \/ \E i \in 1..n : decisions[i].kind = "terminate"
      /\ "decisions" \in strayed' <=> "decisions" \in strayed \/ \E i \in 1..n : decisions[i].agentId # agent
      /\ "iteration" \in strayed' <=> "iteration" \in strayed \/ iteration # n + 1
      /\ \A what \in {"override", "ancestry", "projection", "link"} : what \in strayed' <=> what \in strayed
  BY <1>4 DEF Decide, n
<1>9. StrayedOfChild'
  BY <1>1, <1>2, <1>8 DEF StrayedOfChild, Ended
<1>10. "terminates" \in strayed' <=> \E i \in 1..(Len(decisions') - 1) : decisions'[i].kind = "terminate"
  <2>1. Len(decisions') - 1 = n
    BY <1>4, <1>5
  <2>2. "terminates" \in strayed => \E i \in 1..n : decisions[i].kind = "terminate"
    BY <1>1, <1>4 DEF StrayedOfTurns, n
  <2> QED  BY <1>5, <1>8, <2>1, <2>2
<1>11. "decisions" \in strayed' <=>
         \E i, j \in 1..Len(decisions') : decisions'[i].agentId # decisions'[j].agentId
  <2>1. "decisions" \in strayed <=> \E i, j \in 1..n : decisions[i].agentId # decisions[j].agentId
    BY <1>1 DEF StrayedOfTurns, n
  <2>2. 1..Len(decisions') = 1..n \cup {n + 1}
    BY <1>4, <1>5
  <2> QED  BY <1>5, <1>6, <1>8, <2>1, <2>2
<1>12. "iteration" \in strayed' <=> \E i \in 1..Len(decisions') : decisions'[i].iteration # i
  <2>1. "iteration" \in strayed <=> \E i \in 1..n : decisions[i].iteration # i
    BY <1>1 DEF StrayedOfTurns, n
  <2>2. 1..Len(decisions') = 1..n \cup {n + 1}
    BY <1>4, <1>5
  <2> QED  BY <1>5, <1>6, <1>8, <2>1, <2>2
<1>13. StrayedOfTurns'
  BY <1>1, <1>2, <1>10, <1>11, <1>12 DEF StrayedOfTurns
<1> QED  BY <1>7, <1>9, <1>13

(* The legs of a loop, over the turns in order.                            *)
LEMMA LoopLegsAreTrue ==
  ASSUME LinkedInv, kindOfRun = "loop", version # 0
  PROVE  /\ Conformed => /\ judgeLoopTerminates(decisions) # "convicted"
                         /\ judgeDecisions(decisions) # "convicted"
                         /\ judgeIteration(decisions) # "convicted"
         /\ "terminates" \in strayed => judgeLoopTerminates(decisions) = "convicted"
         /\ "decisions" \in strayed => judgeDecisions(decisions) = "convicted"
         /\ version >= 5 /\ "iteration" \in strayed => judgeIteration(decisions) = "convicted"
<1> DEFINE n == Len(decisions)
           speakers == {decisions[i].agentId : i \in DOMAIN decisions}
<1>1. LinkedTyped /\ StrayedOfTurns
  BY DEF LinkedInv
<1>2. decisions \in Seq(Turns) /\ n \in Nat /\ DOMAIN decisions = 1..n /\ version \in Nat
  BY <1>1 DEF LinkedTyped
<1>3. decisions = <<>> <=> n = 0
  BY <1>2
<1> HIDE DEF n
<1>4. /\ "terminates" \in strayed <=> \E i \in 1..(n - 1) : decisions[i].kind = "terminate"
      /\ "decisions" \in strayed <=> \E i, j \in 1..n : decisions[i].agentId # decisions[j].agentId
      /\ "iteration" \in strayed <=> \E i \in 1..n : decisions[i].iteration # i
  BY <1>1 DEF StrayedOfTurns, n
<1>5. Conformed => /\ strayed = {} /\ runCompleted /\ decisions # <<>> /\ Last(decisions).kind = "terminate"
  BY DEF Conformed, runCompleted
<1>6. /\ Conformed => judgeLoopTerminates(decisions) # "convicted"
      /\ "terminates" \in strayed => judgeLoopTerminates(decisions) = "convicted"
  BY <1>4, <1>5 DEF judgeLoopTerminates, Verdict, n
<1>7. /\ Conformed => judgeIteration(decisions) # "convicted"
      /\ version >= 5 /\ "iteration" \in strayed => judgeIteration(decisions) = "convicted"
  <2>1. "iteration" \in strayed => decisions # <<>>
    BY <1>2, <1>3, <1>4
  <2>2. version >= 5 => ~(version < 5)
    BY <1>2
  <2> QED  BY <1>2, <1>4, <1>5, <2>1, <2>2 DEF judgeIteration, Verdict
<1>8. "decisions" \in strayed => Cardinality(speakers) # 1 /\ decisions # <<>>
  <2> SUFFICES ASSUME "decisions" \in strayed PROVE Cardinality(speakers) # 1 /\ decisions # <<>>
    OBVIOUS
  <2>1. PICK i, j \in 1..n : decisions[i].agentId # decisions[j].agentId
    BY <1>4
  <2>2. decisions[i].agentId \in speakers /\ decisions[j].agentId \in speakers
    BY <1>2
  <2> HIDE DEF speakers
  <2>3. ASSUME Cardinality(speakers) = 1 PROVE FALSE
    <3>1. IsFiniteSet(speakers)
      <4>1. IsFiniteSet(1..n)
        BY <1>2, FS_Interval
      <4> DEFINE f == [k \in 1..n |-> decisions[k].agentId]
      <4>2. f \in Surjection(1..n, speakers)
        BY <1>2 DEF Surjection, speakers
      <4> HIDE DEF f
      <4> QED  BY <4>1, <4>2, FS_Surjection
    <3>2. \E x : speakers = {x}
      BY <2>3, <3>1, FS_Singleton
    <3> QED  BY <2>1, <2>2, <3>2
  <2>4. n # 0
    BY <1>2, <2>1
  <2> QED  BY <1>3, <2>3, <2>4
<1>9. Conformed => Cardinality(speakers) = 1
  <2> SUFFICES ASSUME Conformed PROVE Cardinality(speakers) = 1
    OBVIOUS
  <2>1. \A i, j \in 1..n : decisions[i].agentId = decisions[j].agentId
    BY <1>4, <1>5
  <2>2. 1 \in 1..n
    BY <1>2, <1>3, <1>5
  <2>3. speakers = {decisions[1].agentId}
    BY <1>2, <2>1, <2>2
  <2> HIDE DEF speakers
  <2> QED  BY <2>3, FS_Singleton
<1>10. /\ Conformed => judgeDecisions(decisions) # "convicted"
       /\ "decisions" \in strayed => judgeDecisions(decisions) = "convicted"
  BY <1>8, <1>9 DEF judgeDecisions, Verdict
<1> QED  BY <1>6, <1>7, <1>10

LEMMA ChildLegsAreTrue ==
  ASSUME LinkedInv, Conformed, kindOfRun # "loop"
  PROVE  /\ judgeOutput # "convicted" /\ judgeAncestry # "convicted"
         /\ kindOfRun = "subWorkflow" /\ parentVar => judgeSeed # "convicted" /\ judgeOverride # "convicted"
         /\ kindOfRun = "subWorkflow" /\ ~parentVar => judgeUnset # "convicted"
         /\ kindOfRun = "dispatch" /\ parentVar => judgeProjection # "convicted"
         /\ kindOfRun = "dispatch" /\ ~parentVar => judgeUnsetProjection # "convicted"
<1>1. LinkedTyped /\ StrayedOfChild
  BY DEF LinkedInv
<1>2. strayed = {} /\ runCompleted /\ link # "none" /\ child = "completed"
  BY DEF Conformed, runCompleted
<1>3. childReached
  BY <1>2 DEF childReached
<1>4. link = child /\ child \in Ended
  BY <1>1, <1>2 DEF StrayedOfChild
<1>5. mapped /\ lineage # "another"
  BY <1>1, <1>2, <1>4 DEF StrayedOfChild
<1>6. parentVar => bag = "mapped"
  BY <1>1, <1>2, <1>5 DEF StrayedOfChild
<1>7. ~parentVar => bag \in {"absent", "baked-in"}
  BY <1>1, <1>2 DEF StrayedOfChild
<1>8. kindOfRun = "dispatch" /\ ~parentVar => bag = "absent"
  BY <1>1, <1>7 DEF StrayedOfChild
<1>9. judgeOutput # "convicted"
  BY <1>2, <1>4 DEF judgeOutput, Verdict
<1>10. judgeAncestry # "convicted"
  BY <1>1, <1>5 DEF judgeAncestry, Verdict, LinkedTyped
<1>11. parentVar => judgeSeed # "convicted" /\ judgeOverride # "convicted" /\ judgeProjection # "convicted"
  BY <1>3, <1>6 DEF judgeSeed, judgeOverride, judgeProjection, Verdict
<1>12. ~parentVar => judgeUnset # "convicted"
  BY <1>3, <1>7 DEF judgeUnset, Verdict
<1>13. kindOfRun = "dispatch" /\ ~parentVar => judgeUnsetProjection # "convicted"
  BY <1>3, <1>8 DEF judgeUnsetProjection, Verdict
<1> QED  BY <1>9, <1>10, <1>11, <1>12, <1>13

LEMMA JudgeLinkedKeeps ==
  ASSUME LinkedInv, JudgeLinked
  PROVE  LinkedInv'
<1>1. LinkedTyped /\ StrayedOfChild /\ StrayedOfTurns
  BY DEF LinkedInv
<1>2. UNCHANGED <<kindOfRun, parentVar, version, parent, child, bag, mapped, link, lineage, decisions, strayed>>
  BY DEF JudgeLinked, runOnly
<1>3. LinkedTyped' /\ StrayedOfChild' /\ StrayedOfTurns'
  BY <1>1, <1>2 DEF LinkedTyped, StrayedOfChild, StrayedOfTurns, Turns, Ended
<1>4. Conformed' <=> Conformed
  BY <1>2 DEF Conformed
<1>5. "override" \in strayed => kindOfRun = "subWorkflow" /\ bag # "mapped"
  BY <1>1 DEF StrayedOfChild
<1>6. "ancestry" \in strayed => kindOfRun # "loop" /\ lineage # "parent"
  BY <1>1 DEF StrayedOfChild
<1>7. version \in Nat /\ kindOfRun \in {"subWorkflow", "dispatch", "loop"} /\ parentVar \in BOOLEAN
      /\ (kindOfRun # "loop" => version = 0) /\ decisions \in Seq(Turns)
  BY <1>1 DEF LinkedTyped
<1> DEFINE Caught(leg) == leg \in DOMAIN legsJudged' /\ legsJudged'[leg] = "convicted"
<1>8. SUFFICES /\ Conformed => \A leg \in DOMAIN legsJudged' : ~Caught(leg)
               /\ "override" \in strayed /\ parentVar /\ link # "none" => Caught("projection")
               /\ "ancestry" \in strayed /\ link # "none" => Caught("ancestry")
               /\ version > 0 /\ "terminates" \in strayed => Caught("terminates")
               /\ version > 0 /\ "decisions" \in strayed => Caught("decisions")
               /\ version >= 5 /\ "iteration" \in strayed => Caught("iteration")
  <2>1. \A leg : Convicted(leg)' <=> Caught(leg)
    BY DEF Convicted
  <2> HIDE DEF Caught
  <2>2. LinkedVerdictIsTrue'
    BY <1>2, <1>4, <1>8, <2>1 DEF LinkedVerdictIsTrue
  <2> QED  BY <1>3, <2>2 DEF LinkedInv
<1>9. CASE kindOfRun = "loop"
  <2>1. legsJudged' =
          IF version = 0 THEN [leg \in {"terminates"} |-> "skip"]
          ELSE [leg \in {"terminates", "decisions", "iteration"} |->
                  CASE leg = "terminates" -> judgeLoopTerminates(decisions)
                    [] leg = "decisions" -> judgeDecisions(decisions)
                    [] leg = "iteration" -> judgeIteration(decisions)]
    <3>1. PICK page \in Pages :
            LET log == SortedBySequence(page)
                ds == [i \in DOMAIN log |-> log[i].turn]
            IN legsJudged' =
                 IF version = 0 THEN [leg \in {"terminates"} |-> "skip"]
                 ELSE [leg \in {"terminates", "decisions", "iteration"} |->
                         CASE leg = "terminates" -> judgeLoopTerminates(ds)
                           [] leg = "decisions" -> judgeDecisions(ds)
                           [] leg = "iteration" -> judgeIteration(ds)]
      BY <1>9 DEF JudgeLinked
    <3> DEFINE log == SortedBySequence(page)
               ds == [i \in DOMAIN log |-> log[i].turn]
    <3>2. ds = decisions
      BY <1>7, SortedIsInOrder
    <3> HIDE DEF ds
    <3> QED  BY <3>1, <3>2 DEF ds
  <2>2. CASE version = 0
    <3>1. legsJudged' = [leg \in {"terminates"} |-> "skip"]
      BY <2>1, <2>2
    <3>2. \A leg \in DOMAIN legsJudged' : ~Caught(leg)
      BY <3>1
    <3>3. ~(version > 0) /\ ~(version >= 5)
      BY <2>2
    <3> QED  BY <1>5, <1>6, <1>9, <3>2, <3>3
  <2>3. CASE version # 0
    <3> DEFINE T == judgeLoopTerminates(decisions)
               D == judgeDecisions(decisions)
               I == judgeIteration(decisions)
    <3> HIDE DEF T, D, I
    <3>1. legsJudged' = [leg \in {"terminates", "decisions", "iteration"} |->
                           CASE leg = "terminates" -> T [] leg = "decisions" -> D [] leg = "iteration" -> I]
      BY <2>1, <2>3 DEF T, D, I
    <3>2. /\ DOMAIN legsJudged' = {"terminates", "decisions", "iteration"}
          /\ legsJudged'["terminates"] = T /\ legsJudged'["decisions"] = D /\ legsJudged'["iteration"] = I
      BY <3>1
    <3>3. /\ Conformed => T # "convicted" /\ D # "convicted" /\ I # "convicted"
          /\ "terminates" \in strayed => T = "convicted"
          /\ "decisions" \in strayed => D = "convicted"
          /\ version >= 5 /\ "iteration" \in strayed => I = "convicted"
      BY <1>9, <2>3, LoopLegsAreTrue DEF T, D, I
    <3> QED  BY <1>5, <1>6, <1>9, <3>2, <3>3
  <2> QED  BY <2>2, <2>3
<1>10. CASE kindOfRun # "loop"
  <2> DEFINE S == IF kindOfRun = "subWorkflow" /\ parentVar THEN judgeSeed ELSE "skip"
             P == IF kindOfRun = "subWorkflow"
                  THEN IF parentVar THEN judgeOverride ELSE judgeUnset
                  ELSE IF parentVar THEN judgeProjection ELSE judgeUnsetProjection
  <2> HIDE DEF S, P
  <2>1. legsJudged' = [leg \in {"output", "ancestry", "seed", "projection"} |->
                         CASE leg = "output" -> judgeOutput [] leg = "ancestry" -> judgeAncestry
                           [] leg = "seed" -> S [] leg = "projection" -> P]
    BY <1>10 DEF JudgeLinked, S, P
  <2>2. /\ DOMAIN legsJudged' = {"output", "ancestry", "seed", "projection"}
        /\ legsJudged'["output"] = judgeOutput /\ legsJudged'["ancestry"] = judgeAncestry
        /\ legsJudged'["seed"] = S /\ legsJudged'["projection"] = P
    BY <2>1
  <2>3. Conformed => judgeOutput # "convicted" /\ judgeAncestry # "convicted" /\ S # "convicted" /\ P # "convicted"
    BY <1>7, <1>10, ChildLegsAreTrue DEF S, P
  <2>4. "override" \in strayed /\ parentVar /\ link # "none" => P = "convicted"
    BY <1>5 DEF P, judgeOverride, Verdict
  <2>5. "ancestry" \in strayed /\ link # "none" => judgeAncestry = "convicted"
    BY <1>6 DEF judgeAncestry, Verdict
  <2>6. ~(version > 0) /\ ~(version >= 5)
    BY <1>7, <1>10
  <2> QED  BY <2>2, <2>3, <2>4, <2>5, <2>6
<1> QED  BY <1>9, <1>10

(* dispatch-witness.ts and subworkflow-witness.ts: whatever a host does    *)
(* before it is judged and however it serves its log, one that conforms is *)
(* convicted by no leg, and a rule it broke is told by the leg that owns   *)
(* it: for loops of any length, of any agents and at any level.            *)
THEOREM LinkedRunsAreJudged == LinkedSpec => []LinkedVerdictIsTrue
<1>1. LinkedInv /\ [LinkedNext]_linkedVars => LinkedInv'
  <2> SUFFICES ASSUME LinkedInv, [LinkedNext]_linkedVars PROVE LinkedInv'
    OBVIOUS
  <2>1. CASE UNCHANGED linkedVars
    <3>1. UNCHANGED <<kindOfRun, parentVar, version, parent, child, bag, mapped, link, lineage,
                      decisions, strayed, legsJudged>>
      BY <2>1 DEF linkedVars
    <3> QED  BY <3>1 DEF LinkedInv, LinkedTyped, StrayedOfChild, StrayedOfTurns, Turns, Ended,
                LinkedVerdictIsTrue, Conformed, Convicted
  <2>2. CASE JudgeLinked
    BY <2>2, JudgeLinkedKeeps
  <2>3. ASSUME LinkedNext, ~JudgeLinked PROVE LinkedInv'
    <3>1. /\ LinkedTyped' /\ StrayedOfChild' /\ StrayedOfTurns'
          /\ legsJudged' = legsJudged
      <4>1. CASE StartLinked \/ SeedChild \/ ProjectVariable \/ EndLinkedChild \/ CompleteNode \/ EndParent
        <5>1. legsJudged' = legsJudged
          BY <4>1 DEF StartLinked, SeedChild, ProjectVariable, EndLinkedChild, CompleteNode, EndParent
        <5> QED  BY <4>1, <5>1, RunStepKeeps
      <4>2. ASSUME NEW kind \in {"next-worker", "terminate"}, NEW agent \in Deciders,
                   NEW iteration \in 1..MaxTurns, Decide(kind, agent, iteration)
            PROVE  LinkedTyped' /\ StrayedOfChild' /\ StrayedOfTurns' /\ legsJudged' = legsJudged
        <5>1. legsJudged' = legsJudged
          BY <4>2 DEF Decide
        <5> QED  BY <4>2, <5>1, DecideKeeps
      <4> QED  BY <2>3, <4>1, <4>2 DEF LinkedNext
    <3>2. legsJudged = NoLegs
      BY <2>3 DEF LinkedNext, NoLegs
    <3>3. LinkedVerdictIsTrue'
      <4>1. legsJudged' = NoLegs /\ DOMAIN NoLegs = {}
        BY <3>1, <3>2 DEF NoLegs
      <4>2. \A leg : ~Convicted(leg)'
        BY <4>1 DEF Convicted
      <4> QED  BY <4>1, <4>2 DEF LinkedVerdictIsTrue, NoLegs
    <3> QED  BY <3>1, <3>3 DEF LinkedInv
  <2> QED  BY <2>1, <2>2, <2>3
<1>2. LinkedInv => LinkedVerdictIsTrue
  BY DEF LinkedInv
<1> QED  BY LinkedStarts, <1>1, <1>2, PTL DEF LinkedSpec

-----------------------------------------------------------------------------
(* The slots of a host.                                                    *)
SlotRuns == [status : {"running", "completed", "cancelled"}, streamed : BOOLEAN, known : BOOLEAN]

WaitingForSlots ==
  /\ {"at", "polls", "status", "error", "partial", "others", "early", "busy", "verdict"} \subseteq DOMAIN waiting
  /\ waiting.at \in {"create", "stream", "probe", "cancel", "judged", "blocked"}
  /\ waiting.verdict \in {"none", "blocked", "judged"}
  /\ waiting.at = "cancel" => waiting.verdict # "none"

SlotsInv == FillsSlots => slots \in Seq(SlotRuns) /\ WaitingForSlots /\ NoSlotLeftHeld

LEMMA AsLong ==
  ASSUME NEW S, NEW T, NEW s \in Seq(S), NEW t, DOMAIN t = DOMAIN s, t = [i \in DOMAIN t |-> t[i]],
         \A i \in DOMAIN s : t[i] \in T
  PROVE  t \in Seq(T)
<1>1. DOMAIN s = 1..Len(s) /\ Len(s) \in Nat
  OBVIOUS
<1>2. t \in [1..Len(s) -> T]
  BY <1>1
<1> QED  BY <1>1, <1>2

LEMMA SlotsStart == ResourceInit => SlotsInv
BY DEF ResourceInit, SlotsInv, WaitingForSlots, NoSlotLeftHeld

LEMMA SlotStepKeeps ==
  ASSUME SlotsInv, ResourceNext
  PROVE  SlotsInv'
<1>1. resource' = resource
  BY DEF ResourceNext, RunGoesOn, NotCreated, StartFixtureRun, PollFixtureRun, ReadLog, AskForRefusal,
         FillSlot, OpenStream, ParallelFile, HoldEnds, ProbeSlots, CancelSlots
<1>2. FillsSlots' <=> FillsSlots
  BY <1>1 DEF FillsSlots, WitnessIs
<1> SUFFICES ASSUME FillsSlots
             PROVE  slots' \in Seq(SlotRuns) /\ WaitingForSlots' /\ NoSlotLeftHeld'
  BY <1>2 DEF SlotsInv
<1>3. slots \in Seq(SlotRuns) /\ WaitingForSlots /\ NoSlotLeftHeld
  BY DEF SlotsInv
<1>4. resource.witness = "slots"
  BY DEF FillsSlots, WitnessIs
<1>5. \A known \in BOOLEAN : Append(slots, Slot(known)) \in Seq(SlotRuns)
  <2>1. \A known \in BOOLEAN : Slot(known) \in SlotRuns
    BY DEF Slot, SlotRuns
  <2> QED  BY <1>3, <2>1
<1>6. ~NotCreated /\ ~StartFixtureRun /\ ~PollFixtureRun /\ ~ReadLog /\ ~AskForRefusal
  BY <1>3, <1>4 DEF NotCreated, WitnessIs, StartFixtureRun, PollFixtureRun, ReadLog, AskForRefusal, WaitingForSlots
<1>7. CASE RunGoesOn
  <2>1. UNCHANGED <<slots, waiting, resource>>
    BY <1>1, <1>7 DEF RunGoesOn
  <2> QED  BY <1>2, <1>3, <2>1 DEF WaitingForSlots, NoSlotLeftHeld, SlotRuns
<1>8. ASSUME slots' \in Seq(SlotRuns), WaitingForSlots', waiting'.at \notin {"judged", "blocked"}
      PROVE  slots' \in Seq(SlotRuns) /\ WaitingForSlots' /\ NoSlotLeftHeld'
  BY <1>8 DEF NoSlotLeftHeld
<1>9. CASE FillSlot
  <2>1. slots' \in Seq(SlotRuns)
    BY <1>3, <1>5, <1>9 DEF FillSlot
  <2>2. WaitingForSlots' /\ waiting'.at \notin {"judged", "blocked"}
    BY <1>3, <1>9 DEF FillSlot, LeaveSlots, WaitingForSlots
  <2> QED  BY <1>8, <2>1, <2>2
<1>10. CASE OpenStream
  <2>1. slots' \in Seq(SlotRuns)
    <3>1. CASE UNCHANGED slots
      BY <1>3, <3>1
    <3>2. CASE /\ slots[Len(slots)].status = "running"
               /\ slots' = [slots EXCEPT ![Len(slots)].streamed = TRUE]
      <4>1. ASSUME NEW i \in DOMAIN slots PROVE slots'[i] \in SlotRuns
        <5>1. slots[i] \in SlotRuns
          BY <1>3
        <5> QED  BY <3>2, <5>1 DEF SlotRuns
      <4>2. DOMAIN slots' = DOMAIN slots /\ slots' = [i \in DOMAIN slots' |-> slots'[i]]
        BY <3>2
      <4> QED  BY <1>3, <4>1, <4>2, AsLong
    <3> QED  BY <1>10, <3>1, <3>2 DEF OpenStream
  <2>2. WaitingForSlots' /\ waiting'.at \notin {"judged", "blocked"}
    BY <1>3, <1>10 DEF OpenStream, LeaveSlots, WaitingForSlots
  <2> QED  BY <1>8, <2>1, <2>2
<1>11. CASE ParallelFile
  <2>1. WaitingForSlots' /\ waiting'.at \notin {"judged", "blocked"}
    BY <1>3, <1>11 DEF ParallelFile, WaitingForSlots
  <2>2. slots' = slots
    BY <1>11 DEF ParallelFile
  <2> QED  BY <1>3, <1>8, <2>1, <2>2 DEF SlotRuns
<1>12. CASE HoldEnds
  <2>1. PICK i \in DOMAIN slots : /\ slots[i].status = "running"
                                  /\ slots' = [slots EXCEPT ![i].status = "completed"]
    BY <1>12 DEF HoldEnds
  <2>2. ASSUME NEW j \in DOMAIN slots
        PROVE  /\ slots'[j] \in SlotRuns /\ slots'[j].known = slots[j].known
               /\ slots'[j].status = "running" => slots[j].status = "running"
    <3>1. slots[j] \in SlotRuns /\ slots[i] \in SlotRuns
      BY <1>3
    <3> QED  BY <2>1, <3>1 DEF SlotRuns
  <2>3. DOMAIN slots' = DOMAIN slots /\ slots' \in Seq(SlotRuns)
    <3>1. DOMAIN slots' = DOMAIN slots /\ slots' = [j \in DOMAIN slots' |-> slots'[j]]
      BY <2>1
    <3> QED  BY <1>3, <2>2, <3>1, AsLong
  <2>4. WaitingForSlots' /\ waiting'.at = waiting.at
    BY <1>3, <1>12 DEF HoldEnds, WaitingForSlots
  <2> QED  BY <1>2, <1>3, <2>2, <2>3, <2>4 DEF NoSlotLeftHeld
<1>13. CASE ProbeSlots
  <2>1. slots' \in Seq(SlotRuns)
    BY <1>3, <1>5, <1>13 DEF ProbeSlots
  <2>2. WaitingForSlots' /\ waiting'.at \notin {"judged", "blocked"}
    BY <1>3, <1>13 DEF ProbeSlots, LeaveSlots, WaitingForSlots
  <2> QED  BY <1>8, <2>1, <2>2
<1>14. CASE CancelSlots
  <2>1. slots' = [i \in DOMAIN slots |->
                   [slots[i] EXCEPT !.streamed = FALSE,
                                    !.status = IF i \in KnownSlots /\ @ = "running" THEN "cancelled" ELSE @]]
    BY <1>14 DEF CancelSlots
  <2>2. ASSUME NEW j \in DOMAIN slots
        PROVE  /\ slots'[j] \in SlotRuns
               /\ slots'[j].status = "running" => ~slots'[j].known
    <3> DEFINE K == j \in KnownSlots
               old == slots[j]
    <3>1. old \in SlotRuns
      BY <1>3
    <3>2. K <=> slots[j].known
      BY DEF KnownSlots
    <3>3. slots'[j] = [old EXCEPT !.streamed = FALSE,
                                  !.status = IF K /\ @ = "running" THEN "cancelled" ELSE @]
      BY <2>1
    <3> HIDE DEF K
    <3>4. K <=> old.known
      BY <3>2
    <3> HIDE DEF old
    <3>5. slots'[j] \in SlotRuns
      BY <3>1, <3>3 DEF SlotRuns
    <3>6. slots'[j].known = old.known
      BY <3>1, <3>3, Zenon DEF SlotRuns
    <3>7. slots'[j].status = IF K /\ old.status = "running" THEN "cancelled" ELSE old.status
      BY <3>1, <3>3 DEF SlotRuns
    <3> QED  BY <3>4, <3>5, <3>6, <3>7
  <2>3. DOMAIN slots' = DOMAIN slots /\ slots' \in Seq(SlotRuns)
    <3>1. DOMAIN slots' = DOMAIN slots /\ slots' = [j \in DOMAIN slots' |-> slots'[j]]
      BY <2>1
    <3> QED  BY <1>3, <2>2, <3>1, AsLong
  <2>4. WaitingForSlots'
    BY <1>3, <1>14 DEF CancelSlots, MoveTo, WaitingForSlots
  <2> QED  BY <2>2, <2>3, <2>4 DEF NoSlotLeftHeld
<1> QED  BY <1>6, <1>7, <1>9, <1>10, <1>11, <1>12, <1>13, <1>14 DEF ResourceNext

(* backpressure-witness.ts: "Cancel them so the next file does not meet a  *)
(* saturated host": however many slots a host has, whichever of its holds  *)
(* come to an end early, and wherever the filling breaks off, the witness  *)
(* leaves no run behind that it knew of.                                   *)
THEOREM SlotsAreGivenBack == ResourceSpec => []NoSlotLeftHeld
<1>1. SlotsInv /\ [ResourceNext]_resourceVars => SlotsInv'
  <2> SUFFICES ASSUME SlotsInv, UNCHANGED resourceVars PROVE SlotsInv'
    BY SlotStepKeeps
  <2> QED  BY DEF resourceVars, SlotsInv, FillsSlots, WitnessIs, WaitingForSlots, NoSlotLeftHeld, SlotRuns
<1>2. SlotsInv => NoSlotLeftHeld
  BY DEF SlotsInv, NoSlotLeftHeld
<1> QED  BY SlotsStart, <1>1, <1>2, PTL DEF ResourceSpec

-----------------------------------------------------------------------------
(* The stress: workers that share one index of trials.                     *)
Busy == {"create", "cancel", "poll", "events"}
Endings == TERMINAL \cup {"timed-out"}
Crew == 1..SoakWorkers
Statuses == {"absent", "running", "completed", "failed", "cancelled"}
RunRecords == [status : Statuses, cancelling : BOOLEAN, reasoned : Nat]
TrialRecords == [error : {"missing", "none", "cancel", "create-run"},
                 terminalStatus : {"none"} \cup Endings, reasoned : Nat, cancel : {0, 200, 409, 500}]
WorkerRecords == [at : Busy \cup {"idle", "done"}, trial : Nat, polls : Nat, error : {"none", "cancel"},
                  terminalStatus : {"none"} \cup Endings, cancel : {0, 200, 409, 500}]
Said == IF Broken("talks too much") THEN WorkerCap + 1 ELSE WorkerCap

(* A run ends cancelled only where it was cancelled, and fails only of a   *)
(* faulty host.                                                            *)
RunFits(i) ==
  LET its == agentRuns[i] IN
  /\ its.cancelling => shouldCancel(i)
  /\ its.status = "cancelled" => its.cancelling /\ ~Broken("cancel lost")
  /\ its.status = "failed" => ~Broken("none")
  /\ its.status # "absent" => its.reasoned = Said

TrialFits(i) ==
  LET t == trials[i] IN
  /\ i >= nextIndex => t.error = "missing"
  /\ t.error \notin {"missing", "none"} => Broken("refuses")
  /\ t.error = "none" => t.terminalStatus \in Endings
  /\ t.error # "missing" /\ ~Broken("refuses") => t.reasoned = Said
  /\ t.error # "missing" /\ t.terminalStatus \in TERMINAL => agentRuns[i].status = t.terminalStatus

WorkerFits(w) ==
  LET own == workers[w] IN
  /\ own.at \notin Busy => own.trial = RUNS
  /\ own.at = "done" => nextIndex >= RUNS
  /\ own.error = "cancel" => Broken("refuses")
  /\ own.terminalStatus # "none" <=> own.at = "events"
  /\ own.at \in Busy => /\ own.trial \in Trials /\ own.trial < nextIndex
                        /\ trials[own.trial].error = "missing"
                        /\ own.at # "create" => agentRuns[own.trial].status # "absent"
                        /\ own.at = "cancel" => shouldCancel(own.trial) /\ ~agentRuns[own.trial].cancelling
                        /\ own.terminalStatus \in TERMINAL => agentRuns[own.trial].status = own.terminalStatus

StressTyped ==
  /\ nextIndex \in Nat /\ soakPlan.cancelTarget \in Nat
  /\ workers \in [Crew -> WorkerRecords]
  /\ agentRuns \in [Trials -> RunRecords] /\ trials \in [Trials -> TrialRecords]

StressInv ==
  Stressing =>
    /\ StressTyped
    /\ \A i \in Trials : RunFits(i) /\ TrialFits(i)
    /\ \A w \in Crew : WorkerFits(w)
    /\ \A w, v \in Crew : workers[w].trial = workers[v].trial => w = v \/ workers[w].trial = RUNS
    /\ \A i \in Trials : i < nextIndex /\ trials[i].error = "missing" => \E w \in Crew : workers[w].trial = i

LEMMA SoakFacts ==
  /\ RUNS \in Nat /\ RUNS > 0 /\ SoakWorkers \in Nat /\ SoakWorkers > 0 /\ StressPolls \in Nat
  /\ 1 \in Crew /\ 0 \in Trials /\ \A i \in Trials : i \in Nat /\ i < RUNS
  /\ \A n \in Nat : n < RUNS => n \in Trials
  /\ WorkerCap \in Nat /\ Said \in Nat
<1>1. RUNS \in Nat /\ RUNS > 0 /\ SoakWorkers \in Nat /\ SoakWorkers > 0 /\ StressPolls \in Nat
  BY SoakAssumption
<1>2. WorkerCap \in Nat
  <2>1. \E x \in {2, 2 * SoakWorkers} : \A y \in {2, 2 * SoakWorkers} : x >= y
    BY <1>1
  <2>2. Max({2, 2 * SoakWorkers}) \in {2, 2 * SoakWorkers}
    BY <2>1 DEF Max
  <2> QED  BY <1>1, <2>2 DEF WorkerCap
<1>3. WorkerCap + 1 \in Nat
  BY <1>2
<1>4. Said \in {WorkerCap, WorkerCap + 1}
  BY DEF Said
<1>5. Said \in Nat
  BY <1>2, <1>3, <1>4
<1> QED  BY <1>1, <1>2, <1>5 DEF Crew, Trials

LEMMA StressStarts == SoakInit => StressInv
<1> SUFFICES ASSUME SoakInit, Stressing PROVE StressInv
  BY DEF StressInv
<1>1. soakPlan.cancelTarget \in Nat
  <2>1. CASE soakPlan \in [runner : {"stress"}, cancelTarget : CancelTargets, paths : {<< >>}]
    <3>1. soakPlan.cancelTarget \in CancelTargets
      BY <2>1
    <3> QED  BY <3>1, SoakAssumption
  <2>2. CASE soakPlan \in [runner : {"load"}, cancelTarget : {0}, paths : LoadPathSets]
    BY <2>2
  <2> QED  BY <2>1, <2>2 DEF SoakInit
<1>2. NoTrial \in WorkerRecords /\ NoTrial.at = "idle" /\ NoTrial.trial = RUNS /\ NoTrial.error = "none"
      /\ NoTrial.terminalStatus = "none"
  BY SoakFacts DEF NoTrial, WorkerRecords
<1>3. workers \in [Crew -> WorkerRecords] /\ \A w \in Crew : workers[w] = NoTrial
  BY <1>2 DEF Crew, SoakInit
<1>4. /\ agentRuns \in [Trials -> RunRecords] /\ trials \in [Trials -> TrialRecords]
      /\ \A i \in Trials : /\ agentRuns[i] = [status |-> "absent", cancelling |-> FALSE, reasoned |-> 0]
                           /\ trials[i] = [error |-> "missing", terminalStatus |-> "none", reasoned |-> 0, cancel |-> 0]
  BY DEF RunRecords, TrialRecords, Statuses, SoakInit
<1>5. \A i \in Trials : RunFits(i) /\ TrialFits(i)
  <2> SUFFICES ASSUME NEW i \in Trials PROVE RunFits(i) /\ TrialFits(i)
    OBVIOUS
  <2>1. ~agentRuns[i].cancelling /\ agentRuns[i].status = "absent" /\ trials[i].error = "missing"
    BY <1>4
  <2>2. RunFits(i)
    BY <2>1 DEF RunFits
  <2>3. TrialFits(i)
    BY <2>1 DEF TrialFits
  <2> QED  BY <2>2, <2>3
<1>6. \A w \in Crew : WorkerFits(w)
  BY <1>2, <1>3 DEF WorkerFits, Busy
<1>7. \A w, v \in Crew : workers[w].trial = workers[v].trial => w = v \/ workers[w].trial = RUNS
  BY <1>2, <1>3
<1>8. nextIndex = 0 /\ \A i \in Trials : ~(i < nextIndex)
  <2>1. nextIndex = 0
    BY DEF SoakInit
  <2>2. \A i \in Trials : i \in Nat
    BY SoakFacts
  <2> QED  BY <2>1, <2>2
<1> QED  BY <1>1, <1>3, <1>4, <1>5, <1>6, <1>7, <1>8 DEF StressInv, StressTyped

LEMMA TakeTrialKeeps ==
  ASSUME StressInv, NEW w \in Crew, TakeTrial(w)
  PROVE  StressInv'
<1> SUFFICES ASSUME Stressing PROVE StressInv'
  BY DEF TakeTrial
<1> DEFINE taken == IF nextIndex >= RUNS THEN [workers[w] EXCEPT !.at = "done"]
                    ELSE [NoTrial EXCEPT !.at = "create", !.trial = nextIndex]
<1>1. /\ StressTyped /\ \A i \in Trials : RunFits(i) /\ TrialFits(i)
      /\ \A v \in Crew : WorkerFits(v)
      /\ \A u, v \in Crew : workers[u].trial = workers[v].trial => u = v \/ workers[u].trial = RUNS
      /\ \A i \in Trials : i < nextIndex /\ trials[i].error = "missing" => \E v \in Crew : workers[v].trial = i
  BY DEF StressInv
<1>2. /\ UNCHANGED <<soakFault, soakPlan, agentRuns, trials>> /\ nextIndex' = nextIndex + 1
      /\ workers[w].at = "idle"
  BY DEF TakeTrial, StressVars
<1>3. nextIndex \in Nat /\ nextIndex' \in Nat /\ workers[w] \in WorkerRecords
      /\ workers \in [Crew -> WorkerRecords]
  BY <1>1, <1>2 DEF StressTyped
<1>4. workers' = [workers EXCEPT ![w] = taken]
  BY DEF TakeTrial, At
<1>5. workers[w].trial = RUNS /\ workers[w].terminalStatus = "none" /\ (workers[w].error = "cancel" => Broken("refuses"))
  BY <1>1, <1>2 DEF WorkerFits, Busy
<1>6. /\ taken \in WorkerRecords /\ taken.terminalStatus = "none" /\ (taken.error = "cancel" => Broken("refuses"))
      /\ IF nextIndex >= RUNS THEN taken.at = "done" /\ taken.trial = RUNS
         ELSE taken.at = "create" /\ taken.trial = nextIndex
  <2>1. CASE nextIndex >= RUNS
    <3> DEFINE own == workers[w]
    <3>1. own \in WorkerRecords /\ taken = [own EXCEPT !.at = "done"] /\ own.trial = RUNS
          /\ own.terminalStatus = "none" /\ (own.error = "cancel" => Broken("refuses"))
      BY <1>3, <1>5, <2>1
    <3> HIDE DEF own, taken
    <3>2. taken \in WorkerRecords /\ taken.at = "done" /\ taken.trial = own.trial
          /\ taken.terminalStatus = own.terminalStatus /\ taken.error = own.error
      BY <3>1 DEF WorkerRecords
    <3> QED  BY <2>1, <3>1, <3>2
  <2>2. CASE ~(nextIndex >= RUNS)
    <3>1. taken = [at |-> "create", trial |-> nextIndex, polls |-> 0, error |-> "none",
                   terminalStatus |-> "none", cancel |-> 0]
      BY <2>2 DEF NoTrial
    <3> HIDE DEF taken
    <3>2. taken \in WorkerRecords
      BY <1>3, <3>1 DEF WorkerRecords, Busy
    <3> QED  BY <2>2, <3>1, <3>2
  <2> QED  BY <2>1, <2>2
<1> HIDE DEF taken
<1>7. workers' \in [Crew -> WorkerRecords] /\ workers'[w] = taken /\ \A v \in Crew : v # w => workers'[v] = workers[v]
  BY <1>3, <1>4, <1>6
<1>8. StressTyped'
  BY <1>1, <1>2, <1>3, <1>7 DEF StressTyped, Crew, Trials
<1>9. \A i \in Trials : RunFits(i)' /\ TrialFits(i)'
  <2> SUFFICES ASSUME NEW i \in Trials PROVE RunFits(i)' /\ TrialFits(i)'
    OBVIOUS
  <2>1. RunFits(i)'
    BY <1>1, <1>2 DEF RunFits, shouldCancel, Broken, Said
  <2>2. i >= nextIndex' => i >= nextIndex
    BY <1>2, <1>3, SoakFacts
  <2>3. TrialFits(i)'
    BY <1>1, <1>2, <2>2 DEF TrialFits, Broken, Said
  <2> QED  BY <2>1, <2>3
<1>10. ASSUME NEW v \in Crew PROVE WorkerFits(v)'
  <2>1. CASE v # w
    <3>1. workers'[v] = workers[v] /\ WorkerFits(v)
      BY <1>1, <1>7, <2>1
    <3>2. workers[v].trial \in Nat
      BY <1>3 DEF WorkerRecords
    <3>3. (nextIndex >= RUNS => nextIndex' >= RUNS) /\ (workers[v].trial < nextIndex => workers[v].trial < nextIndex')
      BY <1>2, <1>3, <3>2, SoakFacts
    <3> QED  BY <1>2, <3>1, <3>3 DEF WorkerFits, Broken, Trials, shouldCancel
  <2>2. CASE v = w
    <3>1. CASE nextIndex >= RUNS
      <4>1. nextIndex' >= RUNS
        BY <1>2, <1>3, <3>1, SoakFacts
      <4> QED  BY <1>2, <1>6, <1>7, <2>2, <3>1, <4>1 DEF WorkerFits, Busy, Broken
    <3>2. CASE ~(nextIndex >= RUNS)
      <4>1. nextIndex \in Trials /\ nextIndex < nextIndex'
        BY <1>2, <1>3, <3>2, SoakFacts
      <4>2. trials[nextIndex].error = "missing"
        BY <1>1, <1>3, <4>1 DEF TrialFits
      <4>3. taken.at = "create" /\ taken.trial = nextIndex
        BY <1>6, <3>2
      <4> QED  BY <1>2, <1>6, <1>7, <2>2, <4>1, <4>2, <4>3 DEF WorkerFits, Busy, Broken, TERMINAL, Trials
    <3> QED  BY <3>1, <3>2
  <2> QED  BY <2>1, <2>2
<1>11. ASSUME NEW u \in Crew, NEW v \in Crew, workers'[u].trial = workers'[v].trial
       PROVE  u = v \/ workers'[u].trial = RUNS
  <2>1. \A x \in Crew : x # w => workers[x].trial < nextIndex \/ workers[x].trial = RUNS
    BY <1>1, <1>3 DEF WorkerFits, WorkerRecords
  <2>2. \A x \in Crew : workers[x].trial \in Nat
    BY <1>3 DEF WorkerRecords
  <2>3. CASE u # w /\ v # w
    BY <1>1, <1>7, <1>11, <2>3
  <2>4. CASE u = w \/ v = w
    BY <1>3, <1>6, <1>7, <1>11, <2>1, <2>2, <2>4
  <2> QED  BY <2>3, <2>4
<1>12. ASSUME NEW i \in Trials, i < nextIndex', trials'[i].error = "missing"
       PROVE  \E v \in Crew : workers'[v].trial = i
  <2>1. CASE i < nextIndex
    <3>1. PICK v \in Crew : workers[v].trial = i
      BY <1>1, <1>2, <1>12, <2>1
    <3>2. v # w
      BY <1>5, <3>1, SoakFacts
    <3> QED  BY <1>7, <3>1, <3>2
  <2>2. CASE ~(i < nextIndex)
    <3>1. i = nextIndex /\ nextIndex < RUNS
      BY <1>2, <1>3, <1>12, <2>2, SoakFacts
    <3>2. taken.trial = i
      BY <1>3, <1>6, <3>1, SoakFacts
    <3> QED  BY <1>7, <3>2
  <2> QED  BY <2>1, <2>2
<1>13. Trials' = Trials /\ Crew' = Crew
  BY DEF Trials, Crew
<1> QED  BY <1>8, <1>9, <1>10, <1>11, <1>12, <1>13 DEF StressInv

(* A step of one worker about its trial leaves the other trials, and who   *)
(* has them, alone.                                                        *)
LEMMA WorkerStepKeeps ==
  ASSUME StressInv, Stressing, NEW w \in Crew, NEW i \in Trials, workers[w].trial = i,
         workers[w].at \in Busy,
         NEW own \in WorkerRecords, NEW t \in TrialRecords, NEW r \in RunRecords,
         workers' = [workers EXCEPT ![w] = own], trials' = [trials EXCEPT ![i] = t],
         agentRuns' = [agentRuns EXCEPT ![i] = r],
         UNCHANGED <<soakFault, soakPlan, nextIndex>>,
         RunFits(i)', TrialFits(i)', WorkerFits(w)',
         \/ own.trial = i /\ t.error = "missing"
         \/ own.trial = RUNS /\ t.error # "missing"
  PROVE  StressInv'
<1>1. /\ StressTyped /\ \A j \in Trials : RunFits(j) /\ TrialFits(j)
      /\ \A v \in Crew : WorkerFits(v)
      /\ \A u, v \in Crew : workers[u].trial = workers[v].trial => u = v \/ workers[u].trial = RUNS
      /\ \A j \in Trials : j < nextIndex /\ trials[j].error = "missing" => \E v \in Crew : workers[v].trial = j
  BY DEF StressInv
<1>2. /\ workers' \in [Crew -> WorkerRecords] /\ workers'[w] = own /\ \A v \in Crew : v # w => workers'[v] = workers[v]
      /\ trials' \in [Trials -> TrialRecords] /\ trials'[i] = t /\ \A j \in Trials : j # i => trials'[j] = trials[j]
      /\ agentRuns' \in [Trials -> RunRecords] /\ agentRuns'[i] = r
      /\ \A j \in Trials : j # i => agentRuns'[j] = agentRuns[j]
  BY <1>1 DEF StressTyped
<1>3. Trials' = Trials /\ Crew' = Crew
  BY DEF Trials, Crew
<1>4. StressTyped'
  BY <1>1, <1>2, <1>3 DEF StressTyped
<1>5. ASSUME NEW j \in Trials PROVE RunFits(j)' /\ TrialFits(j)'
  <2>1. CASE j # i
    <3>1. RunFits(j) /\ TrialFits(j) /\ trials'[j] = trials[j] /\ agentRuns'[j] = agentRuns[j]
      BY <1>1, <1>2, <2>1
    <3> QED  BY <3>1 DEF RunFits, TrialFits, shouldCancel, Broken, Said
  <2> QED  BY <2>1
<1>6. i # RUNS
  BY SoakFacts
<1>7. ASSUME NEW v \in Crew PROVE WorkerFits(v)'
  <2>1. CASE v # w
    <3>1. WorkerFits(v) /\ workers'[v] = workers[v] /\ workers[v].trial # i
      BY <1>1, <1>2, <1>6, <2>1
    <3>2. \A j \in Trials : j # i => trials'[j] = trials[j] /\ agentRuns'[j] = agentRuns[j]
      BY <1>2
    <3> QED  BY <1>3, <3>1, <3>2 DEF WorkerFits, shouldCancel, Broken
  <2> QED  BY <2>1
<1>8. ASSUME NEW u \in Crew, NEW v \in Crew, workers'[u].trial = workers'[v].trial
      PROVE  u = v \/ workers'[u].trial = RUNS
  <2>1. \A x \in Crew : x # w => workers'[x].trial = workers[x].trial /\ workers[x].trial # i
    BY <1>1, <1>2, <1>6
  <2>2. workers'[w].trial = i \/ workers'[w].trial = RUNS
    BY <1>2
  <2> QED  BY <1>1, <1>8, <2>1, <2>2
<1>9. ASSUME NEW j \in Trials, j < nextIndex', trials'[j].error = "missing"
      PROVE  \E v \in Crew : workers'[v].trial = j
  <2>1. CASE j = i
    BY <1>2, <1>9, <2>1
  <2>2. CASE j # i
    <3>1. PICK v \in Crew : workers[v].trial = j
      BY <1>1, <1>2, <1>9, <2>2
    <3> QED  BY <1>2, <2>2, <3>1
  <2> QED  BY <2>1, <2>2
<1> QED  BY <1>3, <1>4, <1>5, <1>7, <1>8, <1>9 DEF StressInv

(* What a worker has in hand.                                              *)
LEMMA OfABusyWorker ==
  ASSUME StressInv, Stressing, NEW w \in Crew, workers[w].at \in Busy
  PROVE  \E own \in WorkerRecords, i \in Trials :
             /\ workers[w] = own /\ own.trial = i /\ agentRuns[i] \in RunRecords /\ trials[i] \in TrialRecords
             /\ trials = [trials EXCEPT ![i] = trials[i]] /\ agentRuns = [agentRuns EXCEPT ![i] = agentRuns[i]]
             /\ workers \in [Crew -> WorkerRecords] /\ trials \in [Trials -> TrialRecords]
             /\ agentRuns \in [Trials -> RunRecords] /\ nextIndex \in Nat /\ i < nextIndex
             /\ trials[i].error = "missing" /\ WorkerFits(w) /\ RunFits(i)
<1>1. StressTyped /\ WorkerFits(w) /\ \A i \in Trials : RunFits(i)
  BY DEF StressInv
<1>2. workers[w].trial \in Trials /\ workers[w].trial < nextIndex /\ trials[workers[w].trial].error = "missing"
  BY <1>1 DEF WorkerFits
<1> QED  BY <1>1, <1>2 DEF StressTyped

LEMMA CreateRunKeeps ==
  ASSUME StressInv, Stressing, NEW w \in Crew, CreateRun(w)
  PROVE  StressInv'
<1>1. workers[w].at = "create" /\ workers[w].at \in Busy /\ UNCHANGED <<soakFault, soakPlan, nextIndex>>
  BY DEF CreateRun, Busy
<1>2. PICK own \in WorkerRecords, i \in Trials :
        /\ workers[w] = own /\ own.trial = i /\ agentRuns[i] \in RunRecords /\ trials[i] \in TrialRecords
        /\ trials = [trials EXCEPT ![i] = trials[i]] /\ agentRuns = [agentRuns EXCEPT ![i] = agentRuns[i]]
        /\ workers \in [Crew -> WorkerRecords] /\ trials \in [Trials -> TrialRecords]
        /\ agentRuns \in [Trials -> RunRecords] /\ nextIndex \in Nat /\ i < nextIndex
        /\ trials[i].error = "missing" /\ WorkerFits(w) /\ RunFits(i)
  BY <1>1, OfABusyWorker
<1>3. own.terminalStatus = "none" /\ (own.error = "cancel" => Broken("refuses"))
  BY <1>1, <1>2 DEF WorkerFits
<1>4. CASE workers' = At(w, IF shouldCancel(i) THEN "cancel" ELSE "poll")
           /\ agentRuns' = [agentRuns EXCEPT ![i] = AgentRun] /\ UNCHANGED trials
  <2> DEFINE part == IF shouldCancel(i) THEN "cancel" ELSE "poll"
  <2>1. PICK new : new = [own EXCEPT !.at = part]
    OBVIOUS
  <2>2. workers' = [workers EXCEPT ![w] = new]
    BY <1>2, <1>4, <2>1 DEF At
  <2>3. /\ new \in WorkerRecords /\ new.at \in {"cancel", "poll"} /\ (new.at = "cancel" => shouldCancel(i))
        /\ new.trial = i /\ new.terminalStatus = "none" /\ new.error = own.error
    <3>1. part \in {"cancel", "poll"} /\ (part = "cancel" => shouldCancel(i))
      OBVIOUS
    <3> HIDE DEF part
    <3> QED  BY <1>2, <1>3, <2>1, <3>1 DEF WorkerRecords, Busy
  <2>4. /\ AgentRun = [status |-> "running", cancelling |-> FALSE, reasoned |-> Said]
        /\ AgentRun \in RunRecords
    BY SoakFacts DEF AgentRun, Said, RunRecords, Statuses
  <2>5. PICK r \in RunRecords : r = AgentRun /\ r.status = "running" /\ ~r.cancelling /\ r.reasoned = Said
    BY <2>4
  <2>6. /\ workers'[w] = new /\ agentRuns'[i] = r /\ trials'[i] = trials[i]
        /\ trials' = [trials EXCEPT ![i] = trials[i]] /\ agentRuns' = [agentRuns EXCEPT ![i] = r]
        /\ Said' = Said
    BY <1>1, <1>2, <1>4, <2>2, <2>5 DEF Said, Broken
  <2>7. RunFits(i)'
    BY <2>5, <2>6 DEF RunFits
  <2>8. TrialFits(i)'
    BY <1>2, <2>6 DEF TrialFits
  <2>9. WorkerFits(w)'
    BY <1>1, <1>2, <1>3, <2>3, <2>5, <2>6 DEF WorkerFits, Busy, shouldCancel, Broken, TERMINAL, Trials
  <2> QED  BY <1>1, <1>2, <2>2, <2>3, <2>5, <2>6, <2>7, <2>8, <2>9, WorkerStepKeeps
<1>5. CASE Broken("refuses") /\ Give(w, TrialOf(w, "create-run", 0)) /\ UNCHANGED agentRuns
  <2>1. PICK t : t = [error |-> "create-run", terminalStatus |-> own.terminalStatus, reasoned |-> 0, cancel |-> own.cancel]
    OBVIOUS
  <2>2. t \in TrialRecords /\ t.error = "create-run" /\ t.terminalStatus = "none"
    BY <1>2, <1>3, <2>1 DEF TrialRecords, WorkerRecords
  <2>3. trials' = [trials EXCEPT ![i] = t] /\ workers' = [workers EXCEPT ![w] = NoTrial]
    BY <1>2, <1>5, <2>1 DEF Give, TrialOf
  <2>4. /\ NoTrial \in WorkerRecords /\ NoTrial.trial = RUNS /\ NoTrial.at = "idle" /\ NoTrial.error = "none"
        /\ NoTrial.terminalStatus = "none"
    BY SoakFacts DEF NoTrial, WorkerRecords
  <2>5. workers'[w] = NoTrial /\ agentRuns'[i] = agentRuns[i] /\ trials'[i] = t
        /\ agentRuns' = [agentRuns EXCEPT ![i] = agentRuns[i]]
    BY <1>2, <1>5, <2>3
  <2>6. RunFits(i)'
    BY <1>1, <1>2, <2>5 DEF RunFits, shouldCancel, Broken, Said
  <2>7. TrialFits(i)'
    <3>1. ~(i >= nextIndex')
      BY <1>1, <1>2, SoakFacts
    <3> QED  BY <1>1, <1>5, <2>2, <2>5, <3>1 DEF TrialFits, Broken, TERMINAL
  <2>8. WorkerFits(w)'
    BY <2>4, <2>5 DEF WorkerFits, Busy
  <2> QED  BY <1>1, <1>2, <2>2, <2>3, <2>4, <2>5, <2>6, <2>7, <2>8, WorkerStepKeeps
<1> QED  BY <1>2, <1>4, <1>5 DEF CreateRun

LEMMA CancelRunKeeps ==
  ASSUME StressInv, Stressing, NEW w \in Crew, CancelRun(w)
  PROVE  StressInv'
<1>1. /\ workers[w].at = "cancel" /\ workers[w].at \in Busy /\ UNCHANGED <<soakFault, soakPlan, nextIndex, trials>>
  BY DEF CancelRun, Busy
<1>2. PICK own \in WorkerRecords, i \in Trials :
        /\ workers[w] = own /\ own.trial = i /\ agentRuns[i] \in RunRecords /\ trials[i] \in TrialRecords
        /\ trials = [trials EXCEPT ![i] = trials[i]] /\ agentRuns = [agentRuns EXCEPT ![i] = agentRuns[i]]
        /\ workers \in [Crew -> WorkerRecords] /\ trials \in [Trials -> TrialRecords]
        /\ agentRuns \in [Trials -> RunRecords] /\ nextIndex \in Nat /\ i < nextIndex
        /\ trials[i].error = "missing" /\ WorkerFits(w) /\ RunFits(i)
  BY <1>1, OfABusyWorker
<1>3. /\ own.terminalStatus = "none" /\ (own.error = "cancel" => Broken("refuses"))
      /\ shouldCancel(i) /\ ~agentRuns[i].cancelling /\ agentRuns[i].status # "absent"
  BY <1>1, <1>2 DEF WorkerFits
<1>4. PICK new \in WorkerRecords, r \in RunRecords :
        /\ workers' = [workers EXCEPT ![w] = new] /\ agentRuns' = [agentRuns EXCEPT ![i] = r]
        /\ new.at = "poll" /\ new.trial = i /\ new.terminalStatus = "none"
        /\ (new.error = "cancel" => Broken("refuses"))
        /\ r.status = agentRuns[i].status /\ r.reasoned = agentRuns[i].reasoned
        /\ (r.cancelling => r.status = "running")
  <2>1. PICK status \in (IF agentRuns[workers[w].trial].status = "running" THEN {200} ELSE {409})
                        \cup (IF Broken("refuses") THEN {500} ELSE {}) :
          /\ workers' = [workers EXCEPT ![w].at = "poll", ![w].cancel = status,
                                        ![w].error = IF status = 500 THEN "cancel" ELSE @]
          /\ agentRuns' = [agentRuns EXCEPT ![workers[w].trial].cancelling = status = 200]
    BY Zenon DEF CancelRun
  <2>2. /\ status \in {200, 409, 500} /\ (status = 200 => agentRuns[i].status = "running")
        /\ (status = 500 => Broken("refuses"))
    BY <1>2, <2>1
  <2>3. PICK error : error = IF status = 500 THEN "cancel" ELSE own.error
    OBVIOUS
  <2> DEFINE polled == [own EXCEPT !.at = "poll"]
             told == [polled EXCEPT !.cancel = status]
             new == [told EXCEPT !.error = error]
  <2>5. workers' = [workers EXCEPT ![w] = new]
    <3>1. workers' = [workers EXCEPT ![w].at = "poll", ![w].cancel = status, ![w].error = error]
      BY <1>2, <2>1, <2>3
    <3> QED  BY <1>2, <3>1
  <2>6. new = [at |-> "poll", trial |-> own.trial, polls |-> own.polls, error |-> error,
               terminalStatus |-> own.terminalStatus, cancel |-> status]
    <3>1. polled = [at |-> "poll", trial |-> own.trial, polls |-> own.polls, error |-> own.error,
                    terminalStatus |-> own.terminalStatus, cancel |-> own.cancel]
      BY DEF WorkerRecords
    <3> HIDE DEF polled
    <3>2. told = [at |-> "poll", trial |-> own.trial, polls |-> own.polls, error |-> own.error,
                  terminalStatus |-> own.terminalStatus, cancel |-> status]
      BY <3>1
    <3> HIDE DEF told
    <3> QED  BY <3>2
  <2> HIDE DEF new
  <2>7. error \in {"none", "cancel"} /\ (error = "cancel" => Broken("refuses"))
    BY <1>3, <2>2, <2>3 DEF WorkerRecords
  <2>8. new \in WorkerRecords
    BY <2>2, <2>6, <2>7 DEF WorkerRecords, Busy
  <2>9. PICK old \in RunRecords : old = agentRuns[i]
    BY <1>2
  <2>10. PICK taken \in BOOLEAN : taken = (status = 200)
    OBVIOUS
  <2> DEFINE r == [old EXCEPT !.cancelling = taken]
  <2>12. agentRuns' = [agentRuns EXCEPT ![i] = r]
    <3>1. agentRuns' = [agentRuns EXCEPT ![i].cancelling = taken]
      BY <1>2, <2>1, <2>10
    <3> QED  BY <2>9, <3>1
  <2>13. r = [status |-> old.status, cancelling |-> taken, reasoned |-> old.reasoned]
    BY DEF RunRecords
  <2> HIDE DEF r
  <2>14. r \in RunRecords /\ r.status = old.status /\ r.reasoned = old.reasoned /\ r.cancelling = taken
    BY <2>13 DEF RunRecords
  <2>15. taken => old.status = "running"
    BY <2>2, <2>9, <2>10
  <2>16. r.cancelling => r.status = "running"
    BY <2>14, <2>15
  <2> QED  BY <1>2, <1>3, <2>5, <2>6, <2>7, <2>8, <2>9, <2>12, <2>14, <2>16
<1>5. /\ workers'[w] = new /\ agentRuns'[i] = r /\ trials'[i] = trials[i]
      /\ trials' = [trials EXCEPT ![i] = trials[i]]
  BY <1>1, <1>2, <1>4
<1>6. RunFits(i)'
  <2>1. agentRuns[i].status # "cancelled"
    BY <1>2, <1>3 DEF RunFits
  <2>2. Said' = Said /\ (shouldCancel(i)' <=> shouldCancel(i)) /\ (Broken("none")' <=> Broken("none"))
    BY <1>1 DEF Said, Broken, shouldCancel
  <2> QED  BY <1>2, <1>3, <1>4, <1>5, <2>1, <2>2 DEF RunFits
<1>7. TrialFits(i)'
  BY <1>2, <1>5 DEF TrialFits
<1>8. WorkerFits(w)'
  BY <1>1, <1>2, <1>3, <1>4, <1>5 DEF WorkerFits, Busy, shouldCancel, Broken, TERMINAL, Trials
<1>9. /\ workers[w].trial = i /\ workers[w].at \in Busy /\ UNCHANGED <<soakFault, soakPlan, nextIndex>>
      /\ trials[i] \in TrialRecords /\ trials[i].error = "missing"
  BY <1>1, <1>2
<1> QED  BY <1>4, <1>5, <1>6, <1>7, <1>8, <1>9, WorkerStepKeeps

LEMMA PollRunKeeps ==
  ASSUME StressInv, Stressing, NEW w \in Crew, PollRun(w)
  PROVE  StressInv'
<1>1. workers[w].at = "poll" /\ workers[w].at \in Busy /\ UNCHANGED <<soakFault, soakPlan, nextIndex, trials, agentRuns>>
  BY DEF PollRun, Busy, StressVars
<1>2. PICK own \in WorkerRecords, i \in Trials :
        /\ workers[w] = own /\ own.trial = i /\ agentRuns[i] \in RunRecords /\ trials[i] \in TrialRecords
        /\ trials = [trials EXCEPT ![i] = trials[i]] /\ agentRuns = [agentRuns EXCEPT ![i] = agentRuns[i]]
        /\ workers \in [Crew -> WorkerRecords] /\ trials \in [Trials -> TrialRecords]
        /\ agentRuns \in [Trials -> RunRecords] /\ nextIndex \in Nat /\ i < nextIndex
        /\ trials[i].error = "missing" /\ WorkerFits(w) /\ RunFits(i)
  BY <1>1, OfABusyWorker
<1>3. /\ own.terminalStatus = "none" /\ (own.error = "cancel" => Broken("refuses"))
      /\ agentRuns[i].status # "absent"
  BY <1>1, <1>2 DEF WorkerFits
<1>4. PICK new : /\ workers' = [workers EXCEPT ![w] = new]
                 /\ \/ \E ended \in Endings : /\ new = [own EXCEPT !.at = "events", !.terminalStatus = ended]
                                             /\ (ended \in TERMINAL => agentRuns[i].status = ended)
                    \/ new = [own EXCEPT !.polls = @ + 1]
  <2> DEFINE status == agentRuns[i].status
  <2>1. CASE workers' = [workers EXCEPT ![w].at = "events", ![w].terminalStatus = "timed-out"]
    <3>1. workers' = [workers EXCEPT ![w] = [own EXCEPT !.at = "events", !.terminalStatus = "timed-out"]]
      BY <1>2, <2>1
    <3>2. "timed-out" \in Endings /\ "timed-out" \notin TERMINAL
      BY DEF Endings, TERMINAL
    <3> QED  BY <3>1, <3>2
  <2>2. CASE status \in TERMINAL /\ workers' = [workers EXCEPT ![w].at = "events", ![w].terminalStatus = status]
    <3>1. workers' = [workers EXCEPT ![w] = [own EXCEPT !.at = "events", !.terminalStatus = status]]
      BY <1>2, <2>2
    <3>2. status \in Endings
      BY <2>2 DEF Endings
    <3>3. status \in TERMINAL => agentRuns[i].status = status
      OBVIOUS
    <3> HIDE DEF status
    <3> QED  BY <3>1, <3>2, <3>3
  <2>3. CASE workers' = [workers EXCEPT ![w].polls = @ + 1]
    <3>1. workers' = [workers EXCEPT ![w] = [own EXCEPT !.polls = @ + 1]]
      BY <1>2, <2>3
    <3> QED  BY <3>1
  <2>4. workers' = CASE own.polls >= StressPolls ->
                         [workers EXCEPT ![w].at = "events", ![w].terminalStatus = "timed-out"]
                     [] status \in TERMINAL -> [workers EXCEPT ![w].at = "events", ![w].terminalStatus = status]
                     [] OTHER -> [workers EXCEPT ![w].polls = @ + 1]
    BY <1>2 DEF PollRun
  <2>5. \/ workers' = [workers EXCEPT ![w].at = "events", ![w].terminalStatus = "timed-out"]
        \/ status \in TERMINAL /\ workers' = [workers EXCEPT ![w].at = "events", ![w].terminalStatus = status]
        \/ workers' = [workers EXCEPT ![w].polls = @ + 1]
    BY <2>4
  <2> QED  BY <2>1, <2>2, <2>3, <2>5
<1>5. /\ new \in WorkerRecords /\ new.at \in {"poll", "events"} /\ new.trial = i /\ new.error = own.error
      /\ (new.terminalStatus # "none" <=> new.at = "events")
      /\ (new.terminalStatus \in TERMINAL => agentRuns[i].status = new.terminalStatus)
  <2>1. own.at = "poll" /\ own.polls + 1 \in Nat
    BY <1>1, <1>2 DEF WorkerRecords
  <2>2. CASE new = [own EXCEPT !.polls = @ + 1]
    <3>1. /\ new.at = "poll" /\ new.trial = own.trial /\ new.error = own.error /\ new.terminalStatus = "none"
          /\ new \in WorkerRecords
      BY <1>2, <1>3, <2>1, <2>2 DEF WorkerRecords, Busy
    <3> QED  BY <1>2, <3>1 DEF TERMINAL
  <2>3. CASE \E ended \in Endings : /\ new = [own EXCEPT !.at = "events", !.terminalStatus = ended]
                                    /\ (ended \in TERMINAL => agentRuns[i].status = ended)
    <3>1. PICK ended \in Endings : /\ new = [own EXCEPT !.at = "events", !.terminalStatus = ended]
                                   /\ (ended \in TERMINAL => agentRuns[i].status = ended)
      BY <2>3
    <3>2. new = [at |-> "events", trial |-> own.trial, polls |-> own.polls, error |-> own.error,
                 terminalStatus |-> ended, cancel |-> own.cancel]
      BY <3>1 DEF WorkerRecords
    <3>4. /\ new.at = "events" /\ new.trial = own.trial /\ new.error = own.error /\ new.terminalStatus = ended
          /\ new \in WorkerRecords
      BY <3>2 DEF WorkerRecords, Busy
    <3>3. ended # "none"
      BY DEF Endings, TERMINAL
    <3> QED  BY <1>2, <3>1, <3>3, <3>4
  <2> QED  BY <1>4, <2>2, <2>3
<1>6. /\ workers'[w] = new /\ agentRuns'[i] = agentRuns[i] /\ trials'[i] = trials[i]
      /\ trials' = [trials EXCEPT ![i] = trials[i]] /\ agentRuns' = [agentRuns EXCEPT ![i] = agentRuns[i]]
  BY <1>1, <1>2, <1>4
<1>7. RunFits(i)'
  BY <1>1, <1>2, <1>6 DEF RunFits, shouldCancel, Broken, Said
<1>8. TrialFits(i)'
  BY <1>2, <1>6 DEF TrialFits
<1>9. WorkerFits(w)'
  BY <1>1, <1>2, <1>3, <1>5, <1>6 DEF WorkerFits, Busy, shouldCancel, Broken, Trials
<1>10. /\ workers[w].trial = i /\ workers[w].at \in Busy /\ UNCHANGED <<soakFault, soakPlan, nextIndex>>
       /\ new \in WorkerRecords /\ trials[i] \in TrialRecords /\ agentRuns[i] \in RunRecords
       /\ new.trial = i /\ trials[i].error = "missing" /\ workers' = [workers EXCEPT ![w] = new]
  BY <1>1, <1>2, <1>4, <1>5
<1> QED  BY <1>6, <1>7, <1>8, <1>9, <1>10, WorkerStepKeeps

LEMMA ReadRunEventsKeeps ==
  ASSUME StressInv, Stressing, NEW w \in Crew, ReadRunEvents(w)
  PROVE  StressInv'
<1>1. workers[w].at = "events" /\ workers[w].at \in Busy /\ UNCHANGED <<soakFault, soakPlan, nextIndex, agentRuns>>
  BY DEF ReadRunEvents, Busy
<1>2. PICK own \in WorkerRecords, i \in Trials :
        /\ workers[w] = own /\ own.trial = i /\ agentRuns[i] \in RunRecords /\ trials[i] \in TrialRecords
        /\ trials = [trials EXCEPT ![i] = trials[i]] /\ agentRuns = [agentRuns EXCEPT ![i] = agentRuns[i]]
        /\ workers \in [Crew -> WorkerRecords] /\ trials \in [Trials -> TrialRecords]
        /\ agentRuns \in [Trials -> RunRecords] /\ nextIndex \in Nat /\ i < nextIndex
        /\ trials[i].error = "missing" /\ WorkerFits(w) /\ RunFits(i)
  BY <1>1, OfABusyWorker
<1>3. /\ own.terminalStatus # "none" /\ (own.error = "cancel" => Broken("refuses"))
      /\ agentRuns[i].status # "absent" /\ (own.terminalStatus \in TERMINAL => agentRuns[i].status = own.terminalStatus)
  BY <1>1, <1>2 DEF WorkerFits
<1>4. PICK n : /\ Give(w, TrialOf(w, own.error, n))
               /\ n = agentRuns[i].reasoned \/ (n = 0 /\ Broken("refuses"))
  <2>1. PICK readable \in {TRUE, ~Broken("refuses")} :
          Give(w, TrialOf(w, own.error, IF readable THEN agentRuns[i].reasoned ELSE 0))
    BY <1>2 DEF ReadRunEvents
  <2>2. CASE readable
    <3>1. Give(w, TrialOf(w, own.error, agentRuns[i].reasoned))
      BY <2>1, <2>2
    <3> QED  BY <3>1
  <2>3. CASE ~readable
    <3>1. Broken("refuses")
      BY <2>1, <2>3
    <3>2. Give(w, TrialOf(w, own.error, 0))
      BY <2>1, <2>3
    <3> QED  BY <3>1, <3>2
  <2> QED  BY <2>2, <2>3
<1>5. PICK t : t = [error |-> own.error, terminalStatus |-> own.terminalStatus, reasoned |-> n, cancel |-> own.cancel]
  OBVIOUS
<1>6. n \in Nat /\ (~Broken("refuses") => n = Said)
  <2>1. agentRuns[i].reasoned = Said
    BY <1>2, <1>3 DEF RunFits
  <2> QED  BY <1>4, <2>1, SoakFacts
<1>7. /\ t \in TrialRecords /\ t.error = own.error /\ t.error # "missing" /\ t.terminalStatus = own.terminalStatus
      /\ t.terminalStatus \in Endings /\ t.reasoned = n /\ t.error \in {"none", "cancel"}
  BY <1>2, <1>3, <1>5, <1>6 DEF TrialRecords, WorkerRecords
<1>8. trials' = [trials EXCEPT ![i] = t] /\ workers' = [workers EXCEPT ![w] = NoTrial]
  BY <1>2, <1>4, <1>5 DEF Give, TrialOf
<1>9. /\ NoTrial \in WorkerRecords /\ NoTrial.trial = RUNS /\ NoTrial.at = "idle" /\ NoTrial.error = "none"
      /\ NoTrial.terminalStatus = "none"
  BY SoakFacts DEF NoTrial, WorkerRecords
<1>10. /\ workers'[w] = NoTrial /\ agentRuns'[i] = agentRuns[i] /\ trials'[i] = t
       /\ agentRuns' = [agentRuns EXCEPT ![i] = agentRuns[i]]
  BY <1>1, <1>2, <1>8
<1>11. RunFits(i)'
  BY <1>1, <1>2, <1>10 DEF RunFits, shouldCancel, Broken, Said
<1>12. TrialFits(i)'
  <2>1. ~(i >= nextIndex')
    BY <1>1, <1>2, SoakFacts
  <2>2. Said' = Said /\ (Broken("refuses")' <=> Broken("refuses"))
    BY <1>1 DEF Said, Broken
  <2> QED  BY <1>3, <1>6, <1>7, <1>10, <2>1, <2>2 DEF TrialFits
<1>13. WorkerFits(w)'
  BY <1>9, <1>10 DEF WorkerFits, Busy
<1> QED  BY <1>1, <1>2, <1>7, <1>8, <1>9, <1>10, <1>11, <1>12, <1>13, WorkerStepKeeps

LEMMA RunsMoveKeeps ==
  ASSUME StressInv, Stressing, RunsMove
  PROVE  StressInv'
<1>1. /\ StressTyped /\ \A j \in Trials : RunFits(j) /\ TrialFits(j)
      /\ \A v \in Crew : WorkerFits(v)
      /\ \A u, v \in Crew : workers[u].trial = workers[v].trial => u = v \/ workers[u].trial = RUNS
      /\ \A j \in Trials : j < nextIndex /\ trials[j].error = "missing" => \E v \in Crew : workers[v].trial = j
  BY DEF StressInv
<1>2. UNCHANGED <<soakFault, soakPlan, nextIndex, workers, trials>>
  BY DEF RunsMove
<1>3. PICK i \in Trials, ended \in TERMINAL :
        /\ agentRuns[i].status = "running"
        /\ (ended = "cancelled" => agentRuns[i].cancelling /\ ~Broken("cancel lost"))
        /\ (ended = "failed" => ~Broken("none"))
        /\ agentRuns' = [agentRuns EXCEPT ![i].status = ended]
  BY DEF RunsMove
<1>4. PICK old \in RunRecords : old = agentRuns[i]
  BY <1>1 DEF StressTyped
<1>5. PICK r : r = [old EXCEPT !.status = ended]
  OBVIOUS
<1>6. r = [status |-> ended, cancelling |-> old.cancelling, reasoned |-> old.reasoned]
  BY <1>4, <1>5 DEF RunRecords
<1>7. /\ r \in RunRecords /\ r.status = ended /\ r.reasoned = old.reasoned
      /\ old.cancelling \in BOOLEAN /\ r.cancelling = old.cancelling
  BY <1>4, <1>6 DEF RunRecords, Statuses, TERMINAL
<1>8. /\ agentRuns' \in [Trials -> RunRecords] /\ agentRuns'[i] = r
      /\ \A j \in Trials : j # i => agentRuns'[j] = agentRuns[j]
  BY <1>1, <1>3, <1>4, <1>5, <1>7 DEF StressTyped
<1>9. Trials' = Trials /\ Crew' = Crew
  BY DEF Trials, Crew
<1>10. StressTyped'
  BY <1>1, <1>2, <1>8, <1>9 DEF StressTyped
<1>11. ASSUME NEW j \in Trials PROVE RunFits(j)' /\ TrialFits(j)'
  <2>1. CASE j # i
    <3>1. RunFits(j) /\ TrialFits(j) /\ agentRuns'[j] = agentRuns[j]
      BY <1>1, <1>8, <2>1
    <3> QED  BY <1>2, <3>1 DEF RunFits, TrialFits, shouldCancel, Broken, Said
  <2>2. CASE j = i
    <3>1. RunFits(i) /\ TrialFits(i)
      BY <1>1
    <3>2. RunFits(i)'
      <4>1. Said' = Said /\ (shouldCancel(i)' <=> shouldCancel(i)) /\ (Broken("none")' <=> Broken("none"))
            /\ (Broken("cancel lost")' <=> Broken("cancel lost"))
        BY <1>2 DEF Said, Broken, shouldCancel
      <4> QED  BY <1>3, <1>4, <1>7, <1>8, <3>1, <4>1 DEF RunFits
    <3>3. TrialFits(i)'
      <4>1. ~(trials[i].error # "missing" /\ trials[i].terminalStatus \in TERMINAL)
        BY <1>3, <3>1 DEF TrialFits, TERMINAL
      <4> QED  BY <1>2, <3>1, <4>1 DEF TrialFits, Broken, Said
    <3> QED  BY <2>2, <3>2, <3>3
  <2> QED  BY <2>1, <2>2
<1>12. ASSUME NEW v \in Crew PROVE WorkerFits(v)'
  <2>1. WorkerFits(v)
    BY <1>1
  <2>2. \A j \in Trials : agentRuns[j].status # "absent" => agentRuns'[j].status # "absent"
    BY <1>3, <1>7, <1>8 DEF TERMINAL
  <2>3. \A j \in Trials : ~agentRuns[j].cancelling => ~agentRuns'[j].cancelling
    BY <1>4, <1>7, <1>8
  <2>4. \A j \in Trials : agentRuns[j].status \in TERMINAL => agentRuns'[j].status = agentRuns[j].status
    BY <1>3, <1>8 DEF TERMINAL
  <2> QED  BY <1>2, <1>9, <2>1, <2>2, <2>3, <2>4 DEF WorkerFits, shouldCancel, Broken
<1> QED  BY <1>1, <1>2, <1>9, <1>10, <1>11, <1>12 DEF StressInv

(* The stress and the load are not run together.                           *)
LEMMA SoakStepKeeps ==
  ASSUME StressInv, SoakNext \/ UNCHANGED soakVars
  PROVE  StressInv'
<1>1. soakPlan' = soakPlan
  BY DEF SoakNext, soakVars, RunsMove, SkipPath, PathThrows, PathDone, TakeTrial, CreateRun, CancelRun, PollRun,
         ReadRunEvents, TakeSample, TaskEnds
<1>2. CASE ~Stressing
  BY <1>1, <1>2 DEF StressInv, Stressing
<1>3. CASE Stressing
  <2>1. pathNow = "none"
    BY <1>3 DEF pathNow
  <2>2. \A w \in Crew : workers[w].at # "task"
    BY <1>3 DEF StressInv, StressTyped, WorkerRecords, Busy
  <2>3. CASE UNCHANGED soakVars
    <3>1. UNCHANGED <<soakFault, soakPlan, nextIndex, workers, agentRuns, trials>>
      BY <2>3 DEF soakVars
    <3>2. /\ StressTyped /\ \A i \in Trials : RunFits(i) /\ TrialFits(i)
          /\ \A w \in Crew : WorkerFits(w)
          /\ \A w, v \in Crew : workers[w].trial = workers[v].trial => w = v \/ workers[w].trial = RUNS
          /\ \A i \in Trials : i < nextIndex /\ trials[i].error = "missing" => \E w \in Crew : workers[w].trial = i
      BY <1>3 DEF StressInv
    <3>3. StressTyped'
      BY <3>1, <3>2 DEF StressTyped, Trials, Crew
    <3>4. \A i \in Trials : RunFits(i)' /\ TrialFits(i)'
      BY <3>1, <3>2 DEF RunFits, TrialFits, Broken, Said, shouldCancel
    <3>5. \A w \in Crew : WorkerFits(w)'
      BY <3>1, <3>2 DEF WorkerFits, Broken, shouldCancel, Trials
    <3>6. Trials' = Trials /\ Crew' = Crew
      BY DEF Trials, Crew
    <3> QED  BY <3>1, <3>2, <3>3, <3>4, <3>5, <3>6 DEF StressInv
  <2>4. CASE SkipPath \/ PathThrows \/ PathDone
    BY <2>1, <2>4 DEF SkipPath, PathThrows, PathDone
  <2>5. CASE RunsMove
    BY <1>3, <2>5, RunsMoveKeeps
  <2>6. ASSUME NEW w \in Crew,
               \/ TakeTrial(w) \/ CreateRun(w) \/ CancelRun(w) \/ PollRun(w) \/ ReadRunEvents(w)
               \/ TakeSample(w) \/ TaskEnds(w)
        PROVE  StressInv'
    <3>1. ~TakeSample(w) /\ ~TaskEnds(w)
      BY <2>1, <2>2 DEF TakeSample, TaskEnds
    <3> QED  BY <1>3, <2>6, <3>1, TakeTrialKeeps, CreateRunKeeps, CancelRunKeeps, PollRunKeeps, ReadRunEventsKeeps
  <2> QED  BY <2>3, <2>4, <2>5, <2>6 DEF SoakNext, Crew
<1> QED  BY <1>2, <1>3

(* Once every worker is done, every trial was somebody's.                  *)
LEMMA AllTrialsAreDone ==
  ASSUME StressInv, StressDone, NEW i \in Trials
  PROVE  /\ RunFits(i) /\ TrialFits(i) /\ trials[i].error # "missing"
         /\ trials[i] \in TrialRecords /\ agentRuns[i] \in RunRecords
<1>1. /\ StressTyped /\ \A j \in Trials : RunFits(j) /\ TrialFits(j)
      /\ \A v \in Crew : WorkerFits(v)
      /\ \A j \in Trials : j < nextIndex /\ trials[j].error = "missing" => \E v \in Crew : workers[v].trial = j
      /\ \A v \in Crew : workers[v].at = "done"
  BY DEF StressInv, StressDone, Crew
<1>2. nextIndex >= RUNS /\ nextIndex \in Nat
  BY <1>1, SoakFacts DEF WorkerFits, StressTyped
<1>3. i < nextIndex
  BY <1>2, SoakFacts
<1>4. \A v \in Crew : workers[v].trial = RUNS
  BY <1>1 DEF WorkerFits, Busy
<1>5. i # RUNS
  BY SoakFacts
<1> QED  BY <1>1, <1>3, <1>4, <1>5 DEF StressTyped

LEMMA NoTrialTwice ==
  ASSUME StressInv, Stressing
  PROVE  Cardinality({w \in 1..SoakWorkers : workers[w].trial < RUNS}) =
         Cardinality({workers[w].trial : w \in {v \in 1..SoakWorkers : workers[v].trial < RUNS}})
<1> DEFINE W == {w \in 1..SoakWorkers : workers[w].trial < RUNS}
           T == {workers[w].trial : w \in W}
           f == [w \in W |-> workers[w].trial]
<1>1. IsFiniteSet(W)
  <2>1. IsFiniteSet(1..SoakWorkers)
    BY SoakFacts, FS_Interval
  <2> QED  BY <2>1, FS_Subset
<1>2. \A w, v \in W : f[w] = f[v] => w = v
  <2> SUFFICES ASSUME NEW w \in W, NEW v \in W, f[w] = f[v] PROVE w = v
    OBVIOUS
  <2>1. w \in Crew /\ v \in Crew /\ workers[w].trial = workers[v].trial /\ workers[w].trial < RUNS
    BY DEF Crew
  <2>2. workers[w].trial \in Nat
    BY <2>1 DEF StressInv, StressTyped, WorkerRecords
  <2>3. workers[w].trial # RUNS
    BY <2>1, <2>2, SoakFacts
  <2>4. w = v \/ workers[w].trial = RUNS
    BY <2>1 DEF StressInv
  <2> QED  BY <2>3, <2>4
<1>3. f \in [W -> T] /\ \A t \in T : \E w \in W : f[w] = t
  OBVIOUS
<1> HIDE DEF W, T, f
<1>4. f \in Injection(W, T) /\ f \in Surjection(W, T)
  BY <1>2, <1>3 DEF Injection, IsInjective, Surjection
<1>5. IsFiniteSet(T)
  BY <1>1, <1>4, FS_Surjection
<1>6. Cardinality(W) = Cardinality(T)
  BY <1>4, <1>5, FS_Injection
<1> QED  BY <1>6 DEF W, T

LEMMA StressIsJudged ==
  ASSUME StressInv
  PROVE  StressReportsAreTrue
<1>1. ASSUME StressDone PROVE \A i \in Trials : trials[i].error # "missing"
  BY <1>1, AllTrialsAreDone
<1>2. ASSUME StressDone, soakFault = "none", NEW i \in Trials
      PROVE  ViolationsOf(i) \subseteq {"cancel-raced-completion"} \cup
               (IF i \in Results("timed-out") THEN {"cancel-not-propagated", "non-terminal"} ELSE {})
  <2>1. RunFits(i) /\ TrialFits(i) /\ trials[i].error # "missing" /\ trials[i] \in TrialRecords
    BY <1>2, AllTrialsAreDone
  <2>2. Said = WorkerCap /\ Broken("none") /\ ~Broken("refuses")
    BY <1>2 DEF Said, Broken
  <2>3. /\ trials[i].error = "none" /\ trials[i].reasoned = WorkerCap /\ trials[i].terminalStatus \in Endings
        /\ trials[i].terminalStatus \in TERMINAL => agentRuns[i].status = trials[i].terminalStatus
    BY <2>1, <2>2 DEF TrialFits
  <2>4. /\ trials[i].terminalStatus # "failed"
        /\ trials[i].terminalStatus = "cancelled" => shouldCancel(i)
    BY <2>1, <2>2, <2>3 DEF RunFits, TERMINAL
  <2>5. ~(trials[i].reasoned > WorkerCap)
    BY <2>3, SoakFacts
  <2>6. trials[i].terminalStatus \in {"completed", "cancelled", "timed-out"}
    BY <2>3, <2>4 DEF Endings, TERMINAL
  <2>7. i \in Results("timed-out") <=> trials[i].terminalStatus = "timed-out"
    BY DEF Results
  <2> QED  BY <2>3, <2>4, <2>5, <2>6, <2>7 DEF ViolationsOf
<1>3. ASSUME StressDone, Broken("cancel lost"), NEW i \in Trials, agentRuns[i].cancelling PROVE ~StressOk
  <2>1. RunFits(i) /\ TrialFits(i) /\ trials[i].error # "missing" /\ trials[i] \in TrialRecords
    BY <1>3, AllTrialsAreDone
  <2>2. ~Broken("refuses")
    BY <1>3 DEF Broken
  <2>3. /\ trials[i].error = "none" /\ trials[i].terminalStatus \in Endings
        /\ trials[i].terminalStatus \in TERMINAL => agentRuns[i].status = trials[i].terminalStatus
    BY <2>1, <2>2 DEF TrialFits
  <2>4. shouldCancel(i) /\ trials[i].terminalStatus # "cancelled"
    BY <1>3, <2>1, <2>3 DEF RunFits, TERMINAL
  <2>5. CASE trials[i].terminalStatus = "timed-out"
    BY <2>5 DEF StressOk, Results
  <2>6. CASE trials[i].terminalStatus # "timed-out"
    <3>1. trials[i].terminalStatus \in {"completed", "failed"}
      BY <2>3, <2>4, <2>6 DEF Endings, TERMINAL
    <3>2. ViolationsOf(i) # {}
      BY <2>3, <2>4, <3>1 DEF ViolationsOf
    <3> QED  BY <3>2 DEF StressOk
  <2> QED  BY <2>5, <2>6
<1>4. ASSUME StressDone, Broken("talks too much") PROVE ~StressOk
  <2>1. 0 \in Trials
    BY SoakFacts
  <2>2. TrialFits(0) /\ trials[0].error # "missing" /\ trials[0] \in TrialRecords
    BY <1>4, <2>1, AllTrialsAreDone
  <2>3. trials[0].error = "none" /\ trials[0].reasoned = WorkerCap + 1
    BY <1>4, <2>2 DEF TrialFits, Broken, Said
  <2>4. trials[0].reasoned > WorkerCap
    BY <2>3, SoakFacts
  <2>5. ViolationsOf(0) # {}
    BY <2>3, <2>4 DEF ViolationsOf
  <2> QED  BY <2>1, <2>5 DEF StressOk
<1>5. ASSUME StressDone, NEW i \in Trials, "cancel-not-propagated" \in ViolationsOf(i)
      PROVE  agentRuns[i].status # "cancelled" \/ i \in Results("timed-out")
  <2>1. TrialFits(i) /\ trials[i].error # "missing" /\ trials[i] \in TrialRecords
    BY <1>5, AllTrialsAreDone
  <2>2. trials[i].error = "none" /\ trials[i].terminalStatus \notin {"completed", "cancelled"}
    BY <1>5 DEF ViolationsOf
  <2>3. trials[i].terminalStatus \in {"failed", "timed-out"}
    BY <2>1, <2>2 DEF TrialFits, Endings, TERMINAL
  <2>4. trials[i].terminalStatus = "failed" => agentRuns[i].status = "failed"
    BY <2>1 DEF TrialFits, TERMINAL
  <2> QED  BY <2>3, <2>4 DEF Results
<1>6. Stressing => Cardinality({w \in 1..SoakWorkers : workers[w].trial < RUNS}) =
                   Cardinality({workers[w].trial : w \in {v \in 1..SoakWorkers : workers[v].trial < RUNS}})
  BY NoTrialTwice
<1> QED  BY <1>1, <1>2, <1>3, <1>4, <1>5, <1>6 DEF StressReportsAreTrue

(* The stress of soak/multi-agent-stress.mjs, whose workers share one index*)
(* of trials: each trial is some worker's and no two have the same; when   *)
(* they are done a host that keeps its rules is told at most that a run    *)
(* outran its cancel or the deadline, one that lost a cancel it took or    *)
(* said too much is not reported ok, and no cancelled run is held against  *)
(* it, however many workers, trials, cancels and polls there are.          *)
THEOREM StressIsReported == SoakSpec => []StressReportsAreTrue
<1>1. SoakInit => StressInv
  BY StressStarts
<1>2. StressInv /\ [SoakNext]_soakVars => StressInv'
  BY SoakStepKeeps
<1>3. StressInv => StressReportsAreTrue
  BY StressIsJudged
<1> QED  BY <1>1, <1>2, <1>3, PTL DEF SoakSpec
=============================================================================
