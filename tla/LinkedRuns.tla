------------------------------ MODULE LinkedRuns ------------------------------
(***************************************************************************)
(* conformance/src/lib/dispatch-witness.ts and subworkflow-witness.ts: a   *)
(* parent run starts a child and hands it a variable, or a supervisor loop *)
(* records its decisions; the witness reads the parent's log and the child *)
(* (fixture-run-observer.ts) and judges. The host does the steps of a      *)
(* conforming one in any order, and others; "strayed" remembers where it   *)
(* left what the specification asks, which the witness cannot see.         *)
(***************************************************************************)
EXTENDS Naturals, Sequences, FiniteSets, SequencesExt

CONSTANTS
  Deciders,   \* agents that may decide a turn
  Versions,   \* multiAgent.executionModel.version: 0 is not advertised
  MaxTurns

ASSUME LinkedAssumption == Versions \subseteq Nat /\ MaxTurns \in Nat

VARIABLES
  kindOfRun,   \* "subWorkflow", "dispatch" or "loop"
  parentVar,   \* is the parent's variable set?
  version,
  parent, child,   \* status of each run; "none" before it exists
  bag,         \* what the child holds: "absent", "baked-in", "mapped" or "null"
  mapped,      \* the host has projected the parent's variable
  link,        \* node.completed of the calling node: "none", or the childStatus it carries
  lineage,     \* what the child's ancestry answers: "parent" or "another"
  decisions,   \* the turns recorded, in sequence order
  strayed,     \* history: what the host has done against the specification
  legsJudged   \* leg -> "ok", "convicted" or "skip", once judged

linkedVars == <<kindOfRun, parentVar, version, parent, child, bag, mapped, link, lineage,
                decisions, strayed, legsJudged>>

Ended == {"completed", "failed", "cancelled"}
runOnly == <<kindOfRun, parentVar, version>>
Astray(bad, what) == strayed' = IF bad THEN strayed \cup {what} ELSE strayed

-----------------------------------------------------------------------------
(* The host. It creates the child, whose own default, where its workflow   *)
(* has one, seeds the bag ...                                              *)
StartLinked ==
  /\ parent = "none" /\ parent' = "running"
  /\ IF kindOfRun = "loop" THEN UNCHANGED <<child, lineage>>
     ELSE child' = "running" /\ lineage' \in {"parent", "another"}
  /\ Astray(lineage' = "another", "ancestry")
  /\ UNCHANGED <<runOnly, bag, mapped, link, decisions, legsJudged>>

SeedChild ==
  /\ child = "running" /\ kindOfRun = "subWorkflow"
  /\ bag' = "baked-in"
  /\ Astray(bag = "mapped", "override")
  /\ UNCHANGED <<runOnly, parent, child, mapped, link, lineage, decisions, legsJudged>>

(* ... and projects the parent's variable over it: an unset one arrives    *)
(* undefined, never null.                                                  *)
ProjectVariable ==
  /\ child = "running" /\ ~mapped
  /\ \E v \in {"mapped", "null", bag} :
       /\ bag' = v
       /\ Astray(v # IF parentVar THEN "mapped" ELSE bag, "projection")
  /\ mapped' = TRUE
  /\ UNCHANGED <<runOnly, parent, child, link, lineage, decisions, legsJudged>>

EndLinkedChild ==
  /\ child = "running"
  /\ child' \in Ended
  /\ Astray(~mapped, "projection")
  /\ UNCHANGED <<runOnly, parent, bag, mapped, link, lineage, decisions, legsJudged>>

(* The calling node completes, naming the child and its status. *)
CompleteNode ==
  /\ parent = "running" /\ child # "none" /\ link = "none"
  /\ link' \in {child} \cup Ended
  /\ Astray(link' # child \/ child \notin Ended, "link")
  /\ UNCHANGED <<runOnly, parent, child, bag, mapped, lineage, decisions, legsJudged>>

EndParent ==
  /\ parent = "running"
  /\ parent' \in {"completed", "failed"}
  /\ Astray(parent' = "failed", "parent")
  /\ UNCHANGED <<runOnly, child, bag, mapped, link, lineage, decisions, legsJudged>>

(* A turn of the supervisor: a terminate is the last one, one agent        *)
(* decides them all, and iteration counts them.                            *)
Decide(kind, agent, iteration) ==
  /\ kindOfRun = "loop" /\ parent = "running" /\ Len(decisions) < MaxTurns
  /\ decisions' = Append(decisions, [kind |-> kind, agentId |-> agent, iteration |-> iteration])
  /\ strayed' = strayed
       \cup (IF \E i \in DOMAIN decisions : decisions[i].kind = "terminate" THEN {"terminates"} ELSE {})
       \cup (IF \E i \in DOMAIN decisions : decisions[i].agentId # agent THEN {"decisions"} ELSE {})
       \cup (IF iteration # Len(decisions) + 1 THEN {"iteration"} ELSE {})
  /\ UNCHANGED <<runOnly, parent, child, bag, mapped, link, lineage, legsJudged>>

-----------------------------------------------------------------------------
(* readEvents: the page may list the events in any order; they are sorted  *)
(* by sequence.                                                            *)
SortedBySequence(page) ==
  LET before(e) == {k \in DOMAIN page : page[k].sequence < e.sequence}
  IN  [i \in DOMAIN page |-> CHOOSE e \in ToSet(page) : Cardinality(before(e)) = i - 1]
Pages ==
  {[i \in DOMAIN decisions |-> [sequence |-> p[i], turn |-> decisions[p[i]]]] :
     p \in {q \in [DOMAIN decisions -> DOMAIN decisions] : IsInjective(q)}}

runCompleted == parent = "completed"
childReached == runCompleted /\ link # "none" /\ child = "completed"

Verdict(ok) == IF ok THEN "ok" ELSE "convicted"

judgeOutput == Verdict(runCompleted /\ link \in Ended /\ link = child)
judgeAncestry == IF link = "none" THEN "skip" ELSE Verdict(lineage = "parent")
judgeSeed == Verdict(childReached /\ bag \notin {"absent", "null"})
judgeOverride == IF link = "none" THEN "skip" ELSE Verdict(bag = "mapped")
judgeUnset == Verdict(childReached /\ bag \in {"absent", "baked-in"})
judgeProjection == IF link = "none" THEN "skip" ELSE Verdict(childReached /\ bag = "mapped")
judgeUnsetProjection == IF link = "none" THEN "skip" ELSE Verdict(childReached /\ bag = "absent")

judgeLoopTerminates(ds) ==
  Verdict(/\ runCompleted /\ ds # <<>> /\ Last(ds).kind = "terminate"
          /\ \A i \in 1..(Len(ds) - 1) : ds[i].kind # "terminate")
judgeDecisions(ds) ==
  IF ds = <<>> THEN "skip" ELSE Verdict(Cardinality({ds[i].agentId : i \in DOMAIN ds}) = 1)
judgeIteration(ds) ==
  IF version < 5 \/ ds = <<>> THEN "skip" ELSE Verdict(\A i \in DOMAIN ds : ds[i].iteration = i)

(* The parent has ended, or its deadline has passed. loopGate: no level    *)
(* advertised, nothing to judge.                                           *)
JudgeLinked ==
  /\ parent # "none" /\ legsJudged = [leg \in {} |-> "ok"]
  /\ IF kindOfRun = "loop"
     THEN \E page \in Pages :
       LET log == SortedBySequence(page)
           ds == [i \in DOMAIN log |-> log[i].turn]
       IN legsJudged' =
            IF version = 0 THEN [leg \in {"terminates"} |-> "skip"]
            ELSE [leg \in {"terminates", "decisions", "iteration"} |->
                    CASE leg = "terminates" -> judgeLoopTerminates(ds)
                      [] leg = "decisions" -> judgeDecisions(ds)
                      [] leg = "iteration" -> judgeIteration(ds)]
     ELSE legsJudged' =
            [leg \in {"output", "ancestry", "seed", "projection"} |->
               CASE leg = "output" -> judgeOutput
                 [] leg = "ancestry" -> judgeAncestry
                 [] leg = "seed" -> IF kindOfRun = "subWorkflow" /\ parentVar THEN judgeSeed ELSE "skip"
                 [] leg = "projection" ->
                      IF kindOfRun = "subWorkflow"
                      THEN IF parentVar THEN judgeOverride ELSE judgeUnset
                      ELSE IF parentVar THEN judgeProjection ELSE judgeUnsetProjection]
  /\ UNCHANGED <<runOnly, parent, child, bag, mapped, link, lineage, decisions, strayed>>

-----------------------------------------------------------------------------
LinkedInit ==
  /\ kindOfRun \in {"subWorkflow", "dispatch", "loop"}
  /\ parentVar \in BOOLEAN /\ version \in Versions
  /\ (kindOfRun = "loop" => parentVar) /\ (kindOfRun # "loop" => version = 0)
  /\ parent = "none" /\ child = "none" /\ bag = "absent" /\ mapped = FALSE
  /\ link = "none" /\ lineage = "parent" /\ decisions = <<>> /\ strayed = {}
  /\ legsJudged = [leg \in {} |-> "ok"]

LinkedNext ==
  /\ legsJudged = [leg \in {} |-> "ok"]
  /\ \/ StartLinked \/ SeedChild \/ ProjectVariable \/ EndLinkedChild \/ CompleteNode
     \/ EndParent \/ JudgeLinked
     \/ \E kind \in {"next-worker", "terminate"}, agent \in Deciders, iteration \in 1..MaxTurns :
          Decide(kind, agent, iteration)

LinkedSpec == LinkedInit /\ [][LinkedNext]_linkedVars

-----------------------------------------------------------------------------
(* The host did what is asked of it, to the end. *)
Conformed ==
  /\ strayed = {} /\ parent = "completed"
  /\ IF kindOfRun = "loop" THEN decisions # <<>> /\ Last(decisions).kind = "terminate"
     ELSE link # "none" /\ child = "completed"

Convicted(leg) == leg \in DOMAIN legsJudged /\ legsJudged[leg] = "convicted"

(* dispatch-witness.ts and subworkflow-witness.ts: however the host serves *)
(* its log, one that conforms is convicted by no leg; a default that wins  *)
(* over the mapping ("the mapping lands after and over the default"), a    *)
(* turn after a terminate, a change of the deciding agent or, from level   *)
(* 5, of the count is convicted by the leg that owns the rule.             *)
LinkedVerdictIsTrue ==
  /\ Conformed => \A leg \in DOMAIN legsJudged : ~Convicted(leg)
  /\ legsJudged # [leg \in {} |-> "ok"] =>
       /\ "override" \in strayed /\ parentVar /\ link # "none" => Convicted("projection")
       /\ "ancestry" \in strayed /\ link # "none" => Convicted("ancestry")
       /\ version > 0 /\ "terminates" \in strayed => Convicted("terminates")
       /\ version > 0 /\ "decisions" \in strayed => Convicted("decisions")
       /\ version >= 5 /\ "iteration" \in strayed => Convicted("iteration")
=============================================================================
