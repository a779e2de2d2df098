----------------------------- MODULE Resolution -----------------------------
(***************************************************************************)
(* How one test and one scenario file are given a disposition              *)
(* (scenario-disposition.ts: resolveItRecord, fileDisposition,             *)
(* resolveFileRecord). Reasons are reduced to whether there is one and     *)
(* whether it is a marker that readers filter on: the partial witness, and *)
(* the unclassified return of a whole file.                                *)
(***************************************************************************)
EXTENDS Dispositions, Naturals, Sequences

CONSTANT
  BlockedStands   \* target major 2: "blocked" noted after assertions stands

Reasons == {"why", "partial-witness", "observed", "unclassified-return"}

TestStates == {"pass", "fail", "skip"}

(* What softSkip and blockedDespiteAssertions leave behind. *)
Notes == [kind : SoftSkipKinds, conclusive : BOOLEAN]

(* A test as vitest settles it; loss: its first error is a transport loss. *)
Tasks == [state : TestStates, loss : BOOLEAN]

(* The decision of a behaviorGate, as far as it gives a reason. *)
NoGate == "none"
GateOf(entries) ==
  IF \E i \in DOMAIN entries : entries[i].disposition = "inapplicable" THEN "inapplicable"
  ELSE IF \E i \in DOMAIN entries : entries[i].disposition = "skipped" THEN "skipped"
  ELSE NoGate

(* soft-skip.ts fold: the worst kind speaks, one conclusive note is enough. *)
NotedKind(noted) == WorstNoted({noted[i].kind : i \in DOMAIN noted})
Conclusive(noted) == \E i \in DOMAIN noted : noted[i].conclusive

Verdict(d) == [disposition |-> d, detail |-> IF d = "executed-pass" THEN NoDetail ELSE "why"]
PartialPass == [disposition |-> "executed-pass", detail |-> "partial-witness"]
UnclassifiedReturn == [disposition |-> "blocked", detail |-> "unclassified-return"]

(* attachObservation: an observation follows the reason, or stands alone.  *)
AttachObservation(v, observed) ==
  IF observed /\ v.detail = NoDetail THEN [v EXCEPT !.detail = "observed"] ELSE v

-----------------------------------------------------------------------------
(* Variant: a test that returned has passed. *)
ItRecordOfReturn(task, calls, gate, noted) ==
  IF task.state = "pass" THEN Verdict("executed-pass")
  ELSE IF task.state = "fail" THEN Verdict("executed-fail") ELSE Verdict("skipped")

(* One test. noted holds the notes written during it.                      *)
ResolveItRecord(task, calls, gate, noted) ==
  LET failed     == task.state = "fail"
      witnessed  == task.state = "pass" /\ calls > 0
      returned   == ~failed /\ ~witnessed
      unobserved == NotedKind(noted) = "blocked" /\ (Conclusive(noted) \/ BlockedStands)
  IN  CASE failed -> Verdict(IF calls = 0 /\ task.loss THEN "blocked" ELSE "executed-fail")
        [] witnessed /\ noted = << >> -> Verdict("executed-pass")
        [] witnessed /\ noted # << >> -> IF unobserved THEN Verdict("blocked") ELSE PartialPass
        [] returned /\ gate # NoGate -> Verdict(gate)
        [] returned /\ gate = NoGate /\ noted # << >> -> Verdict(NotedKind(noted))
        [] returned /\ gate = NoGate /\ noted = << >> ->
             Verdict(IF task.state = "pass" THEN "blocked" ELSE "skipped")

-----------------------------------------------------------------------------
(* One file: the tests the hooks know of, recorded ones first.             *)
FileDisposition(tasks, gate, calls) ==
  LET failed  == {i \in DOMAIN tasks : tasks[i].state = "fail"}
      passed  == \E i \in DOMAIN tasks : tasks[i].state = "pass"
      nothing == calls = 0 /\ \A i \in failed : tasks[i].loss
  IN  CASE failed # {} -> IF nothing THEN "blocked" ELSE "executed-fail"
        [] failed = {} /\ passed -> IF calls = 0 /\ gate # NoGate THEN gate ELSE "executed-pass"
        [] failed = {} /\ ~passed -> IF gate # NoGate THEN gate ELSE "blocked"

(* Variant: no test for a pass that asserted nothing. *)
FileRecordOfReturn(tasks, gate, calls, noted, coherence) ==
  LET d == FileDisposition(tasks, gate, calls)
  IN  IF noted # << >> /\ d = "executed-pass" THEN PartialPass ELSE Verdict(d)

(* noted holds every note of the file; coherence files read the corpus only. *)
ResolveFileRecord(tasks, gate, calls, noted, coherence) ==
  LET d          == FileDisposition(tasks, gate, calls)
      exempt     == /\ coherence /\ calls = 0
                    /\ \A i \in DOMAIN tasks : tasks[i].state # "fail"
      unwitnessed == d = "executed-pass" /\ calls = 0
      allSkipped == /\ gate = NoGate /\ DOMAIN tasks # {}
                    /\ \A i \in DOMAIN tasks : tasks[i].state = "skip"
      noteSpeaks == noted # << >> /\ (unwitnessed \/ allSkipped)
  IN  CASE exempt -> Verdict("inapplicable")
        [] ~exempt /\ noteSpeaks -> Verdict(NotedKind(noted))
        [] ~exempt /\ ~noteSpeaks /\ unwitnessed -> UnclassifiedReturn
        [] ~exempt /\ ~noteSpeaks /\ ~unwitnessed ->
             IF noted # << >> /\ d = "executed-pass" THEN PartialPass ELSE Verdict(d)
=============================================================================
