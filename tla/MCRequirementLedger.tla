------------------------- MODULE MCRequirementLedger -------------------------
(* Two scenario files that share one leg id and one gate id; the first also *)
(* records a row of its own, by itself and through the hooks.               *)
EXTENDS RequirementLedger, TLC

CONSTANTS f1, f2

MCFileOrder == (NoFile :> 0) @@ (f1 :> 1) @@ (f2 :> 2)

(* A pass needs no detail; any other outcome says why.                     *)
Why(d) == IF d = "executed-pass" THEN NoDetail ELSE "why"

Call(f, id, d, n, file, fold) ==
  [writer |-> f, id |-> id, disposition |-> d, detail |-> Why(d),
   count |-> n, file |-> file, fold |-> fold, evidence |-> FALSE]

(* The per-it rows: a leg that asserted passes or fails, one that asserted *)
(* nothing says why. *)
LegCalls ==
  UNION {{Call(f, "leg", "executed-pass", 1, f, TRUE),
          Call(f, "leg", "executed-fail", 1, f, TRUE),
          Call(f, "leg", "blocked", 0, f, TRUE)} : f \in {f1, f2}}

(* behaviorGate names no file; both workers gate on the same profile.      *)
GateCalls == {Call(f, "gate", "inapplicable", NoCount, NoFile, FALSE) : f \in {f1, f2}}

(* A file row: recorded by the scenario itself, or by the afterAll hook.   *)
RowCalls ==
  {Call(f1, "row", d, NoCount, NoFile, FALSE) : d \in {"executed-pass", "blocked"}}
    \cup {Call(f1, "row", d, 1, f1, FALSE) : d \in {"executed-pass", "executed-fail"}}

MCCalls == LegCalls \cup GateCalls \cup RowCalls
=============================================================================
