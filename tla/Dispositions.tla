---------------------------- MODULE Dispositions ----------------------------
(***************************************************************************)
(* The five outcomes a requirement can have in one run, how certifiable    *)
(* each of them is, and the three reasons a scenario may give for not      *)
(* having executed (requirement-ledger.ts, soft-skip.ts).                  *)
(***************************************************************************)
LOCAL INSTANCE Naturals

CONSTANT NoDetail  \* a recording that gives no reason

Dispositions ==
  {"executed-pass", "executed-fail", "skipped", "inapplicable", "blocked"}

(* The dispositions that let a profile certify: "blocked" is not one.      *)
CERTIFIABLE == {"executed-pass", "skipped", "inapplicable"}

(* Least certifiable first. A disagreement resolves towards 0.             *)
CERTIFIABILITY_RANK ==
  [d \in Dispositions |->
     CASE d = "executed-fail" -> 0
       [] d = "blocked"       -> 1
       [] d = "executed-pass" -> 2
       [] d = "skipped"       -> 3
       [] d = "inapplicable"  -> 4]

(* d is at most as certifiable as e. *)
NoMoreCertifiable(d, e) == CERTIFIABILITY_RANK[d] <= CERTIFIABILITY_RANK[e]

-----------------------------------------------------------------------------
(* Reasons noted by softSkip, ranked the same way, worst first.            *)
SoftSkipKinds == {"blocked", "skipped", "inapplicable"}

SOFT_SKIP_RANK ==
  [k \in SoftSkipKinds |->
     CASE k = "blocked" -> 0 [] k = "skipped" -> 1 [] k = "inapplicable" -> 2]

(* The kind that speaks for a non-empty set of noted kinds. *)
WorstNoted(kinds) ==
  CHOOSE k \in kinds : \A j \in kinds : SOFT_SKIP_RANK[k] <= SOFT_SKIP_RANK[j]
=============================================================================
