--------------------------- MODULE HonestCertifier ---------------------------
(***************************************************************************)
(* What a certification promises, with no test runner, ledger or bundle in *)
(* sight. Each scenario comes to stand for something, once and for all;    *)
(* then at most one certificate is issued, and all it claims was earned by *)
(* what the scenarios had come to stand for.                               *)
(***************************************************************************)
CONSTANTS
  Scenarios,  \* what a claim can rest on
  Claims      \* [files, groups, clean, strict]: all of files, one of each
              \* group, and no failure among clean

Standings == {"open", "witnessed", "inapplicable", "withheld", "failed", "denied"}

VARIABLES standing, certificate

vars == <<standing, certificate>>

NoCertificate == {}

(* A strict claim accepts nothing withheld, and has to witness something.  *)
Accepted(strict) ==
  {"witnessed", "inapplicable"} \cup (IF strict THEN {} ELSE {"withheld"})

Earned(claim) ==
  /\ \A f \in claim.files : standing[f] \in Accepted(claim.strict)
  /\ \A g \in claim.groups : \E f \in g : standing[f] = "witnessed"
  /\ \A f \in claim.clean : standing[f] # "failed"
  /\ claim.strict => \E f \in claim.files : standing[f] = "witnessed"

Init ==
  /\ standing = [f \in Scenarios |-> "open"]
  /\ certificate = NoCertificate

Settle(f) ==
  /\ standing[f] = "open"
  /\ \E s \in Standings \ {"open"} : standing' = [standing EXCEPT ![f] = s]
  /\ UNCHANGED certificate

Issue ==
  /\ certificate = NoCertificate
  /\ certificate' \in SUBSET {claim \in Claims : Earned(claim)}
  /\ UNCHANGED standing

Next == Issue \/ \E f \in Scenarios : Settle(f)

Spec == Init /\ [][Next]_vars
=============================================================================
