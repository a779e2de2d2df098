------------------------------ MODULE MCCutGates ------------------------------
(* Two scenarios of coexistence, one of them only for the overlap, the     *)
(* header a retired host is witnessed by, and a family of three legs that  *)
(* a host may omit, in whole or in part; one of them, hoisted or not, and  *)
(* a file of its own or of a helper may come later.                        *)
EXTENDS CutGates, TLC

MCFirstLegs == {"dual-stack", "ceiling", "header", "list", "watch"}
MCFileOf == [l \in MCFirstLegs \cup {"page", "new"} |->
  CASE l \in {"list", "watch", "page"} -> "family" [] l = "dual-stack" -> "negotiation"
    [] l = "ceiling" -> "manifest" [] l = "header" -> "version" [] l = "new" -> "later"]
MCFileMajors == ("family" :> {2}) @@ ("negotiation" :> {1, 2}) @@ ("manifest" :> {2}) @@ ("version" :> {2}) @@ ("later" :> {2})
MCScenarios == {{"dual-stack"}, {"ceiling"}}
MCOverlapScoped == {{"dual-stack"}}
MCAdditions == {[leg |-> "page", registered |-> TRUE, literal |-> TRUE],
                [leg |-> "page", registered |-> TRUE, literal |-> FALSE],
                [leg |-> "new", registered |-> FALSE, literal |-> FALSE],
                [leg |-> "new", registered |-> FALSE, literal |-> TRUE]}
Placed(legs) == [l \in DOMAIN MCFileOf |-> CHOOSE k \in 1..Len(legs) : legs[k] = l]
MCOrders == {Placed(<<"dual-stack", "ceiling", "header", "list", "watch", "page", "new">>),
             Placed(<<"new", "page", "watch", "list", "header", "ceiling", "dual-stack">>)}

HostOf(unreached, refuses, family) ==
  [majors |-> {1, 2}, unreached |-> unreached, refuses |-> refuses, family |-> family, key |-> 0]
MCCandidates == {HostOf({}, TRUE, "none"), HostOf({}, TRUE, "in part"), HostOf({}, TRUE, "whole"),
                 HostOf({"dual-stack"}, TRUE, "whole"), HostOf({}, FALSE, "whole")}
=============================================================================
