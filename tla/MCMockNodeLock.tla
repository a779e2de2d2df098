---------------------------- MODULE MCMockNodeLock ----------------------------
(* A file that holds both nodes, as one file of the suite does, one that   *)
(* holds the first only, and one that lists both the other way round.      *)
EXTENDS MockNodeLock, TLC

CONSTANTS both, first, crossed

Lists ==
  [f \in Files |-> CASE f = both    -> <<2, 1>>
                     [] f = first   -> <<1>>
                     [] f = crossed -> <<1, 2>>]
=============================================================================
