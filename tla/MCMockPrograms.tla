---------------------------- MODULE MCMockPrograms ----------------------------
(* Three files that hold one mock node, and any other file of the suite,   *)
(* which holds none.                                                       *)
EXTENDS MockPrograms, TLC

CONSTANTS first, second, third, other

Lists == [f \in Files |-> IF f = other THEN << >> ELSE <<1>>]
=============================================================================
