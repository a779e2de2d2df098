------------------------- MODULE MCScenarioRecorder -------------------------
(* f1 has an afterEach of its own, f2 is off its lane, and f3 reads the    *)
(* corpus, which is not there, so that no test of it is collected. The     *)
(* calls are every call the recorder can make, which is what the ledger is *)
(* instantiated with.                                                      *)
EXTENDS ScenarioRecorder, TLC

CONSTANTS f1, f2, f3

MCFileOrder == (NoFile :> 0) @@ [f \in Files |-> IF f = f1 THEN 1 ELSE IF f = f2 THEN 2 ELSE 3]
MCLegs == [f \in Files |-> IF f = f3 THEN 0 ELSE 2]
MCOneLeg == [f \in Files |-> 1]
MCDefaultIds == [f \in Files |-> [n \in 1 .. Legs[f] |->
                   IF f = f1 THEN IF n = 1 THEN "it1" ELSE "it2"
                             ELSE IF n = 1 THEN "it3" ELSE "it4"]]
MCFileIds == [f \in Files |-> IF f = f1 THEN "row1" ELSE IF f = f2 THEN "row2" ELSE "row3"]
MCNoSelf == [f \in Files |-> {}]
MCSelfOne == [f \in Files |-> IF f = f1 THEN {"blocked"} ELSE {}]
MCSelf == [f \in Files |-> {"executed-pass", "inapplicable", "blocked"}]

AllNotes == Notes \ [kind : {"skipped", "inapplicable"}, conclusive : {TRUE}]
PlainNotes == {[kind |-> "inapplicable", conclusive |-> FALSE],
               [kind |-> "blocked", conclusive |-> FALSE]}
BlockedNotes == {[kind |-> "blocked", conclusive |-> FALSE]}

Outcomes == {<<d, r>> \in Dispositions \X (Reasons \cup {NoDetail}) :
               \/ d = "executed-pass" \/ r = "why"
               \/ d = "blocked" /\ r = "unclassified-return"}

(* A leg's row, the file's row, the lane guard's, and what a scenario or a *)
(* gate records for itself.                                                *)
MCCallsOf(f) ==
  LET row(id, v, n, file, fold) ==
        [writer |-> f, id |-> id, disposition |-> v[1], detail |-> v[2], count |-> n,
         file |-> file, fold |-> fold, evidence |-> FALSE]
  IN  {row(id, v, n, f, TRUE) : id \in ReqIds \cup {MCDefaultIds[f][n] : n \in 1 .. Legs[f]},
                                v \in Outcomes, n \in 0 .. MaxAsserts}
      \cup {row(MCFileIds[f], v, n, f, FALSE) : v \in Outcomes, n \in 0 .. 2 * MaxAsserts}
      \cup {row(LaneId, <<"inapplicable", "why">>, NoCount, f, FALSE)}
      \cup {row(id, v, NoCount, NoFile, FALSE) : id \in GateIds \cup {MCFileIds[f]},
                                                v \in Outcomes}
MCCalls == UNION {MCCallsOf(f) : f \in Files}
=============================================================================
