--------------------------- MODULE MCCertification ---------------------------
(* Two scenario files of one test each at either major, f2 at both: f1 and *)
(* f3 may pass themselves; f2 may fail to load or lose its worker. The     *)
(* floor table and the registry are cut down to these files, with one      *)
(* profile of every kind of floor, and f3 in no floor but the registry's.  *)
(* The host serves both majors, or the first alone.                        *)
EXTENDS Certification, TLC

CONSTANTS f1, f2, f3

MCFileOrder == (NoFile :> 0) @@ (f1 :> 1) @@ (f2 :> 2) @@ (f3 :> 3)
MCLegs == [f \in Files |-> 1]
MCFileIds == (f1 :> "row1") @@ (f2 :> "row2") @@ (f3 :> "row3")
MCDefaultIds == (f1 :> <<"it1">>) @@ (f2 :> <<"it2">>) @@ (f3 :> <<"it3">>)
MCReqOf ==
  [id \in Ids |-> <<"req", IF id \in {"it1", "it3"} THEN "webhook-egress-refused" ELSE id>>]
MCSelf == [f \in Files |-> IF f = f2 THEN {} ELSE {"executed-pass"}]
Excuses == {[kind |-> "inapplicable", conclusive |-> FALSE]}
MCMajorFiles == [m \in 1 .. 2 |-> IF m = 1 THEN {f1, f2} ELSE {f2, f3}]

MCFloor(required, prefixes, anyOf) ==
  [required |-> required, prefixes |-> prefixes, anyOf |-> anyOf, conditional |-> {},
   discoveryOnly |-> FALSE, runtimeDerived |-> FALSE]
Group(id, files) == [id |-> id, files |-> files]

MCFloors ==
  ("openwop-core-standard" :> MCFloor({f1}, {Group("interrupt-", {f1, f2})}, {}))
  @@ ("openwop-discovery-core" :> [MCFloor({}, {}, {}) EXCEPT !.discoveryOnly = TRUE])
  @@ ("openwop-core" :> [MCFloor({}, {}, {}) EXCEPT !.discoveryOnly = TRUE])
  @@ ("openwop-node-packs" :> [MCFloor({f2}, {}, {}) EXCEPT !.runtimeDerived = TRUE])
  @@ ("openwop-interrupts" :> MCFloor({f1}, {Group("interrupt-", {f1, f2})}, {}))
  @@ ("openwop-secrets" :> MCFloor({}, {}, {Group("byok", {f1, f2})}))
  @@ ("openwop-stream-sse" :> MCFloor({f2}, {}, {}))
  @@ ("openwop-stream-poll" :> MCFloor({f1}, {}, {}))

MCRegistry ==
  ("openwop-discovery-core" :> [families |-> {}, metadata |-> {"protocolVersions"}, floor |-> {f3}])
  @@ ("openwop-core-standard" :> [families |-> {"interrupt", "webhooks"}, metadata |-> {},
                                  floor |-> {f2}])
  @@ ("openwop-conformance-seams-v2" :> [families |-> {}, metadata |-> {"conformance.seamsProfile"},
                                         floor |-> {}])

AllProfileNames == DOMAIN MCFloors \cup DOMAIN MCRegistry
MCFamiliesInName ==
  [p \in AllProfileNames |->
     IF p = "openwop-interrupts" THEN {"interrupt"}
     ELSE IF p = "openwop-secrets" THEN {"secrets"} ELSE {}]

V1Doc == CoreFacts \cup {"supportedEnvelopes: clarification.request", "secrets.supported",
                         "secrets.scopes: user"}
V2Doc == {"protocolVersions", "interrupt", "webhooks", "conformance.seamsProfile"}
MCHosts == {[v1 |-> V1Doc, v2 |-> V2Doc, versions |-> {1, 2}, preferred |-> 2],
            [v1 |-> V1Doc, v2 |-> {}, versions |-> {1}, preferred |-> 0]}
MCRequests ==
  {[relaxations |-> {}, tier |-> "host-attested", leaks |-> {"rows"}],
   [relaxations |-> {"webhooks"}, tier |-> "independent", leaks |-> {}],
   [relaxations |-> {}, tier |-> "independent", leaks |-> {"document"}]}

MCCallsOf(f) ==
  LET row(id, v, n, file, fold) ==
        [writer |-> f, id |-> id, disposition |-> v[1], detail |-> v[2], count |-> n,
         file |-> file, fold |-> fold, evidence |-> FALSE]
      outcomes == {<<d, r>> \in Dispositions \X (Reasons \cup {NoDetail}) :
                     \/ d = "executed-pass" \/ r = "why"
                     \/ d = "blocked" /\ r = "unclassified-return"}
  IN  {row(id, v, n, f, TRUE) : id \in {MCDefaultIds[f][1]}, v \in outcomes, n \in 0 .. MaxAsserts}
      \cup {row(MCFileIds[f], v, n, f, FALSE) : v \in outcomes, n \in 0 .. 2 * MaxAsserts}
      \cup {row(id, v, NoCount, NoFile, FALSE) : id \in {MCFileIds[f]}, v \in outcomes}
      \cup {row(id, v, NoCount, NoFile, FALSE) : id \in GateIds, v \in outcomes}
MCCalls == UNION {MCCallsOf(f) : f \in Files}
=============================================================================
