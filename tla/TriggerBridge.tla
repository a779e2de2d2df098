---------------------------- MODULE TriggerBridge -----------------------------
(***************************************************************************)
(* conformance/src/lib/trigger-delivery-witness.ts and                     *)
(* trigger-dead-letter-witness.ts, against the host of trigger-double.ts   *)
(* with at most one defect. A leg is a script of requests and a judgement  *)
(* of their answers; legs of two scenario files run interleaved on the one *)
(* host, whose clock is off by some drift. Clocks count in 100 s.          *)
(***************************************************************************)
EXTENDS Integers, Sequences, FiniteSets

CONSTANTS
  Defects,             \* what the host may do wrong: "none" and others
  Drifts,              \* how far the host's clock may be off
  SKEW_PROBE_SECONDS, SKEW_BOUND,
  Majors,              \* foreignTenantRead of the profile row: 403 or 404
  Together             \* how many legs run at once

VARIABLES
  defect, drift, foreignTenantRead,
  subs,      \* the host's subscriptions, in order: [mode, state, seen, dead]
  legs,      \* the legs that run, of those the host's advertisement binds
  answers    \* per leg, the answers so far

triggerVars == <<defect, drift, foreignTenantRead, subs, legs, answers>>

(* signedGate, readGate and, for the cross-tenant read, the suite's own    *)
(* second credential.                                                      *)
SignedLegs == {"dedup", "refused", "stale", "secretOnce", "causation", "attempt"}
ReadLegs == {"paging", "cursor", "tenant"}
BoundBy(advertised, secondTenant) ==
  IF ~advertised.family \/ ~advertised.inboundSigning THEN {}
  ELSE IF ~advertised.deadLetter THEN SignedLegs \ {"attempt"}
  ELSE SignedLegs \cup (IF secondTenant THEN ReadLegs ELSE ReadLegs \ {"tenant"})

Abs(n) == IF n < 0 THEN -n ELSE n
Nothing == [status |-> 0]

-----------------------------------------------------------------------------
(* The scripts. A request names the subscription by its place among those  *)
(* the leg has registered.                                                 *)
Register(mode) == [op |-> "register", mode |-> mode]
Good(sub) == [op |-> "ingest", sub |-> sub, signed |-> TRUE, off |-> 0, id |-> "fresh"]
Bad(sub) == [Good(sub) EXCEPT !.signed = FALSE]
Repeated(sub) == [Good(sub) EXCEPT !.id = "repeated"]
Skewed(sub, off) == [Good(sub) EXCEPT !.off = off]
ReadBackSub(sub) == [op |-> "read", sub |-> sub]
DeadLetters(sub, limit, from, tenant) ==
  [op |-> "dead letters", sub |-> sub, limit |-> limit, from |-> from, tenant |-> tenant]

Script(leg) ==
  CASE leg = "dedup" -> <<Register("none"), Repeated(1), Repeated(1)>>
    [] leg = "refused" -> <<Register("required"), Bad(1), ReadBackSub(1), Good(1)>>
    [] leg = "stale" -> <<Register("required"), Skewed(1, -SKEW_PROBE_SECONDS),
                          Skewed(1, SKEW_PROBE_SECONDS), ReadBackSub(1), Good(1)>>
    [] leg = "secretOnce" -> <<Register("none"), ReadBackSub(1)>>
    [] leg = "causation" -> <<Register("none"), Good(1), [op |-> "poll"]>>
    [] leg = "attempt" -> <<Register("required"), Bad(1), DeadLetters(1, 9, 0, "own")>>
    [] leg = "paging" -> <<Register("required"), Bad(1), Bad(1), DeadLetters(1, 1, 0, "own"),
                           DeadLetters(1, 1, 4, "own"), DeadLetters(1, 9, 0, "own")>>
    [] leg = "cursor" -> <<Register("required"), Bad(1), Bad(1), DeadLetters(1, 1, 0, "own"),
                           Register("required"), Bad(2), DeadLetters(2, 9, 4, "own")>>
    [] leg = "tenant" -> <<Register("required"), Bad(1), DeadLetters(1, 9, 0, "other"),
                           DeadLetters(0, 9, 0, "own")>>

Asked(leg) == Script(leg)[Len(answers[leg]) + 1]

(* The subscription a leg registered n-th, as the host numbered it. *)
SubOf(leg, n) ==
  LET own == SelectSeq(answers[leg], LAMBDA a : "sub" \in DOMAIN a) IN own[n].sub

(* pagingLeg and cursorLeg go no further without a cursor to send. *)
Stopped(leg) ==
  /\ leg \in {"paging", "cursor"} /\ Len(answers[leg]) = 4
  /\ answers[leg][4].nextCursor = Nothing
Finished(leg) == Len(answers[leg]) = Len(Script(leg)) \/ Stopped(leg)

-----------------------------------------------------------------------------
(* The double. It checks a signed post, and under required verification    *)
(* records and refuses one that fails ...                                  *)
Record(sub) ==
  [subscription |-> sub, leaks |-> defect = "record-leaks-canary",
   stateChange |-> defect = "refused-records-state-change",
   retained |-> IF defect = "wrong-retention" THEN 1 ELSE 7]

Passes(q) ==
  /\ q.signed
  /\ Abs(q.off - drift) <= SKEW_BOUND \/ defect = "skew-accepted"

Ingest(n, q) ==
  LET sub == subs[n] IN
  IF ~Passes(q) /\ sub.mode = "required"
  THEN [subs |-> [subs EXCEPT
          ![n].dead = IF defect = "refused-not-recorded" THEN @ ELSE <<Record(n)>> \o @,
          ![n].state = IF defect = "refused-changes-state" THEN "failed" ELSE @],
        answer |-> [status |-> 401, runStarted |-> defect = "refused-starts-run"]]
  (* ... starts no run for a webhook-id it has seen ... *)
  ELSE IF q.id \in sub.seen /\ defect # "dedup-new-run"
  THEN [subs |-> subs, answer |-> [status |-> 200, runStarted |-> TRUE]]
  ELSE [subs |-> [subs EXCEPT ![n].seen = IF q.id = "fresh" THEN @ ELSE @ \cup {q.id}],
        answer |-> [status |-> 202, runStarted |-> TRUE]]

(* ... and serves the records of a subscription page by page, a cursor     *)
(* being good for the subscription it was minted for only.                 *)
ServeDeadLetters(leg, q) ==
  LET n == IF q.sub = 0 THEN 0 ELSE SubOf(leg, q.sub)
      cursor == IF q.from = 0 THEN Nothing ELSE answers[leg][q.from].nextCursor
      Page(offset) ==
        LET size == IF defect = "limit-ignored" THEN Len(subs[n].dead) ELSE q.limit
            last == IF offset + size < Len(subs[n].dead) THEN offset + size ELSE Len(subs[n].dead)
        IN [status |-> 200, deliveries |-> SubSeq(subs[n].dead, offset + 1, last),
            nextCursor |-> IF offset + size < Len(subs[n].dead)
                           THEN [status |-> 0, sub |-> n, offset |-> offset + size] ELSE Nothing]
      Refusal(status) == [status |-> status, deliveries |-> <<>>, nextCursor |-> Nothing]
  IN IF q.tenant = "other" /\ defect = "tenant-404" THEN Refusal(404)
     ELSE IF q.tenant = "other" /\ defect # "tenant-leak" THEN Refusal(foreignTenantRead)
     ELSE IF n = 0 THEN Refusal(404)
     ELSE IF cursor = Nothing THEN Page(0)
     ELSE IF cursor.sub # n /\ defect # "cursor-not-bound" THEN Refusal(400)
     ELSE Page(cursor.offset)

Reply(leg, a) == answers' = [answers EXCEPT ![leg] = Append(@, a)]

Exchange(leg) ==
  /\ leg \in legs /\ ~Finished(leg)
  /\ LET q == Asked(leg) IN
     \/ /\ q.op = "register"
        /\ subs' = Append(subs, [mode |-> q.mode, state |-> "active", seen |-> {}, dead |-> <<>>])
        /\ Reply(leg, [status |-> 201, sub |-> Len(subs) + 1])
     \/ /\ q.op = "ingest"
        /\ LET done == Ingest(SubOf(leg, q.sub), q) IN subs' = done.subs /\ Reply(leg, done.answer)
     \/ /\ q.op = "read"
        /\ Reply(leg, [status |-> 200, state |-> subs[SubOf(leg, q.sub)].state,
                       secret |-> defect = "reread-leaks-secret"])
        /\ UNCHANGED subs
     \/ /\ q.op = "dead letters"
        /\ Reply(leg, ServeDeadLetters(leg, q))
        /\ UNCHANGED subs
     (* The poll may find the delivered attempt on the run's log, or not yet. *)
     \/ /\ q.op = "poll"
        /\ \E onLog \in BOOLEAN :
             Reply(leg, [status |-> 200, causation |-> defect # "no-causation",
                         equal |-> onLog => defect # "wrong-causation"])
        /\ UNCHANGED subs
  /\ UNCHANGED <<defect, drift, foreignTenantRead, legs>>

-----------------------------------------------------------------------------
Refused(a) == a.status = 401 /\ ~a.runStarted

(* judge of trigger-dead-letter-witness.ts, over the records of the page. *)
judgeDeadLetters(read, sub) ==
  /\ read.status = 200
  /\ \E i \in DOMAIN read.deliveries : read.deliveries[i].subscription = sub
  /\ \A i \in DOMAIN read.deliveries : ~read.deliveries[i].leaks
  /\ LET rec == read.deliveries[1] IN ~rec.stateChange /\ rec.retained = 7

FirstPage(a) == a.status = 200 /\ Len(a.deliveries) = 1 /\ a.nextCursor # Nothing

Clean(leg) ==
  LET a == answers[leg] IN
  CASE leg = "dedup" -> a[2].status = 202 /\ a[3].status = 200
    [] leg = "refused" -> Refused(a[2]) /\ a[3].state = "active" /\ a[4].status = 202
    [] leg = "stale" -> Refused(a[2]) /\ Refused(a[3]) /\ a[4].state = "active" /\ a[5].status = 202
    [] leg = "secretOnce" -> ~a[2].secret
    [] leg = "causation" -> a[2].status = 202 /\ a[3].causation /\ a[3].equal
    [] leg = "attempt" -> a[2].status = 401 /\ judgeDeadLetters(a[3], a[1].sub)
    [] leg = "paging" -> /\ ~Stopped(leg) /\ FirstPage(a[4])
                         /\ a[5].status = 200 /\ Len(a[5].deliveries) = 1 /\ a[6].status = 200
    [] leg = "cursor" -> ~Stopped(leg) /\ a[7].status = 400
    [] leg = "tenant" -> a[3].status = foreignTenantRead /\ a[3].deliveries = <<>> /\ a[4].status = 404

-----------------------------------------------------------------------------
TriggerInit ==
  /\ defect \in Defects /\ drift \in Drifts /\ foreignTenantRead \in Majors
  /\ subs = <<>> /\ answers = [leg \in SignedLegs \cup ReadLegs |-> <<>>]
  /\ \E advertised \in [family : BOOLEAN, inboundSigning : BOOLEAN, deadLetter : BOOLEAN],
        secondTenant \in BOOLEAN :
       legs \in {some \in SUBSET BoundBy(advertised, secondTenant) : Cardinality(some) = Together}

TriggerNext == \E leg \in legs : Exchange(leg)

TriggerSpec == TriggerInit /\ [][TriggerNext]_triggerVars

-----------------------------------------------------------------------------
(* The table of trigger-delivery-witness.test.ts, "defect %s fails exactly *)
(* %j". Answered 404 where the major asks for it, tenant-404 is no defect. *)
OwnersOf(d) ==
  CASE d = "none" -> {}
    [] d = "dedup-new-run" -> {"dedup"}
    [] d \in {"refused-starts-run", "refused-changes-state"} -> {"refused", "stale"}
    [] d = "skew-accepted" -> {"stale"}
    [] d = "reread-leaks-secret" -> {"secretOnce"}
    [] d = "no-causation" -> {"causation"}
    [] d \in {"record-leaks-canary", "refused-records-state-change", "wrong-retention"} -> {"attempt"}
    [] d = "refused-not-recorded" -> {"attempt", "paging", "cursor"}
    [] d = "limit-ignored" -> {"paging", "cursor"}
    [] d = "cursor-not-bound" -> {"cursor"}
    [] d = "tenant-leak" -> {"tenant"}
    [] d = "tenant-404" -> IF foreignTenantRead = 404 THEN {} ELSE {"tenant"}

(* trigger-delivery-witness.ts: each leg is judged against a double "with  *)
(* one defect turned on", the skew probes far enough off "so ordinary      *)
(* clock drift cannot pass or fail them": whatever leg runs beside it and  *)
(* whatever the drift, the legs that convict are those of the defect. Of a *)
(* run caused by another delivery, which the table does not have, only the *)
(* causation leg may say so, and not when the attempt is late on the log.  *)
EachDefectHasItsLegs ==
  \A leg \in legs : Finished(leg) =>
    IF defect = "wrong-causation" THEN leg # "causation" => Clean(leg)
    ELSE Clean(leg) <=> leg \notin OwnersOf(defect)
=============================================================================
