------------------------------ MODULE EosClock -------------------------------
(* The date the first major's support ends, which                          *)
(* scripts/generate-v1-eos-clock.mjs computes from the hosts of the matrix *)
(* and from the public history of main, and which is committed beside      *)
(* them: the check compares the committed file with what it computes. A    *)
(* commit cannot know its own date, nor the tag that will name it, so two  *)
(* differences are tolerated. A pull request is checked before it is       *)
(* merged, on top of the main it is merged onto.                           *)
(*                                                                         *)
(* A commit is its place on main, which is also its date.                  *)
EXTENDS Integers, Sequences, FiniteSetsExt

CONSTANTS
  Counted,        \* hosts of the second major
  Bundles,      \* what evidence/v2-host-bundles may hold of a host
  Overrides,    \* what spec/v2/eos-override.json may say
  Null,          \* no value
  DAYS_A, MONTHS_B,
  MaxCommits

ASSUME ClockAssumption ==
  Null \notin Nat \cup BOOLEAN /\ DAYS_A \in Nat /\ MONTHS_B \in Nat

VARIABLES
  history,   \* the trees of main, first parent first
  tag        \* the commit v2.0.0 names, or Null

clockVars == <<history, tag>>

Anchored(bundle) == bundle \in {"tier-1", "independent"}
NoBundle == [h \in Counted |-> "absent"]

-----------------------------------------------------------------------------
(* The first commit on main whose bundle of the host claims a witness.     *)
AnchorFor(main, host) ==
  LET at == {c \in 1 .. Len(main) : Anchored(main[c].bundles[host])}
  IN  IF at = {} THEN Null ELSE Min(at)

HostRows(main, tree) ==
  [h \in tree.matrix |->
     [present |-> tree.bundles[h] # "absent",
      latest |-> tree.bundles[h],
      anchor |-> IF tree.bundles[h] = "absent" THEN Null ELSE AnchorFor(main, h)]]

LegA(rows) ==
  IF DOMAIN rows = {} \/ \E h \in DOMAIN rows : rows[h].anchor = Null
    THEN Null ELSE Max({rows[h].anchor : h \in DOMAIN rows}) + DAYS_A

(* Whether a host was independent at the release is read from its bundle   *)
(* of today.                                                               *)
LegB(rows, released) ==
  IF released = Null THEN [applies |-> Null, notBefore |-> Null]
  ELSE IF \E h \in DOMAIN rows : rows[h].anchor # Null /\ rows[h].anchor \in 1 .. released
                                  /\ rows[h].latest = "independent"
    THEN [applies |-> TRUE, notBefore |-> released + MONTHS_B]
    ELSE [applies |-> FALSE, notBefore |-> Null]

EndOfSupport(legA, legB) ==
  CASE legA = Null \/ legB.applies = Null -> Null
    [] legA # Null /\ legB.applies = FALSE -> legA
    [] legA # Null /\ legB.applies = TRUE  -> Max({legA, legB.notBefore})

(* An RFC may set an earlier date, once every counted host is anchored.    *)
Honourable(override, rows, end) ==
  /\ override.accepted /\ override.evidence
  /\ DOMAIN rows # {} /\ \A h \in DOMAIN rows : rows[h].anchor # Null
  /\ end # Null => override.date < end

Computes(main, tree, released) ==
  LET rows == HostRows(main, tree)
  IN  tree.override # Null =>
        Honourable(tree.override, rows, EndOfSupport(LegA(rows), LegB(rows, released)))

Compute(main, tree, released) ==
  LET rows == HostRows(main, tree)
      legA == LegA(rows)
      legB == LegB(rows, released)
  IN  [hosts |-> rows, legA |-> legA, legB |-> legB,
       end |-> IF tree.override = Null THEN EndOfSupport(legA, legB) ELSE tree.override.date]

-----------------------------------------------------------------------------
(* The check of a checkout: its tree, main, where HEAD is on main if it is *)
(* there at all, and the commit the release tag names.                     *)
NewlyAnchored(clock, result) ==
  {h \in DOMAIN result.hosts : h \in DOMAIN clock.hosts /\ result.hosts[h].anchor # Null
                               /\ clock.hosts[h].anchor = Null}

AnchorPending(clock, result, head) ==
  /\ DOMAIN clock.hosts = DOMAIN result.hosts
  /\ NewlyAnchored(clock, result) # {}
  /\ \A h \in DOMAIN result.hosts :
       IF h \in NewlyAnchored(clock, result) THEN result.hosts[h].anchor = head
                                             ELSE result.hosts[h] = clock.hosts[h]

LegBPending(clock, result, head, released) ==
  released = head /\ clock.hosts = result.hosts /\ clock.legA = result.legA

Check(main, tree, head, released) ==
  /\ Computes(main, tree, released)
  /\ LET result == Compute(main, tree, released)
     IN  \/ tree.clock = result
         \/ AnchorPending(tree.clock, result, head)
         \/ LegBPending(tree.clock, result, head, released)

-----------------------------------------------------------------------------
MainTree == history[Len(history)]
Elsewhere == 0   \* the HEAD of a pull request is not on main

ClockInit ==
  /\ tag = Null
  /\ history = LET tree == [matrix |-> {}, bundles |-> NoBundle, override |-> Null]
               IN  <<[matrix |-> {}, bundles |-> NoBundle, override |-> Null,
                      clock |-> Compute(<< >>, tree, Null)]>>

MergePull(tree) ==
  /\ tree # MainTree
  /\ Check(history, tree, Elsewhere, tag)
  /\ history' = Append(history, tree)
  /\ UNCHANGED tag

(* A pull request commits a bundle, a row of the matrix or an override, and*)
(* regenerates the file or leaves it. The RFC that sets an earlier date is *)
(* one about a release that has been cut.                                  *)
WithBundle(tree, h, b) == [tree EXCEPT !.bundles[h] = b]
WithRow(tree, h)       == [tree EXCEPT !.matrix = @ \cup {h}]
WithOverride(tree, o)  == [tree EXCEPT !.override = o]

Edited(tree) ==
  {tree} \cup {WithBundle(tree, h, b) : h \in Counted, b \in Bundles}
         \cup {WithRow(tree, h) : h \in Counted}
         \cup {WithOverride(tree, o) : o \in {p \in Overrides : tag # Null}}
         \cup {WithRow(WithBundle(tree, h, b), h) : h \in Counted, b \in Bundles}

Land ==
  /\ Len(history) < MaxCommits
  /\ \E tree \in Edited(MainTree) :
       MergePull(tree) \/ MergePull([tree EXCEPT !.clock = Compute(history, tree, tag)])

CutRelease ==
  /\ tag = Null
  /\ tag' = Len(history)
  /\ UNCHANGED history

ClockNext == Land \/ CutRelease

ClockSpec == ClockInit /\ [][ClockNext]_clockVars

-----------------------------------------------------------------------------
(* Main passes its own check after every merge and when the release is cut *)
(* on its head; no anchor a committed file records is ever another commit  *)
(* than the first that witnessed the host; and the date on record waits    *)
(* for every counted host, unless an RFC set it.                           *)
HeadIsGreen == Check(history, MainTree, Len(history), tag)

RecordedAnchorsStand ==
  \A c \in 1 .. Len(history) : \A h \in DOMAIN history[c].clock.hosts :
    history[c].clock.hosts[h].anchor \in {Null, AnchorFor(history, h)}

DateWaitsForAll ==
  MainTree.clock.end # Null /\ MainTree.override = Null =>
    \A h \in MainTree.matrix \cap DOMAIN MainTree.clock.hosts :
      MainTree.clock.end >= AnchorFor(history, h) + DAYS_A

ClockIsSound == HeadIsGreen /\ RecordedAnchorsStand /\ DateWaitsForAll
=============================================================================
