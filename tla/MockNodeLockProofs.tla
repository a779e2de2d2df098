------------------------- MODULE MockNodeLockProofs -------------------------
(***************************************************************************)
(* Theorems about the mock-node locks, for any number of files and nodes,  *)
(* any lists, any limits, and whatever is killed or times out, and about   *)
(* what they give the scenarios that program the mock provider.            *)
(***************************************************************************)
EXTENDS MockPrograms, WellFoundedInduction, TLAPS

-----------------------------------------------------------------------------
(* A loop that is on has a node to come to, and belongs to a hook that     *)
(* vitest has started; tests run when the loop is through.                 *)
LoopMatchesPhase ==
  \A f \in Files :
    /\ step[f] # "off" =>
         /\ phase[f] \in {"beforeAll", "afterAll", "releasing", "done"}
         /\ Missing(f) # {}
    /\ (phase[f] = "beforeAll" /\ step[f] = "off") => Missing(f) = {}
    /\ phase[f] = "running" => Missing(f) = {}

(* The loop takes the nodes in their order. *)
GotInOrder ==
  \A f \in Files :
    /\ got[f] \subseteq Needs(f)
    /\ \A n \in got[f], m \in Missing(f) : n < m

(* What afterAll is to remove has been taken, and nothing taken is left    *)
(* out while the tests run.                                                *)
ListsOfGot ==
  \A f \in Files :
    /\ held[f] \cup dropping[f] \subseteq got[f]
    /\ held[f] \cap dropping[f] = {}
    /\ phase[f] \in {"beforeAll", "running"} => held[f] = got[f]
    /\ phase[f] = "waiting" => got[f] = {}

(* Between mkdir and the owner file the directory stays the loop's own.    *)
MadeIsOwn ==
  ~broken => \A f \in Files : step[f] = "write" => maker[Wanted(f)] = f

LockInv ==
  /\ LockTypeOK
  /\ LoopMatchesPhase
  /\ GotInOrder
  /\ ListsOfGot
  /\ MadeIsOwn
  /\ ListedIsOwn

-----------------------------------------------------------------------------
(* The node the loop is at is the least of the missing ones. *)
LEMMA WantedFacts ==
  ASSUME NEW f \in Files, Missing(f) # {}
  PROVE  /\ Wanted(f) \in Missing(f) /\ Wanted(f) \in Nodes
         /\ \A m \in Missing(f) : Wanted(f) <= m
<1>1. Missing(f) \subseteq Nodes /\ Nodes \subseteq Nat
  BY LockAssumption DEF Missing, Needs
<1>2. \E n \in Missing(f) : \A m \in Missing(f) : n <= m
  <2> DEFINE less == OpToRel(<, Nat)
             open == Missing(f)
  <2>1. IsWellFoundedOn(less, Nat)
    BY NatLessThanWellFounded
  <2>2. open \subseteq Nat /\ open # {}
    BY <1>1
  <2>3. \A x, y \in Nat : y < x => <<y, x>> \in less
    BY DEF OpToRel
  <2> HIDE DEF less, open
  <2>4. PICK x \in open : \A y \in open : ~ (<<y, x>> \in less)
    BY <2>1, <2>2, WFMin, Zenon
  <2>5. ASSUME NEW m \in open PROVE x <= m
    <3>1. x \in Nat /\ m \in Nat
      BY <2>2
    <3>2. ~ (m < x)
      BY <2>3, <2>4, <3>1
    <3>3. QED
      BY <3>1, <3>2
  <2>6. QED
    BY <2>5 DEF open
<1>3. Wanted(f) \in Missing(f) /\ \A m \in Missing(f) : Wanted(f) <= m
  BY <1>2 DEF Wanted
<1>4. QED
  BY <1>1, <1>3

LEMMA NeedsFacts ==
  \A f \in Files : Needs(f) \subseteq Nodes /\ Missing(f) \subseteq Needs(f)
BY LockAssumption DEF Needs, Missing

(* As long as nothing more is got, the loop stays at its node. *)
LEMMA WantedStays ==
  ASSUME NEW f, got'[f] = got[f]
  PROVE  Missing(f)' = Missing(f) /\ Wanted(f)' = Wanted(f)
<1>1. Missing(f)' = Missing(f)
  BY DEF Missing, Needs
<1>2. QED
  BY <1>1 DEF Wanted

LEMMA LockInvInit == LockInit => LockInv
<1> SUFFICES ASSUME LockInit PROVE LockInv
  OBVIOUS
<1>1. 0 \in 0 .. StaleLimit + 1 /\ 0 \in 0 .. WaitLimit + 1 /\ 0 \in 0 .. HookLimit + 1
  BY LockAssumption
<1>2. LockTypeOK
  BY <1>1 DEF LockInit, LockTypeOK, Phases, Steps
<1>3. LoopMatchesPhase /\ GotInOrder /\ ListsOfGot
  BY DEF LockInit, LoopMatchesPhase, GotInOrder, ListsOfGot
<1>4. MadeIsOwn /\ ListedIsOwn
  BY DEF LockInit, MadeIsOwn, ListedIsOwn
<1>5. QED
  BY <1>2, <1>3, <1>4 DEF LockInv

(* Most steps only move a file on. *)
LEMMA QuietStep ==
  ASSUME LockInv, LockTypeOK', LoopMatchesPhase',
         UNCHANGED <<lists, maker, broken>>,
         \A f \in Files :
           /\ step'[f] = "write" => step[f] = "write"
           /\ phase'[f] \in {"beforeAll", "running"} =>
                phase[f] \in {"waiting", "beforeAll", "running"}
           /\ phase'[f] = "waiting" => phase[f] = "waiting"
  PROVE  LockInv'
<1>1. got' = got /\ held' = held /\ dropping' = dropping
  BY DEF lists
<1>2. \A f \in Files : Missing(f)' = Missing(f) /\ Wanted(f)' = Wanted(f)
  BY <1>1, WantedStays
<1>3. GotInOrder'
  BY <1>1, <1>2 DEF LockInv, GotInOrder, Needs
<1>4. ListsOfGot'
  BY <1>1 DEF LockInv, ListsOfGot
<1>5. MadeIsOwn'
  BY <1>2 DEF LockInv, MadeIsOwn
<1>6. ListedIsOwn'
  BY <1>1 DEF LockInv, ListedIsOwn
<1>7. QED
  BY <1>3, <1>4, <1>5, <1>6 DEF LockInv

(* The steps of the loop that find something out. *)
LEMMA LookingKeepsInv ==
  ASSUME LockInv, NEW f \in Files,
         \/ FindTaken(f) \/ LoseDir(f) \/ FindGone(f) \/ FindStale(f)
         \/ FindFresh(f) \/ Poll(f)
  PROVE  LockInv'
<1>1. /\ UNCHANGED <<lists, dirs, clocks, broken>>
      /\ \E s \in Steps \ {"write"} :
           /\ step' = [step EXCEPT ![f] = s]
           /\ \/ phase' = phase /\ (s = "off" => phase[f] # "beforeAll")
              \/ s = "off" /\ phase[f] = "beforeAll"
                 /\ phase' = [phase EXCEPT ![f] = "afterAll"]
      /\ step[f] # "off"
  BY DEF FindTaken, LoseDir, FindGone, FindStale, FindFresh, Poll, Throw, GoTo, LoopAt,
         Steps, LockInv, LockTypeOK
<1>2. PICK s \in Steps \ {"write"} :
        /\ step' = [step EXCEPT ![f] = s]
        /\ \/ phase' = phase /\ (s = "off" => phase[f] # "beforeAll")
           \/ s = "off" /\ phase[f] = "beforeAll"
              /\ phase' = [phase EXCEPT ![f] = "afterAll"]
  BY <1>1
<1>3. LockTypeOK'
  BY <1>1, <1>2 DEF LockInv, LockTypeOK, Phases, lists, dirs, clocks
<1>4. \A g \in Files : Missing(g)' = Missing(g)
  BY <1>1, WantedStays DEF lists
<1>5. LoopMatchesPhase'
  BY <1>1, <1>2, <1>4 DEF LockInv, LockTypeOK, LoopMatchesPhase
<1>6. \A g \in Files :
        /\ step'[g] = "write" => step[g] = "write"
        /\ phase'[g] \in {"beforeAll", "running"} => phase'[g] = phase[g]
        /\ phase'[g] = "waiting" => phase[g] = "waiting"
  BY <1>2 DEF LockInv, LockTypeOK
<1>7. QED
  BY <1>1, <1>3, <1>5, <1>6, QuietStep DEF dirs

(* What vitest does to a file, and the clock. *)
LEMMA RunnerKeepsInv ==
  ASSUME LockInv, NEW f \in Files,
         \/ StartFile(f) \/ HookTimeOut(f) \/ RunTests(f) \/ EndTests(f)
         \/ EndFile(f) \/ ExitWorker(f)
  PROVE  LockInv'
<1>1. /\ UNCHANGED <<lists, dirs, broken>>
      /\ waited' \in [Files -> 0 .. WaitLimit + 1]
      /\ hookAge' \in [Files -> 0 .. HookLimit + 1]
  <2>1. 0 \in 0 .. WaitLimit + 1 /\ 0 \in 0 .. HookLimit + 1
    BY LockAssumption
  <2>2. CASE StartFile(f)
    BY <2>1, <2>2 DEF StartFile, LockInv, LockTypeOK
  <2>3. CASE HookTimeOut(f) \/ RunTests(f) \/ EndTests(f) \/ EndFile(f) \/ ExitWorker(f)
    BY <2>3 DEF HookTimeOut, RunTests, EndTests, EndFile, ExitWorker, clocks,
                LockInv, LockTypeOK
  <2>4. QED
    BY <2>2, <2>3
<1>2. \A g \in Files : Missing(g)' = Missing(g)
  BY <1>1, WantedStays DEF lists
<1>3. LockTypeOK'
  BY <1>1 DEF StartFile, HookTimeOut, RunTests, EndTests, EndFile, ExitWorker, GoTo,
              LockInv, LockTypeOK, Phases, Steps, lists, dirs
<1>4. LoopMatchesPhase'
  <2>1. CASE StartFile(f)
    <3>1. Missing(f) = Needs(f)
      BY <2>1 DEF StartFile, LockInv, ListsOfGot, Missing
    <3>2. QED
      BY <2>1, <1>2, <3>1 DEF StartFile, GoTo, LockInv, LockTypeOK, LoopMatchesPhase
  <2>2. CASE HookTimeOut(f) \/ RunTests(f) \/ EndTests(f) \/ EndFile(f) \/ ExitWorker(f)
    BY <2>2, <1>2 DEF HookTimeOut, RunTests, EndTests, EndFile, ExitWorker, GoTo,
                      LockInv, LockTypeOK, LoopMatchesPhase
  <2>3. QED
    BY <2>1, <2>2
<1>5. \A g \in Files :
        /\ step'[g] = "write" => step[g] = "write"
        /\ phase'[g] \in {"beforeAll", "running"} =>
             phase[g] \in {"waiting", "beforeAll", "running"}
        /\ phase'[g] = "waiting" => phase[g] = "waiting"
  BY DEF StartFile, HookTimeOut, RunTests, EndTests, EndFile, ExitWorker, GoTo,
         LockInv, LockTypeOK
<1>6. QED
  BY <1>1, <1>3, <1>4, <1>5, QuietStep DEF dirs

LEMMA TickKeepsInv == LockInv /\ Tick => LockInv'
<1> SUFFICES ASSUME LockInv, Tick PROVE LockInv'
  OBVIOUS
<1>1. /\ UNCHANGED <<phase, step, lists, maker, broken>>
      /\ age' \in [Nodes -> 0 .. StaleLimit + 1]
      /\ waited' \in [Files -> 0 .. WaitLimit + 1]
      /\ hookAge' \in [Files -> 0 .. HookLimit + 1]
  <2>1. ASSUME NEW limit \in Nat, NEW t \in 0 .. limit + 1
        PROVE  Older(limit, t) \in 0 .. limit + 1
    BY DEF Older
  <2>2. /\ \A n \in Nodes : Older(StaleLimit, age[n]) \in 0 .. StaleLimit + 1
        /\ \A g \in Files : Older(WaitLimit, waited[g]) \in 0 .. WaitLimit + 1
        /\ \A g \in Files : Older(HookLimit, hookAge[g]) \in 0 .. HookLimit + 1
    BY <2>1, LockAssumption DEF LockInv, LockTypeOK
  <2>3. 0 \in 0 .. StaleLimit + 1 /\ 0 \in 0 .. WaitLimit + 1 /\ 0 \in 0 .. HookLimit + 1
    BY LockAssumption
  <2>4. QED
    BY <2>2, <2>3 DEF Tick
<1>2. LockTypeOK'
  BY <1>1 DEF LockInv, LockTypeOK, lists
<1>3. \A g \in Files : Missing(g)' = Missing(g)
  BY <1>1, WantedStays DEF lists
<1>4. LoopMatchesPhase'
  BY <1>1, <1>3 DEF LockInv, LoopMatchesPhase
<1>5. QED
  BY <1>1, <1>2, <1>4, QuietStep

-----------------------------------------------------------------------------
(* The steps that touch a directory or a list. *)
LEMMA MakeDirKeepsInv ==
  ASSUME LockInv, NEW f \in Files, MakeDir(f)
  PROVE  LockInv'
<1>1. /\ step[f] = "mkdir" /\ maker[Wanted(f)] = Nobody
      /\ maker' = [maker EXCEPT ![Wanted(f)] = f]
      /\ age' = [age EXCEPT ![Wanted(f)] = 0]
      /\ step' = [step EXCEPT ![f] = "write"]
      /\ UNCHANGED <<phase, got, held, dropping, waited, hookAge, broken>>
  BY DEF MakeDir, LoopAt, GoTo, lists, clocks
<1>2. Missing(f) # {} /\ phase[f] \in {"beforeAll", "afterAll", "releasing", "done"}
  BY <1>1 DEF LockInv, LoopMatchesPhase
<1>3. Wanted(f) \in Nodes
  BY <1>2, WantedFacts
<1>4. \A g \in Files : Missing(g)' = Missing(g) /\ Wanted(g)' = Wanted(g)
  BY <1>1, WantedStays
<1>5. LockTypeOK'
  <2>1. 0 \in 0 .. StaleLimit + 1
    BY LockAssumption
  <2>2. QED
    BY <1>1, <1>3, <2>1 DEF LockInv, LockTypeOK, Steps
<1>6. LoopMatchesPhase'
  BY <1>1, <1>2, <1>4 DEF LockInv, LockTypeOK, LoopMatchesPhase
<1>7. GotInOrder' /\ ListsOfGot'
  BY <1>1, <1>4 DEF LockInv, GotInOrder, ListsOfGot, Needs
<1>8. ASSUME ~broken', NEW g \in Files, NEW n \in Nodes, maker[n] = g
      PROVE  maker'[n] = g
  BY <1>1, <1>8, LockAssumption DEF LockInv, LockTypeOK
<1>9. MadeIsOwn'
  <2> SUFFICES ASSUME ~broken', NEW g \in Files, step'[g] = "write"
               PROVE  maker'[Wanted(g)] = g
    BY <1>4 DEF MadeIsOwn
  <2>1. CASE g = f
    BY <1>1, <1>3, <2>1 DEF LockInv, LockTypeOK
  <2>2. CASE g # f
    <3>1. step[g] = "write" /\ maker[Wanted(g)] = g
      BY <1>1, <2>2 DEF LockInv, LockTypeOK, MadeIsOwn
    <3>2. Wanted(g) \in Nodes
      BY <3>1, WantedFacts DEF LockInv, LoopMatchesPhase
    <3>3. QED
      BY <1>8, <3>1, <3>2
  <2>3. QED
    BY <2>1, <2>2
<1>10. ListedIsOwn'
  <2> SUFFICES ASSUME ~broken', NEW g \in Files, NEW n \in held[g] \cup dropping[g]
               PROVE  maker'[n] = g
    BY <1>1 DEF ListedIsOwn
  <2>1. maker[n] = g /\ n \in Nodes
    BY <1>1 DEF LockInv, LockTypeOK, ListedIsOwn
  <2>2. QED
    BY <1>8, <2>1
<1>11. QED
  BY <1>5, <1>6, <1>7, <1>9, <1>10 DEF LockInv

LEMMA WriteOwnerKeepsInv ==
  ASSUME LockInv, NEW f \in Files, WriteOwner(f)
  PROVE  LockInv'
<1> DEFINE n == Wanted(f)
<1>1. /\ step[f] = "write" /\ phase[f] # "releasing"
      /\ got' = [got EXCEPT ![f] = @ \cup {n}]
      /\ held' = [held EXCEPT ![f] = @ \cup {n}]
      /\ waited' = [waited EXCEPT ![f] = 0]
      /\ step' = [step EXCEPT ![f] = IF Missing(f) = {n} THEN "off" ELSE "mkdir"]
      /\ UNCHANGED <<phase, dropping, maker, age, hookAge, broken>>
  BY DEF WriteOwner, LoopAt, GoTo, dirs
<1>2. Missing(f) # {} /\ phase[f] \in {"beforeAll", "afterAll", "done"}
  BY <1>1 DEF LockInv, LoopMatchesPhase
<1>3. n \in Missing(f) /\ n \in Nodes /\ n \in Needs(f) /\ n \notin got[f]
  BY <1>2, WantedFacts DEF Missing
<1>4. \A m \in Missing(f) : n <= m
  BY <1>2, WantedFacts
<1> HIDE DEF n
<1>5. /\ Missing(f)' = Missing(f) \ {n}
      /\ \A g \in Files \ {f} : Missing(g)' = Missing(g) /\ Wanted(g)' = Wanted(g)
  <2>1. got'[f] = got[f] \cup {n} /\ \A g \in Files \ {f} : got'[g] = got[g]
    BY <1>1 DEF LockInv, LockTypeOK
  <2>2. Missing(f)' = Missing(f) \ {n}
    BY <2>1 DEF Missing, Needs
  <2>3. QED
    BY <2>1, <2>2, WantedStays
<1>6. LockTypeOK'
  <2>1. 0 \in 0 .. WaitLimit + 1
    BY LockAssumption
  <2>2. QED
    BY <1>1, <1>3, <2>1 DEF LockInv, LockTypeOK, Steps
<1>7. LoopMatchesPhase'
  <2>1. \A g \in Files \ {f} : step'[g] = step[g] /\ phase'[g] = phase[g]
    BY <1>1 DEF LockInv, LockTypeOK
  <2>2. /\ step'[f] = "off" <=> Missing(f)' = {}
        /\ phase'[f] = phase[f]
    BY <1>1, <1>3, <1>5 DEF LockInv, LockTypeOK
  <2>3. QED
    BY <1>2, <1>5, <2>1, <2>2 DEF LockInv, LoopMatchesPhase
<1>8. GotInOrder'
  <2> SUFFICES ASSUME NEW g \in Files
               PROVE  /\ got'[g] \subseteq Needs(g)
                      /\ \A a \in got'[g], b \in Missing(g)' : a < b
    BY DEF GotInOrder, Needs
  <2>1. CASE g = f
    <3>1. got'[f] = got[f] \cup {n}
      BY <1>1 DEF LockInv, LockTypeOK
    <3>2. Missing(f) \subseteq Nat /\ n \in Nat
      BY <1>3, NeedsFacts, LockAssumption
    <3>3. \A b \in Missing(f)' : b \in Missing(f) /\ n < b
      BY <1>4, <1>5, <3>2
    <3>4. QED
      BY <1>3, <2>1, <3>1, <3>3 DEF LockInv, GotInOrder
  <2>2. CASE g # f
    BY <1>1, <1>5, <2>2 DEF LockInv, LockTypeOK, GotInOrder
  <2>3. QED
    BY <2>1, <2>2
<1>9. ListsOfGot'
  BY <1>1, <1>2, <1>3 DEF LockInv, LockTypeOK, ListsOfGot
<1>10. MadeIsOwn'
  BY <1>1, <1>5 DEF LockInv, LockTypeOK, MadeIsOwn
<1>11. ListedIsOwn'
  <2>1. ~broken => maker[n] = f
    BY <1>1 DEF LockInv, MadeIsOwn, n
  <2>2. QED
    BY <1>1, <2>1 DEF LockInv, LockTypeOK, ListedIsOwn
<1>12. QED
  BY <1>6, <1>7, <1>8, <1>9, <1>10, <1>11 DEF LockInv

(* A broken lock ends the promises about owners; the loops stay in order.  *)
LEMMA BreakLockKeepsInv ==
  ASSUME LockInv, NEW f \in Files, BreakLock(f)
  PROVE  LockInv'
<1>1. /\ step[f] = "break" /\ broken' = TRUE
      /\ maker' = [maker EXCEPT ![Wanted(f)] = Nobody]
      /\ age' = [age EXCEPT ![Wanted(f)] = 0]
      /\ step' = [step EXCEPT ![f] = "mkdir"]
      /\ UNCHANGED <<phase, got, held, dropping, waited, hookAge>>
  BY DEF BreakLock, LoopAt, GoTo, lists, clocks
<1>2. Missing(f) # {} /\ phase[f] \in {"beforeAll", "afterAll", "releasing", "done"}
  BY <1>1 DEF LockInv, LoopMatchesPhase
<1>3. \A g \in Files : Missing(g)' = Missing(g)
  BY <1>1, WantedStays
<1>4. LockTypeOK'
  <2>1. 0 \in 0 .. StaleLimit + 1
    BY LockAssumption
  <2>2. QED
    BY <1>1, <2>1 DEF LockInv, LockTypeOK, Steps
<1>5. LoopMatchesPhase'
  BY <1>1, <1>2, <1>3 DEF LockInv, LockTypeOK, LoopMatchesPhase
<1>6. GotInOrder' /\ ListsOfGot'
  BY <1>1, <1>3 DEF LockInv, GotInOrder, ListsOfGot, Needs
<1>7. MadeIsOwn' /\ ListedIsOwn'
  BY <1>1 DEF MadeIsOwn, ListedIsOwn
<1>8. QED
  BY <1>4, <1>5, <1>6, <1>7 DEF LockInv

(* The two steps that take a file off its lists: afterAll, and a kill.     *)
LEMMA UnlistKeepsInv ==
  ASSUME LockInv, NEW f \in Files, AfterAll(f) \/ Kill(f)
  PROVE  LockInv'
<1>1. /\ UNCHANGED <<got, maker, age, waited, hookAge, broken>>
      /\ \/ /\ phase[f] = "afterAll" /\ step' = step
            /\ phase' = [phase EXCEPT ![f] = "releasing"]
            /\ dropping' = [dropping EXCEPT ![f] = held[f]]
            /\ held' = [held EXCEPT ![f] = {}]
         \/ /\ phase' = [phase EXCEPT ![f] = "killed"]
            /\ step' = [step EXCEPT ![f] = "off"]
            /\ dropping' = [dropping EXCEPT ![f] = {}]
            /\ held' = [held EXCEPT ![f] = {}]
  BY DEF AfterAll, Kill, GoTo, dirs, clocks
<1>2. \A g \in Files : Missing(g)' = Missing(g) /\ Wanted(g)' = Wanted(g)
  BY <1>1, WantedStays
<1>3. LockTypeOK'
  BY <1>1 DEF LockInv, LockTypeOK, Phases, Steps
<1>4. LoopMatchesPhase'
  BY <1>1, <1>2 DEF LockInv, LockTypeOK, LoopMatchesPhase
<1>5. GotInOrder'
  BY <1>1, <1>2 DEF LockInv, GotInOrder, Needs
<1>6. ListsOfGot'
  BY <1>1 DEF LockInv, LockTypeOK, ListsOfGot
<1>7. MadeIsOwn'
  BY <1>1, <1>2 DEF LockInv, LockTypeOK, MadeIsOwn
<1>8. ListedIsOwn'
  BY <1>1 DEF LockInv, LockTypeOK, ListedIsOwn
<1>9. QED
  BY <1>3, <1>4, <1>5, <1>6, <1>7, <1>8 DEF LockInv

(* A directory is removed by the file it belongs to, and by a file whose   *)
(* loop is at another node.                                                *)
LEMMA ReleaseKeepsInv ==
  ASSUME LockInv, NEW f \in Files, NEW n \in Nodes, Release(f, n)
  PROVE  LockInv'
<1>1. /\ n \in dropping[f] /\ phase[f] = "releasing"
      /\ dropping' = [dropping EXCEPT ![f] = @ \ {n}]
      /\ maker' = [maker EXCEPT ![n] = Nobody]
      /\ age' = [age EXCEPT ![n] = 0]
      /\ UNCHANGED <<phase, step, got, held, waited, hookAge, broken>>
  BY DEF Release, clocks
<1>2. \A g \in Files : Missing(g)' = Missing(g) /\ Wanted(g)' = Wanted(g)
  BY <1>1, WantedStays
<1>3. LockTypeOK'
  <2>1. 0 \in 0 .. StaleLimit + 1
    BY LockAssumption
  <2>2. QED
    BY <1>1, <2>1 DEF LockInv, LockTypeOK
<1>4. LoopMatchesPhase' /\ GotInOrder'
  BY <1>1, <1>2 DEF LockInv, LoopMatchesPhase, GotInOrder, Needs
<1>5. ListsOfGot'
  BY <1>1 DEF LockInv, LockTypeOK, ListsOfGot
<1>6. ASSUME ~broken' PROVE maker[n] = f
  BY <1>1, <1>6 DEF LockInv, ListedIsOwn
<1>7. MadeIsOwn'
  <2> SUFFICES ASSUME ~broken', NEW g \in Files, step[g] = "write"
               PROVE  maker'[Wanted(g)] = g
    BY <1>1, <1>2 DEF MadeIsOwn
  <2>1. Wanted(g) \in Missing(g) /\ Wanted(g) \in Nodes /\ maker[Wanted(g)] = g
    BY <1>1, WantedFacts DEF LockInv, LoopMatchesPhase, MadeIsOwn
  <2>2. Wanted(g) # n
    <3>1. CASE g = f
      BY <1>1, <2>1, <3>1 DEF LockInv, ListsOfGot, Missing
    <3>2. CASE g # f
      BY <1>6, <2>1, <3>2
    <3>3. QED
      BY <3>1, <3>2
  <2>3. QED
    BY <1>1, <2>1, <2>2 DEF LockInv, LockTypeOK
<1>8. ListedIsOwn'
  <2> SUFFICES ASSUME ~broken', NEW g \in Files, NEW m \in held'[g] \cup dropping'[g]
               PROVE  maker'[m] = g
    BY DEF ListedIsOwn
  <2>1. m \in held[g] \cup dropping[g] /\ m \in Nodes /\ maker[m] = g
    BY <1>1 DEF LockInv, LockTypeOK, ListedIsOwn
  <2>2. m # n
    BY <1>1, <1>6, <2>1 DEF LockInv, LockTypeOK, ListsOfGot
  <2>3. QED
    BY <1>1, <2>1, <2>2 DEF LockInv, LockTypeOK
<1>9. QED
  BY <1>3, <1>4, <1>5, <1>7, <1>8 DEF LockInv

LEMMA LockInvStep == LockInv /\ [LockNext]_vars => LockInv'
<1> SUFFICES ASSUME LockInv, [LockNext]_vars PROVE LockInv'
  OBVIOUS
<1>1. ASSUME NEW f \in Files, Acquire(f) PROVE LockInv'
  BY <1>1, MakeDirKeepsInv, WriteOwnerKeepsInv, BreakLockKeepsInv, LookingKeepsInv
     DEF Acquire
<1>2. ASSUME NEW f \in Files, Runner(f) PROVE LockInv'
  BY <1>2, RunnerKeepsInv, UnlistKeepsInv, ReleaseKeepsInv DEF Runner
<1>3. ASSUME NEW f \in Files, Kill(f) PROVE LockInv'
  BY <1>3, UnlistKeepsInv
<1>4. CASE Tick
  BY <1>4, TickKeepsInv
<1>5. CASE UNCHANGED vars
  <2>1. \A g \in Files : Missing(g)' = Missing(g)
    BY <1>5, WantedStays DEF vars, lists
  <2>2. LockTypeOK' /\ LoopMatchesPhase'
    BY <1>5, <2>1 DEF vars, lists, dirs, clocks, LockInv, LockTypeOK, LoopMatchesPhase
  <2>3. QED
    BY <1>5, <2>2, QuietStep DEF vars, dirs
<1>6. QED
  BY <1>1, <1>2, <1>3, <1>4, <1>5 DEF LockNext

LEMMA LockInvariant == LockSpec => []LockInv
BY LockInvInit, LockInvStep, PTL DEF LockSpec

-----------------------------------------------------------------------------
(* Phases, loops, lists, directories and clocks keep to their types, and   *)
(* every age stays within the limit the code compares it with.             *)
THEOREM LockTypeCorrect == LockSpec => []LockTypeOK
<1>1. LockInv => LockTypeOK
  BY DEF LockInv
<1>2. QED
  BY <1>1, LockInvariant, PTL

(* holdMockNodes' afterAll removes only directories of its own file, as    *)
(* long as no waiter has broken a stale lock.                              *)
THEOREM ReleasesOnlyItsOwn == LockSpec => []ListedIsOwn
<1>1. LockInv => ListedIsOwn
  BY DEF LockInv
<1>2. QED
  BY <1>1, LockInvariant, PTL

(* While a file runs it holds all it listed, and what it holds it made.    *)
LEMMA LockInvGivesExclusion == LockInv => OneAfterAnotherUntilBroken
<1> SUFFICES ASSUME LockInv, ~broken, NEW f \in Files, NEW g \in Files,
                    phase[f] = "running", phase[g] = "running", f # g
             PROVE  Needs(f) \cap Needs(g) = {}
  BY DEF OneAfterAnotherUntilBroken, OneAfterAnother
<1>1. \A h \in {f, g} : Needs(h) \subseteq held[h]
  BY DEF LockInv, LoopMatchesPhase, ListsOfGot, Missing
<1>2. \A h \in {f, g} : \A n \in Needs(h) : maker[n] = h
  BY <1>1 DEF LockInv, ListedIsOwn
<1>3. QED
  BY <1>2

(* Files that hold a common node never run their tests at the same time,   *)
(* as long as no waiter has broken a stale lock.                           *)
THEOREM FilesRunOneAfterAnother == LockSpec => []OneAfterAnotherUntilBroken
BY LockInvGivesExclusion, LockInvariant, PTL

(* acquire takes the nodes in sort order, so files with overlapping lists  *)
(* never wait for each other in a circle: who holds what another waits for *)
(* waits, if at all, further up the order.                                 *)
THEOREM WaitingGoesUpTheOrder == LockSpec => []NoCircularWait
<1>1. LockInv => NoCircularWait
  <2> SUFFICES ASSUME LockInv, NEW f \in Files, NEW g \in Files,
                      Waiting(f), Waiting(g), Wanted(f) \in held[g]
               PROVE  Wanted(f) < Wanted(g)
    BY DEF NoCircularWait
  <2>1. Wanted(f) \in got[g]
    BY DEF Waiting, LockInv, ListsOfGot
  <2>2. Missing(g) # {}
    BY DEF Waiting, LockInv, LoopMatchesPhase
  <2>3. Wanted(g) \in Missing(g)
    BY <2>2, WantedFacts
  <2>4. QED
    BY <2>1, <2>3 DEF LockInv, GotInOrder
<1>2. QED
  BY <1>1, LockInvariant, PTL

-----------------------------------------------------------------------------
(* The programs the files write to the host's store under the locks.       *)

(* Only a file whose tests run waits to read a program, and only one it    *)
(* has listed the node of.                                                 *)
SeededWhileRunning ==
  \A f \in Files : /\ seeded[f] \subseteq Needs(f)
                   /\ seeded[f] # {} => phase[f] = "running"

ProgramsInv ==
  /\ LockInv
  /\ program \in [Nodes -> Files \cup {Nobody}]
  /\ seeded \in [Files -> SUBSET Nodes]
  /\ SeededWhileRunning
  /\ NeverAnothersProgram

LEMMA ProgramsInvInit == ProgramsInit => ProgramsInv
<1> SUFFICES ASSUME ProgramsInit PROVE ProgramsInv
  OBVIOUS
<1>1. LockInv
  BY LockInvInit DEF ProgramsInit
<1>2. QED
  BY <1>1 DEF ProgramsInit, ProgramsInv, SeededWhileRunning, NeverAnothersProgram, Wiped

(* Two files never have programs at one node at the same time. *)
LEMMA SeededApart ==
  ASSUME LockInv, SeededWhileRunning, ~broken,
         NEW f \in Files, phase[f] = "running", NEW n \in Needs(f), NEW g \in Files, g # f
  PROVE  n \notin seeded[g]
<1>1. OneAfterAnotherUntilBroken
  BY LockInvGivesExclusion
<1>2. QED
  BY <1>1 DEF OneAfterAnotherUntilBroken, OneAfterAnother, SeededWhileRunning

LEMMA SeedKeepsInv ==
  ASSUME ProgramsInv, NEW f \in Files, NEW n \in Nodes, Seed(f, n) \/ ReadBack(f, n)
  PROVE  ProgramsInv'
<1>1. /\ UNCHANGED vars /\ phase[f] = "running"
      /\ \A g \in Files : Needs(g)' = Needs(g)
  BY DEF Seed, ReadBack, Needs
<1>2. LockInv'
  BY <1>1, LockInvStep DEF ProgramsInv
<1>3. broken' = broken /\ phase' = phase
  BY <1>1 DEF vars
<1>4. CASE Seed(f, n)
  <2>1. /\ n \in Needs(f)
        /\ program' = [program EXCEPT ![n] = f]
        /\ seeded' = [seeded EXCEPT ![f] = @ \cup {n}]
    BY <1>4 DEF Seed
  <2>2. NeverAnothersProgram'
    <3> SUFFICES ASSUME ~broken, NEW g \in Files, NEW m \in seeded'[g]
                 PROVE  program'[m] \in {g, Nobody}
      BY <1>3 DEF NeverAnothersProgram
    <3>1. CASE g = f
      BY <2>1, <3>1 DEF ProgramsInv, NeverAnothersProgram
    <3>2. CASE g # f
      <4>1. m \in seeded[g] /\ m # n
        BY <1>1, <2>1, <3>2, SeededApart DEF ProgramsInv
      <4>2. QED
        BY <2>1, <4>1 DEF ProgramsInv, NeverAnothersProgram
    <3>3. QED
      BY <3>1, <3>2
  <2>3. QED
    BY <1>1, <1>2, <1>3, <2>1, <2>2 DEF ProgramsInv, SeededWhileRunning
<1>5. CASE ReadBack(f, n)
  BY <1>1, <1>2, <1>3, <1>5 DEF ReadBack, ProgramsInv, SeededWhileRunning, NeverAnothersProgram
<1>6. QED
  BY <1>4, <1>5

(* No step of the locks takes a running file out of its tests but EndTests *)
(* and Kill, where it stops waiting for its programs.                      *)
LEMMA LockOnlyKeepsRunning ==
  ASSUME LockInv, NEW f \in Files, LockOnly(f)
  PROVE  /\ \A g \in Files : phase[g] = "running" => phase'[g] = "running"
         /\ broken => broken'
BY DEF LockOnly, Acquire, StartFile, HookTimeOut, RunTests, AfterAll, Release, ExitWorker,
       MakeDir, FindTaken, WriteOwner, LoseDir, FindGone, FindStale, FindFresh, Poll,
       BreakLock, Throw, GoTo, LoopAt, LockInv, LockTypeOK, LoopMatchesPhase

LEMMA ProgramsInvStep == ProgramsInv /\ [ProgramsNext]_allVars => ProgramsInv'
<1> SUFFICES ASSUME ProgramsInv, [ProgramsNext]_allVars PROVE ProgramsInv'
  OBVIOUS
<1>1. \A g \in Files : Needs(g)' = Needs(g)
  BY DEF Needs
<1>2. ASSUME NEW f \in Files, LockOnly(f), UNCHANGED <<program, seeded>>
      PROVE  ProgramsInv'
  <2>1. LockInv'
    BY <1>2, LockInvStep DEF LockOnly, LockNext, Runner, ProgramsInv
  <2>2. QED
    BY <1>1, <1>2, <2>1, LockOnlyKeepsRunning
       DEF ProgramsInv, SeededWhileRunning, NeverAnothersProgram
<1>3. ASSUME NEW f \in Files, NEW n \in Nodes, Seed(f, n) \/ ReadBack(f, n)
      PROVE  ProgramsInv'
  BY <1>3, SeedKeepsInv
<1>4. ASSUME NEW f \in Files, EndTests(f) \/ Kill(f), StopReading(f)
      PROVE  ProgramsInv'
  <2>1. LockInv'
    BY <1>4, LockInvStep DEF LockNext, Runner, ProgramsInv
  <2>2. /\ broken' = broken
        /\ \A g \in Files : g # f => phase'[g] = phase[g]
        /\ seeded' = [seeded EXCEPT ![f] = {}] /\ program' = program
    BY <1>4 DEF EndTests, Kill, StopReading, ProgramsInv, LockInv, LockTypeOK
  <2>3. QED
    BY <1>1, <2>1, <2>2 DEF ProgramsInv, SeededWhileRunning, NeverAnothersProgram
<1>5. ASSUME NEW f \in Files, ResetMockPrograms(f)
      PROVE  ProgramsInv'
  <2>1. LockInv'
    BY <1>5, LockInvStep DEF ResetMockPrograms, LockNext, Runner, ProgramsInv
  <2>2. /\ broken' = broken /\ seeded' = seeded
        /\ program' \in {program, Wiped}
        /\ \A g \in Files : phase[g] = "running" => phase'[g] = "running"
    BY <1>5 DEF ResetMockPrograms, EndFile, ProgramsInv, LockInv, LockTypeOK
  <2>3. QED
    BY <1>1, <2>1, <2>2
       DEF ProgramsInv, SeededWhileRunning, NeverAnothersProgram, Wiped
<1>6. CASE Tick /\ UNCHANGED <<program, seeded>>
  <2>1. LockInv'
    BY <1>6, LockInvStep DEF LockNext, ProgramsInv
  <2>2. QED
    BY <1>1, <1>6, <2>1 DEF Tick, ProgramsInv, SeededWhileRunning, NeverAnothersProgram
<1>7. CASE UNCHANGED allVars
  <2>1. LockInv'
    BY <1>7, LockInvStep DEF allVars, ProgramsInv
  <2>2. QED
    BY <1>1, <1>7, <2>1 DEF allVars, vars, ProgramsInv, SeededWhileRunning,
                            NeverAnothersProgram
<1>8. QED
  BY <1>2, <1>3, <1>4, <1>5, <1>6, <1>7 DEF ProgramsNext

(* A scenario that programs the mock under holdMockNodes reads back a run  *)
(* of its own program or, after a reset, of none: never of another file's, *)
(* as long as no waiter has broken a stale lock.                           *)
THEOREM ProgramsStayApart == ProgramsSpec => []NeverAnothersProgram
<1>1. ProgramsSpec => []ProgramsInv
  BY ProgramsInvInit, ProgramsInvStep, PTL DEF ProgramsSpec
<1>2. ProgramsInv => NeverAnothersProgram
  BY DEF ProgramsInv
<1>3. QED
  BY <1>1, <1>2, PTL
=============================================================================
