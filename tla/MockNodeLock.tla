---------------------------- MODULE MockNodeLock ----------------------------
(***************************************************************************)
(* Cross-process locks on the mock-AI program seam (mock-node-lock.ts).    *)
(* A lock is a directory: mkdir takes it, rm -r releases it, and its mtime *)
(* tells a waiter when a killed run must have left it. Every scenario file *)
(* runs in a process of its own; one file-system call is one step.         *)
(*                                                                         *)
(* Time is a common clock, of which only ages up to a limit are kept.      *)
(***************************************************************************)
EXTENDS Naturals, Sequences

CONSTANTS
  Files,
  Nodes,       \* node ids of the seam, numbered in their sort order
  Listed,      \* Listed[f]: the node ids f passes to holdMockNodes, in its order
  Killable,    \* files whose process may be killed
  WaitLimit,   \* WAIT_MS, in ticks
  HookLimit,   \* WAIT_MS + 10 s: what the whole beforeAll hook may take
  StaleLimit,  \* STALE_MS
  Nobody

ASSUME LockAssumption ==
  /\ Nodes \subseteq Nat
  /\ Listed \in [Files -> Seq(Nodes)]
  /\ Killable \subseteq Files
  /\ WaitLimit \in Nat /\ HookLimit \in Nat /\ StaleLimit \in Nat
  /\ Nobody \notin Files

VARIABLES
  phase,    \* what vitest runs of file f
  step,     \* where f's acquire loop is
  got,      \* got[f]: the nodes the loop is through with
  held,     \* held[f]: the list of directories afterAll is to remove
  dropping, \* dropping[f]: the part of that list afterAll has yet to remove
  maker,    \* maker[n]: the file that made the directory now there, or Nobody
  age,      \* age[n]: ticks since that directory was made, up to StaleLimit + 1
  waited,   \* waited[f]: ticks since the loop came to the current node
  hookAge,  \* hookAge[f]: ticks since beforeAll started
  broken    \* history: some waiter has broken a lock it found stale

lists  == <<got, held, dropping>>
clocks == <<waited, hookAge>>
dirs   == <<maker, age>>
vars == <<phase, step, lists, dirs, clocks, broken>>

Phases == {"waiting", "beforeAll", "running", "afterAll", "releasing", "done", "killed"}
Steps  == {"off", "mkdir", "write", "stat", "break", "sleep"}

Needs(f) == {Listed[f][i] : i \in DOMAIN Listed[f]}
Missing(f) == Needs(f) \ got[f]

(* Variant: in the order the file lists them. *)
WantedAsListed(f) ==
  LET open == {i \in DOMAIN Listed[f] : Listed[f][i] \in Missing(f)}
  IN  Listed[f][CHOOSE i \in open : \A j \in open : i <= j]

(* The node the loop is at: the first in sort order it is not through with. *)
Wanted(f) == CHOOSE n \in Missing(f) : \A m \in Missing(f) : n <= m

(* The loop and afterAll share one thread; afterAll runs to its end.       *)
LoopAt(f, s) == step[f] = s /\ phase[f] # "releasing"

GoTo(f, s) == step' = [step EXCEPT ![f] = s]

-----------------------------------------------------------------------------
StartFile(f) ==
  /\ phase[f] = "waiting"
  /\ phase' = [phase EXCEPT ![f] = "beforeAll"]
  /\ GoTo(f, IF Needs(f) = {} THEN "off" ELSE "mkdir")
  /\ waited'  = [waited EXCEPT ![f] = 0]
  /\ hookAge' = [hookAge EXCEPT ![f] = 0]
  /\ UNCHANGED <<lists, dirs, broken>>

(* Variant: mkdirSync is recursive, and succeeds on a directory that exists. *)
MakeDirRecursive(f) ==
  /\ LoopAt(f, "mkdir")
  /\ maker' = [maker EXCEPT ![Wanted(f)] = f]
  /\ age'   = [age EXCEPT ![Wanted(f)] = 0]
  /\ GoTo(f, "write")
  /\ UNCHANGED <<phase, lists, clocks, broken>>

(* mkdirSync succeeds. *)
MakeDir(f) ==
  /\ LoopAt(f, "mkdir") /\ maker[Wanted(f)] = Nobody
  /\ maker' = [maker EXCEPT ![Wanted(f)] = f]
  /\ age'   = [age EXCEPT ![Wanted(f)] = 0]
  /\ GoTo(f, "write")
  /\ UNCHANGED <<phase, lists, clocks, broken>>

(* Variant: the directory is listed for removal before it is taken. *)
FindTakenListed(f) ==
  /\ LoopAt(f, "mkdir") /\ maker[Wanted(f)] # Nobody
  /\ held' = [held EXCEPT ![f] = @ \cup {Wanted(f)}]
  /\ GoTo(f, "stat")
  /\ UNCHANGED <<phase, got, dropping, dirs, clocks, broken>>

(* mkdirSync fails with EEXIST. *)
FindTaken(f) ==
  /\ LoopAt(f, "mkdir") /\ maker[Wanted(f)] # Nobody
  /\ GoTo(f, "stat")
  /\ UNCHANGED <<phase, lists, dirs, clocks, broken>>

(* The owner file is written, acquire returns, and the hook goes on with   *)
(* the next node, whether or not vitest still waits for it.                *)
WriteOwner(f) ==
  /\ LoopAt(f, "write") /\ maker[Wanted(f)] # Nobody
  /\ got'    = [got EXCEPT ![f] = @ \cup {Wanted(f)}]
  /\ held'   = [held EXCEPT ![f] = @ \cup {Wanted(f)}]
  /\ waited' = [waited EXCEPT ![f] = 0]
  /\ GoTo(f, IF Missing(f) = {Wanted(f)} THEN "off" ELSE "mkdir")
  /\ UNCHANGED <<phase, dropping, dirs, hookAge, broken>>

(* Variant: the hook catches what acquire throws. *)
ThrowCaught(f) ==
  /\ GoTo(f, "off")
  /\ UNCHANGED <<phase, lists, dirs, clocks, broken>>

(* acquire throws, and beforeAll with it if vitest still waits.            *)
Throw(f) ==
  /\ GoTo(f, "off")
  /\ phase' = [phase EXCEPT ![f] = IF @ = "beforeAll" THEN "afterAll" ELSE @]
  /\ UNCHANGED <<lists, dirs, clocks, broken>>

(* ENOENT: the directory was removed before the owner file was written.    *)
LoseDir(f) == LoopAt(f, "write") /\ maker[Wanted(f)] = Nobody /\ Throw(f)

(* statSync finds no directory any more. *)
FindGone(f) ==
  /\ LoopAt(f, "stat") /\ maker[Wanted(f)] = Nobody
  /\ GoTo(f, "mkdir")
  /\ UNCHANGED <<phase, lists, dirs, clocks, broken>>

FindStale(f) ==
  /\ LoopAt(f, "stat") /\ maker[Wanted(f)] # Nobody /\ age[Wanted(f)] > StaleLimit
  /\ GoTo(f, "break")
  /\ UNCHANGED <<phase, lists, dirs, clocks, broken>>

FindFresh(f) ==
  /\ LoopAt(f, "stat") /\ maker[Wanted(f)] # Nobody /\ age[Wanted(f)] <= StaleLimit
  /\ \/ /\ waited[f] <= WaitLimit
        /\ GoTo(f, "sleep")
        /\ UNCHANGED <<phase, lists, dirs, clocks, broken>>
     \/ waited[f] > WaitLimit /\ Throw(f)

Poll(f) ==
  /\ LoopAt(f, "sleep")
  /\ GoTo(f, "mkdir")
  /\ UNCHANGED <<phase, lists, dirs, clocks, broken>>

(* rmSync, whoever's directory is there by now; then mkdir at once.        *)
BreakLock(f) ==
  /\ LoopAt(f, "break")
  /\ maker' = [maker EXCEPT ![Wanted(f)] = Nobody]
  /\ age'   = [age EXCEPT ![Wanted(f)] = 0]
  /\ broken' = TRUE
  /\ GoTo(f, "mkdir")
  /\ UNCHANGED <<phase, lists, clocks>>

(* vitest gives up on the hook; that does not stop the loop.               *)
HookTimeOut(f) ==
  /\ phase[f] = "beforeAll" /\ step[f] # "off" /\ hookAge[f] > HookLimit
  /\ phase' = [phase EXCEPT ![f] = "afterAll"]
  /\ UNCHANGED <<step, lists, dirs, clocks, broken>>

-----------------------------------------------------------------------------
RunTests(f) ==
  /\ phase[f] = "beforeAll" /\ step[f] = "off"
  /\ phase' = [phase EXCEPT ![f] = "running"]
  /\ UNCHANGED <<step, lists, dirs, clocks, broken>>

EndTests(f) ==
  /\ phase[f] = "running"
  /\ phase' = [phase EXCEPT ![f] = "afterAll"]
  /\ UNCHANGED <<step, lists, dirs, clocks, broken>>

(* held.splice(0): the list is taken as it is now.                         *)
AfterAll(f) ==
  /\ phase[f] = "afterAll"
  /\ phase'    = [phase EXCEPT ![f] = "releasing"]
  /\ dropping' = [dropping EXCEPT ![f] = held[f]]
  /\ held'     = [held EXCEPT ![f] = {}]
  /\ UNCHANGED <<step, got, dirs, clocks, broken>>

(* Variant: a directory that is not ours any more is left, and stays listed. *)
ReleaseOwn(f, n) ==
  /\ phase[f] = "releasing"
  /\ n \in dropping[f] /\ maker[n] = f
  /\ dropping' = [dropping EXCEPT ![f] = @ \ {n}]
  /\ maker' = [maker EXCEPT ![n] = Nobody]
  /\ age'   = [age EXCEPT ![n] = 0]
  /\ UNCHANGED <<phase, step, got, held, clocks, broken>>

(* rmSync, last acquired first, whoever's directory is there by now.       *)
Release(f, n) ==
  /\ phase[f] = "releasing"
  /\ n \in dropping[f] /\ \A m \in dropping[f] : m <= n
  /\ dropping' = [dropping EXCEPT ![f] = @ \ {n}]
  /\ maker' = [maker EXCEPT ![n] = Nobody]
  /\ age'   = [age EXCEPT ![n] = 0]
  /\ UNCHANGED <<phase, step, got, held, clocks, broken>>

EndFile(f) ==
  /\ phase[f] = "releasing" /\ dropping[f] = {}
  /\ phase' = [phase EXCEPT ![f] = "done"]
  /\ UNCHANGED <<step, lists, dirs, clocks, broken>>

(* The worker of a finished file exits, and a loop still running with it.  *)
ExitWorker(f) ==
  /\ phase[f] = "done" /\ step[f] # "off"
  /\ GoTo(f, "off")
  /\ UNCHANGED <<phase, lists, dirs, clocks, broken>>

(* A killed process leaves its directories behind. *)
Kill(f) ==
  /\ f \in Killable /\ phase[f] \notin {"waiting", "done", "killed"}
  /\ phase' = [phase EXCEPT ![f] = "killed"]
  /\ GoTo(f, "off")
  /\ held'     = [held EXCEPT ![f] = {}]
  /\ dropping' = [dropping EXCEPT ![f] = {}]
  /\ UNCHANGED <<got, dirs, clocks, broken>>

(* Variant: the last age kept is counted on. *)
OlderOnce(limit, t) == IF t > limit + 1 THEN t ELSE t + 1

Older(limit, t) == IF t > limit THEN t ELSE t + 1

Tick ==
  /\ age'     = [n \in Nodes |-> IF maker[n] = Nobody THEN 0 ELSE Older(StaleLimit, age[n])]
  /\ waited'  = [f \in Files |-> IF step[f] = "off" THEN 0 ELSE Older(WaitLimit, waited[f])]
  /\ hookAge' = [f \in Files |-> IF phase[f] = "beforeAll" THEN Older(HookLimit, hookAge[f])
                                 ELSE 0]
  /\ UNCHANGED <<phase, step, lists, maker, broken>>

-----------------------------------------------------------------------------
LockInit ==
  /\ phase = [f \in Files |-> "waiting"]
  /\ step = [f \in Files |-> "off"]
  /\ got = [f \in Files |-> {}]
  /\ held = [f \in Files |-> {}]
  /\ dropping = [f \in Files |-> {}]
  /\ maker = [n \in Nodes |-> Nobody]
  /\ age = [n \in Nodes |-> 0]
  /\ waited = [f \in Files |-> 0]
  /\ hookAge = [f \in Files |-> 0]
  /\ broken = FALSE

Acquire(f) ==
  \/ MakeDir(f) \/ FindTaken(f) \/ WriteOwner(f) \/ LoseDir(f)
  \/ FindGone(f) \/ FindStale(f) \/ FindFresh(f) \/ Poll(f) \/ BreakLock(f)

Runner(f) ==
  \/ StartFile(f) \/ HookTimeOut(f) \/ RunTests(f) \/ AfterAll(f)
  \/ (\E n \in Nodes : Release(f, n)) \/ ExitWorker(f)
  \/ EndTests(f) \/ EndFile(f)

LockNext ==
  \/ \E f \in Files : Acquire(f) \/ Runner(f) \/ Kill(f)
  \/ Tick

(* The clock moves, every process gets to run, and vitest starts every     *)
(* file and bounds its tests.                                              *)
LockFairness ==
  /\ WF_vars(Tick)
  /\ \A f \in Files : WF_vars(Acquire(f)) /\ WF_vars(Runner(f))

LockSpec == LockInit /\ [][LockNext]_vars /\ LockFairness

-----------------------------------------------------------------------------
LockTypeOK ==
  /\ phase \in [Files -> Phases]
  /\ step \in [Files -> Steps]
  /\ got \in [Files -> SUBSET Nodes]
  /\ held \in [Files -> SUBSET Nodes]
  /\ dropping \in [Files -> SUBSET Nodes]
  /\ maker \in [Nodes -> Files \cup {Nobody}]
  /\ age \in [Nodes -> 0 .. StaleLimit + 1]
  /\ waited \in [Files -> 0 .. WaitLimit + 1]
  /\ hookAge \in [Files -> 0 .. HookLimit + 1]
  /\ broken \in BOOLEAN

Waiting(f) == phase[f] = "beforeAll" /\ step[f] # "off"

(* The module's promise: files sharing a node run one after another.       *)
OneAfterAnother ==
  \A f, g \in Files :
    (phase[f] = "running" /\ phase[g] = "running" /\ f # g) => Needs(f) \cap Needs(g) = {}

(* It is kept for as long as no waiter has had to break a stale lock,      *)
(* whatever gets killed and whichever hook times out.                      *)
OneAfterAnotherUntilBroken == ~broken => OneAfterAnother

(* "no deadlock between files holding overlapping sets": a file that holds *)
(* a node another waits for is itself only waiting further up the order.   *)
NoCircularWait ==
  \A f, g \in Files :
    (Waiting(f) /\ Waiting(g) /\ Wanted(f) \in held[g]) => Wanted(f) < Wanted(g)

(* A directory on the list of a live file is that file's own: no file's    *)
(* release takes a lock away from another, until a stale lock is broken.   *)
ListedIsOwn ==
  ~broken => \A f \in Files : \A n \in held[f] \cup dropping[f] : maker[n] = f

(* Every file gets its turn or gives up in time: nothing waits for ever,   *)
(* killed holders included.                                                *)
EveryFileEnds == \A f \in Files : <>(phase[f] \in {"done", "killed"})

-----------------------------------------------------------------------------
(* "taken in beforeAll and released in afterAll": a file that is done has  *)
(* left no directory behind.                                               *)
DoneLeavesNothing ==
  \A f \in Files, n \in Nodes : (phase[f] = "done" /\ step[f] = "off") => maker[n] # f
=============================================================================
