----------------------------- MODULE MockPrograms -----------------------------
(***************************************************************************)
(* What the locks of MockNodeLock are for: the programs that scenario      *)
(* files store at the host, one per node id, to script its mock provider.  *)
(* A file seeds a program and reads the run back; setup.ts wipes the whole *)
(* store in an afterAll of every file, holder of a lock or not.            *)
(***************************************************************************)
EXTENDS MockNodeLock

VARIABLES
  program,  \* program[n]: the file whose program the host holds for n, or Nobody
  seeded    \* seeded[f]: the nodes f has programmed and not read back yet

allVars == <<vars, program, seeded>>

Wiped == [n \in Nodes |-> Nobody]

(* POST .../mock-ai/program, from a test of a file that holds the node.    *)
Seed(f, n) ==
  /\ phase[f] = "running" /\ n \in Needs(f)
  /\ program' = [program EXCEPT ![n] = f]
  /\ seeded' = [seeded EXCEPT ![f] = @ \cup {n}]
  /\ UNCHANGED vars

(* The test has seen its run; what it did not drain of the program stays.  *)
ReadBack(f, n) ==
  /\ phase[f] = "running" /\ n \in seeded[f]
  /\ program' \in {program, [program EXCEPT ![n] = Nobody]}
  /\ seeded' = [seeded EXCEPT ![f] = @ \ {n}]
  /\ UNCHANGED vars

StopReading(f) == seeded' = [seeded EXCEPT ![f] = {}] /\ UNCHANGED program

(* POST .../mock-ai/reset, from setup.ts. Its afterAll was registered first *)
(* and so runs last, when the locks are released. It is best-effort.       *)
ResetMockPrograms(f) ==
  /\ EndFile(f)
  /\ program' \in {program, Wiped}
  /\ UNCHANGED seeded

-----------------------------------------------------------------------------
ProgramsInit ==
  /\ LockInit
  /\ program = Wiped
  /\ seeded = [f \in Files |-> {}]

(* The steps of a file that concern its locks only. *)
LockOnly(f) ==
  \/ Acquire(f) \/ StartFile(f) \/ HookTimeOut(f) \/ RunTests(f) \/ AfterAll(f)
  \/ (\E n \in Nodes : Release(f, n)) \/ ExitWorker(f)

ProgramsNext ==
  \/ \E f \in Files :
       \/ LockOnly(f) /\ UNCHANGED <<program, seeded>>
       \/ \E n \in Nodes : Seed(f, n) \/ ReadBack(f, n)
       \/ (EndTests(f) \/ Kill(f)) /\ StopReading(f)
       \/ ResetMockPrograms(f)
  \/ Tick /\ UNCHANGED <<program, seeded>>

ProgramsSpec == ProgramsInit /\ [][ProgramsNext]_allVars

-----------------------------------------------------------------------------
(* "each can overwrite the other's program between seeding it and reading  *)
(* the run": under the locks no file meets another file's program where it *)
(* stored its own, until a stale lock is broken.                           *)
NeverAnothersProgram ==
  ~broken => \A f \in Files : \A n \in seeded[f] : program[n] \in {f, Nobody}

(* setup.ts, on wiping "between scenario FILES": "a mid-file wipe would    *)
(* break the multi-attempt scenarios this store exists to serve".          *)
NoMidFileWipe ==
  ~broken => \A f \in Files : \A n \in seeded[f] : program[n] = f
=============================================================================
