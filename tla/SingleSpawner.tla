---------------------------- MODULE SingleSpawner ----------------------------
(***************************************************************************)
(* One mpicxx::single_spawner (startup/single_spawner.hpp) and the result  *)
(* of its last spawn (startup/spawn_result.hpp).                           *)
(*                                                                         *)
(* The spawner is a builder: each setter tests its own argument, at the    *)
(* assertion level SANITY; spawn() tests everything together, at the level *)
(* PRECONDITION.  A failing assertion ends the program.  A level that is   *)
(* not compiled in tests nothing and calls nothing.                        *)
(***************************************************************************)
EXTENDS Integers, Sequences, FiniteSets

CONSTANTS
  Levels,           \* values of MPICXX_ASSERTION_LEVEL: 0 none, 1 PRECONDITION, 2 SANITY too
  Strings,          \* non-empty executable names and arguments
  Empty,            \* the empty string
  Numbers,          \* what clients pass as maxprocs and root
  Infos,            \* info objects, the null one included
  NullInfo,         \* mpicxx::info::null
  Comms,            \* communicators
  World,            \* MPI_COMM_WORLD
  NullComm,         \* MPI_COMM_NULL
  SizeOf(_),        \* MPI_Comm_size
  UniverseSizes,    \* values of the attribute MPI_UNIVERSE_SIZE, or Unknown
  Unknown,          \* the attribute is not set
  Unset,            \* the -1 that spawn_result_with_errcodes fills its vector with
  MaxArgs,          \* bound: command line arguments
  None

ASSUME SpawnerAssumption ==
  /\ Levels \subseteq 0..2
  /\ Numbers \subseteq Int /\ UniverseSizes \ {Unknown} \subseteq Nat \ {0}
  /\ Empty \notin Strings /\ NullInfo \in Infos /\ MaxArgs \in Nat
  /\ Unset \notin {"success", "error"}
  /\ World \in Comms /\ NullComm \notin Comms
  /\ \A c \in Comms : SizeOf(c) \in Nat \ {0}

VARIABLES
  level,      \* MPICXX_ASSERTION_LEVEL of the build
  universe,   \* mpicxx::universe_size()
  pc,         \* "none" (no spawner yet), "ready" or "aborted"
  spawner,    \* the members of the spawner
  result,     \* the result of the last spawn, or None
  spawned,    \* the MPI library: the processes it started for that result
  erroneous   \* MPI calls made so far with an illegal argument

vars == <<level, universe, pc, spawner, result, spawned, erroneous>>
environment == <<level, universe>>
outcome == <<result, spawned>>

Texts == Strings \union {Empty}

Spawners ==
  [command : Texts, argvs : Seq(Texts), maxprocs : Int, info : Infos,
   root : Int, comm : Comms \union {NullComm}]

\* The error codes are None in a spawn_result, which has none.
Codes == {"success", "error", Unset}
Results == [maxprocs : Int, errcodes : Seq(Codes) \union {None}]

TypeOK ==
  /\ level \in Levels /\ universe \in UniverseSizes
  /\ pc \in {"none", "ready", "aborted"}
  /\ pc # "none" => spawner \in Spawners
  /\ result \in Results \union {None} /\ spawned \in Nat
  /\ erroneous \subseteq {"MPI_Comm_size", "MPI_Comm_spawn", "MPI_Comm_spawn_multiple"}

Init ==
  /\ level \in Levels /\ universe \in UniverseSizes
  /\ pc = "none" /\ spawner = None
  /\ result = None /\ spawned = 0 /\ erroneous = {}

-----------------------------------------------------------------------------
(* What the assertions test. *)

LegalCommand(c) == c # Empty
LegalArgvs(args) == \A i \in DOMAIN args : args[i] # Empty
LegalMaxprocs(n) == 0 < n /\ (universe # Unknown => n <= universe)
LegalRoot(r, c) == c \in Comms /\ 0 <= r /\ r < SizeOf(c)
LegalCommunicator(c) == c # NullComm

\* comm_size() asks MPI for the size of the communicator.  The size of the null
\* communicator, an uninitialized int, is asked for in no run: see NoErroneousCall.
SizeErrors(asked, c) == IF asked /\ c = NullComm THEN {"MPI_Comm_size"} ELSE {}

Precondition(test) == level >= 1 => test
Sanity(test) == level >= 2 => test

Continue(passed) == pc' = IF passed THEN "ready" ELSE "aborted"

-----------------------------------------------------------------------------
(* Constructors and setters. *)

\* Mutant of Construct: the member root_ has no initializer.
ConstructUninitialized(command, n) ==
  /\ pc = "none"
  /\ spawner' = [command |-> command, argvs |-> <<>>, maxprocs |-> n,
                 info |-> NullInfo, root |-> None, comm |-> World]
  /\ Continue(Sanity(LegalCommand(command) /\ LegalMaxprocs(n)))
  /\ UNCHANGED <<environment, outcome, erroneous>>

Initial(command, n) ==
  [command |-> command, argvs |-> <<>>, maxprocs |-> n,
   info |-> NullInfo, root |-> 0, comm |-> World]

Construct(command, n) ==
  /\ pc = "none"
  /\ spawner' = Initial(command, n)
  /\ Continue(Sanity(LegalCommand(command) /\ LegalMaxprocs(n)))
  /\ UNCHANGED <<environment, outcome, erroneous>>

\* The members are assigned first and tested then.
SetCommand(command) ==
  /\ pc = "ready"
  /\ spawner' = [spawner EXCEPT !.command = command]
  /\ Continue(Sanity(LegalCommand(command)))
  /\ UNCHANGED <<environment, outcome, erroneous>>

\* The arguments are tested and appended one by one, up to the first illegal one.
AddArgv(args) ==
  /\ pc = "ready"
  /\ Len(spawner.argvs) + Len(args) <= MaxArgs
  /\ \E n \in 0..Len(args) :
       /\ Sanity(\A i \in 1..n : args[i] # Empty)
       /\ n < Len(args) => ~Sanity(args[n + 1] # Empty)
       /\ spawner' = [spawner EXCEPT !.argvs = @ \o SubSeq(args, 1, n)]
       /\ Continue(n = Len(args))
  /\ UNCHANGED <<environment, outcome, erroneous>>

\* The assertion is about the value that is replaced.
SetMaxprocs(n) ==
  /\ pc = "ready"
  /\ LET passed == Sanity(LegalMaxprocs(spawner.maxprocs)) IN
       /\ Continue(passed)
       /\ spawner' = IF passed THEN [spawner EXCEPT !.maxprocs = n] ELSE spawner
  /\ UNCHANGED <<environment, outcome, erroneous>>

SetSpawnInfo(i) ==
  /\ pc = "ready"
  /\ spawner' = [spawner EXCEPT !.info = i]
  /\ UNCHANGED <<environment, pc, outcome, erroneous>>

\* The size is a part of the message, and so is asked for whatever the root.
SetRoot(r) ==
  /\ pc = "ready"
  /\ LET passed == Sanity(LegalRoot(r, spawner.comm)) IN
       /\ Continue(passed)
       /\ spawner' = IF passed THEN [spawner EXCEPT !.root = r] ELSE spawner
  /\ erroneous' = erroneous \union SizeErrors(level = 2, spawner.comm)
  /\ UNCHANGED <<environment, outcome>>

\* Mutants of SetCommunicator: the root is not tested against the new
\* communicator; it is tested before the communicator is.
SetCommunicatorRootUntested(c) ==
  /\ pc = "ready"
  /\ LET passed == Precondition(LegalCommunicator(c)) IN
       /\ Continue(passed)
       /\ spawner' = IF passed THEN [spawner EXCEPT !.comm = c] ELSE spawner
  /\ UNCHANGED <<environment, outcome, erroneous>>

SetCommunicatorRootFirst(c) ==
  /\ pc = "ready"
  /\ LET passed == Sanity(LegalRoot(spawner.root, c)) /\ Precondition(LegalCommunicator(c)) IN
       /\ Continue(passed)
       /\ spawner' = IF passed THEN [spawner EXCEPT !.comm = c] ELSE spawner
  /\ erroneous' = erroneous \union SizeErrors(level = 2 /\ 0 <= spawner.root, c)
  /\ UNCHANGED <<environment, outcome>>

\* The null communicator does not get as far as the test of the root.
SetCommunicator(c) ==
  /\ pc = "ready"
  /\ LET passed == Precondition(LegalCommunicator(c)) /\ Sanity(LegalRoot(spawner.root, c)) IN
       /\ Continue(passed)
       /\ spawner' = IF passed THEN [spawner EXCEPT !.comm = c] ELSE spawner
  /\ erroneous' = erroneous \union
       SizeErrors(level = 2 /\ LegalCommunicator(c) /\ 0 <= spawner.root, c)
  /\ UNCHANGED <<environment, outcome>>

-----------------------------------------------------------------------------
(* spawn() and spawn_with_errcodes(). *)

\* What spawn_impl asserts.
Spawnable(s) ==
  /\ LegalCommand(s.command) /\ LegalArgvs(s.argvs) /\ LegalMaxprocs(s.maxprocs)
  /\ LegalRoot(s.root, s.comm) /\ LegalCommunicator(s.comm)

\* The codes MPI_Comm_spawn leaves in a vector of n when it starts m processes:
\* one success per process; a call that fails may leave the vector alone.
Written(before, n, m) ==
  {codes \in [1..n -> {"success", "error"}] :
     Cardinality({i \in 1..n : codes[i] = "success"}) = m}
  \union (IF m = 0 THEN {before} ELSE {})

\* Mutant of Blank: the codes start as MPI_SUCCESS.
BlankSuccess(n) == [i \in 1..n |-> "success"]

\* The vector as the result is constructed.
Blank(n) == [i \in 1..n |-> Unset]

SpawnAborts ==
  /\ pc = "ready"
  /\ ~Precondition(Spawnable(spawner))
  /\ pc' = "aborted"
  /\ erroneous' = erroneous \union
       SizeErrors(LegalCommand(spawner.command) /\ LegalArgvs(spawner.argvs)
                    /\ LegalMaxprocs(spawner.maxprocs) /\ 0 <= spawner.root, spawner.comm)
  /\ UNCHANGED <<environment, spawner, outcome>>

\* MPI starts any number of processes: info may ask for a soft spawn.  Without
\* assertions it may be given what it must not be given, and starts none.  A
\* vector of negative length cannot be made: that call throws and changes nothing.
Spawn(withErrcodes) ==
  /\ pc = "ready"
  /\ Precondition(Spawnable(spawner))
  /\ withErrcodes => spawner.maxprocs >= 0
  /\ LET n == spawner.maxprocs IN
     \E m \in IF Spawnable(spawner) THEN 0..n ELSE {0} :
       /\ spawned' = m
       /\ \E codes \in IF withErrcodes THEN Written(Blank(n), n, m) ELSE {None} :
            result' = [maxprocs |-> n, errcodes |-> codes]
  /\ erroneous' = IF Spawnable(spawner) THEN erroneous
                  ELSE erroneous \union {"MPI_Comm_spawn"}
  /\ UNCHANGED <<environment, pc, spawner>>

-----------------------------------------------------------------------------
(* The result. *)

\* number_of_spawned_processes(): the size of the remote group, or 0.
NumberOfSpawnedProcesses == spawned

\* Both kinds of results count what was asked for in their own way.
AllProcessesSpawned ==
  NumberOfSpawnedProcesses =
    IF result.errcodes = None THEN result.maxprocs ELSE Len(result.errcodes)

\* The number error_list() begins with.
FailedSpawns == Cardinality({i \in DOMAIN result.errcodes : result.errcodes[i] # "success"})

-----------------------------------------------------------------------------

Lists == UNION {[1..n -> Texts] : n \in 1..MaxArgs}

Next ==
  \/ \E s \in Texts : \/ \E n \in Numbers : Construct(s, n)
                      \/ SetCommand(s)
  \/ \E args \in Lists : AddArgv(args)
  \/ \E n \in Numbers : SetMaxprocs(n) \/ SetRoot(n)
  \/ \E i \in Infos : SetSpawnInfo(i)
  \/ \E c \in Comms \union {NullComm} : SetCommunicator(c)
  \/ SpawnAborts
  \/ \E withErrcodes \in BOOLEAN : Spawn(withErrcodes)

Spec == Init /\ [][Next]_vars

-----------------------------------------------------------------------------
(* Correctness. *)

\* Setters that test one argument each keep the spawner as a whole legal,
\* whatever the order of set_root and set_communicator; only maxprocs escapes.
SettersKeepLegal ==
  level = 2 /\ pc = "ready" =>
    /\ LegalCommand(spawner.command) /\ LegalArgvs(spawner.argvs)
    /\ LegalRoot(spawner.root, spawner.comm) /\ LegalCommunicator(spawner.comm)

\* Neither the calls made for the tests themselves nor a spawn that passed them
\* give MPI an illegal argument.  spawn() tests the root, and so asks for the
\* size of the communicator, before it tests that there is a communicator.
NoErroneousCall == level >= 1 => erroneous = {}

\* The independent records of a spawn agree, however the spawner was changed
\* since: each requested process is in the remote group or counts as an error in
\* error_list(), and so all_processes_spawned() is true exactly if no error counts.
ErrorsAddUp ==
  result # None /\ result.errcodes # None =>
    /\ NumberOfSpawnedProcesses + FailedSpawns = result.maxprocs
    /\ AllProcessesSpawned <=> FailedSpawns = 0

\* Docs of the constructor and of every setter, @assert_sanity: an invalid
\* argument does not get past them.  Then spawn() has nothing left to object to.
SettersSuffice == level = 2 /\ pc = "ready" => Spawnable(spawner)
=============================================================================
