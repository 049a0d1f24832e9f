--------------------------- MODULE MultipleSpawner ---------------------------
(***************************************************************************)
(* An mpicxx::multiple_spawner (startup/multiple_spawner.hpp), built from  *)
(* lists of values or from spawners, among them the single spawner of      *)
(* SingleSpawner, whose client this module thereby composes with its own.  *)
(*                                                                         *)
(* The members are four parallel vectors and the number of commands as it  *)
(* was at construction.  Setters replace a whole vector or one entry; only *)
(* assertions keep the vectors equally long.  An index is tested against   *)
(* the number at construction, never against the vector it goes to.        *)
(*                                                                         *)
(* A call that fails an assertion ends the program: nobody sees what it    *)
(* has made of the members, and the model drops them.                      *)
(***************************************************************************)
EXTENDS SingleSpawner

CONSTANTS
  MultiNumbers, \* those of Numbers that clients pass to a multiple spawner
  MaxCommands,  \* bound: commands of a spawner and values of a list
  IntMax        \* the largest int

ASSUME MultipleAssumption ==
  /\ MaxCommands \in Nat \ {0} /\ IntMax \in Nat \ {0}
  /\ Numbers \subseteq (-(IntMax + 1))..IntMax /\ MultiNumbers \subseteq Numbers

VARIABLES
  mpc,          \* "none", "ready", "aborted", or where memory out of bounds was used
                \* and the program crashed: "subscript", "message" or "argvs"
  multi         \* the members of the multiple spawner

mvars == <<mpc, multi>>
allvars == <<vars, mvars>>

Lengths(m) == {Len(m.commands), Len(m.argvs), Len(m.maxprocs), Len(m.infos)}

MultiSpawners ==
  [size : Nat, commands : Seq(Texts), argvs : Seq(Seq(Texts)), maxprocs : Seq(Int),
   infos : Seq(Infos), root : Int, comm : Comms \union {NullComm}]

MTypeOK ==
  /\ mpc \in {"none", "ready", "aborted", "subscript", "message", "argvs"}
  /\ mpc = "ready" => multi \in MultiSpawners /\ Len(multi.argvs) = multi.size

MInit == Init /\ mpc = "none" /\ multi = None

-----------------------------------------------------------------------------
(* What the assertions test. *)

LegalCommands(names) == \A k \in DOMAIN names : LegalCommand(names[k])
LegalRows(rows) == \A k \in DOMAIN rows : LegalArgvs(rows[k])

\* The sum as a mathematician has it, and as total_maxprocs() computes it.
SumOf[ns \in Seq(Int)] == IF ns = <<>> THEN 0 ELSE Head(ns) + SumOf[Tail(ns)]
WrapInt(x) == ((x + IntMax + 1) % (2 * (IntMax + 1))) - (IntMax + 1)
TotalMaxprocs(ns) == WrapInt(SumOf[ns])

LegalNumbers(ns) == \A k \in DOMAIN ns : LegalMaxprocs(ns[k])
LegalTotal(ns) == LegalMaxprocs(TotalMaxprocs(ns))

\* What every call of size() asserts.
Sized == Sanity(Cardinality(Lengths(multi)) = 1)

\* The outcomes of legal_number_of_values for a list.
Counts(list) == {Len(list) = multi.size}

\* For two C strings in a parameter pack the overload for iterators is the better
\* one: the assertion compares the distance of two unrelated literals.
CountsOfNames(names) == Counts(names) \union (IF Len(names) = 2 THEN BOOLEAN ELSE {})

\* For a pack of one std::vector, if not const, or one initializer list the overload
\* for lists of values is the better one: the assertion compares the number of
\* arguments in it.
CountsOfRows(lists) ==
  Counts(lists) \union (IF Len(lists) = 1 THEN {Len(lists[1]) = multi.size} ELSE {})

\* Mutant of InRange.
InRangeByOne(i) == i <= multi.size + 1

\* i >= this->size() throws std::out_of_range, and the call changes nothing.
InRange(i) == i <= multi.size

-----------------------------------------------------------------------------
(* The outcome of a call. *)

\* A result is an object of its own, which no later call changes: the client reads
\* it before it goes on with the multiple spawner, and the model drops it then.
Dropped == result' = None /\ spawned' = 0

Call(passed, members) ==
  /\ mpc' = IF passed THEN "ready" ELSE "aborted"
  /\ multi' = IF passed THEN members ELSE None
  /\ Dropped
  /\ UNCHANGED <<environment, pc, spawner, erroneous>>

\* A subscript past the end of a vector: what is written is lost, or the program crashes.
Crash(where) ==
  /\ mpc' = where /\ multi' = None /\ Dropped
  /\ UNCHANGED <<environment, pc, spawner, erroneous>>
Stray == Crash("subscript") \/ UNCHANGED allvars

\* The message of the assertion that tests numbers is made whether it fails or not,
\* with the entry at the index of the first illegal number: that is one past the end
\* when all are legal.  It crashes the program, or the call goes on.
StrayMessage(ns) == LegalNumbers(ns) /\ Crash("message")

Ready == mpc = "ready"

-----------------------------------------------------------------------------
(* Constructors. *)

MConstruct(names, ns) ==
  /\ mpc = "none" /\ pc = "none"
  /\ Call(/\ Precondition(names # <<>> /\ ns # <<>> /\ Len(names) = Len(ns))
          /\ Sanity(LegalCommands(names) /\ LegalNumbers(ns) /\ LegalTotal(ns)),
          [size |-> Len(names), commands |-> names,
           argvs |-> [k \in DOMAIN names |-> <<>>], maxprocs |-> ns,
           infos |-> [k \in DOMAIN names |-> NullInfo], root |-> 0, comm |-> World])

\* What the constructor reads of a spawner: size() entries of each vector.
Complete(m) == \A l \in Lengths(m) : l >= m.size
Taken(m) ==
  [m EXCEPT !.commands = SubSeq(@, 1, m.size), !.maxprocs = SubSeq(@, 1, m.size),
            !.infos = SubSeq(@, 1, m.size)]

FromSingle(s) ==
  [size |-> 1, commands |-> <<s.command>>, argvs |-> <<s.argvs>>,
   maxprocs |-> <<s.maxprocs>>, infos |-> <<s.info>>, root |-> s.root, comm |-> s.comm]

\* Mutants of Join: the size is that of the last part; the parts of one vector
\* are put together in the other order.
JoinUncounted(a, b) ==
  [size |-> b.size, commands |-> a.commands \o b.commands, argvs |-> a.argvs \o b.argvs,
   maxprocs |-> a.maxprocs \o b.maxprocs, infos |-> a.infos \o b.infos,
   root |-> b.root, comm |-> b.comm]

JoinMixed(a, b) ==
  [size |-> a.size + b.size, commands |-> a.commands \o b.commands,
   argvs |-> b.argvs \o a.argvs, maxprocs |-> a.maxprocs \o b.maxprocs,
   infos |-> a.infos \o b.infos, root |-> b.root, comm |-> b.comm]

Join(a, b) ==
  [size |-> a.size + b.size, commands |-> a.commands \o b.commands,
   argvs |-> a.argvs \o b.argvs, maxprocs |-> a.maxprocs \o b.maxprocs,
   infos |-> a.infos \o b.infos, root |-> b.root, comm |-> b.comm]

\* The total is tested, the single numbers are not.
Joinable(a, b) ==
  /\ Precondition(a.root = b.root /\ a.comm = b.comm)
  /\ Sanity(LegalTotal(Join(a, b).maxprocs))

\* A spawner as its constructor leaves it.
Fresh(c, n) == FromSingle(Initial(c, n))
Constructible(c, n) == Sanity(LegalCommand(c) /\ LegalMaxprocs(n))

\* The single spawner alone or with another one.  The client keeps neither the
\* single spawner nor its last result.
CombineSingle(passed, members) ==
  /\ mpc = "none" /\ pc = "ready"
  /\ mpc' = IF passed THEN "ready" ELSE "aborted"
  /\ multi' = IF passed THEN members ELSE None
  /\ pc' = "none" /\ spawner' = None /\ Dropped
  /\ UNCHANGED <<environment, erroneous>>

Convert ==
  LET m == FromSingle(spawner) IN CombineSingle(Sanity(LegalTotal(m.maxprocs)), m)

Combine(c, n) ==
  /\ MaxCommands > 1 /\ Constructible(c, n)
  /\ LET m == FromSingle(spawner) IN
       \/ CombineSingle(Joinable(m, Fresh(c, n)), Join(m, Fresh(c, n)))
       \/ CombineSingle(Joinable(Fresh(c, n), m), Join(Fresh(c, n), m))

\* The multiple spawner is replaced by one made of it and another spawner.
Extend(c, n) ==
  /\ Ready /\ multi.size < MaxCommands /\ Constructible(c, n)
  /\ \/ /\ Sized /\ Complete(multi)
        /\ LET m == Taken(multi) IN
             \/ Call(Joinable(m, Fresh(c, n)), Join(m, Fresh(c, n)))
             \/ Call(Joinable(Fresh(c, n), m), Join(Fresh(c, n), m))
     \/ ~Sized /\ Call(FALSE, None)
     \/ Sized /\ ~Complete(multi) /\ Crash("subscript")

-----------------------------------------------------------------------------
(* Setters for all commands. *)

SetCommands(names) ==
  /\ Ready
  /\ \E counted \in CountsOfNames(names) :
       Call(Sized /\ Sanity(counted /\ LegalCommands(names)),
            [multi EXCEPT !.commands = names])

SetMaxprocsOfAll(ns) ==
  /\ Ready
  /\ \E counted \in Counts(ns) :
       \/ Call(Sized /\ Sanity(counted /\ LegalNumbers(ns) /\ LegalTotal(ns)),
               [multi EXCEPT !.maxprocs = ns])
       \/ level = 2 /\ Sized /\ counted /\ StrayMessage(ns)

SetSpawnInfos(is) ==
  /\ Ready
  /\ \E counted \in Counts(is) : Call(Sized /\ Sanity(counted), [multi EXCEPT !.infos = is])

\* The lists are added one by one to the first commands.  One too many throws, unless
\* it is empty; too few, which with all assertions only one list can be, leave the
\* other commands as they are.
AddArgvs(lists) ==
  /\ Ready
  /\ \A k \in DOMAIN multi.argvs \intersect DOMAIN lists :
       Len(multi.argvs[k]) + Len(lists[k]) <= MaxArgs
  /\ \E counted \in CountsOfRows(lists) :
       Call(Sized /\ Sanity(counted /\ LegalRows(lists)),
            [multi EXCEPT !.argvs = [k \in DOMAIN @ |->
               IF k \in DOMAIN lists THEN @[k] \o lists[k] ELSE @[k]]])

RemoveArgvs ==
  /\ Ready
  /\ Call(Sized, [multi EXCEPT !.argvs = [k \in 1..multi.size |-> <<>>]])

-----------------------------------------------------------------------------
(* Setters for one command, and the functions that read one entry. *)

Entry(field, i, passed, members) ==
  /\ Ready
  /\ \/ ~Sized /\ Call(FALSE, None)
     \/ Sized /\ InRange(i) /\ i > Len(multi[field]) /\ Stray
     \/ Sized /\ InRange(i) /\ i <= Len(multi[field]) /\ Call(Sanity(passed), members)

SetCommandAt(i, c) == Entry("commands", i, LegalCommand(c), [multi EXCEPT !.commands[i] = c])

\* All numbers are tested, also those that stay, and so is the total.
StrayMessageAt(i, ns) ==
  /\ Ready /\ level = 2 /\ Sized
  /\ InRange(i) /\ i <= Len(multi.maxprocs)
  /\ StrayMessage(ns)

\* Mutant of SetMaxprocsAt: the total is not tested.
SetMaxprocsAtAlone(i, n) ==
  LET ns == [multi.maxprocs EXCEPT ![i] = n] IN
    \/ Entry("maxprocs", i, LegalNumbers(ns), [multi EXCEPT !.maxprocs = ns])
    \/ StrayMessageAt(i, ns)

SetMaxprocsAt(i, n) ==
  LET ns == [multi.maxprocs EXCEPT ![i] = n] IN
    \/ Entry("maxprocs", i, LegalNumbers(ns) /\ LegalTotal(ns), [multi EXCEPT !.maxprocs = ns])
    \/ StrayMessageAt(i, ns)

SetSpawnInfoAt(i, info) == Entry("infos", i, TRUE, [multi EXCEPT !.infos[i] = info])

\* An empty list tests nothing, not even the index.
AddArgvAt(i, args) ==
  /\ Ready /\ args # <<>>
  /\ i \in DOMAIN multi.argvs => Len(multi.argvs[i]) + Len(args) <= MaxArgs
  /\ Entry("argvs", i, LegalArgvs(args), [multi EXCEPT !.argvs[i] = @ \o args])

RemoveArgvAt(i) == Entry("argvs", i, TRUE, [multi EXCEPT !.argvs[i] = <<>>])

\* A second index out of range throws as well.
RemoveArgAt(i, j) ==
  /\ Ready
  /\ i \in DOMAIN multi.argvs => j \in DOMAIN multi.argvs[i]
  /\ Entry("argvs", i, TRUE,
       [multi EXCEPT !.argvs[i] = SubSeq(@, 1, j - 1) \o SubSeq(@, j + 1, Len(@))])

ReadAt(field, i) == Entry(field, i, TRUE, multi)

-----------------------------------------------------------------------------
(* Root and communicator. *)

MSetRoot(r) ==
  /\ Ready
  /\ LET passed == Sanity(LegalRoot(r, multi.comm)) IN
       /\ mpc' = IF passed THEN "ready" ELSE "aborted"
       /\ multi' = IF passed THEN [multi EXCEPT !.root = r] ELSE None
  /\ erroneous' = erroneous \union SizeErrors(level = 2, multi.comm)
  /\ Dropped /\ UNCHANGED <<environment, pc, spawner>>

MSetCommunicator(c) ==
  /\ Ready
  /\ LET passed == Precondition(LegalCommunicator(c)) /\ Sanity(LegalRoot(multi.root, c)) IN
       /\ mpc' = IF passed THEN "ready" ELSE "aborted"
       /\ multi' = IF passed THEN [multi EXCEPT !.comm = c] ELSE None
  /\ erroneous' = erroneous \union
       SizeErrors(level = 2 /\ LegalCommunicator(c) /\ 0 <= multi.root, c)
  /\ Dropped /\ UNCHANGED <<environment, pc, spawner>>

-----------------------------------------------------------------------------
(* spawn() and spawn_with_errcodes(). *)

\* What spawn_impl asserts before it comes to the root, and all it asserts.
SpawnableSoFar(m) ==
  /\ Lengths(m) = {m.size}
  /\ LegalCommands(m.commands) /\ LegalRows(m.argvs)
  /\ LegalNumbers(m.maxprocs) /\ LegalTotal(m.maxprocs)
MSpawnable(m) ==
  SpawnableSoFar(m) /\ LegalRoot(m.root, m.comm) /\ LegalCommunicator(m.comm)

\* MPI reads size() entries of each array: a legal call, and what it asks for.
LegalCall(m) ==
  /\ m.size > 0 /\ Complete(m)
  /\ MSpawnable(Taken(m)) /\ LegalMaxprocs(SumOf[Taken(m).maxprocs])
AskedFor(m) == IF LegalCall(m) THEN SumOf[Taken(m).maxprocs] ELSE TotalMaxprocs(m.maxprocs)

\* The flat array of arguments: room for the arguments, but each row is written
\* with a null pointer behind it.  Without any argument there is no such array.
Capacity(rows) == SumOf[[k \in DOMAIN rows |-> Len(rows[k])]]
Slots(rows) == Capacity(rows) + Len(rows)
ArgvsNull(rows) == \A k \in DOMAIN rows : rows[k] = <<>>
Overruns(rows) == ~ArgvsNull(rows) /\ Slots(rows) > Capacity(rows)

MSpawnAborts ==
  /\ Ready /\ ~Precondition(MSpawnable(multi))
  /\ mpc' = "aborted"
  /\ erroneous' = erroneous \union
       SizeErrors(SpawnableSoFar(multi) /\ 0 <= multi.root, multi.comm)
  /\ multi' = None /\ Dropped
  /\ UNCHANGED <<environment, pc, spawner>>

\* The third of the vectors that are tested, each for its length and its entries,
\* is maxprocs_; the infos are not counted yet, if not by size().
MSpawnMessage ==
  /\ Ready /\ level >= 1 /\ Sized
  /\ {Len(multi.commands), Len(multi.argvs), Len(multi.maxprocs)} = {multi.size}
  /\ LegalCommands(multi.commands) /\ LegalRows(multi.argvs)
  /\ StrayMessage(multi.maxprocs)

\* Writing past the array crashes the program ...
MSpawnCrashes ==
  /\ Ready /\ Precondition(MSpawnable(multi)) /\ Overruns(multi.argvs)
  /\ Crash("argvs")

\* ... or does no harm.  MPI writes a code for each process it is asked for; the
\* vector has as many elements as all of maxprocs_ adds up to.
MSpawn(withErrcodes) ==
  /\ Ready /\ Precondition(MSpawnable(multi))
  /\ LET n == TotalMaxprocs(multi.maxprocs)
         asked == AskedFor(multi) IN
     /\ withErrcodes => n >= 0
     /\ \E m \in IF LegalCall(multi) THEN 0..asked ELSE {0} :
          /\ spawned' = m
          /\ \E codes \in IF withErrcodes THEN Written(Blank(asked), asked, m) ELSE {None} :
               result' = [maxprocs |-> n,
                          errcodes |-> IF withErrcodes
                                       THEN [k \in 1..n |-> IF k <= asked THEN codes[k] ELSE Unset]
                                       ELSE None]
  /\ erroneous' = IF LegalCall(multi) THEN erroneous
                  ELSE erroneous \union {"MPI_Comm_spawn_multiple"}
  /\ UNCHANGED <<environment, pc, spawner, mvars>>

-----------------------------------------------------------------------------

\* Inputs: lists for all commands, also of a length that does not fit, arguments for
\* one command, at most one for each of several, and indices up to one past the last.
ListsOf(S) == UNION {[1..n -> S] : n \in 1..MaxCommands}
Arguments == UNION {[1..n -> Texts] : n \in 0..MaxArgs}
ListsOfArguments == ListsOf({<<>>} \union [1..1 -> Texts]) \union [1..1 -> Arguments]
Indices == 1..(MaxCommands + 1)

SingleStep == mpc = "none" /\ Next /\ UNCHANGED mvars

MultiStep ==
  \/ \E names \in ListsOf(Texts) \union {<<>>}, ns \in ListsOf(MultiNumbers) \union {<<>>} :
       MConstruct(names, ns)
  \/ \E names \in ListsOf(Texts) : SetCommands(names)
  \/ Convert
  \/ \E c \in Texts, n \in MultiNumbers : Combine(c, n) \/ Extend(c, n)
  \/ \E ns \in ListsOf(MultiNumbers) : SetMaxprocsOfAll(ns)
  \/ \E is \in ListsOf(Infos) : SetSpawnInfos(is)
  \/ \E lists \in ListsOfArguments : AddArgvs(lists)
  \/ RemoveArgvs
  \/ \E i \in Indices :
       \/ \E c \in Texts : SetCommandAt(i, c)
       \/ \E n \in MultiNumbers : SetMaxprocsAt(i, n)
       \/ \E info \in Infos : SetSpawnInfoAt(i, info)
       \/ \E args \in Arguments : AddArgvAt(i, args)
       \/ RemoveArgvAt(i)
       \/ \E j \in 1..MaxArgs : RemoveArgAt(i, j)
       \/ \E field \in {"commands", "argvs", "maxprocs", "infos"} : ReadAt(field, i)
  \/ \E r \in MultiNumbers : MSetRoot(r)
  \/ \E c \in Comms \union {NullComm} : MSetCommunicator(c)
  \/ MSpawnAborts \/ MSpawnMessage \/ MSpawnCrashes
  \/ \E withErrcodes \in BOOLEAN : MSpawn(withErrcodes)

MNext == SingleStep \/ MultiStep

MSpec == MInit /\ [][MNext]_allvars

-----------------------------------------------------------------------------
(* Correctness. *)

\* With all assertions the setters, each testing its own arguments, keep the
\* members as a whole legal and in step.  Not covered: commands_ set from two C
\* strings, which are not counted, and single numbers taken over from spawners.
MSettersKeepLegal ==
  level = 2 /\ mpc = "ready" =>
    /\ Len(multi.maxprocs) = multi.size /\ Len(multi.infos) = multi.size
    /\ LegalCommands(multi.commands) /\ LegalRows(multi.argvs)
    /\ LegalTotal(multi.maxprocs)
    /\ LegalRoot(multi.root, multi.comm) /\ LegalCommunicator(multi.comm)

\* With all assertions neither the index a client passes nor the loop of a
\* constructor leaves a vector, although both only go by the size at construction:
\* size() itself notices vectors out of step.  It is no promise about the entry that
\* an assertion about the numbers puts into its message: that one does leave the
\* vector, of every legal call ("message").
EntriesInBounds == level = 2 => mpc # "subscript"

\* Comment in spawn_impl: the array is made for the arguments and the null
\* pointers behind them, and so spawning does not write past it.
ArgvFits == mpc # "argvs"

\* The entries of a spawner that is in use and in step.
Zipped ==
  IF level = 2 /\ mpc = "ready" /\ Lengths(multi) = {multi.size}
  THEN [k \in 1..multi.size |->
         [command |-> multi.commands[k], argv |-> multi.argvs[k],
          maxprocs |-> multi.maxprocs[k], info |-> multi.infos[k]]]
  ELSE None

List == INSTANCE CommandList WITH
          list <- Zipped, Initially <- NullInfo, Unusable <- None

\* With all assertions four parallel vectors are a list of commands: an operation
\* changes what it names, at the entry it names, and nothing gets out of place.
ImplementsList == List!Spec
=============================================================================
