------------------------ MODULE MultipleSpawnerProofs ------------------------
(***************************************************************************)
(* The setters of MultipleSpawner, for any lists of any length, any ints   *)
(* and any communicators.  The parallel vectors are not always in step:    *)
(* what is inductive is that those are which no setter leaves uncounted,   *)
(* and that with all assertions size() stops whoever would use an index    *)
(* while the others are not.                                               *)
(*                                                                         *)
(* The argument about the setters does not depend on what total_maxprocs() *)
(* does with an overflow; the one about the result of a spawn does, and    *)
(* the last part proves what a sum is and when it is the total.            *)
(***************************************************************************)
EXTENDS MultipleSpawner, SingleSpawnerProofs, NaturalsInduction, WellFoundedInduction

\* The members a spawner needs to be joined with others, ...
PartOK(m) ==
  /\ m \in MultiSpawners /\ Len(m.argvs) = m.size
  /\ level = 2 =>
       /\ m.size > 0
       /\ Len(m.maxprocs) = m.size /\ Len(m.infos) = m.size
       /\ LegalCommands(m.commands) /\ LegalRows(m.argvs)
       /\ LegalRoot(m.root, m.comm) /\ LegalCommunicator(m.comm)

\* ... and those it has once it is made.
MultiOK(m) == PartOK(m) /\ (level = 2 => LegalTotal(m.maxprocs))

MultiInv ==
  /\ MembersInv
  /\ mpc \in {"none", "ready", "aborted", "subscript", "message", "argvs"}
  /\ mpc = "ready" => MultiOK(multi)
  /\ EntriesInBounds

-----------------------------------------------------------------------------
(* Lists. *)

\* An element of a concatenation is an element of one of the parts.
LEMMA ConcatElement ==
  ASSUME NEW S, NEW a \in Seq(S), NEW b \in Seq(S), NEW k \in DOMAIN (a \o b)
  PROVE  \/ k \in DOMAIN a /\ (a \o b)[k] = a[k]
         \/ \E j \in DOMAIN b : (a \o b)[k] = b[j]
<1>1. k \in 1..(Len(a) + Len(b)) /\ Len(a) \in Nat /\ Len(b) \in Nat
  OBVIOUS
<1>2. CASE k <= Len(a)
  BY <1>1, <1>2
<1>3. CASE k > Len(a)
  <2>1. k - Len(a) \in 1..Len(b) /\ (a \o b)[k] = b[k - Len(a)]
    BY <1>1, <1>3
  <2>2. QED
    BY <2>1
<1>4. QED
  BY <1>1, <1>2, <1>3

LEMMA ConcatLength ==
  ASSUME NEW S, NEW a \in Seq(S), NEW b \in Seq(S)
  PROVE  a \o b \in Seq(S) /\ Len(a \o b) = Len(a) + Len(b)
  OBVIOUS

LEMMA ConcatCommands ==
  ASSUME NEW a \in Seq(Texts), NEW b \in Seq(Texts), LegalCommands(a), LegalCommands(b)
  PROVE  LegalCommands(a \o b)
  BY ConcatElement DEF LegalCommands

LEMMA ConcatArguments ==
  ASSUME NEW a \in Seq(Texts), NEW b \in Seq(Texts), LegalArgvs(a), LegalArgvs(b)
  PROVE  LegalArgvs(a \o b)
  BY ConcatElement DEF LegalArgvs

LEMMA ConcatRows ==
  ASSUME NEW a \in Seq(Seq(Texts)), NEW b \in Seq(Seq(Texts)), LegalRows(a), LegalRows(b)
  PROVE  LegalRows(a \o b)
  BY ConcatElement DEF LegalRows

\* The values clients pass are lists of the right kind.
LEMMA ListsTyped ==
  ASSUME NEW S, NEW s \in ListsOf(S)
  PROVE  s \in Seq(S)
<1>1. PICK n \in 1..MaxCommands : s \in [1..n -> S]
  BY DEF ListsOf
<1>2. n \in Nat
  BY MultipleAssumption
<1>3. QED
  BY <1>1, <1>2

LEMMA NumbersTyped ==
  ASSUME NEW ns \in ListsOf(MultiNumbers) \union {<<>>}
  PROVE  ns \in Seq(Int)
<1>1. CASE ns \in ListsOf(MultiNumbers)
  <2>1. PICK n \in 1..MaxCommands : ns \in [1..n -> MultiNumbers]
    BY <1>1 DEF ListsOf
  <2>2. n \in Nat /\ MultiNumbers \subseteq Int
    BY SpawnerAssumption, MultipleAssumption
  <2>3. ns \in [1..n -> Int]
    BY <2>1, <2>2
  <2>4. QED
    BY <2>2, <2>3
<1>2. CASE ns = <<>>
  BY <1>2
<1>3. QED
  BY <1>1, <1>2

LEMMA ArgumentsTyped ==
  ASSUME NEW s \in Arguments
  PROVE  s \in Seq(Texts)
<1>1. PICK n \in 0..MaxArgs : s \in [1..n -> Texts]
  BY DEF Arguments
<1>2. n \in Nat
  BY SpawnerAssumption
<1>3. QED
  BY <1>1, <1>2

LEMMA RowsTyped ==
  ASSUME NEW lists \in ListsOfArguments
  PROVE  lists \in Seq(Seq(Texts))
<1> SUFFICES ASSUME lists \notin [1..1 -> Arguments] PROVE lists \in Seq(Seq(Texts))
  <2>1. Arguments \subseteq Seq(Texts)
    BY ArgumentsTyped
  <2> DEFINE n == 1
  <2>2. n \in Nat /\ (lists \in [1..n -> Arguments] => lists \in [1..n -> Seq(Texts)])
    BY <2>1
  <2> HIDE DEF n
  <2>3. lists \in [1..n -> Arguments] => lists \in Seq(Seq(Texts))
    BY <2>2
  <2>4. QED
    BY <2>3 DEF n
<1>1. lists \in Seq({<<>>} \union [1..1 -> Texts])
  BY ListsTyped DEF ListsOfArguments
<1>2. ASSUME NEW row \in {<<>>} \union [1..1 -> Texts] PROVE row \in Seq(Texts)
  <2>1. 1 \in Nat /\ <<>> \in Seq(Texts)
    OBVIOUS
  <2>2. CASE row \in [1..1 -> Texts]
    <3> DEFINE n == 1
    <3>1. row \in [1..n -> Texts] /\ n \in Nat
      BY <2>1, <2>2
    <3> HIDE DEF n
    <3>2. QED
      BY <3>1
  <2>3. QED
    BY <2>1, <2>2
<1>3. lists \in [1..Len(lists) -> Seq(Texts)] /\ Len(lists) \in Nat
  BY <1>1, <1>2
<1>4. QED
  BY <1>3

\* When size() does not object, all vectors have the length of argvs_, size_.
LEMMA SizedLengths ==
  ASSUME MultiOK(multi), level = 2, Sized
  PROVE  \A l \in Lengths(multi) : l = multi.size
<1>1. IsFiniteSet(Lengths(multi))
  <2>1. Lengths(multi) = (({Len(multi.commands)} \union {Len(multi.argvs)})
                            \union {Len(multi.maxprocs)}) \union {Len(multi.infos)}
    BY DEF Lengths
  <2>2. IsFiniteSet({Len(multi.commands)})
    BY FS_Singleton
  <2>3. IsFiniteSet({Len(multi.commands)} \union {Len(multi.argvs)})
    BY <2>2, FS_AddElement
  <2>4. IsFiniteSet(({Len(multi.commands)} \union {Len(multi.argvs)})
                            \union {Len(multi.maxprocs)})
    BY <2>3, FS_AddElement
  <2>5. QED
    BY <2>1, <2>4, FS_AddElement
<1>2. PICK l : Lengths(multi) = {l}
  BY <1>1, FS_Singleton DEF Sized, Sanity
<1>3. Len(multi.argvs) \in Lengths(multi) /\ Len(multi.argvs) = multi.size
  BY DEF Lengths, MultiOK, PartOK
<1>4. QED
  BY <1>2, <1>3

-----------------------------------------------------------------------------
(* The outcomes of a call. *)

LEMMA MembersSame ==
  ASSUME MembersInv, UNCHANGED <<environment, pc, spawner>>
  PROVE  MembersInv'
  BY DEF MembersInv, MembersTyped, CommChecked, SettersKeepLegal, environment,
         LegalCommand, LegalArgvs, LegalRoot, LegalCommunicator

\* What is legal depends on the members, the level and the universe only.
LEMMA OKSame ==
  ASSUME UNCHANGED environment, NEW m, MultiOK(m)
  PROVE  MultiOK(m)'
  BY DEF MultiOK, PartOK, environment, LegalCommands, LegalCommand, LegalRows, LegalArgvs,
         LegalRoot, LegalCommunicator, LegalTotal, LegalMaxprocs, TotalMaxprocs, WrapInt, SumOf

\* A call that passes leaves members that are in order, or there are none.
LEMMA OutcomeInv ==
  ASSUME MultiInv, NEW passed, NEW members, UNCHANGED <<environment, pc, spawner>>,
         mpc' = IF passed THEN "ready" ELSE "aborted",
         multi' = IF passed THEN members ELSE None,
         passed => MultiOK(members)
  PROVE  MultiInv'
<1>1. UNCHANGED environment /\ UNCHANGED <<environment, pc, spawner>>
  BY DEF environment
<1>2. MembersInv'
  BY <1>1, MembersSame DEF MultiInv
<1>3. mpc' = (IF passed THEN "ready" ELSE "aborted")
  OBVIOUS
<1>4. mpc' = "ready" => MultiOK(multi)'
  <2>1. CASE passed
    <3>1. multi' = members /\ MultiOK(members)'
      BY <1>1, <2>1, OKSame
    <3>2. MultiOK(multi)' <=> MultiOK(members)'
      BY <3>1 DEF MultiOK, PartOK
    <3>3. QED
      BY <3>1, <3>2
  <2>2. CASE ~passed
    BY <1>3, <2>2
  <2>3. QED
    BY <2>1, <2>2
<1>5. QED
  BY <1>2, <1>3, <1>4 DEF MultiInv, EntriesInBounds

LEMMA CallInv ==
  ASSUME MultiInv, NEW passed, NEW members, Call(passed, members),
         passed => MultiOK(members)
  PROVE  MultiInv'
  BY OutcomeInv DEF Call

\* The program crashes, if it may.
LEMMA CrashInv ==
  ASSUME MultiInv, NEW where \in {"subscript", "message", "argvs"}, Crash(where),
         where = "subscript" => level # 2
  PROVE  MultiInv'
<1>1. UNCHANGED <<environment, pc, spawner>> /\ level' = level
  BY DEF Crash, environment
<1>2. MembersInv'
  BY <1>1, MembersSame DEF MultiInv
<1>3. QED
  BY <1>1, <1>2 DEF MultiInv, Crash, EntriesInBounds

\* Nothing of the members changes.
LEMMA SameInv ==
  ASSUME MultiInv, UNCHANGED <<environment, pc, spawner, mvars>>
  PROVE  MultiInv'
<1>1. /\ UNCHANGED environment /\ UNCHANGED <<environment, pc, spawner>>
      /\ mpc' = mpc /\ multi' = multi
  BY DEF environment, mvars
<1>2. MembersInv'
  BY <1>1, MembersSame DEF MultiInv
<1>3. MultiOK(multi) => MultiOK(multi)'
  BY <1>1, OKSame DEF MultiOK, PartOK
<1>4. QED
  BY <1>1, <1>2, <1>3 DEF MultiInv, EntriesInBounds, environment

-----------------------------------------------------------------------------
(* Constructors. *)

LEMMA MConstructInv ==
  ASSUME MultiInv, NEW names \in Seq(Texts), NEW ns \in Seq(Int), MConstruct(names, ns)
  PROVE  MultiInv'
<1> DEFINE m == [size |-> Len(names), commands |-> names,
                 argvs |-> [k \in DOMAIN names |-> <<>>], maxprocs |-> ns,
                 infos |-> [k \in DOMAIN names |-> NullInfo], root |-> 0, comm |-> World]
           passed == /\ Precondition(names # <<>> /\ ns # <<>> /\ Len(names) = Len(ns))
                     /\ Sanity(LegalCommands(names) /\ LegalNumbers(ns) /\ LegalTotal(ns))
<1>1. Call(passed, m)
  BY DEF MConstruct
<1>2. /\ m.argvs \in Seq(Seq(Texts)) /\ Len(m.argvs) = Len(names)
      /\ m.infos \in Seq(Infos) /\ Len(m.infos) = Len(names)
  <2>1. /\ <<>> \in Seq(Texts) /\ NullInfo \in Infos
        /\ DOMAIN names = 1..Len(names) /\ Len(names) \in Nat
    BY SpawnerAssumption
  <2>2. QED
    BY <2>1
<1>3. m \in MultiSpawners
  BY <1>2, SpawnerAssumption DEF MultiSpawners
<1>4. LegalRows(m.argvs) /\ LegalRoot(m.root, m.comm) /\ LegalCommunicator(m.comm)
  BY SpawnerAssumption DEF LegalRows, LegalArgvs, LegalRoot, LegalCommunicator
<1>5. passed => MultiOK(m)
  BY <1>2, <1>3, <1>4 DEF MultiOK, PartOK, Precondition, Sanity
<1> HIDE DEF m, passed
<1>6. QED
  BY <1>1, <1>5, CallInv

\* A single spawner is a part.
LEMMA FromSingleOK ==
  ASSUME NEW s \in Spawners,
         level = 2 => /\ LegalCommand(s.command) /\ LegalArgvs(s.argvs)
                      /\ LegalRoot(s.root, s.comm) /\ LegalCommunicator(s.comm)
  PROVE  PartOK(FromSingle(s))
  BY DEF PartOK, FromSingle, Spawners, MultiSpawners, LegalCommands, LegalRows

\* So is the one in use, and one as its constructor leaves it.
LEMMA SinglePart ==
  ASSUME MembersInv, pc = "ready"
  PROVE  PartOK(FromSingle(spawner))
  BY FromSingleOK DEF MembersInv, MembersTyped, SettersKeepLegal

LEMMA FreshPart ==
  ASSUME NEW c \in Texts, NEW n \in Int, Constructible(c, n)
  PROVE  PartOK(Fresh(c, n))
<1>1. Initial(c, n) \in Spawners
  BY SpawnerAssumption DEF Initial, Spawners
<1>2. level = 2 => /\ LegalCommand(Initial(c, n).command) /\ LegalArgvs(Initial(c, n).argvs)
                   /\ LegalRoot(Initial(c, n).root, Initial(c, n).comm)
                   /\ LegalCommunicator(Initial(c, n).comm)
  BY SpawnerAssumption
  DEF Initial, Constructible, Sanity, LegalArgvs, LegalRoot, LegalCommunicator
<1>3. QED
  BY <1>1, <1>2, FromSingleOK DEF Fresh

\* Joined parts are in order once the total is tested.
LEMMA JoinOK ==
  ASSUME NEW a, NEW b, PartOK(a), PartOK(b), Joinable(a, b)
  PROVE  MultiOK(Join(a, b))
<1> DEFINE m == Join(a, b)
<1>1. a \in MultiSpawners /\ b \in MultiSpawners /\ Len(a.argvs) = a.size /\ Len(b.argvs) = b.size
  BY DEF PartOK
<1>2. /\ a.commands \in Seq(Texts) /\ b.commands \in Seq(Texts)
      /\ a.argvs \in Seq(Seq(Texts)) /\ b.argvs \in Seq(Seq(Texts))
      /\ a.maxprocs \in Seq(Int) /\ b.maxprocs \in Seq(Int)
      /\ a.infos \in Seq(Infos) /\ b.infos \in Seq(Infos)
      /\ a.size \in Nat /\ b.size \in Nat
  BY <1>1 DEF MultiSpawners
<1>3. /\ m.size = a.size + b.size /\ m.commands = a.commands \o b.commands
      /\ m.argvs = a.argvs \o b.argvs /\ m.maxprocs = a.maxprocs \o b.maxprocs
      /\ m.infos = a.infos \o b.infos /\ m.root = b.root /\ m.comm = b.comm
  BY DEF Join
<1>4. m \in MultiSpawners
  <2>1. m.size \in Nat /\ m.root \in Int /\ m.comm \in Comms \union {NullComm}
    BY <1>1, <1>2, <1>3 DEF MultiSpawners
  <2>2. /\ m.commands \in Seq(Texts) /\ m.argvs \in Seq(Seq(Texts))
        /\ m.maxprocs \in Seq(Int) /\ m.infos \in Seq(Infos)
    BY <1>2, <1>3, ConcatLength
  <2>3. QED
    BY <2>1, <2>2, Zenon DEF Join, MultiSpawners
<1> HIDE DEF m
<1>5. /\ Len(m.argvs) = Len(a.argvs) + Len(b.argvs)
      /\ Len(m.maxprocs) = Len(a.maxprocs) + Len(b.maxprocs)
      /\ Len(m.infos) = Len(a.infos) + Len(b.infos)
  BY <1>2, <1>3, ConcatLength
<1>6. ASSUME level = 2
      PROVE  /\ m.size > 0
             /\ Len(m.maxprocs) = m.size /\ Len(m.infos) = m.size
             /\ LegalCommands(m.commands) /\ LegalRows(m.argvs)
             /\ LegalRoot(m.root, m.comm) /\ LegalCommunicator(m.comm)
             /\ LegalTotal(m.maxprocs)
  <2>1. Len(m.maxprocs) = m.size /\ Len(m.infos) = m.size
    BY <1>1, <1>3, <1>6, <1>5 DEF PartOK
  <2>2. LegalCommands(m.commands) /\ LegalRows(m.argvs)
    BY <1>2, <1>3, <1>6, ConcatCommands, ConcatRows DEF PartOK
  <2>3. LegalRoot(m.root, m.comm) /\ LegalCommunicator(m.comm)
    BY <1>3, <1>6 DEF PartOK
  <2>4. LegalTotal(m.maxprocs)
    BY <1>6 DEF Joinable, Sanity, m
  <2>5. m.size > 0
    BY <1>2, <1>3, <1>6 DEF PartOK
  <2>6. QED
    BY <2>1, <2>2, <2>3, <2>4, <2>5
<1>7. Len(m.argvs) = m.size
  BY <1>1, <1>3, <1>5
<1>8. QED
  BY <1>6, <1>7, <1>4 DEF MultiOK, PartOK, m

\* The single spawner is gone, a multiple spawner is there.
LEMMA CombineSingleInv ==
  ASSUME MultiInv, NEW passed, NEW members, CombineSingle(passed, members),
         passed => MultiOK(members)
  PROVE  MultiInv'
<1>1. UNCHANGED environment /\ pc' = "none"
  BY DEF CombineSingle, environment
<1>2. MembersInv'
  BY <1>1 DEF MultiInv, MembersInv, MembersTyped, CommChecked, SettersKeepLegal, environment
<1>3. mpc' = (IF passed THEN "ready" ELSE "aborted")
  BY DEF CombineSingle
<1>4. mpc' = "ready" => MultiOK(multi)'
  <2>1. CASE passed
    <3>1. multi' = members /\ MultiOK(members)'
      BY <1>1, <2>1, OKSame DEF CombineSingle
    <3>2. MultiOK(multi)' <=> MultiOK(members)'
      BY <3>1 DEF MultiOK, PartOK
    <3>3. QED
      BY <3>1, <3>2
  <2>2. CASE ~passed
    BY <1>3, <2>2
  <2>3. QED
    BY <2>1, <2>2
<1>5. QED
  BY <1>2, <1>3, <1>4 DEF MultiInv, EntriesInBounds

LEMMA ConvertInv ==
  ASSUME MultiInv, Convert
  PROVE  MultiInv'
<1> DEFINE m == FromSingle(spawner)
<1>1. CombineSingle(Sanity(LegalTotal(m.maxprocs)), m) /\ pc = "ready"
  BY DEF Convert, CombineSingle
<1>2. PartOK(m)
  BY <1>1, SinglePart DEF MultiInv
<1> HIDE DEF m
<1>3. Sanity(LegalTotal(m.maxprocs)) => MultiOK(m)
  BY <1>2 DEF MultiOK, Sanity
<1>4. QED
  BY <1>1, <1>3, CombineSingleInv

LEMMA CombineInv ==
  ASSUME MultiInv, NEW c \in Texts, NEW n \in Int, Combine(c, n)
  PROVE  MultiInv'
<1> DEFINE m == FromSingle(spawner)
<1>1. \/ CombineSingle(Joinable(m, Fresh(c, n)), Join(m, Fresh(c, n)))
      \/ CombineSingle(Joinable(Fresh(c, n), m), Join(Fresh(c, n), m))
  BY DEF Combine
<1>2. PartOK(m) /\ PartOK(Fresh(c, n))
  BY SinglePart, FreshPart DEF MultiInv, Combine, CombineSingle
<1> HIDE DEF m
<1>3. /\ Joinable(m, Fresh(c, n)) => MultiOK(Join(m, Fresh(c, n)))
      /\ Joinable(Fresh(c, n), m) => MultiOK(Join(Fresh(c, n), m))
  BY <1>2, JoinOK
<1>4. QED
  BY <1>1, <1>3, CombineSingleInv

\* What is taken of a complete spawner is a part.
LEMMA TakenPart ==
  ASSUME MultiOK(multi), Complete(multi), Sized
  PROVE  PartOK(Taken(multi))
<1> DEFINE m == Taken(multi)
           n == multi.size
<1>1. /\ multi \in MultiSpawners /\ n \in Nat /\ Len(multi.argvs) = n
      /\ multi.commands \in Seq(Texts) /\ multi.maxprocs \in Seq(Int) /\ multi.infos \in Seq(Infos)
      /\ Len(multi.commands) >= n /\ Len(multi.maxprocs) >= n /\ Len(multi.infos) >= n
  BY DEF MultiOK, PartOK, MultiSpawners, Complete, Lengths
<1>2. /\ m.size = n /\ m.argvs = multi.argvs /\ m.root = multi.root /\ m.comm = multi.comm
      /\ m.commands = SubSeq(multi.commands, 1, n)
      /\ m.maxprocs = SubSeq(multi.maxprocs, 1, n)
      /\ m.infos = SubSeq(multi.infos, 1, n)
  BY <1>1 DEF Taken, MultiSpawners
<1>3. /\ SubSeq(multi.commands, 1, n) \in Seq(Texts)
      /\ SubSeq(multi.maxprocs, 1, n) \in Seq(Int) /\ Len(SubSeq(multi.maxprocs, 1, n)) = n
      /\ SubSeq(multi.infos, 1, n) \in Seq(Infos) /\ Len(SubSeq(multi.infos, 1, n)) = n
  BY <1>1
<1>4. m \in MultiSpawners
  BY <1>1, <1>3 DEF Taken, MultiSpawners
<1>5. LegalCommands(multi.commands) => LegalCommands(SubSeq(multi.commands, 1, n))
  BY <1>1 DEF LegalCommands
<1> HIDE DEF m
<1>6. QED
  BY <1>1, <1>2, <1>3, <1>4, <1>5 DEF MultiOK, PartOK, m

LEMMA ExtendInv ==
  ASSUME MultiInv, NEW c \in Texts, NEW n \in Int, Extend(c, n)
  PROVE  MultiInv'
<1>1. MultiOK(multi) /\ Constructible(c, n)
  BY DEF Extend, Ready, MultiInv
<1>2. CASE Sized /\ Complete(multi)
  <2> DEFINE m == Taken(multi)
  <2>1. \/ Call(Joinable(m, Fresh(c, n)), Join(m, Fresh(c, n)))
        \/ Call(Joinable(Fresh(c, n), m), Join(Fresh(c, n), m))
    BY <1>2 DEF Extend
  <2>2. PartOK(m) /\ PartOK(Fresh(c, n))
    BY <1>1, <1>2, TakenPart, FreshPart
  <2> HIDE DEF m
  <2>3. /\ Joinable(m, Fresh(c, n)) => MultiOK(Join(m, Fresh(c, n)))
        /\ Joinable(Fresh(c, n), m) => MultiOK(Join(Fresh(c, n), m))
    BY <2>2, JoinOK
  <2>4. QED
    BY <2>1, <2>3, CallInv
<1>3. CASE ~Sized
  <2>1. Call(FALSE, None)
    BY <1>3 DEF Extend
  <2>2. QED
    BY <2>1, CallInv
<1>4. CASE Sized /\ ~Complete(multi)
  <2>1. Crash("subscript")
    BY <1>4 DEF Extend
  <2>2. level # 2
    <3> SUFFICES ASSUME level = 2 PROVE Complete(multi)
      BY <1>4
    <3>1. multi.size \in Nat /\ \A l \in Lengths(multi) : l = multi.size
      BY <1>1, <1>4, SizedLengths DEF MultiOK, PartOK, MultiSpawners
    <3>2. QED
      BY <3>1 DEF Complete
  <2>3. QED
    BY <2>1, <2>2, CrashInv
<1>5. QED
  BY <1>2, <1>3, <1>4

-----------------------------------------------------------------------------
(* Setters for all commands. *)

\* What is known of the members when a setter is called.
LEMMA Members ==
  ASSUME MultiInv, Ready
  PROVE  /\ MultiOK(multi) /\ multi \in MultiSpawners
         /\ multi.size \in Nat /\ Len(multi.argvs) = multi.size
         /\ multi.commands \in Seq(Texts) /\ multi.argvs \in Seq(Seq(Texts))
         /\ multi.maxprocs \in Seq(Int) /\ multi.infos \in Seq(Infos)
         /\ level = 2 =>
              /\ Len(multi.maxprocs) = multi.size /\ Len(multi.infos) = multi.size
              /\ LegalCommands(multi.commands) /\ LegalRows(multi.argvs)
              /\ LegalRoot(multi.root, multi.comm) /\ LegalCommunicator(multi.comm)
              /\ LegalTotal(multi.maxprocs)
  BY DEF MultiInv, Ready, MultiOK, PartOK, MultiSpawners

\* One vector is exchanged for another one that is in order.
LEMMA NewCommands ==
  ASSUME MultiInv, Ready, NEW names \in Seq(Texts), level = 2 => LegalCommands(names)
  PROVE  MultiOK([multi EXCEPT !.commands = names])
<1> DEFINE m == [multi EXCEPT !.commands = names]
<1>1. m \in MultiSpawners
  BY Members DEF MultiSpawners
<1>2. /\ m.size = multi.size /\ m.argvs = multi.argvs /\ m.commands = names
      /\ m.maxprocs = multi.maxprocs /\ m.infos = multi.infos
      /\ m.root = multi.root /\ m.comm = multi.comm
  BY Members DEF MultiSpawners
<1> HIDE DEF m
<1>3. QED
  BY <1>1, <1>2, Members DEF MultiOK, PartOK, m

LEMMA NewMaxprocs ==
  ASSUME MultiInv, Ready, NEW ns \in Seq(Int),
         level = 2 => Len(ns) = multi.size /\ LegalTotal(ns)
  PROVE  MultiOK([multi EXCEPT !.maxprocs = ns])
<1> DEFINE m == [multi EXCEPT !.maxprocs = ns]
<1>1. m \in MultiSpawners
  BY Members DEF MultiSpawners
<1>2. /\ m.size = multi.size /\ m.argvs = multi.argvs /\ m.commands = multi.commands
      /\ m.maxprocs = ns /\ m.infos = multi.infos
      /\ m.root = multi.root /\ m.comm = multi.comm
  BY Members DEF MultiSpawners
<1> HIDE DEF m
<1>3. QED
  BY <1>1, <1>2, Members DEF MultiOK, PartOK, m

LEMMA NewInfos ==
  ASSUME MultiInv, Ready, NEW is \in Seq(Infos), level = 2 => Len(is) = multi.size
  PROVE  MultiOK([multi EXCEPT !.infos = is])
<1> DEFINE m == [multi EXCEPT !.infos = is]
<1>1. m \in MultiSpawners
  BY Members DEF MultiSpawners
<1>2. /\ m.size = multi.size /\ m.argvs = multi.argvs /\ m.commands = multi.commands
      /\ m.maxprocs = multi.maxprocs /\ m.infos = is
      /\ m.root = multi.root /\ m.comm = multi.comm
  BY Members DEF MultiSpawners
<1> HIDE DEF m
<1>3. QED
  BY <1>1, <1>2, Members DEF MultiOK, PartOK, m

LEMMA NewRows ==
  ASSUME MultiInv, Ready, NEW rows \in Seq(Seq(Texts)), Len(rows) = multi.size,
         level = 2 => LegalRows(rows)
  PROVE  MultiOK([multi EXCEPT !.argvs = rows])
<1> DEFINE m == [multi EXCEPT !.argvs = rows]
<1>1. m \in MultiSpawners
  BY Members DEF MultiSpawners
<1>2. /\ m.size = multi.size /\ m.argvs = rows /\ m.commands = multi.commands
      /\ m.maxprocs = multi.maxprocs /\ m.infos = multi.infos
      /\ m.root = multi.root /\ m.comm = multi.comm
  BY Members DEF MultiSpawners
<1> HIDE DEF m
<1>3. QED
  BY <1>1, <1>2, Members DEF MultiOK, PartOK, m

LEMMA SetCommandsInv ==
  ASSUME MultiInv, NEW names \in Seq(Texts), SetCommands(names)
  PROVE  MultiInv'
<1>1. PICK counted \in CountsOfNames(names) :
        Call(Sized /\ Sanity(counted /\ LegalCommands(names)), [multi EXCEPT !.commands = names])
  BY DEF SetCommands
<1>2. Sized /\ Sanity(counted /\ LegalCommands(names)) => MultiOK([multi EXCEPT !.commands = names])
  BY NewCommands DEF Sanity, SetCommands
<1>3. QED
  BY <1>1, <1>2, CallInv

LEMMA SetMaxprocsOfAllInv ==
  ASSUME MultiInv, NEW ns \in Seq(Int), SetMaxprocsOfAll(ns)
  PROVE  MultiInv'
<1> DEFINE passed == Sized /\ Sanity(Len(ns) = multi.size /\ LegalNumbers(ns) /\ LegalTotal(ns))
<1>1. Ready /\ (Call(passed, [multi EXCEPT !.maxprocs = ns]) \/ Crash("message"))
  BY DEF SetMaxprocsOfAll, Counts, StrayMessage
<1>2. passed => MultiOK([multi EXCEPT !.maxprocs = ns])
  <2>1. passed => (level = 2 => Len(ns) = multi.size /\ LegalTotal(ns))
    BY DEF Sanity
  <2>2. QED
    BY <1>1, <2>1, NewMaxprocs
<1> HIDE DEF passed
<1>3. QED
  BY <1>1, <1>2, CallInv, CrashInv

LEMMA SetSpawnInfosInv ==
  ASSUME MultiInv, NEW is \in Seq(Infos), SetSpawnInfos(is)
  PROVE  MultiInv'
<1> DEFINE passed == Sized /\ Sanity(Len(is) = multi.size)
<1>1. Ready /\ Call(passed, [multi EXCEPT !.infos = is])
  BY DEF SetSpawnInfos, Counts
<1>2. passed => MultiOK([multi EXCEPT !.infos = is])
  <2>1. passed => (level = 2 => Len(is) = multi.size)
    BY DEF Sanity
  <2>2. QED
    BY <1>1, <2>1, NewInfos
<1> HIDE DEF passed
<1>3. QED
  BY <1>1, <1>2, CallInv

\* Rows of which each is one of before and, maybe, one of the lists behind it.
LEMMA AddedRows ==
  ASSUME NEW before \in Seq(Seq(Texts)), NEW lists \in Seq(Seq(Texts))
  PROVE  LET rows == [k \in DOMAIN before |->
                        IF k \in DOMAIN lists THEN before[k] \o lists[k] ELSE before[k]] IN
           /\ rows \in Seq(Seq(Texts)) /\ Len(rows) = Len(before)
           /\ LegalRows(before) /\ LegalRows(lists) => LegalRows(rows)
<1> DEFINE rows == [k \in DOMAIN before |->
                      IF k \in DOMAIN lists THEN before[k] \o lists[k] ELSE before[k]]
<1>1. \A k \in DOMAIN before : rows[k] \in Seq(Texts)
  BY ConcatLength
<1>2. DOMAIN before = 1..Len(before) /\ Len(before) \in Nat
  OBVIOUS
<1>3. rows \in [1..Len(before) -> Seq(Texts)]
  BY <1>1, <1>2
<1>4. rows \in Seq(Seq(Texts)) /\ Len(rows) = Len(before)
  BY <1>2, <1>3
<1>5. ASSUME LegalRows(before), LegalRows(lists), NEW k \in DOMAIN before
      PROVE  LegalArgvs(rows[k])
  <2>1. CASE k \in DOMAIN lists
    <3>1. /\ rows[k] = before[k] \o lists[k]
          /\ before[k] \in Seq(Texts) /\ lists[k] \in Seq(Texts)
      BY <1>5, <2>1
    <3>2. QED
      BY <1>5, <2>1, <3>1, ConcatArguments DEF LegalRows
  <2>2. CASE k \notin DOMAIN lists
    BY <1>5, <2>2 DEF LegalRows
  <2>3. QED
    BY <2>1, <2>2
<1>6. LegalRows(before) /\ LegalRows(lists) => LegalRows(rows)
  BY <1>5 DEF LegalRows
<1> HIDE DEF rows
<1>7. QED
  BY <1>4, <1>6 DEF rows

LEMMA AddArgvsInv ==
  ASSUME MultiInv, NEW lists \in Seq(Seq(Texts)), AddArgvs(lists)
  PROVE  MultiInv'
<1> DEFINE rows == [k \in DOMAIN multi.argvs |->
                      IF k \in DOMAIN lists THEN multi.argvs[k] \o lists[k] ELSE multi.argvs[k]]
<1>1. PICK counted : Call(Sized /\ Sanity(counted /\ LegalRows(lists)),
                          [multi EXCEPT !.argvs = rows])
  BY Members DEF AddArgvs, MultiSpawners
<1> DEFINE passed == Sized /\ Sanity(counted /\ LegalRows(lists))
<1>2. Ready
  BY DEF AddArgvs
<1>3. /\ rows \in Seq(Seq(Texts)) /\ Len(rows) = multi.size
      /\ LegalRows(multi.argvs) /\ LegalRows(lists) => LegalRows(rows)
  <2>1. multi.argvs \in Seq(Seq(Texts)) /\ Len(multi.argvs) = multi.size
    BY <1>2, Members
  <2>2. /\ rows \in Seq(Seq(Texts)) /\ Len(rows) = Len(multi.argvs)
        /\ LegalRows(multi.argvs) /\ LegalRows(lists) => LegalRows(rows)
    BY <2>1, AddedRows
  <2>3. QED
    BY <2>1, <2>2
<1> HIDE DEF rows
<1>4. passed => MultiOK([multi EXCEPT !.argvs = rows])
  <2>1. passed => (level = 2 => LegalRows(rows))
    BY <1>2, <1>3, Members DEF Sanity
  <2>2. QED
    BY <1>2, <1>3, <2>1, NewRows
<1>5. Call(passed, [multi EXCEPT !.argvs = rows])
  BY <1>1
<1> HIDE DEF passed
<1>6. QED
  BY <1>4, <1>5, CallInv

LEMMA RemoveArgvsInv ==
  ASSUME MultiInv, RemoveArgvs
  PROVE  MultiInv'
<1> DEFINE rows == [k \in 1..multi.size |-> <<>>]
<1>1. Ready /\ Call(Sized, [multi EXCEPT !.argvs = rows])
  BY DEF RemoveArgvs
<1>2. <<>> \in Seq(Texts) /\ multi.size \in Nat
  BY <1>1, Members
<1>3. rows \in Seq(Seq(Texts)) /\ Len(rows) = multi.size
  <2>1. rows \in [1..multi.size -> Seq(Texts)] /\ DOMAIN rows = 1..multi.size
    BY <1>2
  <2> HIDE DEF rows
  <2>2. QED
    BY <1>2, <2>1
<1>4. LegalRows(rows)
  BY DEF LegalRows, LegalArgvs
<1> HIDE DEF rows
<1>5. MultiOK([multi EXCEPT !.argvs = rows])
  BY <1>1, <1>3, <1>4, NewRows
<1>6. QED
  BY <1>1, <1>5, CallInv

-----------------------------------------------------------------------------
(* Setters for one command. *)

\* One entry of a list is replaced.
LEMMA Replaced ==
  ASSUME NEW S, NEW s \in Seq(S), NEW i \in 1..Len(s), NEW x \in S
  PROVE  LET t == [s EXCEPT ![i] = x] IN
           /\ t \in Seq(S) /\ Len(t) = Len(s)
           /\ \A k \in DOMAIN t : k \in DOMAIN s /\ (t[k] = x \/ t[k] = s[k])
<1> DEFINE t == [s EXCEPT ![i] = x]
<1>1. DOMAIN s = 1..Len(s) /\ Len(s) \in Nat /\ DOMAIN t = 1..Len(s)
  OBVIOUS
<1>2. \A k \in 1..Len(s) : t[k] = IF k = i THEN x ELSE s[k]
  BY <1>1
<1>3. t \in [1..Len(s) -> S]
  BY <1>1, <1>2
<1> HIDE DEF t
<1>4. t \in Seq(S) /\ Len(t) = Len(s)
  BY <1>1, <1>3
<1>5. QED
  BY <1>1, <1>2, <1>4 DEF t

\* An index that passes the test with all assertions is one of each vector.
LEMMA EntryInv ==
  ASSUME MultiInv, NEW field \in {"commands", "argvs", "maxprocs", "infos"}, NEW i \in Int,
         NEW passed, NEW members, Entry(field, i, passed, members),
         i <= Len(multi[field]) /\ Sanity(passed) => MultiOK(members)
  PROVE  MultiInv'
<1>1. CASE ~Sized /\ Call(FALSE, None)
  BY <1>1, CallInv
<1>2. CASE Sized /\ InRange(i) /\ i > Len(multi[field]) /\ Stray
  <2>1. level # 2
    <3> SUFFICES ASSUME level = 2 PROVE FALSE
      OBVIOUS
    <3>1. Len(multi[field]) \in Lengths(multi) /\ MultiOK(multi) /\ multi.size \in Nat
      BY Members DEF Entry, Lengths
    <3>2. Len(multi[field]) = multi.size
      BY <1>2, <3>1, SizedLengths
    <3>3. QED
      BY <1>2, <3>1, <3>2 DEF InRange
  <2>2. CASE Crash("subscript")
    BY <2>1, <2>2, CrashInv
  <2>3. CASE UNCHANGED allvars
    BY <2>3, SameInv DEF allvars, vars, environment
  <2>4. QED
    BY <1>2, <2>2, <2>3 DEF Stray
<1>3. CASE /\ Sized /\ InRange(i) /\ i <= Len(multi[field])
           /\ Call(Sanity(passed), members)
  <2>1. Sanity(passed) => MultiOK(members)
    BY <1>3
  <2>2. QED
    BY <1>3, <2>1, CallInv
<1>4. QED
  BY <1>1, <1>2, <1>3 DEF Entry

LEMMA SetCommandAtInv ==
  ASSUME MultiInv, NEW i \in Nat \ {0}, NEW c \in Texts, SetCommandAt(i, c)
  PROVE  MultiInv'
<1> DEFINE names == [multi.commands EXCEPT ![i] = c]
<1>1. Ready /\ Entry("commands", i, LegalCommand(c), [multi EXCEPT !.commands = names])
  BY DEF SetCommandAt, Entry
<1>2. ASSUME i <= Len(multi.commands), Sanity(LegalCommand(c))
      PROVE  MultiOK([multi EXCEPT !.commands = names])
  <2>1. multi.commands \in Seq(Texts) /\ i \in 1..Len(multi.commands)
    BY <1>1, <1>2, Members
  <2>2. /\ names \in Seq(Texts)
        /\ \A k \in DOMAIN names : k \in DOMAIN multi.commands
                                   /\ (names[k] = c \/ names[k] = multi.commands[k])
    BY <2>1, Replaced
  <2> HIDE DEF names
  <2>3. level = 2 => LegalCommands(names)
    BY <1>1, <1>2, <2>2, Members DEF LegalCommands, Sanity
  <2>4. QED
    BY <1>1, <2>2, <2>3, NewCommands
<1> HIDE DEF names
<1>3. QED
  BY <1>1, <1>2, EntryInv

LEMMA SetMaxprocsAtInv ==
  ASSUME MultiInv, NEW i \in Nat \ {0}, NEW n \in Int, SetMaxprocsAt(i, n)
  PROVE  MultiInv'
<1> DEFINE ns == [multi.maxprocs EXCEPT ![i] = n]
           passed == LegalNumbers(ns) /\ LegalTotal(ns)
<1>1. Ready /\ (Entry("maxprocs", i, passed, [multi EXCEPT !.maxprocs = ns]) \/ Crash("message"))
  BY DEF SetMaxprocsAt, Entry, StrayMessageAt, StrayMessage
<1>2. ASSUME i <= Len(multi.maxprocs), Sanity(passed)
      PROVE  MultiOK([multi EXCEPT !.maxprocs = ns])
  <2>1. multi.maxprocs \in Seq(Int) /\ i \in 1..Len(multi.maxprocs)
    BY <1>1, <1>2, Members
  <2>2. ns \in Seq(Int) /\ Len(ns) = Len(multi.maxprocs)
    BY <2>1, Replaced
  <2>3. level = 2 => Len(ns) = multi.size /\ LegalTotal(ns)
    BY <1>1, <1>2, <2>2, Members DEF Sanity
  <2> HIDE DEF ns
  <2>4. QED
    BY <1>1, <2>2, <2>3, NewMaxprocs
<1> HIDE DEF ns, passed
<1>3. QED
  BY <1>1, <1>2, EntryInv, CrashInv

LEMMA SetSpawnInfoAtInv ==
  ASSUME MultiInv, NEW i \in Nat \ {0}, NEW info \in Infos, SetSpawnInfoAt(i, info)
  PROVE  MultiInv'
<1> DEFINE is == [multi.infos EXCEPT ![i] = info]
           passed == TRUE
<1>1. Ready /\ Entry("infos", i, passed, [multi EXCEPT !.infos = is])
  BY DEF SetSpawnInfoAt, Entry
<1>2. ASSUME i <= Len(multi.infos) PROVE MultiOK([multi EXCEPT !.infos = is])
  <2>1. multi.infos \in Seq(Infos) /\ i \in 1..Len(multi.infos)
    BY <1>1, <1>2, Members
  <2>2. is \in Seq(Infos) /\ Len(is) = Len(multi.infos)
    BY <2>1, Replaced
  <2>3. level = 2 => Len(is) = multi.size
    BY <1>1, <2>2, Members
  <2> HIDE DEF is
  <2>4. QED
    BY <1>1, <2>2, <2>3, NewInfos
<1> HIDE DEF is, passed
<1>3. QED
  BY <1>1, <1>2, EntryInv

\* One row is replaced by one that is legal when the others are.
LEMMA NewRowInv ==
  ASSUME MultiInv, Ready, NEW i \in Nat \ {0}, NEW row, NEW passed,
         Entry("argvs", i, passed, [multi EXCEPT !.argvs = [multi.argvs EXCEPT ![i] = row]]),
         i <= Len(multi.argvs) =>
           /\ row \in Seq(Texts)
           /\ level = 2 /\ passed /\ LegalArgvs(multi.argvs[i]) => LegalArgvs(row)
  PROVE  MultiInv'
<1> DEFINE rows == [multi.argvs EXCEPT ![i] = row]
<1>1. ASSUME i <= Len(multi.argvs), Sanity(passed)
      PROVE  MultiOK([multi EXCEPT !.argvs = rows])
  <2>1. multi.argvs \in Seq(Seq(Texts)) /\ i \in 1..Len(multi.argvs) /\ row \in Seq(Texts)
    BY <1>1, Members
  <2>2. /\ rows \in Seq(Seq(Texts)) /\ Len(rows) = Len(multi.argvs)
        /\ \A k \in DOMAIN rows : k \in DOMAIN multi.argvs
                                  /\ (rows[k] = row \/ rows[k] = multi.argvs[k])
    BY <2>1, Replaced
  <2> HIDE DEF rows
  <2>3. level = 2 => LegalRows(rows)
    <3> SUFFICES ASSUME level = 2 PROVE LegalRows(rows)
      OBVIOUS
    <3>1. LegalRows(multi.argvs) /\ i \in DOMAIN multi.argvs
      BY <2>1, Members
    <3>2. LegalArgvs(row)
      BY <1>1, <3>1 DEF Sanity, LegalRows
    <3>3. QED
      BY <2>2, <3>1, <3>2 DEF LegalRows
  <2>4. QED
    BY <2>2, <2>3, Members, NewRows
<1> HIDE DEF rows
<1>2. QED
  BY <1>1, EntryInv DEF rows

LEMMA AddArgvAtInv ==
  ASSUME MultiInv, NEW i \in Nat \ {0}, NEW args \in Seq(Texts), AddArgvAt(i, args)
  PROVE  MultiInv'
<1> DEFINE row == multi.argvs[i] \o args
<1>1. Ready /\ Entry("argvs", i, LegalArgvs(args),
                     [multi EXCEPT !.argvs = [multi.argvs EXCEPT ![i] = row]])
  BY DEF AddArgvAt, Entry
<1>2. ASSUME i <= Len(multi.argvs)
      PROVE  /\ row \in Seq(Texts)
             /\ LegalArgvs(args) /\ LegalArgvs(multi.argvs[i]) => LegalArgvs(row)
  <2>1. multi.argvs[i] \in Seq(Texts)
    BY <1>1, <1>2, Members
  <2>2. QED
    BY <2>1, ConcatLength, ConcatArguments
<1> HIDE DEF row
<1>3. QED
  BY <1>1, <1>2, NewRowInv

LEMMA RemoveArgvAtInv ==
  ASSUME MultiInv, NEW i \in Nat \ {0}, RemoveArgvAt(i)
  PROVE  MultiInv'
<1>1. Ready /\ Entry("argvs", i, TRUE,
                     [multi EXCEPT !.argvs = [multi.argvs EXCEPT ![i] = <<>>]])
  BY DEF RemoveArgvAt, Entry
<1>2. <<>> \in Seq(Texts) /\ LegalArgvs(<<>>)
  BY DEF LegalArgvs
<1>3. QED
  BY <1>1, <1>2, NewRowInv

LEMMA RemoveArgAtInv ==
  ASSUME MultiInv, NEW i \in Nat \ {0}, NEW j \in Nat \ {0}, RemoveArgAt(i, j)
  PROVE  MultiInv'
<1> DEFINE old == multi.argvs[i]
           row == SubSeq(old, 1, j - 1) \o SubSeq(old, j + 1, Len(old))
<1>1. Ready /\ Entry("argvs", i, TRUE,
                     [multi EXCEPT !.argvs = [multi.argvs EXCEPT ![i] = row]])
  BY DEF RemoveArgAt, Entry
<1>2. ASSUME i <= Len(multi.argvs)
      PROVE  row \in Seq(Texts) /\ (LegalArgvs(old) => LegalArgvs(row))
  <2>1. i \in DOMAIN multi.argvs /\ old \in Seq(Texts)
    BY <1>1, <1>2, Members
  <2>2. j \in 1..Len(old)
    <3>1. j \in DOMAIN multi.argvs[i]
      BY <2>1, Zenon DEF RemoveArgAt
    <3>2. DOMAIN old = 1..Len(old)
      BY <2>1
    <3>3. QED
      BY <3>1, <3>2
  <2> DEFINE a == SubSeq(old, 1, j - 1)
             b == SubSeq(old, j + 1, Len(old))
  <2> HIDE DEF old
  <2>3. /\ a \in Seq(Texts) /\ b \in Seq(Texts)
        /\ LegalArgvs(old) => LegalArgvs(a) /\ LegalArgvs(b)
    <3>1. a \in Seq(Texts) /\ Len(a) = j - 1 /\ \A k \in 1..Len(a) : a[k] = old[k]
      BY <2>1, <2>2
    <3>2. b \in Seq(Texts) /\ Len(b) = Len(old) - j /\ \A k \in 1..Len(b) : b[k] = old[j + k]
      BY <2>1, <2>2
    <3>3. QED
      BY <2>1, <2>2, <3>1, <3>2 DEF LegalArgvs
  <2> HIDE DEF a, b
  <2>4. a \o b \in Seq(Texts) /\ (LegalArgvs(old) => LegalArgvs(a \o b))
    BY <2>3, ConcatLength, ConcatArguments
  <2>5. QED
    BY <2>4 DEF a, b
<1> HIDE DEF row
<1>3. QED
  BY <1>1, <1>2, NewRowInv

LEMMA ReadAtInv ==
  ASSUME MultiInv, NEW i \in Nat \ {0}, NEW field \in {"commands", "argvs", "maxprocs", "infos"},
         ReadAt(field, i)
  PROVE  MultiInv'
<1> DEFINE passed == TRUE
<1>1. Ready /\ Entry(field, i, passed, multi)
  BY DEF ReadAt, Entry
<1> HIDE DEF passed
<1>2. MultiOK(multi)
  BY <1>1, Members
<1>3. QED
  BY <1>1, <1>2, EntryInv

-----------------------------------------------------------------------------
(* Root, communicator and spawning. *)

LEMMA MSetRootInv ==
  ASSUME MultiInv, NEW r \in Int, MSetRoot(r)
  PROVE  MultiInv'
<1> DEFINE passed == Sanity(LegalRoot(r, multi.comm))
           m == [multi EXCEPT !.root = r]
<1>1. /\ UNCHANGED <<environment, pc, spawner>>
      /\ mpc' = IF passed THEN "ready" ELSE "aborted"
      /\ multi' = IF passed THEN m ELSE None
  BY DEF MSetRoot
<1>2. passed => MultiOK(m)
  BY Members DEF MSetRoot, MultiOK, PartOK, MultiSpawners, Sanity
<1> HIDE DEF passed, m
<1>3. QED
  BY <1>1, <1>2, OutcomeInv

LEMMA MSetCommunicatorInv ==
  ASSUME MultiInv, NEW c \in Comms \union {NullComm}, MSetCommunicator(c)
  PROVE  MultiInv'
<1> DEFINE passed == Precondition(LegalCommunicator(c)) /\ Sanity(LegalRoot(multi.root, c))
           m == [multi EXCEPT !.comm = c]
<1>1. /\ UNCHANGED <<environment, pc, spawner>>
      /\ mpc' = IF passed THEN "ready" ELSE "aborted"
      /\ multi' = IF passed THEN m ELSE None
  BY DEF MSetCommunicator
<1>2. passed => MultiOK(m)
  BY Members
  DEF MSetCommunicator, MultiOK, PartOK, MultiSpawners, Precondition, Sanity
<1> HIDE DEF passed, m
<1>3. QED
  BY <1>1, <1>2, OutcomeInv

LEMMA MSpawnAbortsInv ==
  ASSUME MultiInv, MSpawnAborts
  PROVE  MultiInv'
<1>1. UNCHANGED <<environment, pc, spawner>> /\ mpc' = "aborted" /\ multi' = None
  BY DEF MSpawnAborts
<1>2. QED
  BY <1>1, OutcomeInv

-----------------------------------------------------------------------------
(* The whole. *)

LEMMA MultiStepInv ==
  ASSUME MultiInv, MultiStep
  PROVE  MultiInv'
<1> MultiNumbers \subseteq Int /\ Indices \subseteq Nat \ {0} /\ 1..MaxArgs \subseteq Nat \ {0}
  BY SpawnerAssumption, MultipleAssumption DEF Indices
<1>1. ASSUME NEW names \in ListsOf(Texts) \union {<<>>},
             NEW ns \in ListsOf(MultiNumbers) \union {<<>>}, MConstruct(names, ns)
      PROVE  MultiInv'
  <2>1. names \in Seq(Texts)
    <3>1. CASE names \in ListsOf(Texts)
      BY <3>1, ListsTyped
    <3>2. CASE names = <<>>
      BY <3>2
    <3>3. QED
      BY <3>1, <3>2
  <2>2. ns \in Seq(Int)
    BY NumbersTyped
  <2>3. QED
    BY <1>1, <2>1, <2>2, MConstructInv
<1>2. ASSUME NEW names \in ListsOf(Texts), SetCommands(names) PROVE MultiInv'
  BY <1>2, ListsTyped, SetCommandsInv
<1>3. CASE Convert
  BY <1>3, ConvertInv
<1>4. ASSUME NEW c \in Texts, NEW n \in MultiNumbers, Combine(c, n) PROVE MultiInv'
  BY <1>4, CombineInv
<1>5. ASSUME NEW c \in Texts, NEW n \in MultiNumbers, Extend(c, n) PROVE MultiInv'
  BY <1>5, ExtendInv
<1>6. ASSUME NEW ns \in ListsOf(MultiNumbers), SetMaxprocsOfAll(ns) PROVE MultiInv'
  BY <1>6, NumbersTyped, SetMaxprocsOfAllInv
<1>7. ASSUME NEW is \in ListsOf(Infos), SetSpawnInfos(is) PROVE MultiInv'
  BY <1>7, ListsTyped, SetSpawnInfosInv
<1>8. ASSUME NEW lists \in ListsOfArguments, AddArgvs(lists)
      PROVE  MultiInv'
  BY <1>8, RowsTyped, AddArgvsInv
<1>9. CASE RemoveArgvs
  BY <1>9, RemoveArgvsInv
<1>10. ASSUME NEW i \in Indices, NEW c \in Texts, SetCommandAt(i, c) PROVE MultiInv'
  BY <1>10, SetCommandAtInv
<1>11. ASSUME NEW i \in Indices, NEW n \in MultiNumbers, SetMaxprocsAt(i, n) PROVE MultiInv'
  BY <1>11, SetMaxprocsAtInv
<1>12. ASSUME NEW i \in Indices, NEW info \in Infos, SetSpawnInfoAt(i, info) PROVE MultiInv'
  BY <1>12, SetSpawnInfoAtInv
<1>13. ASSUME NEW i \in Indices, NEW args \in Arguments, AddArgvAt(i, args) PROVE MultiInv'
  BY <1>13, ArgumentsTyped, AddArgvAtInv
<1>14. ASSUME NEW i \in Indices, RemoveArgvAt(i) PROVE MultiInv'
  BY <1>14, RemoveArgvAtInv
<1>15. ASSUME NEW i \in Indices, NEW j \in 1..MaxArgs, RemoveArgAt(i, j) PROVE MultiInv'
  BY <1>15, RemoveArgAtInv
<1>16. ASSUME NEW i \in Indices, NEW field \in {"commands", "argvs", "maxprocs", "infos"},
              ReadAt(field, i)
       PROVE  MultiInv'
  BY <1>16, ReadAtInv
<1>17. ASSUME NEW r \in MultiNumbers, MSetRoot(r) PROVE MultiInv'
  BY <1>17, MSetRootInv
<1>18. ASSUME NEW c \in Comms \union {NullComm}, MSetCommunicator(c) PROVE MultiInv'
  BY <1>18, MSetCommunicatorInv
<1>19. CASE MSpawnAborts
  BY <1>19, MSpawnAbortsInv
<1>20. CASE MSpawnMessage \/ MSpawnCrashes
  BY <1>20, CrashInv DEF MSpawnMessage, MSpawnCrashes, StrayMessage
<1>21. ASSUME NEW w \in BOOLEAN, MSpawn(w) PROVE MultiInv'
  BY <1>21, SameInv DEF MSpawn
<1>22. QED
  BY <1>1, <1>2, <1>3, <1>4, <1>5, <1>6, <1>7, <1>8, <1>9, <1>10, <1>11, <1>12, <1>13,
     <1>14, <1>15, <1>16, <1>17, <1>18, <1>19, <1>20, <1>21, Zenon DEF MultiStep

LEMMA MNextInv == MultiInv /\ [MNext]_allvars => MultiInv'
<1> SUFFICES ASSUME MultiInv, [MNext]_allvars PROVE MultiInv'
  OBVIOUS
<1>1. CASE SingleStep
  <2>1. MembersInv'
    BY <1>1, NextKeeps DEF MultiInv, SingleStep, Kept
  <2>2. mpc' = "none"
    BY <1>1 DEF SingleStep, mvars
  <2>3. QED
    BY <2>1, <2>2 DEF MultiInv, EntriesInBounds
<1>2. CASE MultiStep
  BY <1>2, MultiStepInv
<1>3. CASE UNCHANGED allvars
  BY <1>3, SameInv DEF allvars, vars, environment
<1>4. QED
  BY <1>1, <1>2, <1>3 DEF MNext

LEMMA MInitInv == MInit => MultiInv
  BY InitInv DEF MInit, MultiInv, SpawnerInv, EntriesInBounds

\* The members of both spawners stay in order, whatever the client does.
THEOREM MultiInvariance == MSpec => []MultiInv
  BY MInitInv, MNextInv, PTL DEF MSpec

\* The members of a multiple_spawner keep their types, and argvs_, which no setter
\* replaces, has a row per command at every assertion level.
THEOREM MTyped == MSpec => []MTypeOK
<1>1. MultiInv => MTypeOK
  BY DEF MultiInv, MTypeOK, MultiOK, PartOK
<1>2. QED
  BY MultiInvariance, <1>1, PTL

\* multiple_spawner with all assertions: setters for all commands and for one, and
\* constructors from spawners, keep the four vectors as a whole legal.
THEOREM MLegalThroughout == MSpec => []MSettersKeepLegal
<1>1. MultiInv => MSettersKeepLegal
  BY DEF MultiInv, MSettersKeepLegal, MultiOK, PartOK
<1>2. QED
  BY MultiInvariance, <1>1, PTL

\* multiple_spawner with all assertions: an index compared with the number of
\* commands at construction is an index of the vector it goes to, in every call up
\* to the one whose assertion, making its message, ends the program by an index of
\* its own.
THEOREM SubscriptsInBounds == MSpec => []EntriesInBounds
<1>1. MultiInv => EntriesInBounds
  BY DEF MultiInv
<1>2. QED
  BY MultiInvariance, <1>1, PTL

-----------------------------------------------------------------------------
(* The refinement of CommandList. *)

\* All assertions are on and the vectors are in step: there is a list.
InUse == level = 2 /\ mpc = "ready" /\ Lengths(multi) = {multi.size}

OneOf(c, a, n, i) == [command |-> c, argv |-> a, maxprocs |-> n, info |-> i]

Zip(m) ==
  [k \in 1..m.size |-> OneOf(m.commands[k], m.argvs[k], m.maxprocs[k], m.infos[k])]

\* What operations do to a list that there is.
ListChange ==
  \/ List!SetCommands \/ List!SetMaxprocs \/ List!SetInfos
  \/ List!SetCommandAt \/ List!SetMaxprocsAt \/ List!SetInfoAt
  \/ List!RemoveArguments \/ List!RemoveArgumentsAt \/ List!RemoveArgumentAt
  \/ List!Append1 \/ List!AddArguments

LEMMA ZippedIs == Zipped = IF InUse THEN Zip(multi) ELSE None
  BY DEF Zipped, InUse, Zip, OneOf

\* Members in step, vector by vector.
Even(m) ==
  /\ m.size \in Nat
  /\ m.commands \in [1..m.size -> Texts] /\ m.argvs \in [1..m.size -> Seq(Texts)]
  /\ m.maxprocs \in [1..m.size -> Int] /\ m.infos \in [1..m.size -> Infos]
  /\ Len(m.commands) = m.size /\ Len(m.argvs) = m.size
  /\ Len(m.maxprocs) = m.size /\ Len(m.infos) = m.size

LEMMA EvenMembers ==
  ASSUME NEW m \in MultiSpawners, Lengths(m) = {m.size}
  PROVE  Even(m)
<1>1. /\ m.size \in Nat /\ m.commands \in Seq(Texts) /\ m.argvs \in Seq(Seq(Texts))
      /\ m.maxprocs \in Seq(Int) /\ m.infos \in Seq(Infos)
  BY DEF MultiSpawners
<1>2. /\ Len(m.commands) = m.size /\ Len(m.argvs) = m.size
      /\ Len(m.maxprocs) = m.size /\ Len(m.infos) = m.size
  BY DEF Lengths
<1>3. QED
  BY <1>1, <1>2 DEF Even

LEMMA ZipTyped ==
  ASSUME NEW m \in MultiSpawners, Lengths(m) = {m.size}, m.size > 0
  PROVE  Zip(m) \in Seq(List!Entries) \ {<<>>}
<1>1. Even(m)
  BY EvenMembers
<1> DEFINE n == m.size
<1>2. Zip(m) \in [1..n -> List!Entries] /\ n \in Nat
  BY <1>1 DEF Zip, OneOf, Even, List!Entries
<1>3. 1 \in DOMAIN Zip(m)
  BY <1>2
<1> HIDE DEF n
<1>4. Zip(m) \in Seq(List!Entries)
  BY <1>2
<1>5. QED
  BY <1>3, <1>4

\* A list appears as a whole and disappears as a whole; else it is changed.
LEMMA ChangeRefines ==
  ASSUME MultiInv, MultiInv', InUse /\ InUse' => Zip(multi)' = Zip(multi) \/ ListChange
  PROVE  [List!Next]_Zipped
<1>1. Zipped = (IF InUse THEN Zip(multi) ELSE None)
  BY ZippedIs
<1>2. Zipped' = (IF InUse' THEN Zip(multi)' ELSE None)
  BY DEF Zipped, InUse, Zip, OneOf
<1>3. InUse' => Zipped' \in Seq(List!Entries) \ {<<>>}
  <2> SUFFICES ASSUME InUse' PROVE Zipped' \in Seq(List!Entries) \ {<<>>}
    OBVIOUS
  <2> DEFINE m == multi'
  <2>1. m \in MultiSpawners /\ m.size > 0 /\ Lengths(m) = {m.size}
    BY DEF InUse, MultiInv, MultiOK, PartOK, Lengths
  <2>2. Zip(multi)' = Zip(m)
    BY DEF Zip
  <2> HIDE DEF m
  <2>3. Zip(m) \in Seq(List!Entries) \ {<<>>}
    BY <2>1, ZipTyped
  <2>4. QED
    BY <1>2, <2>2, <2>3
<1>4. CASE Zipped = None
  BY <1>2, <1>3, <1>4 DEF List!Next, List!Build
<1>5. CASE Zipped # None /\ Zipped' = None
  BY <1>5 DEF List!Next, List!Fail
<1>6. CASE Zipped # None /\ Zipped' # None
  <2>1. InUse /\ InUse' /\ Zipped = Zip(multi) /\ Zipped' = Zip(multi)'
    BY <1>1, <1>2, <1>6
  <2>2. Zipped' = Zipped \/ ListChange
    BY <2>1
  <2>3. QED
    BY <1>6, <2>2 DEF ListChange, List!Next
<1>7. QED
  BY <1>4, <1>5, <1>6

\* The members in use, before a step and after one that passes.
LEMMA InUseFacts ==
  ASSUME MultiInv, InUse
  PROVE  /\ Even(multi) /\ Zipped = Zip(multi) /\ DOMAIN Zipped = 1..multi.size
         /\ multi \in MultiSpawners /\ level = 2 /\ Ready /\ Sized
         /\ \A k \in 1..multi.size :
              Zipped[k] = OneOf(multi.commands[k], multi.argvs[k], multi.maxprocs[k],
                                multi.infos[k])
<1>1. multi \in MultiSpawners /\ level = 2 /\ Ready /\ Lengths(multi) = {multi.size}
  BY DEF MultiInv, MultiOK, PartOK, InUse, Ready
<1>2. Even(multi)
  BY <1>1, EvenMembers
<1>3. Zipped = Zip(multi)
  BY ZippedIs
<1>4. Sized
  <2> DEFINE L == Lengths(multi)
             n == multi.size
  <2>1. L = {n}
    BY <1>1
  <2> HIDE DEF L, n
  <2>2. Cardinality(L) = 1
    BY <2>1, FS_Singleton
  <2>3. QED
    BY <2>2 DEF Sized, Sanity, L
<1>5. QED
  BY <1>1, <1>2, <1>3, <1>4 DEF Zip

LEMMA PassedFacts ==
  ASSUME MultiInv', NEW passed, NEW members, Call(passed, members), InUse'
  PROVE  /\ passed /\ multi' = members /\ level = 2
         /\ Even(members) /\ Zipped' = Zip(members)
<1>1. mpc' = "ready" /\ level' = 2 /\ multi' \in MultiSpawners
  BY DEF InUse, MultiInv, MultiOK, PartOK
<1>2. passed /\ multi' = members /\ level = 2
  BY <1>1 DEF Call, environment
<1>3. members \in MultiSpawners /\ Lengths(members) = {members.size}
  BY <1>1, <1>2 DEF InUse, Lengths
<1>4. Even(members)
  BY <1>3, EvenMembers
<1>5. Zipped' = Zip(members)
  BY <1>2 DEF Zipped, Zip, InUse, OneOf
<1>6. QED
  BY <1>2, <1>4, <1>5

LEMMA SetCommandsRefines ==
  ASSUME MultiInv, MultiInv', NEW names \in Seq(Texts), SetCommands(names)
  PROVE  [List!Next]_Zipped
<1> DEFINE m == [multi EXCEPT !.commands = names]
<1>1. PICK passed : Call(passed, m)
  BY DEF SetCommands
<1>2. ASSUME InUse, InUse'
      PROVE  ListChange
  <2>1. /\ m.size = multi.size /\ m.commands = names /\ m.argvs = multi.argvs
        /\ m.maxprocs = multi.maxprocs /\ m.infos = multi.infos
    BY <1>2, InUseFacts DEF MultiSpawners
  <2> HIDE DEF m
  <2>2. Zipped' = Zip(m) /\ Even(m)
    BY <1>1, <1>2, PassedFacts
  <2>3. /\ DOMAIN Zipped = 1..multi.size
        /\ \A k \in 1..multi.size :
             Zipped[k] = OneOf(multi.commands[k], multi.argvs[k], multi.maxprocs[k],
                               multi.infos[k])
    BY <1>2, InUseFacts
  <2>4. names \in [DOMAIN Zipped -> Texts]
    BY <2>1, <2>2, <2>3 DEF Even
  <2>5. Zipped' = [k \in DOMAIN Zipped |-> [Zipped[k] EXCEPT !.command = names[k]]]
    <3>1. ASSUME NEW k \in 1..multi.size
          PROVE  [Zipped[k] EXCEPT !.command = names[k]]
                   = OneOf(names[k], multi.argvs[k], multi.maxprocs[k], multi.infos[k])
      <4>1. Zipped[k] = OneOf(multi.commands[k], multi.argvs[k], multi.maxprocs[k],
                              multi.infos[k])
        BY <2>3
      <4>2. QED
        BY <4>1 DEF OneOf
    <3>2. Zip(m) = [k \in 1..multi.size |->
                      OneOf(names[k], multi.argvs[k], multi.maxprocs[k], multi.infos[k])]
      BY <2>1 DEF Zip
    <3>3. QED
      BY <2>2, <2>3, <3>1, <3>2
  <2>6. QED
    BY <2>4, <2>5 DEF ListChange, List!SetCommands
<1>3. QED
  BY <1>2, ChangeRefines

LEMMA SetMaxprocsOfAllRefines ==
  ASSUME MultiInv, MultiInv', NEW ns \in Seq(MultiNumbers), SetMaxprocsOfAll(ns)
  PROVE  [List!Next]_Zipped
<1> DEFINE m == [multi EXCEPT !.maxprocs = ns]
<1>1. \/ \E passed : Call(passed, m)
      \/ Crash("message")
  BY DEF SetMaxprocsOfAll, StrayMessage
<1>2. ASSUME InUse, InUse'
      PROVE  ListChange
  <2>1. /\ m.size = multi.size /\ m.commands = multi.commands /\ m.argvs = multi.argvs
        /\ m.maxprocs = ns /\ m.infos = multi.infos
    BY <1>2, InUseFacts DEF MultiSpawners
  <2> HIDE DEF m
  <2>2. Zipped' = Zip(m) /\ Even(m)
    BY <1>1, <1>2, PassedFacts DEF Crash, InUse
  <2>3. /\ DOMAIN Zipped = 1..multi.size
        /\ \A k \in 1..multi.size :
             Zipped[k] = OneOf(multi.commands[k], multi.argvs[k], multi.maxprocs[k],
                               multi.infos[k])
    BY <1>2, InUseFacts
  <2>4. ns \in [DOMAIN Zipped -> Numbers]
    <3>1. DOMAIN ns = 1..multi.size /\ ns = [k \in 1..multi.size |-> ns[k]]
      BY <2>1, <2>2 DEF Even
    <3>2. MultiNumbers \subseteq Numbers
      BY MultipleAssumption
    <3>3. \A k \in DOMAIN ns : ns[k] \in MultiNumbers
      OBVIOUS
    <3>4. QED
      BY <2>3, <3>1, <3>2, <3>3
  <2>5. Zipped' = [k \in DOMAIN Zipped |-> [Zipped[k] EXCEPT !.maxprocs = ns[k]]]
    <3>1. ASSUME NEW k \in 1..multi.size
          PROVE  [Zipped[k] EXCEPT !.maxprocs = ns[k]]
                   = OneOf(multi.commands[k], multi.argvs[k], ns[k], multi.infos[k])
      <4>1. Zipped[k] = OneOf(multi.commands[k], multi.argvs[k], multi.maxprocs[k],
                              multi.infos[k])
        BY <2>3
      <4>2. QED
        BY <4>1 DEF OneOf
    <3>2. Zip(m) = [k \in 1..multi.size |->
                      OneOf(multi.commands[k], multi.argvs[k], ns[k], multi.infos[k])]
      BY <2>1 DEF Zip
    <3>3. QED
      BY <2>2, <2>3, <3>1, <3>2
  <2>6. QED
    BY <2>4, <2>5 DEF ListChange, List!SetMaxprocs
<1>3. QED
  BY <1>2, ChangeRefines

LEMMA SetSpawnInfosRefines ==
  ASSUME MultiInv, MultiInv', NEW is \in Seq(Infos), SetSpawnInfos(is)
  PROVE  [List!Next]_Zipped
<1> DEFINE m == [multi EXCEPT !.infos = is]
<1>1. PICK passed : Call(passed, m)
  BY DEF SetSpawnInfos
<1>2. ASSUME InUse, InUse'
      PROVE  ListChange
  <2>1. /\ m.size = multi.size /\ m.commands = multi.commands /\ m.argvs = multi.argvs
        /\ m.maxprocs = multi.maxprocs /\ m.infos = is
    BY <1>2, InUseFacts DEF MultiSpawners
  <2> HIDE DEF m
  <2>2. Zipped' = Zip(m) /\ Even(m)
    BY <1>1, <1>2, PassedFacts
  <2>3. /\ DOMAIN Zipped = 1..multi.size
        /\ \A k \in 1..multi.size :
             Zipped[k] = OneOf(multi.commands[k], multi.argvs[k], multi.maxprocs[k],
                               multi.infos[k])
    BY <1>2, InUseFacts
  <2>4. is \in [DOMAIN Zipped -> Infos]
    BY <2>1, <2>2, <2>3 DEF Even
  <2>5. Zipped' = [k \in DOMAIN Zipped |-> [Zipped[k] EXCEPT !.info = is[k]]]
    <3>1. ASSUME NEW k \in 1..multi.size
          PROVE  [Zipped[k] EXCEPT !.info = is[k]]
                   = OneOf(multi.commands[k], multi.argvs[k], multi.maxprocs[k], is[k])
      <4>1. Zipped[k] = OneOf(multi.commands[k], multi.argvs[k], multi.maxprocs[k],
                              multi.infos[k])
        BY <2>3
      <4>2. QED
        BY <4>1 DEF OneOf
    <3>2. Zip(m) = [k \in 1..multi.size |->
                      OneOf(multi.commands[k], multi.argvs[k], multi.maxprocs[k], is[k])]
      BY <2>1 DEF Zip
    <3>3. QED
      BY <2>2, <2>3, <3>1, <3>2
  <2>6. QED
    BY <2>4, <2>5 DEF ListChange, List!SetInfos
<1>3. QED
  BY <1>2, ChangeRefines

LEMMA RemoveArgvsRefines ==
  ASSUME MultiInv, MultiInv', RemoveArgvs
  PROVE  [List!Next]_Zipped
<1> DEFINE rows == [k \in 1..multi.size |-> <<>>]
           m == [multi EXCEPT !.argvs = rows]
<1>1. Call(Sized, m)
  BY DEF RemoveArgvs
<1>2. ASSUME InUse, InUse'
      PROVE  ListChange
  <2>1. /\ m.size = multi.size /\ m.commands = multi.commands /\ m.argvs = rows
        /\ m.maxprocs = multi.maxprocs /\ m.infos = multi.infos
    <3> HIDE DEF rows
    <3>1. QED
      BY <1>2, InUseFacts DEF MultiSpawners
  <2> HIDE DEF m
  <2>2. Zipped' = Zip(m) /\ Even(m)
    BY <1>1, <1>2, PassedFacts
  <2>3. /\ DOMAIN Zipped = 1..multi.size
        /\ \A k \in 1..multi.size :
             Zipped[k] = OneOf(multi.commands[k], multi.argvs[k], multi.maxprocs[k],
                               multi.infos[k])
    BY <1>2, InUseFacts
  <2>4. Zipped' = [k \in DOMAIN Zipped |-> [Zipped[k] EXCEPT !.argv = <<>>]]
    <3>1. ASSUME NEW k \in 1..multi.size
          PROVE  [Zipped[k] EXCEPT !.argv = <<>>]
                   = OneOf(multi.commands[k], <<>>, multi.maxprocs[k], multi.infos[k])
      <4>1. Zipped[k] = OneOf(multi.commands[k], multi.argvs[k], multi.maxprocs[k],
                              multi.infos[k])
        BY <2>3
      <4>2. QED
        BY <4>1 DEF OneOf
    <3>2. Zip(m) = [k \in 1..multi.size |->
                      OneOf(multi.commands[k], <<>>, multi.maxprocs[k], multi.infos[k])]
      BY <2>1 DEF Zip
    <3>3. QED
      BY <2>2, <2>3, <3>1, <3>2
  <2>5. QED
    BY <2>4 DEF ListChange, List!RemoveArguments
<1>3. QED
  BY <1>2, ChangeRefines

\* Arguments behind those an entry has.
LEMMA ConcatPrefix ==
  ASSUME NEW S, NEW a \in Seq(S), NEW b \in Seq(S)
  PROVE  Len(a \o b) >= Len(a) /\ SubSeq(a \o b, 1, Len(a)) = a
<1> DEFINE c == a \o b
<1>1. /\ Len(a) \in Nat /\ Len(c) \in Nat /\ Len(c) >= Len(a) /\ c \in Seq(S)
      /\ \A k \in 1..Len(a) : c[k] = a[k]
  OBVIOUS
<1> HIDE DEF c
<1>2. SubSeq(c, 1, Len(a)) = a
  <2>1. /\ SubSeq(c, 1, Len(a)) \in Seq(S) /\ Len(SubSeq(c, 1, Len(a))) = Len(a)
        /\ \A k \in 1..Len(a) : SubSeq(c, 1, Len(a))[k] = c[k]
    BY <1>1
  <2>2. QED
    BY <1>1, <2>1
<1>3. QED
  BY <1>1, <1>2 DEF c

LEMMA MoreArguments ==
  ASSUME MultiInv, InUse, NEW m, Even(m), Zipped' = Zip(m),
         m.size = multi.size, m.commands = multi.commands,
         m.maxprocs = multi.maxprocs, m.infos = multi.infos,
         \A k \in 1..multi.size : \E more \in Seq(Texts) : m.argvs[k] = multi.argvs[k] \o more
  PROVE  ListChange
<1>1. /\ DOMAIN Zipped = 1..multi.size /\ Even(multi)
      /\ \A k \in 1..multi.size :
           Zipped[k] = OneOf(multi.commands[k], multi.argvs[k], multi.maxprocs[k],
                             multi.infos[k])
  BY InUseFacts
<1>2. DOMAIN Zipped' = DOMAIN Zipped
  BY <1>1 DEF Zip
<1>3. ASSUME NEW k \in DOMAIN Zipped
      PROVE  /\ Len(Zipped'[k].argv) >= Len(Zipped[k].argv)
             /\ SubSeq(Zipped'[k].argv, 1, Len(Zipped[k].argv)) = Zipped[k].argv
             /\ Zipped'[k] = [Zipped[k] EXCEPT !.argv = Zipped'[k].argv]
  <2>1. /\ Zipped[k] = OneOf(multi.commands[k], multi.argvs[k], multi.maxprocs[k], multi.infos[k])
        /\ Zipped'[k] = OneOf(multi.commands[k], m.argvs[k], multi.maxprocs[k], multi.infos[k])
        /\ multi.argvs[k] \in Seq(Texts)
    BY <1>1 DEF Zip, Even
  <2>2. Zipped[k].argv = multi.argvs[k] /\ Zipped'[k].argv = m.argvs[k]
    BY <2>1 DEF OneOf
  <2>3. PICK more \in Seq(Texts) : m.argvs[k] = multi.argvs[k] \o more
    BY <1>1
  <2>4. /\ Len(m.argvs[k]) >= Len(multi.argvs[k])
        /\ SubSeq(m.argvs[k], 1, Len(multi.argvs[k])) = multi.argvs[k]
    BY <2>1, <2>3, ConcatPrefix
  <2>5. Zipped'[k] = [Zipped[k] EXCEPT !.argv = m.argvs[k]]
    BY <2>1 DEF OneOf
  <2>6. QED
    BY <2>2, <2>4, <2>5
<1>4. QED
  BY <1>2, <1>3 DEF ListChange, List!AddArguments

LEMMA AddArgvsRefines ==
  ASSUME MultiInv, MultiInv', NEW lists \in Seq(Seq(Texts)), AddArgvs(lists)
  PROVE  [List!Next]_Zipped
<1> DEFINE rows == [k \in DOMAIN multi.argvs |->
                      IF k \in DOMAIN lists THEN multi.argvs[k] \o lists[k] ELSE multi.argvs[k]]
           m == [multi EXCEPT !.argvs = rows]
<1>1. PICK passed : Call(passed, m)
  BY Members DEF AddArgvs, MultiSpawners
<1>2. ASSUME InUse, InUse'
      PROVE  ListChange
  <2>1. /\ m.size = multi.size /\ m.commands = multi.commands /\ m.argvs = rows
        /\ m.maxprocs = multi.maxprocs /\ m.infos = multi.infos
    <3> HIDE DEF rows
    <3>1. QED
      BY <1>2, InUseFacts DEF MultiSpawners
  <2> HIDE DEF m
  <2>2. Zipped' = Zip(m) /\ Even(m)
    BY <1>1, <1>2, PassedFacts
  <2>3. ASSUME NEW k \in 1..multi.size
        PROVE  \E more \in Seq(Texts) : m.argvs[k] = multi.argvs[k] \o more
    <3>1. k \in DOMAIN multi.argvs /\ multi.argvs[k] \in Seq(Texts)
      BY <1>2, InUseFacts DEF Even
    <3>2. CASE k \in DOMAIN lists
      <4>1. lists[k] \in Seq(Texts) /\ m.argvs[k] = multi.argvs[k] \o lists[k]
        BY <2>1, <3>1, <3>2
      <4>2. QED
        BY <4>1
    <3>3. CASE k \notin DOMAIN lists
      <4>1. multi.argvs[k] \o <<>> = multi.argvs[k] /\ <<>> \in Seq(Texts)
        BY <3>1
      <4>2. QED
        BY <2>1, <3>1, <3>3, <4>1
    <3>4. QED
      BY <3>2, <3>3
  <2>4. QED
    BY <1>2, <2>1, <2>2, <2>3, MoreArguments
<1>3. QED
  BY <1>2, ChangeRefines

\* Who crashes has no list any more.
LEMMA CrashRefines ==
  ASSUME MultiInv, MultiInv', NEW where \in {"subscript", "message", "argvs"}, Crash(where)
  PROVE  [List!Next]_Zipped
  BY ChangeRefines DEF Crash, InUse

\* An index that passes the test is the index of an entry.
LEMMA EntryRefines ==
  ASSUME MultiInv, MultiInv', NEW field \in {"commands", "argvs", "maxprocs", "infos"},
         NEW i \in Nat \ {0}, NEW passed, NEW members, Entry(field, i, passed, members),
         InUse /\ i \in 1..multi.size /\ Even(members) /\ Zipped' = Zip(members)
           => Zip(members) = Zip(multi) \/ ListChange
  PROVE  [List!Next]_Zipped
<1>1. CASE ~Sized /\ Call(FALSE, None)
  BY <1>1, ChangeRefines, PassedFacts
<1>2. CASE Stray
  <2>1. CASE Crash("subscript")
    BY <2>1, ChangeRefines DEF Crash, InUse
  <2>2. CASE UNCHANGED allvars
    BY <2>2, ChangeRefines DEF allvars, mvars, Zip
  <2>3. QED
    BY <1>2, <2>1, <2>2 DEF Stray
<1>3. CASE i <= Len(multi[field]) /\ Call(Sanity(passed), members)
  <2>1. ASSUME InUse, InUse'
        PROVE  Zip(multi)' = Zip(multi) \/ ListChange
    <3>1. Len(multi[field]) = multi.size /\ multi.size \in Nat
      BY <2>1, InUseFacts DEF Even
    <3>2. i \in 1..multi.size
      BY <1>3, <3>1
    <3>3. Even(members) /\ Zipped' = Zip(members) /\ multi' = members
      BY <1>3, <2>1, PassedFacts
    <3>4. Zip(multi)' = Zip(members)
      BY <3>3 DEF Zip
    <3>5. QED
      BY <2>1, <3>2, <3>3, <3>4
  <2>2. QED
    BY <2>1, ChangeRefines
<1>4. QED
  BY <1>1, <1>2, <1>3 DEF Entry

LEMMA SetCommandAtRefines ==
  ASSUME MultiInv, MultiInv', NEW i \in Nat \ {0}, NEW c \in Texts, SetCommandAt(i, c)
  PROVE  [List!Next]_Zipped
<1> DEFINE names == [multi.commands EXCEPT ![i] = c]
           m == [multi EXCEPT !.commands = names]
<1>1. Entry("commands", i, LegalCommand(c), m)
  BY DEF SetCommandAt
<1>2. ASSUME InUse, i \in 1..multi.size, Zipped' = Zip(m)
      PROVE  ListChange
  <2>1. /\ m.size = multi.size /\ m.commands = names /\ m.argvs = multi.argvs
        /\ m.maxprocs = multi.maxprocs /\ m.infos = multi.infos
    <3> HIDE DEF names
    <3>1. QED
      BY <1>2, InUseFacts DEF MultiSpawners
  <2>2. \A k \in 1..multi.size : names[k] = IF k = i THEN c ELSE multi.commands[k]
    BY <1>2, InUseFacts DEF Even
  <2> HIDE DEF m, names
  <2>3. /\ DOMAIN Zipped = 1..multi.size /\ Zipped = Zip(multi)
        /\ \A k \in 1..multi.size :
             Zipped[k] = OneOf(multi.commands[k], multi.argvs[k], multi.maxprocs[k],
                               multi.infos[k])
    BY <1>2, InUseFacts
  <2>4. [Zipped[i] EXCEPT !.command = c]
          = OneOf(c, multi.argvs[i], multi.maxprocs[i], multi.infos[i])
    <3>1. Zipped[i] = OneOf(multi.commands[i], multi.argvs[i], multi.maxprocs[i],
                            multi.infos[i])
      BY <1>2, <2>3
    <3>2. QED
      BY <3>1 DEF OneOf
  <2>5. Zip(m) = [Zipped EXCEPT ![i] = [Zipped[i] EXCEPT !.command = c]]
    BY <1>2, <2>1, <2>2, <2>3, <2>4 DEF Zip
  <2>6. Zipped' = [Zipped EXCEPT ![i].command = c]
    BY <1>2, <2>5
  <2>7. QED
    BY <1>2, <2>3, <2>6 DEF ListChange, List!SetCommandAt
<1> HIDE DEF m
<1>3. QED
  BY <1>1, <1>2, EntryRefines

LEMMA SetMaxprocsAtRefines ==
  ASSUME MultiInv, MultiInv', NEW i \in Nat \ {0}, NEW n \in MultiNumbers,
         SetMaxprocsAt(i, n)
  PROVE  [List!Next]_Zipped
<1> DEFINE ns == [multi.maxprocs EXCEPT ![i] = n]
           m == [multi EXCEPT !.maxprocs = ns]
<1>1. Entry("maxprocs", i, LegalNumbers(ns) /\ LegalTotal(ns), m) \/ Crash("message")
  BY DEF SetMaxprocsAt, StrayMessageAt, StrayMessage
<1>2. ASSUME InUse, i \in 1..multi.size, Zipped' = Zip(m)
      PROVE  ListChange
  <2>1. /\ m.size = multi.size /\ m.commands = multi.commands /\ m.argvs = multi.argvs
        /\ m.maxprocs = ns /\ m.infos = multi.infos
    <3> HIDE DEF ns
    <3>1. QED
      BY <1>2, InUseFacts DEF MultiSpawners
  <2>2. \A k \in 1..multi.size : ns[k] = IF k = i THEN n ELSE multi.maxprocs[k]
    BY <1>2, InUseFacts DEF Even
  <2> HIDE DEF m, ns
  <2>3. /\ DOMAIN Zipped = 1..multi.size /\ Zipped = Zip(multi)
        /\ \A k \in 1..multi.size :
             Zipped[k] = OneOf(multi.commands[k], multi.argvs[k], multi.maxprocs[k],
                               multi.infos[k])
    BY <1>2, InUseFacts
  <2>4. [Zipped[i] EXCEPT !.maxprocs = n]
          = OneOf(multi.commands[i], multi.argvs[i], n, multi.infos[i])
    <3>1. Zipped[i] = OneOf(multi.commands[i], multi.argvs[i], multi.maxprocs[i],
                            multi.infos[i])
      BY <1>2, <2>3
    <3>2. QED
      BY <3>1 DEF OneOf
  <2>5. Zip(m) = [Zipped EXCEPT ![i] = [Zipped[i] EXCEPT !.maxprocs = n]]
    BY <1>2, <2>1, <2>2, <2>3, <2>4 DEF Zip
  <2>6. Zipped' = [Zipped EXCEPT ![i].maxprocs = n]
    BY <1>2, <2>5
  <2>7. n \in Numbers
    BY MultipleAssumption
  <2>8. QED
    BY <1>2, <2>3, <2>6, <2>7 DEF ListChange, List!SetMaxprocsAt
<1> HIDE DEF m
<1>3. QED
  BY <1>1, <1>2, EntryRefines, CrashRefines

LEMMA SetSpawnInfoAtRefines ==
  ASSUME MultiInv, MultiInv', NEW i \in Nat \ {0}, NEW info \in Infos,
         SetSpawnInfoAt(i, info)
  PROVE  [List!Next]_Zipped
<1> DEFINE is == [multi.infos EXCEPT ![i] = info]
           m == [multi EXCEPT !.infos = is]
<1>1. Entry("infos", i, TRUE, m)
  BY DEF SetSpawnInfoAt
<1>2. ASSUME InUse, i \in 1..multi.size, Zipped' = Zip(m)
      PROVE  ListChange
  <2>1. /\ m.size = multi.size /\ m.commands = multi.commands /\ m.argvs = multi.argvs
        /\ m.maxprocs = multi.maxprocs /\ m.infos = is
    <3> HIDE DEF is
    <3>1. QED
      BY <1>2, InUseFacts DEF MultiSpawners
  <2>2. \A k \in 1..multi.size : is[k] = IF k = i THEN info ELSE multi.infos[k]
    BY <1>2, InUseFacts DEF Even
  <2> HIDE DEF m, is
  <2>3. /\ DOMAIN Zipped = 1..multi.size /\ Zipped = Zip(multi)
        /\ \A k \in 1..multi.size :
             Zipped[k] = OneOf(multi.commands[k], multi.argvs[k], multi.maxprocs[k],
                               multi.infos[k])
    BY <1>2, InUseFacts
  <2>4. [Zipped[i] EXCEPT !.info = info]
          = OneOf(multi.commands[i], multi.argvs[i], multi.maxprocs[i], info)
    <3>1. Zipped[i] = OneOf(multi.commands[i], multi.argvs[i], multi.maxprocs[i],
                            multi.infos[i])
      BY <1>2, <2>3
    <3>2. QED
      BY <3>1 DEF OneOf
  <2>5. Zip(m) = [Zipped EXCEPT ![i] = [Zipped[i] EXCEPT !.info = info]]
    BY <1>2, <2>1, <2>2, <2>3, <2>4 DEF Zip
  <2>6. Zipped' = [Zipped EXCEPT ![i].info = info]
    BY <1>2, <2>5
  <2>7. QED
    BY <1>2, <2>3, <2>6 DEF ListChange, List!SetInfoAt
<1> HIDE DEF m
<1>3. QED
  BY <1>1, <1>2, EntryRefines

LEMMA RemoveArgvAtRefines ==
  ASSUME MultiInv, MultiInv', NEW i \in Nat \ {0}, RemoveArgvAt(i)
  PROVE  [List!Next]_Zipped
<1> DEFINE rows == [multi.argvs EXCEPT ![i] = <<>>]
           m == [multi EXCEPT !.argvs = rows]
<1>1. Entry("argvs", i, TRUE, m)
  BY DEF RemoveArgvAt
<1>2. ASSUME InUse, i \in 1..multi.size, Zipped' = Zip(m)
      PROVE  ListChange
  <2>1. /\ m.size = multi.size /\ m.commands = multi.commands /\ m.argvs = rows
        /\ m.maxprocs = multi.maxprocs /\ m.infos = multi.infos
    <3> HIDE DEF rows
    <3>1. QED
      BY <1>2, InUseFacts DEF MultiSpawners
  <2>2. \A k \in 1..multi.size : rows[k] = IF k = i THEN <<>> ELSE multi.argvs[k]
    BY <1>2, InUseFacts DEF Even
  <2> HIDE DEF m, rows
  <2>3. /\ DOMAIN Zipped = 1..multi.size /\ Zipped = Zip(multi)
        /\ \A k \in 1..multi.size :
             Zipped[k] = OneOf(multi.commands[k], multi.argvs[k], multi.maxprocs[k],
                               multi.infos[k])
    BY <1>2, InUseFacts
  <2>4. [Zipped[i] EXCEPT !.argv = <<>>]
          = OneOf(multi.commands[i], <<>>, multi.maxprocs[i], multi.infos[i])
    <3>1. Zipped[i] = OneOf(multi.commands[i], multi.argvs[i], multi.maxprocs[i],
                            multi.infos[i])
      BY <1>2, <2>3
    <3>2. QED
      BY <3>1 DEF OneOf
  <2>5. Zip(m) = [Zipped EXCEPT ![i] = [Zipped[i] EXCEPT !.argv = <<>>]]
    BY <1>2, <2>1, <2>2, <2>3, <2>4 DEF Zip
  <2>6. Zipped' = [Zipped EXCEPT ![i].argv = <<>>]
    BY <1>2, <2>5
  <2>7. QED
    BY <1>2, <2>3, <2>6 DEF ListChange, List!RemoveArgumentsAt
<1> HIDE DEF m
<1>3. QED
  BY <1>1, <1>2, EntryRefines

LEMMA RemoveArgAtRefines ==
  ASSUME MultiInv, MultiInv', NEW i \in Nat \ {0}, NEW j \in Nat \ {0}, RemoveArgAt(i, j)
  PROVE  [List!Next]_Zipped
<1> DEFINE old == multi.argvs[i]
           left == SubSeq(old, 1, j - 1) \o SubSeq(old, j + 1, Len(old))
           rows == [multi.argvs EXCEPT ![i] = left]
           m == [multi EXCEPT !.argvs = rows]
<1>1. Entry("argvs", i, TRUE, m) /\ (i \in DOMAIN multi.argvs => j \in DOMAIN multi.argvs[i])
  BY DEF RemoveArgAt
<1>2. ASSUME InUse, i \in 1..multi.size, Zipped' = Zip(m)
      PROVE  ListChange
  <2>1. /\ m.size = multi.size /\ m.commands = multi.commands /\ m.argvs = rows
        /\ m.maxprocs = multi.maxprocs /\ m.infos = multi.infos
    <3> HIDE DEF rows
    <3>1. QED
      BY <1>2, InUseFacts DEF MultiSpawners
  <2>2. \A k \in 1..multi.size : rows[k] = IF k = i THEN left ELSE multi.argvs[k]
    <3> HIDE DEF left
    <3>1. QED
      BY <1>2, InUseFacts DEF Even
  <2>3. j \in DOMAIN old
    BY <1>1, <1>2, InUseFacts DEF Even
  <2> HIDE DEF m, rows, left, old
  <2>4. /\ DOMAIN Zipped = 1..multi.size /\ Zipped = Zip(multi)
        /\ \A k \in 1..multi.size :
             Zipped[k] = OneOf(multi.commands[k], multi.argvs[k], multi.maxprocs[k],
                               multi.infos[k])
    BY <1>2, InUseFacts
  <2>5. Zipped[i] = OneOf(multi.commands[i], old, multi.maxprocs[i], multi.infos[i])
    BY <1>2, <2>4 DEF old
  <2>6. /\ [Zipped[i] EXCEPT !.argv = left]
             = OneOf(multi.commands[i], left, multi.maxprocs[i], multi.infos[i])
        /\ Zipped[i].argv = old
    BY <2>5 DEF OneOf
  <2>7. Zip(m) = [Zipped EXCEPT ![i] = [Zipped[i] EXCEPT !.argv = left]]
    BY <1>2, <2>1, <2>2, <2>4, <2>6 DEF Zip
  <2>8. Zipped' = [Zipped EXCEPT ![i].argv = SubSeq(@, 1, j - 1) \o SubSeq(@, j + 1, Len(@))]
    BY <1>2, <2>6, <2>7 DEF left
  <2>9. List!RemoveArgumentAt
    BY <1>2, <2>3, <2>4, <2>6, <2>8 DEF List!RemoveArgumentAt
  <2>10. QED
    BY <2>9 DEF ListChange
<1> HIDE DEF m
<1>3. QED
  BY <1>1, <1>2, EntryRefines

LEMMA AddArgvAtRefines ==
  ASSUME MultiInv, MultiInv', NEW i \in Nat \ {0}, NEW args \in Seq(Texts), AddArgvAt(i, args)
  PROVE  [List!Next]_Zipped
<1> DEFINE row == multi.argvs[i] \o args
           rows == [multi.argvs EXCEPT ![i] = row]
           m == [multi EXCEPT !.argvs = rows]
<1>1. Entry("argvs", i, LegalArgvs(args), m)
  BY DEF AddArgvAt
<1>2. ASSUME InUse, i \in 1..multi.size, Even(m), Zipped' = Zip(m)
      PROVE  ListChange
  <2>1. /\ m.size = multi.size /\ m.commands = multi.commands /\ m.argvs = rows
        /\ m.maxprocs = multi.maxprocs /\ m.infos = multi.infos
    <3> HIDE DEF rows
    <3>1. QED
      BY <1>2, InUseFacts DEF MultiSpawners
  <2>2. \A k \in 1..multi.size : rows[k] = IF k = i THEN row ELSE multi.argvs[k]
    <3> HIDE DEF row
    <3>1. QED
      BY <1>2, InUseFacts DEF Even
  <2> HIDE DEF m, rows
  <2>3. ASSUME NEW k \in 1..multi.size
        PROVE  \E more \in Seq(Texts) : m.argvs[k] = multi.argvs[k] \o more
    <3>1. multi.argvs[k] \in Seq(Texts)
      BY <1>2, InUseFacts DEF Even
    <3>2. multi.argvs[k] \o <<>> = multi.argvs[k] /\ <<>> \in Seq(Texts)
      BY <3>1
    <3>3. QED
      BY <2>1, <2>2, <3>2
  <2>4. QED
    BY <1>2, <2>1, <2>3, MoreArguments
<1> HIDE DEF m
<1>3. QED
  BY <1>1, <1>2, EntryRefines

LEMMA ReadAtRefines ==
  ASSUME MultiInv, MultiInv', NEW field \in {"commands", "argvs", "maxprocs", "infos"},
         NEW i \in Nat \ {0}, ReadAt(field, i)
  PROVE  [List!Next]_Zipped
<1>1. Entry(field, i, TRUE, multi)
  BY DEF ReadAt
<1>2. QED
  BY <1>1, EntryRefines

\* Steps that leave the members of the multiple spawner alone, but for the root and
\* the communicator, or take them away.
LEMMA AsideRefines ==
  ASSUME MultiInv, MultiInv',
         \/ mpc # "ready" \/ mpc' # "ready"
         \/ UNCHANGED mvars /\ level' = level
         \/ /\ mpc = "ready" /\ level' = level
            /\ \/ \E r : multi' = [multi EXCEPT !.root = r]
               \/ \E c : multi' = [multi EXCEPT !.comm = c]
  PROVE  [List!Next]_Zipped
<1>1. CASE mpc # "ready" \/ mpc' # "ready"
  BY <1>1, ChangeRefines DEF InUse
<1>2. CASE UNCHANGED mvars /\ level' = level
  <2>1. Zip(multi)' = Zip(multi)
    BY <1>2 DEF mvars, Zip
  <2>2. QED
    BY <2>1, ChangeRefines
<1>3. CASE /\ mpc = "ready" /\ level' = level
           /\ \/ \E r : multi' = [multi EXCEPT !.root = r]
              \/ \E c : multi' = [multi EXCEPT !.comm = c]
  <2>1. multi \in MultiSpawners
    BY <1>3 DEF MultiInv, MultiOK, PartOK
  <2>2. /\ multi'.size = multi.size /\ multi'.commands = multi.commands
        /\ multi'.argvs = multi.argvs /\ multi'.maxprocs = multi.maxprocs
        /\ multi'.infos = multi.infos
    BY <1>3, <2>1 DEF MultiSpawners
  <2>3. Zip(multi)' = Zip(multi)
    BY <2>2 DEF Zip
  <2>4. QED
    BY <2>3, ChangeRefines
<1>4. QED
  BY <1>1, <1>2, <1>3

\* The entries of a list that is put together are those of its parts, in order.
LEMMA ConcatAt ==
  ASSUME NEW S, NEW a \in Seq(S), NEW b \in Seq(S), NEW n \in Nat, Len(a) = n,
         NEW k \in 1..(n + Len(b))
  PROVE  (a \o b)[k] = IF k <= n THEN a[k] ELSE b[k - n]
  OBVIOUS

LEMMA SameEntries ==
  ASSUME NEW S, NEW a \in Seq(S), NEW b \in Seq(S), Len(a) = Len(b),
         \A k \in 1..Len(a) : a[k] = b[k]
  PROVE  a = b
  OBVIOUS

LEMMA EvenSequences ==
  ASSUME NEW m, Even(m)
  PROVE  /\ m.size \in Nat
         /\ m.commands \in Seq(Texts) /\ m.argvs \in Seq(Seq(Texts))
         /\ m.maxprocs \in Seq(Int) /\ m.infos \in Seq(Infos)
         /\ Len(m.commands) = m.size /\ Len(m.argvs) = m.size
         /\ Len(m.maxprocs) = m.size /\ Len(m.infos) = m.size
<1> DEFINE n == m.size
<1>1. /\ n \in Nat
      /\ m.commands \in [1..n -> Texts] /\ m.argvs \in [1..n -> Seq(Texts)]
      /\ m.maxprocs \in [1..n -> Int] /\ m.infos \in [1..n -> Infos]
      /\ Len(m.commands) = n /\ Len(m.argvs) = n /\ Len(m.maxprocs) = n /\ Len(m.infos) = n
  BY DEF Even
<1> HIDE DEF n
<1>2. \A S : \A f \in [1..n -> S] : f \in Seq(S)
  BY <1>1
<1>3. QED
  BY <1>1, <1>2 DEF n

LEMMA ZipEntries ==
  ASSUME NEW m, Even(m)
  PROVE  Zip(m) \in Seq(List!Entries) /\ Len(Zip(m)) = m.size
<1> DEFINE n == m.size
<1>1. Zip(m) \in [1..n -> List!Entries] /\ n \in Nat
  BY DEF Zip, OneOf, Even, List!Entries
<1> HIDE DEF n
<1>2. Zip(m) \in Seq(List!Entries) /\ Len(Zip(m)) = n
  BY <1>1
<1>3. QED
  BY <1>2 DEF n

LEMMA ZipJoin ==
  ASSUME NEW a, NEW b, Even(a), Even(b), Even(Join(a, b))
  PROVE  Zip(Join(a, b)) = Zip(a) \o Zip(b)
<1> DEFINE s == a.size
           t == b.size
           ac == a.commands
           bc == b.commands
           aa == a.argvs
           ba == b.argvs
           an == a.maxprocs
           bn == b.maxprocs
           ai == a.infos
           bi == b.infos
           A == Zip(a)
           B == Zip(b)
           M == Zip(Join(a, b))
<1>1. s \in Nat /\ t \in Nat
  BY EvenSequences
<1>2. ac \in Seq(Texts) /\ bc \in Seq(Texts) /\ Len(ac) = s /\ Len(bc) = t
  BY EvenSequences
<1>3. aa \in Seq(Seq(Texts)) /\ ba \in Seq(Seq(Texts)) /\ Len(aa) = s /\ Len(ba) = t
  BY EvenSequences
<1>4. an \in Seq(Int) /\ bn \in Seq(Int) /\ Len(an) = s /\ Len(bn) = t
  BY EvenSequences
<1>5. ai \in Seq(Infos) /\ bi \in Seq(Infos) /\ Len(ai) = s /\ Len(bi) = t
  BY EvenSequences
<1>6. A \in Seq(List!Entries) /\ B \in Seq(List!Entries) /\ Len(A) = s /\ Len(B) = t
  BY ZipEntries
<1>7. M \in Seq(List!Entries) /\ Len(M) = s + t
  BY ZipEntries DEF Join
<1>8. /\ A = [k \in 1..s |-> OneOf(ac[k], aa[k], an[k], ai[k])]
      /\ B = [k \in 1..t |-> OneOf(bc[k], ba[k], bn[k], bi[k])]
      /\ M = [k \in 1..(s + t) |->
               OneOf((ac \o bc)[k], (aa \o ba)[k], (an \o bn)[k], (ai \o bi)[k])]
  BY DEF Zip, Join
<1> DEFINE E == List!Entries
<1> HIDE DEF s, t, ac, bc, aa, ba, an, bn, ai, bi, A, B, M, E
<1>9. ASSUME NEW k \in 1..(s + t)
      PROVE  M[k] = (A \o B)[k]
  <2>1. (ac \o bc)[k] = IF k <= s THEN ac[k] ELSE bc[k - s]
    BY <1>1, <1>2, ConcatAt
  <2>2. (aa \o ba)[k] = IF k <= s THEN aa[k] ELSE ba[k - s]
    BY <1>1, <1>3, ConcatAt
  <2>3. (an \o bn)[k] = IF k <= s THEN an[k] ELSE bn[k - s]
    BY <1>1, <1>4, ConcatAt
  <2>4. (ai \o bi)[k] = IF k <= s THEN ai[k] ELSE bi[k - s]
    BY <1>1, <1>5, ConcatAt
  <2>5. (A \o B)[k] = IF k <= s THEN A[k] ELSE B[k - s]
    <3>1. A \in Seq(E) /\ B \in Seq(E) /\ Len(A) = s /\ Len(B) = t
      BY <1>6 DEF E
    <3>2. QED
      BY <1>1, <3>1, ConcatAt
  <2>6. IF k <= s THEN k \in 1..s ELSE k - s \in 1..t
    BY <1>1
  <2>7. QED
    BY <1>8, <2>1, <2>2, <2>3, <2>4, <2>5, <2>6
<1>10. A \o B \in Seq(E) /\ Len(A \o B) = s + t
  <2>1. A \in Seq(E) /\ B \in Seq(E) /\ Len(A) = s /\ Len(B) = t
    BY <1>6 DEF E
  <2>2. QED
    BY <2>1, ConcatLength
<1>11. M = A \o B
  <2>1. M \in Seq(E) /\ Len(M) = s + t
    BY <1>7 DEF E
  <2>2. QED
    BY <1>1, <1>9, <1>10, <2>1, SameEntries
<1>12. QED
  BY <1>11 DEF A, B, M

\* A spawner as its constructor leaves it is a list of one entry.
LEMMA FreshEntry ==
  ASSUME NEW c \in Texts, NEW n \in Int
  PROVE  /\ Even(Fresh(c, n))
         /\ Zip(Fresh(c, n)) = <<[command |-> c, argv |-> <<>>, maxprocs |-> n, info |-> NullInfo]>>
<1> DEFINE f == Fresh(c, n)
<1>1. /\ f.size = 1 /\ f.commands = <<c>> /\ f.argvs = << <<>> >>
      /\ f.maxprocs = <<n>> /\ f.infos = <<NullInfo>>
  BY DEF Fresh, FromSingle, Initial
<1> HIDE DEF f
<1>2. Even(f)
  <2>1. <<>> \in Seq(Texts) /\ NullInfo \in Infos
    BY SpawnerAssumption
  <2>2. \A S : \A x \in S : <<x>> \in [1..1 -> S] /\ Len(<<x>>) = 1
    OBVIOUS
  <2>3. /\ f.commands \in [1..1 -> Texts] /\ Len(f.commands) = 1
        /\ f.argvs \in [1..1 -> Seq(Texts)] /\ Len(f.argvs) = 1
    BY <1>1, <2>1, <2>2
  <2>4. /\ f.maxprocs \in [1..1 -> Int] /\ Len(f.maxprocs) = 1
        /\ f.infos \in [1..1 -> Infos] /\ Len(f.infos) = 1
    BY <1>1, <2>1, <2>2
  <2>5. QED
    BY <1>1, <2>3, <2>4 DEF Even
<1>3. Zip(f) = <<[command |-> c, argv |-> <<>>, maxprocs |-> n, info |-> NullInfo]>>
  <2> DEFINE e == [command |-> c, argv |-> <<>>, maxprocs |-> n, info |-> NullInfo]
  <2>1. OneOf(f.commands[1], f.argvs[1], f.maxprocs[1], f.infos[1]) = e
    BY <1>1 DEF OneOf
  <2> HIDE DEF e
  <2>2. Zip(f) = [k \in 1..1 |-> e]
    BY <1>1, <2>1 DEF Zip
  <2>3. QED
    BY <2>2 DEF e
<1>4. QED
  BY <1>2, <1>3 DEF f

\* Of vectors in step a constructor takes everything.
LEMMA TakenAll ==
  ASSUME NEW m \in MultiSpawners, Even(m)
  PROVE  Even(Taken(m)) /\ Zip(Taken(m)) = Zip(m)
<1>1. \A S : \A s \in Seq(S) : SubSeq(s, 1, Len(s)) = s
  OBVIOUS
<1>2. /\ SubSeq(m.commands, 1, m.size) = m.commands
      /\ SubSeq(m.maxprocs, 1, m.size) = m.maxprocs
      /\ SubSeq(m.infos, 1, m.size) = m.infos
  BY <1>1, EvenSequences
<1>3. /\ Taken(m).size = m.size /\ Taken(m).commands = m.commands
      /\ Taken(m).argvs = m.argvs /\ Taken(m).maxprocs = m.maxprocs
      /\ Taken(m).infos = m.infos
  BY <1>2 DEF Taken, MultiSpawners
<1>4. QED
  BY <1>3 DEF Even, Zip

LEMMA ExtendRefines ==
  ASSUME MultiInv, MultiInv', NEW c \in Texts, NEW n \in MultiNumbers, Extend(c, n)
  PROVE  [List!Next]_Zipped
<1> DEFINE m == Taken(multi)
           f == Fresh(c, n)
<1>1. CASE mpc' # "ready"
  BY <1>1, AsideRefines
<1>2. CASE \E passed : Call(passed, Join(m, f)) \/ Call(passed, Join(f, m))
  <2>1. PICK passed : Call(passed, Join(m, f)) \/ Call(passed, Join(f, m))
    BY <1>2
  <2>2. ASSUME InUse, InUse'
        PROVE  List!Append1
    <3>1. Even(m) /\ Zip(m) = Zipped
      BY <2>2, InUseFacts, TakenAll
    <3>2. n \in Int /\ n \in Numbers
      BY SpawnerAssumption, MultipleAssumption
    <3> DEFINE new == <<[command |-> c, argv |-> <<>>, maxprocs |-> n, info |-> NullInfo]>>
    <3>3. Even(f) /\ Zip(f) = new
      BY <3>2, FreshEntry
    <3> HIDE DEF m, f, new
    <3>4. Zipped' \in {Zipped \o new, new \o Zipped}
      <4>1. CASE Call(passed, Join(m, f))
        <5>1. Even(Join(m, f)) /\ Zipped' = Zip(Join(m, f))
          BY <2>2, <4>1, PassedFacts
        <5>2. QED
          BY <3>1, <3>3, <5>1, ZipJoin
      <4>2. CASE Call(passed, Join(f, m))
        <5>1. Even(Join(f, m)) /\ Zipped' = Zip(Join(f, m))
          BY <2>2, <4>2, PassedFacts
        <5>2. QED
          BY <3>1, <3>3, <5>1, ZipJoin
      <4>3. QED
        BY <2>1, <4>1, <4>2
    <3>5. QED
      BY <3>2, <3>4 DEF List!Append1, new
  <2>3. QED
    BY <2>2, ChangeRefines DEF ListChange
<1>3. QED
  BY <1>1, <1>2 DEF Extend, Call, Crash

-----------------------------------------------------------------------------

LEMMA MultiStepRefines ==
  ASSUME MultiInv, MultiInv', MultiStep
  PROVE  [List!Next]_Zipped
<1> MultiNumbers \subseteq Int /\ Indices \subseteq Nat \ {0} /\ 1..MaxArgs \subseteq Nat \ {0}
  BY SpawnerAssumption, MultipleAssumption DEF Indices
<1>1. ASSUME NEW names \in ListsOf(Texts) \union {<<>>},
             NEW ns \in ListsOf(MultiNumbers) \union {<<>>}, MConstruct(names, ns)
      PROVE  [List!Next]_Zipped
  BY <1>1, AsideRefines DEF MConstruct
<1>2. ASSUME NEW names \in ListsOf(Texts), SetCommands(names) PROVE [List!Next]_Zipped
  BY <1>2, ListsTyped, SetCommandsRefines
<1>3. CASE Convert
  BY <1>3, AsideRefines DEF Convert, CombineSingle
<1>4. ASSUME NEW c \in Texts, NEW n \in MultiNumbers, Combine(c, n) PROVE [List!Next]_Zipped
  BY <1>4, AsideRefines DEF Combine, CombineSingle
<1>5. ASSUME NEW c \in Texts, NEW n \in MultiNumbers, Extend(c, n) PROVE [List!Next]_Zipped
  BY <1>5, ExtendRefines
<1>6. ASSUME NEW ns \in ListsOf(MultiNumbers), SetMaxprocsOfAll(ns) PROVE [List!Next]_Zipped
  BY <1>6, ListsTyped, SetMaxprocsOfAllRefines
<1>7. ASSUME NEW is \in ListsOf(Infos), SetSpawnInfos(is) PROVE [List!Next]_Zipped
  BY <1>7, ListsTyped, SetSpawnInfosRefines
<1>8. ASSUME NEW lists \in ListsOfArguments, AddArgvs(lists)
      PROVE  [List!Next]_Zipped
  BY <1>8, RowsTyped, AddArgvsRefines
<1>9. CASE RemoveArgvs
  BY <1>9, RemoveArgvsRefines
<1>10. ASSUME NEW i \in Indices, NEW c \in Texts, SetCommandAt(i, c) PROVE [List!Next]_Zipped
  BY <1>10, SetCommandAtRefines
<1>11. ASSUME NEW i \in Indices, NEW n \in MultiNumbers, SetMaxprocsAt(i, n)
       PROVE  [List!Next]_Zipped
  BY <1>11, SetMaxprocsAtRefines
<1>12. ASSUME NEW i \in Indices, NEW info \in Infos, SetSpawnInfoAt(i, info)
       PROVE  [List!Next]_Zipped
  BY <1>12, SetSpawnInfoAtRefines
<1>13. ASSUME NEW i \in Indices, NEW args \in Arguments, AddArgvAt(i, args)
       PROVE  [List!Next]_Zipped
  BY <1>13, ArgumentsTyped, AddArgvAtRefines
<1>14. ASSUME NEW i \in Indices, RemoveArgvAt(i) PROVE [List!Next]_Zipped
  BY <1>14, RemoveArgvAtRefines
<1>15. ASSUME NEW i \in Indices, NEW j \in 1..MaxArgs, RemoveArgAt(i, j)
       PROVE  [List!Next]_Zipped
  BY <1>15, RemoveArgAtRefines
<1>16. ASSUME NEW i \in Indices, NEW field \in {"commands", "argvs", "maxprocs", "infos"},
              ReadAt(field, i)
       PROVE  [List!Next]_Zipped
  BY <1>16, ReadAtRefines
<1>17. ASSUME NEW r \in MultiNumbers, MSetRoot(r) PROVE [List!Next]_Zipped
  BY <1>17, AsideRefines DEF MSetRoot, Ready, environment
<1>18. ASSUME NEW c \in Comms \union {NullComm}, MSetCommunicator(c) PROVE [List!Next]_Zipped
  BY <1>18, AsideRefines DEF MSetCommunicator, Ready, environment
<1>19. CASE MSpawnAborts
  BY <1>19, AsideRefines DEF MSpawnAborts
<1>20. CASE MSpawnMessage \/ MSpawnCrashes
  BY <1>20, CrashRefines DEF MSpawnMessage, MSpawnCrashes, StrayMessage
<1>21. ASSUME NEW w \in BOOLEAN, MSpawn(w) PROVE [List!Next]_Zipped
  BY <1>21, AsideRefines DEF MSpawn, environment
<1>22. QED
  BY <1>1, <1>2, <1>3, <1>4, <1>5, <1>6, <1>7, <1>8, <1>9, <1>10, <1>11, <1>12, <1>13,
     <1>14, <1>15, <1>16, <1>17, <1>18, <1>19, <1>20, <1>21, Zenon DEF MultiStep

LEMMA MNextRefines == MultiInv /\ MultiInv' /\ [MNext]_allvars => [List!Next]_Zipped
<1> SUFFICES ASSUME MultiInv, MultiInv', [MNext]_allvars PROVE [List!Next]_Zipped
  OBVIOUS
<1>1. CASE SingleStep
  BY <1>1, AsideRefines DEF SingleStep
<1>2. CASE MultiStep
  BY <1>2, MultiStepRefines
<1>3. CASE UNCHANGED allvars
  BY <1>3, AsideRefines DEF allvars, vars, environment
<1>4. QED
  BY <1>1, <1>2, <1>3 DEF MNext

\* multiple_spawner with all assertions: the four vectors behave as one list of
\* commands, of any length.  A setter changes what it names, at the entry it names,
\* and a constructor from spawners puts whole entries side by side.
THEOREM OneList == MSpec => ImplementsList
<1>1. MInit => List!Init
  BY DEF MInit, Zipped, List!Init
<1>2. QED
  BY <1>1, MultiInvariance, MNextRefines, PTL DEF MSpec, ImplementsList, List!Spec

-----------------------------------------------------------------------------
(* Sums.  A recursive function on lists obeys its definition because functions *)
(* on short lists can be extended to longer ones; a shortest list for which    *)
(* this fails, or for which a claim is false, is the base of each argument.     *)

LEMMA LeastNumber ==
  ASSUME NEW S, S \subseteq Nat, S # {}
  PROVE  \E i \in S : \A j \in S : i <= j
<1> DEFINE R == OpToRel(<, Nat)
<1>1. IsWellFoundedOn(R, Nat)
  BY NatLessThanWellFounded
<1>2. \A i, j \in Nat : <<i, j>> \in R <=> i < j
  BY DEF OpToRel
<1> DEFINE N == Nat
<1>3. IsWellFoundedOn(R, N) /\ S \subseteq N
  BY <1>1
<1> HIDE DEF R, N
<1>4. \E i \in S : \A j \in S : ~(<<j, i>> \in R)
  BY <1>3, WFMin
<1>5. PICK i \in S : \A j \in S : ~(<<j, i>> \in R)
  BY <1>4
<1>6. ASSUME NEW j \in S
      PROVE  i <= j
  <2>1. i \in Nat /\ j \in Nat
    OBVIOUS
  <2>2. ~(j < i)
    BY <1>2, <1>5, <2>1, Zenon
  <2>3. QED
    BY <2>1, <2>2
<1>7. QED
  BY <1>6

\* A list, and the rest of it.
LEMMA HeadTail ==
  ASSUME NEW S, NEW s \in Seq(S), s # <<>>
  PROVE  /\ Head(s) \in S /\ Tail(s) \in Seq(S) /\ Len(Tail(s)) = Len(s) - 1
         /\ Len(s) \in Nat \ {0} /\ Head(s) = s[1]
         /\ \A k \in 1..Len(Tail(s)) : Tail(s)[k] = s[k + 1]
  OBVIOUS

Short(n) == {s \in Seq(Int) : Len(s) <= n}
Added(g, s) == IF s = <<>> THEN 0 ELSE Head(s) + g[Tail(s)]
Sums(g, n) == g \in [Short(n) -> Int] /\ \A s \in Short(n) : g[s] = Added(g, s)

LEMMA SumsExist ==
  ASSUME NEW n \in Nat
  PROVE  \E g : Sums(g, n)
<1> DEFINE B == {l \in Nat : ~ \E g : Sums(g, l)}
<1> SUFFICES ASSUME B # {} PROVE FALSE
  OBVIOUS
<1>1. PICK m \in B : \A l \in B : m <= l
  <2>1. B \subseteq Nat
    OBVIOUS
  <2> HIDE DEF B
  <2>2. QED
    BY <2>1, LeastNumber
<1>2. CASE m = 0
  <2> DEFINE g == [s \in Short(0) |-> 0]
  <2>1. \A s \in Short(0) : s = <<>>
    BY DEF Short
  <2>2. Sums(g, 0)
    BY <2>1 DEF Sums, Added
  <2>3. QED
    BY <1>2, <2>2
<1>3. CASE m # 0
  <2>1. m \in Nat /\ m - 1 \in Nat /\ ~(m <= m - 1)
    BY <1>3
  <2>2. PICK g : Sums(g, m - 1)
    BY <1>1, <2>1
  <2> DEFINE h == [s \in Short(m) |-> Added(g, s)]
  <2>3. ASSUME NEW s \in Short(m), s # <<>>
        PROVE  Tail(s) \in Short(m - 1) /\ Head(s) \in Int /\ Tail(s) \in Short(m)
    BY <2>1, <2>3, HeadTail DEF Short
  <2>4. \A s \in Short(m - 1) : s \in Short(m) /\ h[s] = g[s]
    <3>1. ASSUME NEW s \in Short(m - 1) PROVE s \in Short(m)
      BY <2>1 DEF Short
    <3>2. QED
      BY <2>2, <3>1 DEF Sums
  <2>5. h \in [Short(m) -> Int]
    BY <2>2, <2>3 DEF Sums, Added
  <2>6. ASSUME NEW s \in Short(m)
        PROVE  h[s] = Added(h, s)
    BY <2>3, <2>4 DEF Added
  <2> HIDE DEF h
  <2>7. Sums(h, m)
    BY <2>5, <2>6 DEF Sums
  <2>8. QED
    BY <2>7
<1>4. QED
  BY <1>2, <1>3

\* Two functions that add up agree.
LEMMA SumsAgree ==
  ASSUME NEW g, NEW n \in Nat, Sums(g, n), NEW h, NEW l \in Nat, Sums(h, l),
         NEW s \in Seq(Int), Len(s) <= n, Len(s) <= l
  PROVE  g[s] = h[s]
<1> DEFINE B == {j \in Nat : \E t \in Seq(Int) : /\ Len(t) = j /\ j <= n /\ j <= l
                                                 /\ g[t] # h[t]}
<1>1. B \subseteq Nat
  OBVIOUS
<1> SUFFICES ASSUME B # {} PROVE FALSE
  OBVIOUS
<1>2. PICK m \in B : \A j \in B : m <= j
  <2> HIDE DEF B
  <2>1. QED
    BY <1>1, LeastNumber
<1>3. PICK t \in Seq(Int) : Len(t) = m /\ m <= n /\ m <= l /\ g[t] # h[t]
  OBVIOUS
<1>4. t \in Short(n) /\ t \in Short(l)
  BY <1>3 DEF Short
<1>5. g[t] = Added(g, t) /\ h[t] = Added(h, t)
  BY <1>4 DEF Sums
<1>6. t # <<>> /\ g[Tail(t)] # h[Tail(t)]
  BY <1>3, <1>5 DEF Added
<1>7. Tail(t) \in Seq(Int) /\ Len(Tail(t)) = m - 1 /\ m \in Nat \ {0}
  BY <1>3, <1>6, HeadTail
<1>8. m - 1 \in B
  <2>1. m - 1 \in Nat /\ m - 1 <= n /\ m - 1 <= l
    BY <1>3, <1>7
  <2>2. QED
    BY <1>6, <1>7, <2>1
<1>9. QED
  BY <1>2, <1>7, <1>8

\* The sum a mathematician has exists, and obeys its definition.
LEMMA SumOfDef ==
  ASSUME NEW s \in Seq(Int)
  PROVE  SumOf[s] = IF s = <<>> THEN 0 ELSE Head(s) + SumOf[Tail(s)]
<1> DEFINE G(t) == CHOOSE g : Sums(g, Len(t))
           f == [t \in Seq(Int) |-> G(t)[t]]
           Q(g) == g = [t \in Seq(Int) |-> IF t = <<>> THEN 0 ELSE Head(t) + g[Tail(t)]]
<1>1. ASSUME NEW t \in Seq(Int) PROVE Sums(G(t), Len(t)) /\ Len(t) \in Nat
  BY SumsExist
<1>2. ASSUME NEW t \in Seq(Int)
      PROVE  f[t] = IF t = <<>> THEN 0 ELSE Head(t) + f[Tail(t)]
  <2>1. Sums(G(t), Len(t)) /\ Len(t) \in Nat /\ t \in Short(Len(t))
    BY <1>1 DEF Short
  <2>2. f[t] = Added(G(t), t)
    BY <2>1 DEF Sums
  <2>3. CASE t = <<>>
    BY <2>2, <2>3 DEF Added
  <2>4. CASE t # <<>>
    <3>1. Tail(t) \in Seq(Int) /\ Len(Tail(t)) <= Len(t)
      BY <2>4, HeadTail
    <3>2. Sums(G(Tail(t)), Len(Tail(t))) /\ Len(Tail(t)) \in Nat
      BY <1>1, <3>1
    <3>3. f[Tail(t)] = G(Tail(t))[Tail(t)]
      BY <3>1
    <3>4. G(t)[Tail(t)] = G(Tail(t))[Tail(t)]
      <4> DEFINE u == Tail(t)
                 n == Len(t)
                 l == Len(u)
                 g == G(t)
                 h == G(u)
      <4>1. /\ u \in Seq(Int) /\ n \in Nat /\ l \in Nat /\ Len(u) <= n /\ Len(u) <= l
            /\ Sums(g, n) /\ Sums(h, l)
        BY <2>1, <3>1, <3>2
      <4> HIDE DEF u, n, l, g, h
      <4>2. g[u] = h[u]
        BY <4>1, SumsAgree
      <4>3. QED
        BY <4>2 DEF u, g, h
    <3> HIDE DEF f, G
    <3>5. QED
      BY <2>2, <2>4, <3>3, <3>4 DEF Added
  <2>5. QED
    BY <2>3, <2>4
<1>3. Q(f)
  <2>1. f = [t \in Seq(Int) |-> f[t]]
    OBVIOUS
  <2> HIDE DEF f
  <2>2. QED
    BY <1>2, <2>1
<1> HIDE DEF f
<1>4. SumOf = CHOOSE g : Q(g)
  BY DEF SumOf
<1>5. Q(SumOf)
  <2> HIDE DEF Q
  <2>1. QED
    BY <1>3, <1>4
<1>6. QED
  BY <1>5

LEMMA SumOfTyped ==
  ASSUME NEW s \in Seq(Int)
  PROVE  SumOf[s] \in Int
<1> DEFINE B == {j \in Nat : \E t \in Seq(Int) : Len(t) = j /\ SumOf[t] \notin Int}
<1>1. B \subseteq Nat
  OBVIOUS
<1> SUFFICES ASSUME B # {} PROVE FALSE
  OBVIOUS
<1>2. PICK m \in B : \A j \in B : m <= j
  <2> HIDE DEF B
  <2>1. QED
    BY <1>1, LeastNumber
<1>3. PICK t \in Seq(Int) : Len(t) = m /\ SumOf[t] \notin Int
  OBVIOUS
<1>4. t # <<>>
  BY <1>3, SumOfDef
<1>5. Tail(t) \in Seq(Int) /\ Len(Tail(t)) = m - 1 /\ m \in Nat \ {0} /\ Head(t) \in Int
  BY <1>3, <1>4, HeadTail
<1>6. SumOf[Tail(t)] \notin Int
  BY <1>3, <1>4, <1>5, SumOfDef
<1>7. m - 1 \in B
  <2>1. m - 1 \in Nat
    BY <1>5
  <2>2. QED
    BY <1>5, <1>6, <2>1
<1>8. QED
  BY <1>2, <1>5, <1>7

\* The sum of numbers from 1 to b.
LEMMA SumOfBounds ==
  ASSUME NEW b \in Nat, NEW s \in Seq(Int), \A k \in DOMAIN s : 1 <= s[k] /\ s[k] <= b
  PROVE  Len(s) <= SumOf[s] /\ SumOf[s] <= Len(s) * b
<1> DEFINE Ok(t) == \A k \in DOMAIN t : 1 <= t[k] /\ t[k] <= b
           Good(t) == Len(t) <= SumOf[t] /\ SumOf[t] <= Len(t) * b
           B == {j \in Nat : \E t \in Seq(Int) : Len(t) = j /\ Ok(t) /\ ~Good(t)}
<1>1. B \subseteq Nat
  OBVIOUS
<1> SUFFICES ASSUME B # {} PROVE FALSE
  OBVIOUS
<1>2. PICK m \in B : \A j \in B : m <= j
  <2> HIDE DEF B
  <2>1. QED
    BY <1>1, LeastNumber
<1>3. PICK t \in Seq(Int) : Len(t) = m /\ Ok(t) /\ ~Good(t)
  OBVIOUS
<1>4. t # <<>>
  <2> SUFFICES ASSUME t = <<>> PROVE FALSE
    OBVIOUS
  <2>1. SumOf[t] = 0 /\ Len(t) = 0
    BY SumOfDef
  <2>2. 0 * b = 0
    OBVIOUS
  <2>3. QED
    BY <1>3, <2>1, <2>2
<1>5. /\ Tail(t) \in Seq(Int) /\ Len(Tail(t)) = m - 1 /\ m \in Nat \ {0}
      /\ Head(t) \in Int /\ Head(t) = t[1]
      /\ \A k \in 1..Len(Tail(t)) : Tail(t)[k] = t[k + 1]
  BY <1>3, <1>4, HeadTail
<1>6. Ok(Tail(t)) /\ 1 <= Head(t) /\ Head(t) <= b
  <2>1. DOMAIN t = 1..m /\ DOMAIN Tail(t) = 1..(m - 1)
    BY <1>3, <1>5
  <2>2. \A k \in 1..(m - 1) : k + 1 \in 1..m
    BY <1>5
  <2>3. 1 \in DOMAIN t
    BY <1>5, <2>1
  <2>4. QED
    BY <1>3, <1>5, <2>1, <2>2, <2>3
<1>7. Good(Tail(t))
  <2>1. m - 1 \in Nat /\ m - 1 \notin B
    BY <1>2, <1>5
  <2>2. QED
    BY <1>5, <1>6, <2>1
<1>8. SumOf[t] = Head(t) + SumOf[Tail(t)] /\ SumOf[Tail(t)] \in Int
  BY <1>4, <1>5, SumOfDef, SumOfTyped
<1>9. Good(t)
  <2>1. \A x \in Int, h \in Int, n \in Nat \ {0} :
          n - 1 <= x /\ x <= (n - 1) * b /\ 1 <= h /\ h <= b => n <= h + x /\ h + x <= n * b
    <3>1. \A n \in Nat \ {0} : (n - 1) * b + b = n * b /\ (n - 1) * b \in Int /\ n * b \in Int
      OBVIOUS
    <3>2. QED
      BY <3>1
  <2>2. QED
    BY <1>3, <1>5, <1>6, <1>7, <1>8, <2>1
<1>10. QED
  BY <1>3, <1>9

\* What clients pass does not wrap around to a legal total: there are at most two
\* commands, or the numbers are small.  It takes three commands to get from a sum
\* beyond the largest int back to a positive one.
NoFalseTotals ==
  \/ MaxCommands <= 2
  \/ \E b \in Nat : MaxCommands * b <= IntMax /\ \A n \in Numbers : n <= b

\* A sum wraps around to itself, or once to a negative number.
LEMMA WrapOnce ==
  ASSUME NEW x \in Int, 0 <= x, x <= 2 * IntMax
  PROVE  WrapInt(x) \in Int /\ IF x <= IntMax THEN WrapInt(x) = x ELSE WrapInt(x) < 0
<1> DEFINE a == x + IntMax + 1
           m == 2 * (IntMax + 1)
<1>1. IntMax \in Nat \ {0}
  BY MultipleAssumption
<1>2. a \in Int /\ m \in Nat \ {0} /\ 0 <= a /\ a < 2 * m
  BY <1>1
<1>3. a % m = IF a < m THEN a ELSE a - m
  <2> HIDE DEF a, m
  <2>1. QED
    BY <1>2
<1>4. WrapInt(x) = (a % m) - (IntMax + 1)
  BY DEF WrapInt
<1>5. CASE x <= IntMax
  <2>1. a < m
    BY <1>1, <1>5
  <2>2. a % m = a
    BY <1>3, <2>1
  <2> HIDE DEF m
  <2>3. QED
    BY <1>1, <1>4, <1>5, <2>2
<1>6. CASE ~(x <= IntMax)
  <2>1. ~(a < m)
    BY <1>1, <1>6
  <2>2. a % m = x - (IntMax + 1)
    BY <1>1, <1>3, <2>1
  <2> HIDE DEF a, m
  <2>3. QED
    BY <1>1, <1>4, <1>6, <2>2
<1>7. QED
  BY <1>5, <1>6

LEMMA WrapTyped ==
  ASSUME NEW x \in Int
  PROVE  WrapInt(x) \in Int
<1> DEFINE m == 2 * (IntMax + 1)
           a == x + IntMax + 1
<1>1. m \in Nat \ {0} /\ a \in Int /\ IntMax \in Int
  BY MultipleAssumption
<1>2. a % m \in Int
  <2> HIDE DEF a, m
  <2>1. QED
    BY <1>1
<1>3. QED
  BY <1>1, <1>2 DEF WrapInt

\* The total of legal numbers is their sum, if it is legal itself.
LEMMA ExactTotal ==
  ASSUME NoFalseTotals, NEW ns \in Seq(Numbers), Len(ns) \in 1..MaxCommands,
         LegalNumbers(ns), LegalTotal(ns)
  PROVE  TotalMaxprocs(ns) = SumOf[ns] /\ SumOf[ns] \in Nat
<1> DEFINE l == Len(ns)
           s == SumOf[ns]
<1>1. /\ l \in Nat /\ l >= 1 /\ l <= MaxCommands /\ MaxCommands \in Nat
      /\ IntMax \in Nat \ {0} /\ \A n \in Numbers : n \in Int /\ n <= IntMax
  BY MultipleAssumption, SpawnerAssumption
<1>2. ns \in Seq(Int) /\ \A k \in DOMAIN ns : ns[k] \in Numbers /\ 1 <= ns[k]
  <2>1. \A k \in DOMAIN ns : ns[k] \in Numbers /\ ns[k] \in Int
    BY <1>1
  <2>2. \A k \in DOMAIN ns : 1 <= ns[k]
    BY <2>1 DEF LegalNumbers, LegalMaxprocs
  <2>3. QED
    BY <1>1, <2>1, <2>2
<1>3. s \in Int /\ TotalMaxprocs(ns) = WrapInt(s) /\ 0 < TotalMaxprocs(ns)
  BY <1>2, SumOfTyped DEF TotalMaxprocs, LegalTotal, LegalMaxprocs
<1>4. 0 <= s /\ s <= 2 * IntMax
  <2>1. CASE MaxCommands <= 2
    <3>1. l <= s /\ s <= l * IntMax
      BY <1>1, <1>2, SumOfBounds
    <3> HIDE DEF l, s
    <3>2. l = 1 \/ l = 2
      BY <1>1, <2>1
    <3>3. QED
      BY <1>1, <1>3, <3>1, <3>2
  <2>2. CASE \E b \in Nat : MaxCommands * b <= IntMax /\ \A n \in Numbers : n <= b
    <3>1. PICK b \in Nat : MaxCommands * b <= IntMax /\ \A n \in Numbers : n <= b
      BY <2>2
    <3>2. l <= s /\ s <= l * b
      BY <1>1, <1>2, <3>1, SumOfBounds
    <3> HIDE DEF l, s
    <3>3. l * b <= MaxCommands * b /\ l * b \in Nat
      BY <1>1, <3>1
    <3>4. QED
      BY <1>1, <1>3, <3>1, <3>2, <3>3
  <2>3. QED
    BY <2>1, <2>2 DEF NoFalseTotals
<1> HIDE DEF s
<1>5. WrapInt(s) = s
  BY <1>1, <1>3, <1>4, WrapOnce
<1>6. QED
  BY <1>3, <1>4, <1>5 DEF s

-----------------------------------------------------------------------------
(* The result of a spawn. *)

\* What passes the setters at either assertion level.
Passing(m) ==
  /\ m.size \in 0..MaxCommands /\ m.maxprocs \in Seq(Numbers)
  /\ level >= 1 => m.size # 0 /\ m.comm # NullComm

PassingInv ==
  /\ pc # "none" => spawner.maxprocs \in Numbers
  /\ mpc = "ready" => Passing(multi)

LEMMA CallPassing ==
  ASSUME PassingInv, NEW passed, NEW members, Call(passed, members), passed => Passing(members)
  PROVE  PassingInv'
  BY DEF Call, PassingInv, Passing, environment

LEMMA LostPassing ==
  ASSUME PassingInv, mpc' # "ready", UNCHANGED <<pc, spawner>>
  PROVE  PassingInv'
  BY DEF PassingInv

LEMMA SamePassing ==
  ASSUME PassingInv, UNCHANGED <<level, pc, spawner, mpc, multi>>
  PROVE  PassingInv'
  BY DEF PassingInv, Passing

\* A step of the client of the single spawner.
LEMMA SinglePassing ==
  ASSUME MembersInv, PassingInv, SingleStep
  PROVE  PassingInv'
<1>1. mpc' # "ready"
  BY DEF SingleStep, mvars
<1>2. pc' # "none" => spawner'.maxprocs \in Numbers
  <2>1. Next
    BY DEF SingleStep
  <2>2. pc # "none" => spawner \in Spawners
    BY DEF MembersInv, MembersTyped
  <2>3. ASSUME NEW s \in Texts, NEW n \in Numbers, Construct(s, n)
        PROVE  spawner'.maxprocs \in Numbers
    BY <2>3 DEF Construct, Initial
  <2>4. ASSUME NEW s \in Texts, SetCommand(s) PROVE spawner'.maxprocs \in Numbers
    BY <2>2, <2>4 DEF SetCommand, PassingInv, Spawners
  <2>5. ASSUME NEW args \in Lists, AddArgv(args) PROVE spawner'.maxprocs \in Numbers
    BY <2>2, <2>5 DEF AddArgv, PassingInv, Spawners
  <2>6. ASSUME NEW n \in Numbers, SetMaxprocs(n) PROVE spawner'.maxprocs \in Numbers
    BY <2>2, <2>6 DEF SetMaxprocs, PassingInv, Spawners
  <2>7. ASSUME NEW r \in Numbers, SetRoot(r) PROVE spawner'.maxprocs \in Numbers
    BY <2>2, <2>7 DEF SetRoot, PassingInv, Spawners
  <2>8. ASSUME NEW i \in Infos, SetSpawnInfo(i) PROVE spawner'.maxprocs \in Numbers
    BY <2>2, <2>8 DEF SetSpawnInfo, PassingInv, Spawners
  <2>9. ASSUME NEW c \in Comms \union {NullComm}, SetCommunicator(c)
        PROVE  spawner'.maxprocs \in Numbers
    BY <2>2, <2>9 DEF SetCommunicator, PassingInv, Spawners
  <2>10. CASE SpawnAborts
    BY <2>10 DEF SpawnAborts, PassingInv
  <2>11. ASSUME NEW w \in BOOLEAN, Spawn(w)
         PROVE  pc' = pc /\ spawner' = spawner
    BY <2>11 DEF Spawn
  <2>12. QED
    BY <2>1, <2>3, <2>4, <2>5, <2>6, <2>7, <2>8, <2>9, <2>10, <2>11 DEF Next, PassingInv
<1>3. QED
  BY <1>1, <1>2 DEF PassingInv

LEMMA PassedNumbers ==
  ASSUME NEW ns \in ListsOf(MultiNumbers) \union {<<>>}
  PROVE  ns \in Seq(Numbers)
<1>1. CASE ns \in ListsOf(MultiNumbers)
  <2>1. ns \in Seq(MultiNumbers)
    BY <1>1, ListsTyped
  <2>2. MultiNumbers \subseteq Numbers
    BY MultipleAssumption
  <2>3. \A S, T : S \subseteq T => Seq(S) \subseteq Seq(T)
    OBVIOUS
  <2>4. QED
    BY <2>1, <2>2, <2>3
<1>2. CASE ns = <<>>
  BY <1>2
<1>3. QED
  BY <1>1, <1>2

LEMMA MConstructPassing ==
  ASSUME PassingInv, NEW names \in ListsOf(Texts) \union {<<>>},
         NEW ns \in ListsOf(MultiNumbers) \union {<<>>}, MConstruct(names, ns)
  PROVE  PassingInv'
<1> DEFINE m == [size |-> Len(names), commands |-> names,
                 argvs |-> [k \in DOMAIN names |-> <<>>], maxprocs |-> ns,
                 infos |-> [k \in DOMAIN names |-> NullInfo], root |-> 0, comm |-> World]
           passed == /\ Precondition(names # <<>> /\ ns # <<>> /\ Len(names) = Len(ns))
                     /\ Sanity(LegalCommands(names) /\ LegalNumbers(ns) /\ LegalTotal(ns))
<1>1. Call(passed, m)
  BY DEF MConstruct
<1>2. m.size = Len(names) /\ m.maxprocs = ns /\ m.comm = World
  OBVIOUS
<1> HIDE DEF m
<1>3. Len(names) \in 0..MaxCommands /\ (names # <<>> => Len(names) # 0)
  <2>1. CASE names \in ListsOf(Texts)
    <3>1. PICK n \in 1..MaxCommands : names \in [1..n -> Texts]
      BY <2>1 DEF ListsOf
    <3>2. QED
      BY <3>1, MultipleAssumption
  <2>2. CASE names = <<>>
    BY <2>2, MultipleAssumption
  <2>3. QED
    BY <2>1, <2>2
<1>4. ns \in Seq(Numbers)
  BY PassedNumbers
<1>5. World # NullComm
  BY SpawnerAssumption
<1>6. passed /\ level >= 1 => names # <<>>
  BY DEF Precondition
<1> HIDE DEF passed
<1>7. passed => Passing(m)
  BY <1>2, <1>3, <1>4, <1>5, <1>6 DEF Passing
<1>8. QED
  BY <1>1, <1>7, CallPassing

LEMMA PassedNumber ==
  ASSUME NEW n \in MultiNumbers
  PROVE  n \in Numbers /\ n \in Int
  BY MultipleAssumption, SpawnerAssumption

\* The parts of a joined spawner.
LEMMA FreshPassing ==
  ASSUME NEW c, NEW n \in Numbers
  PROVE  LET f == Fresh(c, n) IN f.size = 1 /\ f.maxprocs \in Seq(Numbers) /\ f.comm = World
  BY DEF Fresh, FromSingle, Initial

LEMMA JoinPassing ==
  ASSUME NEW a, NEW b, a.size \in Nat, b.size \in Nat, a.size + b.size <= MaxCommands,
         b.size # 0 \/ a.size # 0,
         a.maxprocs \in Seq(Numbers), b.maxprocs \in Seq(Numbers),
         level >= 1 => b.comm # NullComm
  PROVE  Passing(Join(a, b))
<1>1. /\ Join(a, b).size = a.size + b.size /\ Join(a, b).comm = b.comm
      /\ Join(a, b).maxprocs = a.maxprocs \o b.maxprocs
  BY DEF Join
<1>2. a.maxprocs \o b.maxprocs \in Seq(Numbers)
  BY ConcatLength
<1>3. a.size + b.size \in 0..MaxCommands /\ a.size + b.size # 0
  BY MultipleAssumption
<1>4. QED
  BY <1>1, <1>2, <1>3 DEF Passing

LEMMA SingleMembers ==
  ASSUME MembersInv, PassingInv, pc = "ready"
  PROVE  LET m == FromSingle(spawner) IN
           /\ m.size = 1 /\ m.maxprocs \in Seq(Numbers)
           /\ level >= 1 => m.comm # NullComm
  BY DEF FromSingle, PassingInv, MembersInv, CommChecked

LEMMA ConvertPassing ==
  ASSUME MembersInv, PassingInv, Convert
  PROVE  PassingInv'
<1> DEFINE m == FromSingle(spawner)
<1>1. /\ pc = "ready" /\ level' = level /\ pc' = "none"
      /\ mpc' = "ready" => multi' = m
  BY DEF Convert, CombineSingle, environment
<1>2. m.size = 1 /\ m.maxprocs \in Seq(Numbers) /\ (level >= 1 => m.comm # NullComm)
  BY <1>1, SingleMembers
<1> HIDE DEF m
<1>3. Passing(m)
  BY <1>2, MultipleAssumption DEF Passing
<1>4. mpc' = "ready" => Passing(multi)'
  BY <1>1, <1>3 DEF Passing
<1>5. QED
  BY <1>1, <1>4 DEF PassingInv

LEMMA CombinePassing ==
  ASSUME MembersInv, PassingInv, NEW c \in Texts, NEW n \in MultiNumbers, Combine(c, n)
  PROVE  PassingInv'
<1> DEFINE m == FromSingle(spawner)
           f == Fresh(c, n)
<1>1. /\ pc = "ready" /\ level' = level /\ pc' = "none" /\ MaxCommands > 1
      /\ mpc' = "ready" => multi' = Join(m, f) \/ multi' = Join(f, m)
  BY DEF Combine, CombineSingle, environment
<1>2. m.size = 1 /\ m.maxprocs \in Seq(Numbers) /\ (level >= 1 => m.comm # NullComm)
  BY <1>1, SingleMembers
<1>3. f.size = 1 /\ f.maxprocs \in Seq(Numbers) /\ f.comm # NullComm
  BY PassedNumber, FreshPassing, SpawnerAssumption
<1> HIDE DEF m, f
<1>4. m.size + f.size <= MaxCommands /\ f.size + m.size <= MaxCommands
  BY <1>1, <1>2, <1>3, MultipleAssumption
<1>5. Passing(Join(m, f)) /\ Passing(Join(f, m))
  BY <1>2, <1>3, <1>4, JoinPassing
<1>6. mpc' = "ready" => Passing(multi)'
  BY <1>1, <1>5 DEF Passing
<1>7. QED
  BY <1>1, <1>6 DEF PassingInv

LEMMA ExtendPassing ==
  ASSUME MultiInv, PassingInv, NEW c \in Texts, NEW n \in MultiNumbers, Extend(c, n)
  PROVE  PassingInv'
<1> DEFINE m == Taken(multi)
           f == Fresh(c, n)
<1>1. multi \in MultiSpawners /\ Passing(multi) /\ multi.size < MaxCommands
  BY DEF Extend, Ready, MultiInv, MultiOK, PartOK, PassingInv
<1>2. CASE mpc' # "ready"
  BY <1>2, LostPassing DEF Extend, Call, Crash
<1>3. CASE Complete(multi) /\ \E passed : Call(passed, Join(m, f)) \/ Call(passed, Join(f, m))
  <2>1. /\ m.size = multi.size /\ m.comm = multi.comm
        /\ m.maxprocs = SubSeq(multi.maxprocs, 1, multi.size)
    BY <1>1 DEF Taken, MultiSpawners
  <2>2. /\ m.size \in Nat /\ m.maxprocs \in Seq(Numbers)
        /\ level >= 1 => m.comm # NullComm
    <3>1. multi.size \in Nat /\ multi.maxprocs \in Seq(Numbers) /\ Len(multi.maxprocs) >= multi.size
      BY <1>1, <1>3 DEF Complete, Lengths, Passing
    <3>2. SubSeq(multi.maxprocs, 1, multi.size) \in Seq(Numbers)
      BY <3>1
    <3>3. QED
      BY <1>1, <2>1, <3>1, <3>2 DEF Passing
  <2>3. f.size = 1 /\ f.maxprocs \in Seq(Numbers) /\ f.comm # NullComm
    BY PassedNumber, FreshPassing, SpawnerAssumption
  <2>4. PICK passed : Call(passed, Join(m, f)) \/ Call(passed, Join(f, m))
    BY <1>3
  <2> HIDE DEF m, f
  <2>5. m.size + f.size <= MaxCommands /\ f.size + m.size <= MaxCommands
    BY <1>1, <2>1, <2>2, <2>3, MultipleAssumption
  <2>6. Passing(Join(m, f)) /\ Passing(Join(f, m))
    BY <2>2, <2>3, <2>5, JoinPassing
  <2>7. QED
    BY <2>4, <2>6, CallPassing
<1>4. QED
  BY <1>2, <1>3 DEF Extend, Call, Crash

\* Setters that leave size, numbers and communicator alone.
LEMMA KeptPassing ==
  ASSUME PassingInv, mpc = "ready", NEW passed, NEW members, Call(passed, members),
         passed => /\ members.size = multi.size /\ members.maxprocs = multi.maxprocs
                   /\ members.comm = multi.comm
  PROVE  PassingInv'
<1>1. passed => Passing(members)
  BY DEF PassingInv, Passing
<1>2. QED
  BY <1>1, CallPassing

LEMMA NumbersPassing ==
  ASSUME MultiInv, PassingInv, mpc = "ready", NEW ns \in Seq(Numbers), NEW passed,
         Call(passed, [multi EXCEPT !.maxprocs = ns])
  PROVE  PassingInv'
<1> DEFINE m == [multi EXCEPT !.maxprocs = ns]
<1>1. m.size = multi.size /\ m.maxprocs = ns /\ m.comm = multi.comm
  BY DEF MultiInv, MultiOK, PartOK, MultiSpawners
<1> HIDE DEF m
<1>2. Passing(m)
  BY <1>1 DEF PassingInv, Passing
<1>3. QED
  BY <1>2, CallPassing DEF m

LEMMA EntryPassing ==
  ASSUME PassingInv, NEW field, NEW i, NEW passed, NEW members,
         Entry(field, i, passed, members),
         \A test : Call(test, members) => PassingInv'
  PROVE  PassingInv'
<1>1. CASE ~Sized /\ Call(FALSE, None)
  BY <1>1, CallPassing
<1>2. CASE Crash("subscript")
  BY <1>2, LostPassing DEF Crash
<1>3. CASE UNCHANGED allvars
  BY <1>3, SamePassing DEF allvars, vars, mvars
<1>4. QED
  BY <1>1, <1>2, <1>3 DEF Entry, Stray

LEMMA SettersPassing ==
  ASSUME MultiInv, PassingInv,
         \/ \E names \in ListsOf(Texts) : SetCommands(names)
         \/ \E is \in ListsOf(Infos) : SetSpawnInfos(is)
         \/ \E lists \in ListsOfArguments : AddArgvs(lists)
         \/ RemoveArgvs
         \/ \E ns \in ListsOf(MultiNumbers) : SetMaxprocsOfAll(ns)
  PROVE  PassingInv'
<1>1. mpc = "ready"
  BY DEF SetCommands, SetSpawnInfos, AddArgvs, RemoveArgvs, SetMaxprocsOfAll, Ready
<1>2. multi \in MultiSpawners
  BY <1>1 DEF MultiInv, MultiOK, PartOK
<1>3. ASSUME NEW names \in ListsOf(Texts), SetCommands(names) PROVE PassingInv'
  <2> DEFINE m == [multi EXCEPT !.commands = names]
  <2>1. PICK passed : Call(passed, m)
    BY <1>3 DEF SetCommands
  <2>2. m.size = multi.size /\ m.maxprocs = multi.maxprocs /\ m.comm = multi.comm
    BY <1>2 DEF MultiSpawners
  <2> HIDE DEF m
  <2>3. QED
    BY <1>1, <2>1, <2>2, KeptPassing
<1>4. ASSUME NEW is \in ListsOf(Infos), SetSpawnInfos(is) PROVE PassingInv'
  <2> DEFINE m == [multi EXCEPT !.infos = is]
  <2>1. PICK passed : Call(passed, m)
    BY <1>4 DEF SetSpawnInfos
  <2>2. m.size = multi.size /\ m.maxprocs = multi.maxprocs /\ m.comm = multi.comm
    BY <1>2 DEF MultiSpawners
  <2> HIDE DEF m
  <2>3. QED
    BY <1>1, <2>1, <2>2, KeptPassing
<1>5. ASSUME NEW lists, AddArgvs(lists) PROVE PassingInv'
  <2> DEFINE rows == [k \in DOMAIN multi.argvs |->
                       IF k \in DOMAIN lists THEN multi.argvs[k] \o lists[k] ELSE multi.argvs[k]]
             m == [multi EXCEPT !.argvs = rows]
  <2>1. PICK passed : Call(passed, m)
    BY <1>2, <1>5 DEF AddArgvs, MultiSpawners
  <2> HIDE DEF rows
  <2>2. m.size = multi.size /\ m.maxprocs = multi.maxprocs /\ m.comm = multi.comm
    BY <1>2 DEF MultiSpawners
  <2> HIDE DEF m
  <2>3. QED
    BY <1>1, <2>1, <2>2, KeptPassing
<1>6. CASE RemoveArgvs
  <2> DEFINE rows == [k \in 1..multi.size |-> <<>>]
             m == [multi EXCEPT !.argvs = rows]
  <2>1. Call(Sized, m)
    BY <1>6 DEF RemoveArgvs
  <2> HIDE DEF rows
  <2>2. m.size = multi.size /\ m.maxprocs = multi.maxprocs /\ m.comm = multi.comm
    BY <1>2 DEF MultiSpawners
  <2> HIDE DEF m
  <2>3. QED
    BY <1>1, <2>1, <2>2, KeptPassing
<1>7. ASSUME NEW ns \in ListsOf(MultiNumbers), SetMaxprocsOfAll(ns) PROVE PassingInv'
  <2>1. \/ \E passed : Call(passed, [multi EXCEPT !.maxprocs = ns])
        \/ Crash("message")
    BY <1>7 DEF SetMaxprocsOfAll, StrayMessage
  <2>2. ns \in Seq(Numbers)
    BY PassedNumbers
  <2>3. QED
    BY <1>1, <2>1, <2>2, NumbersPassing, LostPassing DEF Crash
<1>8. QED
  BY <1>3, <1>4, <1>5, <1>6, <1>7

LEMMA EntriesPassing ==
  ASSUME MultiInv, PassingInv, NEW i \in Nat \ {0},
         \/ \E c \in Texts : SetCommandAt(i, c)
         \/ \E n \in MultiNumbers : SetMaxprocsAt(i, n)
         \/ \E info \in Infos : SetSpawnInfoAt(i, info)
         \/ \E args \in Arguments : AddArgvAt(i, args)
         \/ RemoveArgvAt(i)
         \/ \E j \in 1..MaxArgs : RemoveArgAt(i, j)
         \/ \E field \in {"commands", "argvs", "maxprocs", "infos"} : ReadAt(field, i)
  PROVE  PassingInv'
<1>1. mpc = "ready"
  BY DEF SetCommandAt, SetMaxprocsAt, SetSpawnInfoAt, AddArgvAt, RemoveArgvAt, RemoveArgAt,
         ReadAt, Entry, StrayMessageAt, Ready
<1>2. multi \in MultiSpawners
  BY <1>1 DEF MultiInv, MultiOK, PartOK
<1>3. ASSUME NEW m, NEW field, NEW passed, Entry(field, i, passed, m),
             m.size = multi.size, m.maxprocs = multi.maxprocs, m.comm = multi.comm
      PROVE  PassingInv'
  BY <1>1, <1>3, KeptPassing, EntryPassing
<1>4. ASSUME NEW rows, NEW passed, Entry("argvs", i, passed, [multi EXCEPT !.argvs = rows])
      PROVE  PassingInv'
  <2> DEFINE m == [multi EXCEPT !.argvs = rows]
  <2>1. m.size = multi.size /\ m.maxprocs = multi.maxprocs /\ m.comm = multi.comm
    BY <1>2 DEF MultiSpawners
  <2> HIDE DEF m
  <2>2. QED
    BY <1>3, <1>4, <2>1 DEF m
<1>5. ASSUME NEW c \in Texts, SetCommandAt(i, c) PROVE PassingInv'
  <2> DEFINE names == [multi.commands EXCEPT ![i] = c]
             m == [multi EXCEPT !.commands = names]
  <2>1. Entry("commands", i, LegalCommand(c), m)
    BY <1>5 DEF SetCommandAt
  <2> HIDE DEF names
  <2>2. m.size = multi.size /\ m.maxprocs = multi.maxprocs /\ m.comm = multi.comm
    BY <1>2 DEF MultiSpawners
  <2> HIDE DEF m
  <2>3. QED
    BY <1>3, <2>1, <2>2
<1>6. ASSUME NEW n \in MultiNumbers, SetMaxprocsAt(i, n) PROVE PassingInv'
  <2> DEFINE ns == [multi.maxprocs EXCEPT ![i] = n]
             m == [multi EXCEPT !.maxprocs = ns]
             passed == LegalNumbers(ns) /\ LegalTotal(ns)
  <2>1. Entry("maxprocs", i, passed, m) \/ Crash("message")
    BY <1>6 DEF SetMaxprocsAt, StrayMessageAt, StrayMessage
  <2>2. ns \in Seq(Numbers)
    <3> DEFINE old == multi.maxprocs
    <3>1. old \in Seq(Numbers) /\ n \in Numbers
      BY <1>1, PassedNumber DEF PassingInv, Passing
    <3>2. ns = [old EXCEPT ![i] = n]
      OBVIOUS
    <3> DEFINE l == Len(old)
    <3> HIDE DEF old, ns
    <3>3. l \in Nat /\ old \in [1..l -> Numbers]
      BY <3>1
    <3> HIDE DEF l
    <3>4. ns \in [1..l -> Numbers]
      BY <3>1, <3>2, <3>3
    <3>5. QED
      BY <3>3, <3>4
  <2> HIDE DEF ns, passed
  <2>3. \A test : Call(test, m) => PassingInv'
    BY <1>1, <2>2, NumbersPassing
  <2> HIDE DEF m
  <2>4. QED
    BY <2>1, <2>3, EntryPassing, LostPassing DEF Crash
<1>7. ASSUME NEW info \in Infos, SetSpawnInfoAt(i, info) PROVE PassingInv'
  <2> DEFINE is == [multi.infos EXCEPT ![i] = info]
             m == [multi EXCEPT !.infos = is]
  <2>1. Entry("infos", i, TRUE, m)
    BY <1>7 DEF SetSpawnInfoAt
  <2> HIDE DEF is
  <2>2. m.size = multi.size /\ m.maxprocs = multi.maxprocs /\ m.comm = multi.comm
    BY <1>2 DEF MultiSpawners
  <2> HIDE DEF m
  <2>3. QED
    BY <1>3, <2>1, <2>2
<1>8. ASSUME NEW args \in Arguments, AddArgvAt(i, args) PROVE PassingInv'
  <2> DEFINE rows == [multi.argvs EXCEPT ![i] = multi.argvs[i] \o args]
  <2>1. Entry("argvs", i, LegalArgvs(args), [multi EXCEPT !.argvs = rows])
    BY <1>8 DEF AddArgvAt
  <2> HIDE DEF rows
  <2>2. QED
    BY <1>4, <2>1
<1>9. CASE RemoveArgvAt(i)
  <2> DEFINE rows == [multi.argvs EXCEPT ![i] = <<>>]
  <2>1. Entry("argvs", i, TRUE, [multi EXCEPT !.argvs = rows])
    BY <1>9 DEF RemoveArgvAt
  <2> HIDE DEF rows
  <2>2. QED
    BY <1>4, <2>1
<1>10. ASSUME NEW j \in 1..MaxArgs, RemoveArgAt(i, j) PROVE PassingInv'
  <2> DEFINE old == multi.argvs[i]
             rows == [multi.argvs EXCEPT ![i] =
                        SubSeq(old, 1, j - 1) \o SubSeq(old, j + 1, Len(old))]
  <2>1. Entry("argvs", i, TRUE, [multi EXCEPT !.argvs = rows])
    BY <1>10 DEF RemoveArgAt
  <2> HIDE DEF rows
  <2>2. QED
    BY <1>4, <2>1
<1>11. ASSUME NEW field \in {"commands", "argvs", "maxprocs", "infos"}, ReadAt(field, i)
       PROVE  PassingInv'
  <2>1. Entry(field, i, TRUE, multi)
    BY <1>11 DEF ReadAt
  <2>2. QED
    BY <1>3, <2>1
<1>12. QED
  BY <1>5, <1>6, <1>7, <1>8, <1>9, <1>10, <1>11

LEMMA GroupPassing ==
  ASSUME MultiInv, PassingInv,
         \/ \E r \in MultiNumbers : MSetRoot(r)
         \/ \E c \in Comms \union {NullComm} : MSetCommunicator(c)
  PROVE  PassingInv'
<1>1. mpc = "ready"
  BY DEF MSetRoot, MSetCommunicator, Ready
<1>2. multi \in MultiSpawners /\ Passing(multi)
  BY <1>1 DEF MultiInv, MultiOK, PartOK, PassingInv
<1>3. ASSUME NEW r \in MultiNumbers, MSetRoot(r) PROVE PassingInv'
  <2> DEFINE m == [multi EXCEPT !.root = r]
  <2>1. m.size = multi.size /\ m.maxprocs = multi.maxprocs /\ m.comm = multi.comm
    BY <1>2 DEF MultiSpawners
  <2>2. /\ level' = level /\ UNCHANGED <<pc, spawner>>
        /\ mpc' = "ready" => multi' = m
    BY <1>3 DEF MSetRoot, environment
  <2> HIDE DEF m
  <2>3. mpc' = "ready" => Passing(multi)'
    BY <1>2, <2>1, <2>2 DEF Passing
  <2>4. QED
    BY <2>2, <2>3 DEF PassingInv
<1>4. ASSUME NEW c \in Comms \union {NullComm}, MSetCommunicator(c) PROVE PassingInv'
  <2> DEFINE m == [multi EXCEPT !.comm = c]
  <2>1. m.size = multi.size /\ m.maxprocs = multi.maxprocs /\ m.comm = c
    BY <1>2 DEF MultiSpawners
  <2>2. /\ level' = level /\ UNCHANGED <<pc, spawner>>
        /\ mpc' = "ready" => multi' = m /\ (level >= 1 => c # NullComm)
    BY <1>4 DEF MSetCommunicator, environment, Precondition, LegalCommunicator
  <2> HIDE DEF m
  <2>3. mpc' = "ready" => Passing(multi)'
    BY <1>2, <2>1, <2>2 DEF Passing
  <2>4. QED
    BY <2>2, <2>3 DEF PassingInv
<1>5. QED
  BY <1>3, <1>4

LEMMA MNextPassing == MultiInv /\ PassingInv /\ [MNext]_allvars => PassingInv'
<1> SUFFICES ASSUME MultiInv, PassingInv, [MNext]_allvars PROVE PassingInv'
  OBVIOUS
<1> Indices \subseteq Nat \ {0}
  BY MultipleAssumption DEF Indices
<1>1. CASE SingleStep
  BY <1>1, SinglePassing DEF MultiInv
<1>2. CASE \E names \in ListsOf(Texts) \union {<<>>}, ns \in ListsOf(MultiNumbers) \union {<<>>} :
             MConstruct(names, ns)
  BY <1>2, MConstructPassing
<1>3. CASE Convert
  BY <1>3, ConvertPassing DEF MultiInv
<1>4. CASE \E c \in Texts, n \in MultiNumbers : Combine(c, n) \/ Extend(c, n)
  BY <1>4, CombinePassing, ExtendPassing DEF MultiInv
<1>5. CASE \/ \E names \in ListsOf(Texts) : SetCommands(names)
           \/ \E is \in ListsOf(Infos) : SetSpawnInfos(is)
           \/ \E lists \in ListsOfArguments : AddArgvs(lists)
           \/ RemoveArgvs
           \/ \E ns \in ListsOf(MultiNumbers) : SetMaxprocsOfAll(ns)
  BY <1>5, SettersPassing
<1>6. ASSUME NEW i \in Indices,
             \/ \E c \in Texts : SetCommandAt(i, c)
             \/ \E n \in MultiNumbers : SetMaxprocsAt(i, n)
             \/ \E info \in Infos : SetSpawnInfoAt(i, info)
             \/ \E args \in Arguments : AddArgvAt(i, args)
             \/ RemoveArgvAt(i)
             \/ \E j \in 1..MaxArgs : RemoveArgAt(i, j)
             \/ \E field \in {"commands", "argvs", "maxprocs", "infos"} : ReadAt(field, i)
      PROVE  PassingInv'
  BY <1>6, EntriesPassing
<1>7. CASE \/ \E r \in MultiNumbers : MSetRoot(r)
           \/ \E c \in Comms \union {NullComm} : MSetCommunicator(c)
  BY <1>7, GroupPassing
<1>8. CASE MSpawnAborts \/ MSpawnMessage \/ MSpawnCrashes
  BY <1>8, LostPassing DEF MSpawnAborts, MSpawnMessage, MSpawnCrashes, StrayMessage, Crash
<1>9. CASE (\E w \in BOOLEAN : MSpawn(w)) \/ UNCHANGED allvars
  BY <1>9, SamePassing DEF MSpawn, allvars, vars, mvars, environment
<1>10. QED
  BY <1>1, <1>2, <1>3, <1>4, <1>5, <1>6, <1>7, <1>8, <1>9, Zenon DEF MNext, MultiStep

\* What MPI is told, and what is known of the processes it started, after any step
\* but a spawn: there is no result, or it is the one there was.
LEMMA Quiet ==
  ASSUME MultiInv, PassingInv, MultiStep
  PROVE  \/ \E w \in BOOLEAN : MSpawn(w)
         \/ (Dropped \/ UNCHANGED outcome) /\ UNCHANGED <<erroneous, level>>
<1> DEFINE Silent == (Dropped \/ UNCHANGED outcome) /\ UNCHANGED <<erroneous, level>>
<1>1. ASSUME NEW passed, NEW m, Call(passed, m) PROVE Silent
  BY <1>1 DEF Call, environment
<1>2. ASSUME NEW where, Crash(where) PROVE Silent
  BY <1>2 DEF Crash, environment
<1>3. UNCHANGED allvars => Silent
  BY DEF allvars, vars, outcome
<1>4. ASSUME NEW passed, NEW m, CombineSingle(passed, m) PROVE Silent
  BY <1>4 DEF CombineSingle, environment
<1>5. ASSUME NEW field, NEW i, NEW passed, NEW m, Entry(field, i, passed, m) PROVE Silent
  BY <1>1, <1>2, <1>3, <1>5 DEF Entry, Stray
<1>6. mpc = "ready" /\ level = 2 => multi.comm # NullComm
  BY DEF PassingInv, Passing
<1>7. ASSUME NEW r, MSetRoot(r) PROVE Silent
  BY <1>6, <1>7 DEF MSetRoot, Ready, SizeErrors, environment
<1>8. ASSUME NEW c, MSetCommunicator(c) PROVE Silent
  BY <1>8 DEF MSetCommunicator, SizeErrors, LegalCommunicator, environment
<1>9. ASSUME MSpawnAborts PROVE Silent
  BY <1>9 DEF MSpawnAborts, SizeErrors, Precondition, PassingInv, Passing, Ready, environment
<1> HIDE DEF Silent
<1>10. ASSUME NEW names, NEW ns, MConstruct(names, ns) PROVE Silent
  BY <1>1, <1>10 DEF MConstruct
<1>11. Convert => Silent
  BY <1>4 DEF Convert
<1>12. ASSUME NEW c, NEW n, Combine(c, n) PROVE Silent
  BY <1>4, <1>12 DEF Combine
<1>13. ASSUME NEW c, NEW n, Extend(c, n) PROVE Silent
  BY <1>1, <1>2, <1>13 DEF Extend
<1>14. /\ \A names : SetCommands(names) => Silent
       /\ \A ns : SetMaxprocsOfAll(ns) => Silent
       /\ \A is : SetSpawnInfos(is) => Silent
       /\ RemoveArgvs => Silent
  BY <1>1, <1>2 DEF SetCommands, SetMaxprocsOfAll, SetSpawnInfos, RemoveArgvs, StrayMessage
<1>15. ASSUME NEW lists, AddArgvs(lists) PROVE Silent
  BY <1>1, <1>15 DEF AddArgvs
<1>16. ASSUME NEW i,
              \/ \E c \in Texts : SetCommandAt(i, c)
              \/ \E n \in MultiNumbers : SetMaxprocsAt(i, n)
              \/ \E info \in Infos : SetSpawnInfoAt(i, info)
              \/ \E args \in Arguments : AddArgvAt(i, args)
              \/ RemoveArgvAt(i)
              \/ \E j \in 1..MaxArgs : RemoveArgAt(i, j)
              \/ \E field \in {"commands", "argvs", "maxprocs", "infos"} : ReadAt(field, i)
       PROVE  Silent
  BY <1>2, <1>5, <1>16, Zenon DEF SetCommandAt, SetMaxprocsAt, SetSpawnInfoAt, AddArgvAt,
     RemoveArgvAt, RemoveArgAt, ReadAt, StrayMessageAt, StrayMessage
<1>17. MSpawnMessage \/ MSpawnCrashes => Silent
  BY <1>2 DEF MSpawnMessage, MSpawnCrashes, StrayMessage
<1>18. QED
  BY <1>7, <1>8, <1>9, <1>10, <1>11, <1>12, <1>13, <1>14, <1>15, <1>16, <1>17, Zenon
     DEF MultiStep, Silent

\* A result as a spawn of several commands leaves it, with or without assertions.
LEMMA MSpawnTyped ==
  ASSUME MultiInv, NEW w \in BOOLEAN, MSpawn(w)
  PROVE  result' \in Results /\ spawned' \in Nat
<1> DEFINE n == TotalMaxprocs(multi.maxprocs)
           asked == AskedFor(multi)
<1>1. multi \in MultiSpawners
  BY DEF MSpawn, Ready, MultiInv, MultiOK, PartOK
<1>2. n \in Int
  BY <1>1, SumOfTyped, WrapTyped DEF TotalMaxprocs, MultiSpawners
<1>3. asked \in Int
  <2>1. CASE LegalCall(multi)
    <3>1. Len(multi.maxprocs) >= multi.size /\ multi.size \in Nat /\ multi.maxprocs \in Seq(Int)
      BY <1>1, <2>1 DEF LegalCall, Complete, Lengths, MultiSpawners
    <3>2. SubSeq(multi.maxprocs, 1, multi.size) \in Seq(Int)
      BY <3>1
    <3>3. Taken(multi).maxprocs = SubSeq(multi.maxprocs, 1, multi.size)
      BY <1>1 DEF Taken, MultiSpawners
    <3>4. QED
      BY <2>1, <3>2, <3>3, SumOfTyped DEF AskedFor
  <2>2. CASE ~LegalCall(multi)
    BY <1>2, <2>2 DEF AskedFor
  <2>3. QED
    BY <2>1, <2>2
<1>4. w => n >= 0
  BY DEF MSpawn
<1>5. PICK m \in IF LegalCall(multi) THEN 0..asked ELSE {0} :
        /\ spawned' = m
        /\ \E codes \in IF w THEN Written(Blank(asked), asked, m) ELSE {None} :
             result' = [maxprocs |-> n,
                        errcodes |-> IF w
                                     THEN [k \in 1..n |-> IF k <= asked THEN codes[k] ELSE Unset]
                                     ELSE None]
  BY DEF MSpawn
<1>6. PICK codes \in IF w THEN Written(Blank(asked), asked, m) ELSE {None} :
        result' = [maxprocs |-> n,
                   errcodes |-> IF w
                                THEN [k \in 1..n |-> IF k <= asked THEN codes[k] ELSE Unset]
                                ELSE None]
  BY <1>5
<1> HIDE DEF n, asked
<1>7. m \in Nat
  BY <1>3, <1>5
<1>8. CASE w
  <2>1. codes \in [1..asked -> Codes]
    BY <1>6, <1>8 DEF Written, Blank, Codes
  <2>2. [k \in 1..n |-> IF k <= asked THEN codes[k] ELSE Unset] \in [1..n -> Codes]
    <3>1. ASSUME NEW k \in 1..n PROVE (IF k <= asked THEN codes[k] ELSE Unset) \in Codes
      <4>1. k <= asked => k \in 1..asked
        BY <1>2, <1>3
      <4>2. QED
        BY <2>1, <4>1 DEF Codes
    <3>2. QED
      BY <3>1
  <2> DEFINE e == [k \in 1..n |-> IF k <= asked THEN codes[k] ELSE Unset]
  <2>3. result' = [maxprocs |-> n, errcodes |-> e]
    BY <1>6, <1>8
  <2>4. n \in Nat /\ e \in [1..n -> Codes]
    BY <1>2, <1>4, <1>8, <2>2
  <2> HIDE DEF e
  <2>5. e \in Seq(Codes)
    BY <2>4
  <2>6. QED
    BY <1>2, <1>5, <1>7, <2>3, <2>5 DEF Results
<1>9. CASE ~w
  BY <1>2, <1>5, <1>6, <1>7, <1>9 DEF Results
<1>10. QED
  BY <1>8, <1>9

LEMMA TakenSame ==
  ASSUME NEW m \in MultiSpawners, Even(m)
  PROVE  Taken(m) = m
<1>1. \A S : \A s \in Seq(S) : SubSeq(s, 1, Len(s)) = s
  OBVIOUS
<1>2. /\ SubSeq(m.commands, 1, m.size) = m.commands
      /\ SubSeq(m.maxprocs, 1, m.size) = m.maxprocs
      /\ SubSeq(m.infos, 1, m.size) = m.infos
  BY <1>1, EvenSequences
<1>3. Taken(m) = [m EXCEPT !.commands = m.commands, !.maxprocs = m.maxprocs,
                           !.infos = m.infos]
  BY <1>2 DEF Taken
<1>4. QED
  BY <1>3 DEF MultiSpawners

\* With assertions, and totals that are what they seem, MPI is asked for as many
\* processes as the result has room for, and nothing is wrong with the call.
LEMMA MSpawnExact ==
  ASSUME MultiInv, PassingInv, NoFalseTotals, level >= 1, NEW w \in BOOLEAN, MSpawn(w)
  PROVE  /\ LegalCall(multi)
         /\ AskedFor(multi) = TotalMaxprocs(multi.maxprocs)
         /\ TotalMaxprocs(multi.maxprocs) \in Nat
<1> DEFINE ns == multi.maxprocs
<1>1. multi \in MultiSpawners /\ Passing(multi) /\ MSpawnable(multi)
  BY DEF MSpawn, Ready, MultiInv, MultiOK, PartOK, PassingInv, Precondition
<1>2. Lengths(multi) = {multi.size} /\ LegalNumbers(ns) /\ LegalTotal(ns)
  BY <1>1 DEF MSpawnable, SpawnableSoFar
<1>3. Even(multi) /\ Taken(multi) = multi
  BY <1>1, <1>2, EvenMembers, TakenSame
<1>4. ns \in Seq(Numbers) /\ Len(ns) \in 1..MaxCommands /\ multi.size > 0
  <2>1. /\ ns \in Seq(Numbers) /\ multi.size \in 0..MaxCommands /\ multi.size # 0
        /\ Len(ns) = multi.size
    BY <1>1, <1>3, EvenSequences DEF Passing
  <2> HIDE DEF ns
  <2>2. QED
    BY <2>1, MultipleAssumption
<1>5. TotalMaxprocs(ns) = SumOf[ns] /\ SumOf[ns] \in Nat
  BY <1>2, <1>4, ExactTotal
<1>6. Complete(multi)
  BY <1>2, <1>3 DEF Complete, Even
<1>7. LegalCall(multi)
  BY <1>1, <1>2, <1>3, <1>4, <1>5, <1>6 DEF LegalCall, LegalTotal
<1>8. QED
  BY <1>3, <1>5, <1>7 DEF AskedFor

LEMMA MSpawnAddsUp ==
  ASSUME MultiInv, PassingInv, NoFalseTotals, level >= 1, NEW w \in BOOLEAN, MSpawn(w)
  PROVE  ErrorsAddUp'
<1> DEFINE n == TotalMaxprocs(multi.maxprocs)
<1>1. LegalCall(multi) /\ AskedFor(multi) = n /\ n \in Nat
  BY MSpawnExact
<1>2. PICK m \in 0..n :
        /\ spawned' = m
        /\ \E codes \in IF w THEN Written(Blank(n), n, m) ELSE {None} :
             result' = [maxprocs |-> n,
                        errcodes |-> IF w
                                     THEN [k \in 1..n |-> IF k <= n THEN codes[k] ELSE Unset]
                                     ELSE None]
  BY <1>1 DEF MSpawn
<1>3. PICK codes \in IF w THEN Written(Blank(n), n, m) ELSE {None} :
        result' = [maxprocs |-> n,
                   errcodes |-> IF w
                                THEN [k \in 1..n |-> IF k <= n THEN codes[k] ELSE Unset]
                                ELSE None]
  BY <1>2
<1> HIDE DEF n
<1>4. CASE ~w
  BY <1>3, <1>4 DEF ErrorsAddUp
<1>5. CASE w
  <2>1. codes \in Written(Blank(n), n, m) /\ m \in Nat
    BY <1>3, <1>5
  <2>2. codes \in [1..n -> Codes]
    BY <2>1 DEF Written, Blank, Codes
  <2>3. [k \in 1..n |-> IF k <= n THEN codes[k] ELSE Unset] = codes
    BY <1>1, <2>2
  <2>4. result'.maxprocs = n /\ result'.errcodes = codes /\ spawned' = m
    BY <1>2, <1>3, <1>5, <2>3
  <2>5. QED
    BY <1>1, <2>1, <2>4, CodesAddUp
<1>6. QED
  BY <1>4, <1>5

-----------------------------------------------------------------------------

LEMMA MInitPassing == MInit => PassingInv /\ TypeOK /\ NoErroneousCall /\ ErrorsAddUp
  BY InitInv DEF MInit, Init, PassingInv, SpawnerInv, ErrorsAddUp

LEMMA MNextTyped == MultiInv /\ MultiInv' /\ PassingInv /\ TypeOK /\ [MNext]_allvars => TypeOK'
<1> SUFFICES ASSUME MultiInv, MultiInv', PassingInv, TypeOK, [MNext]_allvars PROVE TypeOK'
  OBVIOUS
<1> DEFINE Calls == {"MPI_Comm_size", "MPI_Comm_spawn", "MPI_Comm_spawn_multiple"}
<1>1. CASE SingleStep
  BY <1>1, NextKeeps DEF SingleStep, MultiInv, Kept
<1>2. CASE UNCHANGED allvars
  BY <1>2 DEF allvars, vars, TypeOK
<1>3. CASE MultiStep
  <2>1. MembersTyped' /\ result \in Results \union {None} /\ spawned \in Nat
        /\ erroneous \subseteq Calls
    BY DEF MultiInv, MembersInv, TypeOK
  <2>2. /\ result' \in Results \union {None} /\ spawned' \in Nat
        /\ erroneous' \subseteq Calls
    <3>1. CASE (Dropped \/ UNCHANGED outcome) /\ erroneous' = erroneous
      BY <2>1, <3>1 DEF Dropped, outcome
    <3>2. ASSUME NEW w \in BOOLEAN, MSpawn(w)
          PROVE  /\ result' \in Results /\ spawned' \in Nat
                 /\ erroneous' \subseteq Calls
      <4>1. result' \in Results /\ spawned' \in Nat
        BY <3>2, MSpawnTyped
      <4>2. erroneous' = erroneous \/ erroneous' = erroneous \union {"MPI_Comm_spawn_multiple"}
        BY <3>2 DEF MSpawn
      <4>3. QED
        BY <2>1, <4>1, <4>2
    <3>3. QED
      BY <1>3, <3>1, <3>2, Quiet
  <2>3. QED
    BY <2>1, <2>2 DEF MembersTyped, TypeOK
<1>4. QED
  BY <1>1, <1>2, <1>3 DEF MNext

LEMMA MNextCalls ==
  ASSUME NoFalseTotals
  PROVE  MultiInv /\ PassingInv /\ NoErroneousCall /\ [MNext]_allvars => NoErroneousCall'
<1> SUFFICES ASSUME MultiInv, PassingInv, NoErroneousCall, [MNext]_allvars
             PROVE  NoErroneousCall'
  OBVIOUS
<1>1. CASE SingleStep
  BY <1>1, NextKeeps DEF SingleStep, MultiInv, Kept
<1>2. CASE UNCHANGED allvars
  BY <1>2 DEF allvars, vars, NoErroneousCall
<1>3. CASE MultiStep
  <2>1. level' = level
    BY <1>3, Quiet DEF MSpawn, environment
  <2>2. CASE erroneous' = erroneous
    BY <2>1, <2>2 DEF NoErroneousCall
  <2>3. ASSUME NEW w \in BOOLEAN, MSpawn(w) PROVE NoErroneousCall'
    <3>1. level >= 1 => LegalCall(multi)
      BY <2>3, MSpawnExact
    <3>2. LegalCall(multi) => erroneous' = erroneous
      BY <2>3 DEF MSpawn
    <3>3. QED
      BY <2>1, <3>1, <3>2 DEF NoErroneousCall
  <2>4. QED
    BY <1>3, <2>2, <2>3, Quiet
<1>4. QED
  BY <1>1, <1>2, <1>3 DEF MNext

LEMMA MNextAddsUp ==
  ASSUME NoFalseTotals, 0 \notin Levels
  PROVE  MultiInv /\ PassingInv /\ ErrorsAddUp /\ [MNext]_allvars => ErrorsAddUp'
<1> SUFFICES ASSUME MultiInv, PassingInv, ErrorsAddUp, [MNext]_allvars PROVE ErrorsAddUp'
  OBVIOUS
<1>1. level >= 1
  BY SpawnerAssumption DEF MultiInv, MembersInv, MembersTyped
<1>2. CASE SingleStep
  BY <1>2, NextAddsUp DEF SingleStep, MultiInv
<1>3. CASE UNCHANGED outcome
  BY <1>3 DEF outcome, ErrorsAddUp, NumberOfSpawnedProcesses, FailedSpawns, AllProcessesSpawned
<1>4. CASE Dropped
  BY <1>4 DEF Dropped, ErrorsAddUp
<1>5. ASSUME NEW w \in BOOLEAN, MSpawn(w) PROVE ErrorsAddUp'
  BY <1>1, <1>5, MSpawnAddsUp
<1>6. CASE MultiStep
  BY <1>3, <1>4, <1>5, <1>6, Quiet
<1>7. CASE UNCHANGED allvars
  BY <1>3, <1>7 DEF allvars, vars, outcome
<1>8. QED
  BY <1>2, <1>6, <1>7 DEF MNext

LEMMA PassingInvariance == MSpec => []PassingInv
  BY MultiInvariance, MInitPassing, MNextPassing, PTL DEF MSpec

\* single_spawner and multiple_spawner together, at any assertion level: members and
\* results keep their types, whatever maxprocs adds up to.
THEOREM ResultsTyped == MSpec => []TypeOK
  BY MultiInvariance, PassingInvariance, MInitPassing, MNextTyped, PTL DEF MSpec

\* multiple_spawner with assertions: neither the tests nor the spawns that passed them
\* give MPI an illegal argument, as long as no total wraps around to a legal one.
THEOREM MNoErroneousCalls ==
  ASSUME NoFalseTotals
  PROVE  MSpec => []NoErroneousCall
<1>1. MultiInv /\ PassingInv /\ NoErroneousCall /\ [MNext]_allvars => NoErroneousCall'
  BY MNextCalls
<1>2. QED
  BY MultiInvariance, PassingInvariance, MInitPassing, <1>1, PTL DEF MSpec

\* Results of spawning several commands, with assertions: the processes started and
\* the errors counted add up to the total of maxprocs, for any number of commands, as
\* long as no total wraps around to a legal one.
THEOREM MAddsUp ==
  ASSUME NoFalseTotals, 0 \notin Levels
  PROVE  MSpec => []ErrorsAddUp
<1>1. MultiInv /\ PassingInv /\ ErrorsAddUp /\ [MNext]_allvars => ErrorsAddUp'
  BY MNextAddsUp
<1>2. QED
  BY MultiInvariance, PassingInvariance, MInitPassing, <1>1, PTL DEF MSpec

\* A single spawner stays legal also when it goes on to a multiple one.
THEOREM SingleLegalThroughout == MSpec => []SettersKeepLegal
<1>1. MultiInv => SettersKeepLegal
  BY DEF MultiInv, MembersInv
<1>2. QED
  BY MultiInvariance, <1>1, PTL
=============================================================================
