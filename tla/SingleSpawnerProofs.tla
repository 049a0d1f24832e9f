------------------------- MODULE SingleSpawnerProofs -------------------------
(***************************************************************************)
(* The safety of SingleSpawner for any texts, numbers, communicators and   *)
(* universe.  No part of the invariant is inductive alone: the assertions  *)
(* may ask for the size of the communicator because no setter lets the     *)
(* null communicator pass (CommChecked), and the root stays legal because  *)
(* both setters test the pair of root and communicator.                    *)
(***************************************************************************)
EXTENDS SingleSpawner, FiniteSetTheorems, TLAPS

\* At either assertion level a spawner that is in use has a communicator.
CommChecked == level >= 1 /\ pc = "ready" => spawner.comm # NullComm

MembersTyped ==
  /\ level \in Levels /\ universe \in UniverseSizes
  /\ pc \in {"none", "ready", "aborted"}
  /\ pc # "none" => spawner \in Spawners

\* What is said of the members alone holds for any client, whatever it does with
\* results and with MPI.
MembersInv == MembersTyped /\ CommChecked /\ SettersKeepLegal

SpawnerInv == MembersInv /\ TypeOK /\ NoErroneousCall

Kept == MembersInv' /\ (TypeOK => TypeOK') /\ (NoErroneousCall => NoErroneousCall')

-----------------------------------------------------------------------------

\* Appending legal arguments to legal arguments gives legal arguments.
LEMMA AppendLegal ==
  ASSUME NEW a \in Seq(Texts), NEW b \in Seq(Texts), NEW n \in 0..Len(b),
         LegalArgvs(a), \A i \in 1..n : b[i] # Empty
  PROVE  LegalArgvs(a \o SubSeq(b, 1, n))
  <1> DEFINE s == SubSeq(b, 1, n)
  <1>1. s \in Seq(Texts) /\ Len(s) = n /\ \A i \in 1..n : s[i] = b[i]
    OBVIOUS
  <1> HIDE DEF s
  <1>2. Len(a \o s) = Len(a) + n
    BY <1>1
  <1>3. ASSUME NEW i \in 1..(Len(a) + n)  PROVE (a \o s)[i] # Empty
    <2>1. CASE i <= Len(a)
      BY <1>1, <1>3, <2>1 DEF LegalArgvs
    <2>2. CASE i > Len(a)
      <3>1. (a \o s)[i] = s[i - Len(a)] /\ i - Len(a) \in 1..n
        BY <1>1, <1>3, <2>2
      <3> QED BY <3>1, <1>1
    <2>3. i \in Int /\ Len(a) \in Nat
      BY <1>3
    <2>4. i <= Len(a) \/ i > Len(a)
      BY <2>3
    <2> QED BY <2>1, <2>2, <2>4
  <1> QED BY <1>1, <1>2, <1>3 DEF LegalArgvs, s

\* What the library leaves in the vector of codes is a vector of codes.
LEMMA WrittenCodes ==
  ASSUME NEW n \in Nat, NEW m \in Nat, NEW codes \in Written(Blank(n), n, m)
  PROVE  codes \in Seq(Codes)
  <1>1. codes \in [1..n -> Codes]
    BY DEF Written, Blank, Codes
  <1> QED BY <1>1

-----------------------------------------------------------------------------

LEMMA InitInv == Init => SpawnerInv
  BY SpawnerAssumption
  DEF Init, SpawnerInv, MembersInv, MembersTyped, TypeOK, CommChecked, SettersKeepLegal,
      NoErroneousCall, Results

LEMMA ConstructInv ==
  ASSUME MembersInv, NEW s \in Texts, NEW n \in Numbers, Construct(s, n)
  PROVE  Kept
  <1> USE SpawnerAssumption DEF MembersInv, Kept, Construct, Initial, environment, outcome
  <1>1. MembersTyped' /\ (TypeOK => TypeOK')
    <2>1. spawner' \in Spawners
      BY DEF Spawners
    <2> QED BY <2>1 DEF MembersTyped, TypeOK, Continue
  <1>2. CommChecked'
    BY DEF CommChecked
  <1>3. SettersKeepLegal'
    BY DEF SettersKeepLegal, Continue, Sanity, LegalCommand, LegalArgvs, LegalRoot,
           LegalCommunicator, MembersTyped
  <1>4. NoErroneousCall => NoErroneousCall'
    BY DEF NoErroneousCall
  <1> QED BY <1>1, <1>2, <1>3, <1>4

LEMMA SetCommandInv ==
  ASSUME MembersInv, NEW s \in Texts, SetCommand(s)
  PROVE  Kept
  <1> USE DEF MembersInv, Kept, SetCommand, environment, outcome
  <1>0. spawner \in Spawners
    BY DEF MembersTyped
  <1>1. MembersTyped' /\ (TypeOK => TypeOK')
    <2>1. spawner' \in Spawners
      BY <1>0 DEF Spawners
    <2> QED BY <2>1 DEF MembersTyped, TypeOK, Continue
  <1>2. CommChecked'
    BY <1>0 DEF CommChecked, Spawners
  <1>3. SettersKeepLegal'
    BY <1>0 DEF SettersKeepLegal, Continue, Sanity, LegalCommand, LegalArgvs, LegalRoot,
           LegalCommunicator, MembersTyped, Spawners
  <1>4. NoErroneousCall => NoErroneousCall'
    BY DEF NoErroneousCall
  <1> QED BY <1>1, <1>2, <1>3, <1>4

LEMMA AddArgvInv ==
  ASSUME MembersInv, NEW args \in Seq(Texts), AddArgv(args)
  PROVE  Kept
  <1> USE DEF MembersInv, Kept, environment, outcome
  <1>0. spawner \in Spawners /\ spawner.argvs \in Seq(Texts) /\ pc = "ready"
    BY DEF MembersTyped, Spawners, AddArgv
  <1> PICK n \in 0..Len(args) :
        /\ Sanity(\A i \in 1..n : args[i] # Empty)
        /\ spawner' = [spawner EXCEPT !.argvs = @ \o SubSeq(args, 1, n)]
        /\ Continue(n = Len(args))
    BY DEF AddArgv
  <1>e. UNCHANGED <<level, universe, result, spawned, erroneous>>
    BY DEF AddArgv
  <1>1. MembersTyped' /\ (TypeOK => TypeOK')
    <2>1. spawner.argvs \o SubSeq(args, 1, n) \in Seq(Texts)
      BY <1>0
    <2>2. spawner' \in Spawners
      BY <1>0, <2>1 DEF Spawners
    <2> QED BY <2>2, <1>e DEF MembersTyped, TypeOK, Continue
  <1>2. CommChecked'
    BY <1>0, <1>e DEF CommChecked, Spawners
  <1>3. SettersKeepLegal'
    <2> SUFFICES ASSUME level = 2
                 PROVE  LegalCommand(spawner'.command) /\ LegalArgvs(spawner'.argvs)
                        /\ LegalRoot(spawner'.root, spawner'.comm)
                        /\ LegalCommunicator(spawner'.comm)
      BY <1>e DEF SettersKeepLegal, LegalCommand, LegalArgvs, LegalRoot, LegalCommunicator
    <2>1. /\ LegalCommand(spawner.command) /\ LegalArgvs(spawner.argvs)
          /\ LegalRoot(spawner.root, spawner.comm) /\ LegalCommunicator(spawner.comm)
      BY <1>0 DEF SettersKeepLegal
    <2>2. \A i \in 1..n : args[i] # Empty
      BY DEF Sanity
    <2>3. LegalArgvs(spawner.argvs \o SubSeq(args, 1, n))
      BY <1>0, <2>1, <2>2, AppendLegal
    <2>4. /\ spawner'.argvs = spawner.argvs \o SubSeq(args, 1, n)
          /\ spawner'.command = spawner.command /\ spawner'.root = spawner.root
          /\ spawner'.comm = spawner.comm
      BY <1>0 DEF Spawners
    <2> QED BY <2>1, <2>3, <2>4
  <1>4. NoErroneousCall => NoErroneousCall'
    BY <1>e DEF NoErroneousCall
  <1> QED BY <1>1, <1>2, <1>3, <1>4

LEMMA SetMaxprocsInv ==
  ASSUME MembersInv, NEW n \in Numbers, SetMaxprocs(n)
  PROVE  Kept
  <1> USE SpawnerAssumption DEF MembersInv, Kept, SetMaxprocs, environment, outcome
  <1>0. spawner \in Spawners
    BY DEF MembersTyped
  <1>1. MembersTyped' /\ (TypeOK => TypeOK')
    <2>1. spawner' \in Spawners
      BY <1>0 DEF Spawners
    <2> QED BY <2>1 DEF MembersTyped, TypeOK, Continue
  <1>2. CommChecked'
    BY <1>0 DEF CommChecked, Spawners
  <1>3. SettersKeepLegal'
    BY <1>0 DEF SettersKeepLegal, LegalCommand, LegalArgvs, LegalRoot, LegalCommunicator,
           Spawners
  <1>4. NoErroneousCall => NoErroneousCall'
    BY DEF NoErroneousCall
  <1> QED BY <1>1, <1>2, <1>3, <1>4

LEMMA SetSpawnInfoInv ==
  ASSUME MembersInv, NEW i \in Infos, SetSpawnInfo(i)
  PROVE  Kept
  <1> USE DEF MembersInv, Kept, SetSpawnInfo, environment, outcome
  <1>0. spawner \in Spawners
    BY DEF MembersTyped
  <1>1. MembersTyped' /\ (TypeOK => TypeOK')
    <2>1. spawner' \in Spawners
      BY <1>0 DEF Spawners
    <2> QED BY <2>1 DEF MembersTyped, TypeOK
  <1>2. CommChecked'
    BY <1>0 DEF CommChecked, Spawners
  <1>3. SettersKeepLegal'
    BY <1>0 DEF SettersKeepLegal, LegalCommand, LegalArgvs, LegalRoot, LegalCommunicator,
           Spawners
  <1>4. NoErroneousCall => NoErroneousCall'
    BY DEF NoErroneousCall
  <1> QED BY <1>1, <1>2, <1>3, <1>4

LEMMA SetRootInv ==
  ASSUME MembersInv, NEW r \in Numbers, SetRoot(r)
  PROVE  Kept
  <1> USE SpawnerAssumption DEF MembersInv, Kept, SetRoot, environment, outcome
  <1>0. spawner \in Spawners
    BY DEF MembersTyped
  \* At level SANITY, where the size is asked for, there is a communicator.
  <1>e. erroneous' = erroneous
    BY DEF SizeErrors, CommChecked
  <1>1. MembersTyped' /\ (TypeOK => TypeOK')
    <2>1. spawner' \in Spawners
      BY <1>0 DEF Spawners
    <2> QED BY <2>1, <1>e DEF MembersTyped, TypeOK, Continue
  <1>2. CommChecked'
    BY <1>0 DEF CommChecked, Spawners
  <1>3. SettersKeepLegal'
    BY <1>0 DEF SettersKeepLegal, Continue, Sanity, LegalCommand, LegalArgvs, LegalRoot,
           LegalCommunicator, Spawners
  <1>4. NoErroneousCall => NoErroneousCall'
    BY <1>e DEF NoErroneousCall
  <1> QED BY <1>1, <1>2, <1>3, <1>4

LEMMA SetCommunicatorInv ==
  ASSUME MembersInv, NEW c \in Comms \union {NullComm}, SetCommunicator(c)
  PROVE  Kept
  <1> USE SpawnerAssumption DEF MembersInv, Kept, SetCommunicator, environment, outcome
  <1>0. spawner \in Spawners
    BY DEF MembersTyped
  \* The size is asked for only after the test for the null communicator.
  <1>e. erroneous' = erroneous
    BY DEF SizeErrors, LegalCommunicator
  <1>1. MembersTyped' /\ (TypeOK => TypeOK')
    <2>1. spawner' \in Spawners
      BY <1>0 DEF Spawners
    <2> QED BY <2>1, <1>e DEF MembersTyped, TypeOK, Continue
  <1>2. CommChecked'
    BY <1>0 DEF CommChecked, Spawners, Continue, Precondition, LegalCommunicator, MembersTyped
  <1>3. SettersKeepLegal'
    BY <1>0 DEF SettersKeepLegal, Continue, Precondition, Sanity, LegalCommand, LegalArgvs,
           LegalRoot, LegalCommunicator, Spawners
  <1>4. NoErroneousCall => NoErroneousCall'
    BY <1>e DEF NoErroneousCall
  <1> QED BY <1>1, <1>2, <1>3, <1>4

LEMMA SpawnAbortsInv ==
  ASSUME MembersInv, SpawnAborts
  PROVE  Kept
  <1> USE DEF MembersInv, Kept, SpawnAborts, environment, outcome
  <1>e. erroneous' = erroneous
    BY DEF SizeErrors, CommChecked, Precondition
  <1> QED BY <1>e DEF MembersTyped, TypeOK, CommChecked, SettersKeepLegal, NoErroneousCall

LEMMA SpawnInv ==
  ASSUME MembersInv, NEW withErrcodes \in BOOLEAN, Spawn(withErrcodes)
  PROVE  Kept
  <1> USE DEF MembersInv, Kept, environment
  <1> DEFINE n == spawner.maxprocs
  <1>0. spawner \in Spawners /\ n \in Int /\ level \in 0..2
    BY SpawnerAssumption DEF MembersTyped, Spawners, Spawn
  <1>u. UNCHANGED <<level, universe, pc, spawner>>
    BY DEF Spawn
  <1>1. MembersTyped' /\ (TypeOK => TypeOK')
    <2>1. PICK m \in IF Spawnable(spawner) THEN 0..n ELSE {0} :
            /\ spawned' = m
            /\ \E codes \in IF withErrcodes THEN Written(Blank(n), n, m) ELSE {None} :
                 result' = [maxprocs |-> n, errcodes |-> codes]
      BY DEF Spawn
    <2>2. m \in Nat
      BY <1>0, <2>1
    <2>3. result' \in Results
      <3>1. PICK codes \in IF withErrcodes THEN Written(Blank(n), n, m) ELSE {None} :
              result' = [maxprocs |-> n, errcodes |-> codes]
        BY <2>1
      <3>2. codes \in Seq(Codes) \union {None}
        <4>1. CASE withErrcodes
          <5>1. n \in Nat
            BY <1>0, <4>1 DEF Spawn
          <5> HIDE DEF n
          <5> QED BY <5>1, <2>2, <3>1, <4>1, WrittenCodes
        <4>2. CASE ~withErrcodes
          BY <3>1, <4>2
        <4> QED BY <4>1, <4>2
      <3> HIDE DEF n
      <3> QED BY <1>0, <3>1, <3>2 DEF Results
    <2>4. TypeOK => erroneous' \subseteq
                      {"MPI_Comm_size", "MPI_Comm_spawn", "MPI_Comm_spawn_multiple"}
      BY DEF Spawn, TypeOK
    <2> QED BY <1>u, <2>1, <2>2, <2>3, <2>4 DEF MembersTyped, TypeOK
  <1>2. CommChecked'
    BY <1>u DEF CommChecked
  <1>3. SettersKeepLegal'
    BY <1>u DEF SettersKeepLegal, LegalCommand, LegalArgvs, LegalRoot, LegalCommunicator
  <1>4. NoErroneousCall => NoErroneousCall'
    BY <1>u DEF NoErroneousCall, Spawn, Precondition
  <1> QED BY <1>1, <1>2, <1>3, <1>4

-----------------------------------------------------------------------------

LEMMA NextKeeps == MembersInv /\ [Next]_vars => Kept
  <1> SUFFICES ASSUME MembersInv, [Next]_vars  PROVE Kept
    OBVIOUS
  <1>1. ASSUME NEW s \in Texts, NEW n \in Numbers, Construct(s, n)  PROVE Kept
    BY <1>1, ConstructInv
  <1>2. ASSUME NEW s \in Texts, SetCommand(s)  PROVE Kept
    BY <1>2, SetCommandInv
  <1>3. ASSUME NEW args \in Lists, AddArgv(args)  PROVE Kept
    <2>1. args \in Seq(Texts)
      BY SpawnerAssumption DEF Lists
    <2> QED BY <1>3, <2>1, AddArgvInv
  <1>4. ASSUME NEW n \in Numbers, SetMaxprocs(n)  PROVE Kept
    BY <1>4, SetMaxprocsInv
  <1>5. ASSUME NEW n \in Numbers, SetRoot(n)  PROVE Kept
    BY <1>5, SetRootInv
  <1>6. ASSUME NEW i \in Infos, SetSpawnInfo(i)  PROVE Kept
    BY <1>6, SetSpawnInfoInv
  <1>7. ASSUME NEW c \in Comms \union {NullComm}, SetCommunicator(c)  PROVE Kept
    BY <1>7, SetCommunicatorInv
  <1>8. CASE SpawnAborts
    BY <1>8, SpawnAbortsInv
  <1>9. ASSUME NEW w \in BOOLEAN, Spawn(w)  PROVE Kept
    BY <1>9, SpawnInv
  <1>10. CASE UNCHANGED vars
    BY <1>10
    DEF vars, environment, outcome, Kept, MembersInv, MembersTyped, TypeOK, CommChecked,
        SettersKeepLegal, NoErroneousCall, LegalCommand, LegalArgvs, LegalRoot, LegalCommunicator
  <1> QED BY <1>1, <1>2, <1>3, <1>4, <1>5, <1>6, <1>7, <1>8, <1>9, <1>10 DEF Next

LEMMA NextInv == SpawnerInv /\ [Next]_vars => SpawnerInv'
  BY NextKeeps DEF SpawnerInv, Kept

\* SpawnerInv holds throughout: the types, a communicator at either assertion
\* level, and what the setters and the calls to MPI rely on.
THEOREM Invariance == Spec => []SpawnerInv
  BY InitInv, NextInv, PTL DEF Spec

\* The members of a spawner and of its result keep their types.
THEOREM Typed == Spec => []TypeOK
  <1>1. SpawnerInv => TypeOK
    BY DEF SpawnerInv
  <1> QED BY Invariance, <1>1, PTL

\* single_spawner with all assertions: whatever the order of set_root,
\* set_communicator and the other setters, all but maxprocs stays legal.
THEOREM LegalThroughout == Spec => []SettersKeepLegal
  <1>1. SpawnerInv => SettersKeepLegal
    BY DEF SpawnerInv, MembersInv
  <1> QED BY Invariance, <1>1, PTL

\* single_spawner with assertions: neither the tests nor the spawns that passed
\* them give MPI an illegal argument.
THEOREM NoErroneousCalls == Spec => []NoErroneousCall
  <1>1. SpawnerInv => NoErroneousCall
    BY DEF SpawnerInv
  <1> QED BY Invariance, <1>1, PTL

-----------------------------------------------------------------------------
(* The result of a spawn. *)

\* Of n codes, those that are not successes are as many as processes are missing.
LEMMA Missing ==
  ASSUME NEW n \in Nat, NEW m \in Nat, NEW codes \in Written(Blank(n), n, m)
  PROVE  /\ Len(codes) = n
         /\ Cardinality({i \in DOMAIN codes : codes[i] # "success"}) \in Nat
         /\ m + Cardinality({i \in DOMAIN codes : codes[i] # "success"}) = n
  <1> DEFINE good == {i \in 1..n : codes[i] = "success"}
             bad  == {i \in 1..n : codes[i] # "success"}
  <1>1. DOMAIN codes = 1..n /\ codes \in Seq(Codes) /\ Len(codes) = n
    BY WrittenCodes DEF Written, Blank
  <1>2. IsFiniteSet(1..n) /\ Cardinality(1..n) = n
    BY FS_Interval
  <1>3. IsFiniteSet(good) /\ IsFiniteSet(bad)
    BY <1>2, FS_Subset
  <1>4. Cardinality(good) = m
    <2>1. CASE codes \in [1..n -> {"success", "error"}] /\ Cardinality(good) = m
      BY <2>1
    <2>2. CASE codes = Blank(n) /\ m = 0
      <3>1. good = {}
        BY <2>2, SpawnerAssumption DEF Blank
      <3> QED BY <2>2, <3>1, FS_EmptySet
    <2> QED BY <2>1, <2>2 DEF Written
  <1>5. Cardinality(good \union bad) =
          Cardinality(good) + Cardinality(bad) - Cardinality(good \intersect bad)
    BY <1>3, FS_Union
  <1>6. good \union bad = 1..n /\ good \intersect bad = {}
    OBVIOUS
  <1>7. Cardinality(bad) \in Nat /\ Cardinality({}) = 0
    BY <1>3, FS_CardinalityType, FS_EmptySet
  <1>8. {i \in DOMAIN codes : codes[i] # "success"} = bad
    BY <1>1
  <1> DEFINE c == Cardinality(bad)
  <1>9. n = m + c - 0 /\ c \in Nat
    BY <1>2, <1>4, <1>5, <1>6, <1>7
  <1> HIDE DEF c
  <1>10. m + c = n
    BY <1>9
  <1> QED BY <1>1, <1>8, <1>9, <1>10 DEF c

LEMMA CodesAddUp ==
  ASSUME NEW n \in Nat, NEW m \in Nat, NEW codes \in Written(Blank(n), n, m),
         result'.maxprocs = n, result'.errcodes = codes, spawned' = m
  PROVE  ErrorsAddUp'
  <1> DEFINE failed == Cardinality({i \in DOMAIN codes : codes[i] # "success"})
  <1>1. Len(codes) = n /\ failed \in Nat /\ m + failed = n
    BY Missing
  <1>2. FailedSpawns' = failed /\ NumberOfSpawnedProcesses' = m
    BY DEF FailedSpawns, NumberOfSpawnedProcesses
  <1> HIDE DEF failed
  <1>3. m = n <=> failed = 0
    BY <1>1
  <1>4. result'.errcodes # None => (AllProcessesSpawned' <=> m = n)
    BY <1>1, <1>2 DEF AllProcessesSpawned
  <1> QED BY <1>1, <1>2, <1>3, <1>4 DEF ErrorsAddUp

LEMMA SpawnAddsUp ==
  ASSUME MembersInv, NEW withErrcodes \in BOOLEAN, Spawn(withErrcodes)
  PROVE  ErrorsAddUp'
  <1> DEFINE n == spawner.maxprocs
  <1>0. n \in Int
    BY DEF MembersInv, MembersTyped, Spawners, Spawn
  <1>1. PICK m \in IF Spawnable(spawner) THEN 0..n ELSE {0} :
          /\ spawned' = m
          /\ \E codes \in IF withErrcodes THEN Written(Blank(n), n, m) ELSE {None} :
               result' = [maxprocs |-> n, errcodes |-> codes]
    BY DEF Spawn
  <1>2. PICK codes \in IF withErrcodes THEN Written(Blank(n), n, m) ELSE {None} :
          result' = [maxprocs |-> n, errcodes |-> codes]
    BY <1>1
  <1>3. withErrcodes => n >= 0
    BY DEF Spawn
  <1> HIDE DEF n
  <1>4. result'.maxprocs = n /\ result'.errcodes = codes /\ spawned' = m
    BY <1>1, <1>2
  <1>5. CASE ~withErrcodes
    BY <1>2, <1>4, <1>5 DEF ErrorsAddUp
  <1>6. CASE withErrcodes
    <2>1. n \in Nat /\ m \in Nat /\ codes \in Written(Blank(n), n, m)
      BY <1>0, <1>1, <1>2, <1>3, <1>6
    <2> QED BY <1>4, <2>1, CodesAddUp
  <1> QED BY <1>5, <1>6

LEMMA NextAddsUp == MembersInv /\ ErrorsAddUp /\ [Next]_vars => ErrorsAddUp'
  <1> SUFFICES ASSUME MembersInv, ErrorsAddUp, [Next]_vars  PROVE ErrorsAddUp'
    OBVIOUS
  <1>1. ASSUME NEW w \in BOOLEAN, Spawn(w)  PROVE ErrorsAddUp'
    BY <1>1, SpawnAddsUp
  <1>2. CASE UNCHANGED outcome
    BY <1>2 DEF outcome, ErrorsAddUp, NumberOfSpawnedProcesses, FailedSpawns, AllProcessesSpawned
  <1>3. (\E w \in BOOLEAN : Spawn(w)) \/ UNCHANGED outcome
    BY DEF Next, vars, outcome, Construct, SetCommand, AddArgv, SetMaxprocs, SetRoot,
           SetSpawnInfo, SetCommunicator, SpawnAborts
  <1> QED BY <1>1, <1>2, <1>3

\* spawn_result_with_errcodes, for any number of processes: those started and
\* those error_list() counts add up to those asked for.
THEOREM AddsUp == Spec => []ErrorsAddUp
  <1>1. Init => ErrorsAddUp
    BY DEF Init, ErrorsAddUp
  <1>2. SpawnerInv => MembersInv
    BY DEF SpawnerInv
  <1> QED BY Invariance, NextAddsUp, <1>1, <1>2, PTL DEF Spec
=============================================================================
