------------------------- MODULE InfoContainerProofs -------------------------
(***************************************************************************)
(* Theorems about InfoContainer, for every set of objects, keys, values    *)
(* and predicates, every bound, and a library that renumbers the keys as   *)
(* it likes.                                                               *)
(*                                                                         *)
(* The inductive invariant ContainerInv says that the numbering of every   *)
(* object lists its keys, and how far the running call has got.  The three *)
(* members that collect keys first and delete them afterwards - erase of a *)
(* range, erase_if and merge - share one invariant: the keys still to      *)
(* delete (Left) are among those the call has to delete in the end         *)
(* (Doomed), as far as the first loop has got or the second has not.       *)
(***************************************************************************)
EXTENDS InfoContainer, FiniteSetTheorems, TLAPS

Inserts == {"insert_all", "insert_or_assign_all"}
Deletes == {"erase_keys", "erase_if", "merge"}

\* Every object has finitely many keys and the library numbers them.
Numbered ==
  /\ stable \in BOOLEAN
  /\ value \in Contents
  /\ order \in [Infos -> Seq(Keys)]
  /\ \A o \in Infos : IsFiniteSet(KeysIn(value[o])) /\ order[o] \in Numberings(KeysIn(value[o]))

\* The object that loses keys, the keys it is to lose, and those it has yet to.
Target(c) == IF c.req.op = "merge" THEN c.req.source ELSE c.req.this

Doomed(c) ==
  LET was == c.before.value[c.req.this] IN
  CASE c.req.op = "erase_keys" -> c.req.keys
    [] c.req.op = "erase_if"   -> {k \in KeysIn(was) : [key |-> k, val |-> was[k]] \in c.req.pred}
    [] c.req.op = "merge"      -> KeysIn(c.before.value[c.req.source]) \ KeysIn(was)

Left(c) == {c.todo[j] : j \in 1..Len(c.todo)}

Inserting(c) == c.req.op \in Inserts /\ c.todo \in Seq(Pairs) /\ c.i = 0 /\ c.n = 0

Clearing(c) ==
  c.req.op = "clear" /\ c.todo = <<>> /\ c.i <= c.n /\ NKeys(c.req.this) = c.n - c.i

\* Iteration i of the first loop: nothing is deleted and the numbering stands.
Collecting(c) ==
  /\ c.req.op # "erase_keys"
  /\ c.req.op = "merge" => c.req.this # c.req.source
  /\ value[Target(c)] = c.before.value[Target(c)]
  /\ c.n = NKeys(Target(c))
  /\ Left(c) = {k \in Doomed(c) : \E j \in 1..c.i : order[Target(c)][j] = k}

Deleting(c) ==
  \A k \in Keys :
    value[Target(c)][k] = IF k \in Doomed(c) \ Left(c) THEN Absent
                          ELSE c.before.value[Target(c)][k]

\* What merge has copied so far.
Copied(c) ==
  \A k \in Keys :
    value[c.req.this][k] =
      IF k \in Doomed(c) /\ (c.i = c.n \/ k \in Left(c)) THEN c.before.value[c.req.source][k]
      ELSE c.before.value[c.req.this][k]

Removing(c) ==
  /\ c.req.op \in Deletes
  /\ c.todo \in Seq(Keys) /\ (\A i, j \in 1..Len(c.todo) : c.todo[i] = c.todo[j] => i = j)
  /\ Left(c) \subseteq Doomed(c) /\ Doomed(c) \subseteq KeysIn(c.before.value[Target(c)])
  /\ (c.i < c.n /\ Collecting(c)) \/ (c.i = c.n /\ Deleting(c))
  /\ c.req.op = "merge" => Copied(c)

Progress ==
  call # Idle => call \in Activations /\ (Inserting(call) \/ Clearing(call) \/ Removing(call))

ContainerInv == Numbered /\ Progress

-----------------------------------------------------------------------------
(* Numberings. *)

\* A numbering of a finite set is a sequence that lists every element once.
LEMMA NumberingFacts ==
  ASSUME NEW S, IsFiniteSet(S), NEW s \in Numberings(S)
  PROVE  /\ Len(s) \in Nat /\ Len(s) = Cardinality(S)
         /\ s \in [1..Len(s) -> S]
         /\ s \in Seq(S)
         /\ \A i, j \in 1..Len(s) : s[i] = s[j] => i = j
         /\ \A k \in S : \E i \in 1..Len(s) : s[i] = k
<1> DEFINE n == Cardinality(S)
<1>1. n \in Nat /\ Cardinality(1..n) = n /\ IsFiniteSet(1..n)
  BY FS_CardinalityType, FS_Interval
<1>2. s \in [1..n -> S] /\ (\A i, j \in 1..n : s[i] = s[j] => i = j)
  BY DEF Numberings
<1> HIDE DEF n
<1>3. Len(s) = n /\ s \in Seq(S)
  BY <1>1, <1>2
<1>4. s \in Injection(1..n, S)
  BY <1>2 DEF Injection, IsInjective
<1>5. s \in Surjection(1..n, S)
  BY <1>1, <1>4, FS_Injection DEF n
<1>6. \A k \in S : \E i \in 1..n : s[i] = k
  BY <1>5 DEF Surjection
<1>7. QED
  BY <1>1, <1>2, <1>3, <1>6 DEF n

\* What the numbering of an object says about its keys.
LEMMA OrderFacts ==
  ASSUME Numbered, NEW o \in Infos
  PROVE  /\ NKeys(o) \in Nat /\ NKeys(o) = Cardinality(KeysIn(value[o]))
         /\ order[o] \in Seq(Keys) /\ order[o] \in [1..NKeys(o) -> KeysIn(value[o])]
         /\ \A i, j \in 1..NKeys(o) : order[o][i] = order[o][j] => i = j
         /\ \A k \in KeysIn(value[o]) : \E i \in 1..NKeys(o) : order[o][i] = k
         /\ NKeys(o) = 0 => KeysIn(value[o]) = {}
<1> DEFINE S == KeysIn(value[o])
           s == order[o]
<1>1. IsFiniteSet(S) /\ s \in Numberings(S) /\ order[o] \in Seq(Keys)
  BY DEF Numbered
<1>2. /\ Len(s) \in Nat /\ Len(s) = Cardinality(S)
      /\ s \in [1..Len(s) -> S]
      /\ \A i, j \in 1..Len(s) : s[i] = s[j] => i = j
      /\ \A k \in S : \E i \in 1..Len(s) : s[i] = k
  <2> HIDE DEF S, s
  <2>1. QED
    BY <1>1, NumberingFacts
<1>3. Len(s) = 0 => S = {}
  BY <1>1, <1>2, FS_EmptySet
<1>4. QED
  BY <1>1, <1>2, <1>3 DEF NKeys

LEMMA SetKeyNumbers ==
  ASSUME Numbered, NEW o \in Infos, NEW k \in Keys, NEW v \in Values, SetKey(o, k, v),
         stable' = stable
  PROVE  Numbered'
<1>1. PICK s \in Numberings(KeysIn(value[o]) \union {k}) :
        (stable => s = IF KeyExists(o, k) THEN order[o] ELSE Append(order[o], k))
        /\ order' = [order EXCEPT ![o] = s]
  BY DEF SetKey
<1> DEFINE S == KeysIn(value[o])
           T == S \union {k}
<1>2. value' = [value EXCEPT ![o][k] = v] /\ value \in Contents /\ order \in [Infos -> Seq(Keys)]
  BY DEF SetKey, Numbered
<1>3. value' \in Contents
  BY <1>2 DEF Contents
<1>4. KeysIn(value'[o]) = T
  BY <1>2, SentinelAssumption DEF Contents, KeysIn
<1>5. IsFiniteSet(T) /\ T \subseteq Keys
  BY FS_AddElement DEF Numbered, KeysIn
<1>6. s \in Numberings(T)
  BY <1>1
<1>7. s \in Seq(T)
  <2> HIDE DEF T
  <2>1. QED
    BY <1>5, <1>6, NumberingFacts
<1>8. s \in Seq(Keys)
  BY <1>5, <1>7
<1>9. order' \in [Infos -> Seq(Keys)]
  BY <1>1, <1>2, <1>8
<1>10. ASSUME NEW p \in Infos
       PROVE  IsFiniteSet(KeysIn(value'[p])) /\ order'[p] \in Numberings(KeysIn(value'[p]))
  <2>1. CASE p = o
    BY <1>1, <1>2, <1>4, <1>5, <2>1
  <2>2. CASE p # o
    <3>1. value'[p] = value[p] /\ order'[p] = order[p]
      BY <1>1, <1>2, <2>2 DEF Contents
    <3>2. QED
      BY <3>1 DEF Numbered
  <2>3. QED
    BY <2>1, <2>2
<1>11. QED
  BY <1>3, <1>9, <1>10 DEF Numbered, KeysIn, Numberings

LEMMA DeleteKeyNumbers ==
  ASSUME Numbered, NEW o \in Infos, NEW k, DeleteKey(o, k), stable' = stable
  PROVE  Numbered'
<1>1. PICK s \in Numberings(KeysIn(value[o]) \ {k}) :
        (stable => s = ClosedUp(order[o], k)) /\ order' = [order EXCEPT ![o] = s]
  BY DEF DeleteKey
<1> DEFINE S == KeysIn(value[o])
           T == S \ {k}
<1>2. /\ value' = [value EXCEPT ![o] = [x \in Keys |-> IF x = k THEN Absent ELSE @[x]]]
      /\ value \in Contents /\ order \in [Infos -> Seq(Keys)]
  BY DEF DeleteKey, Numbered
<1>3. value' \in Contents
  BY <1>2 DEF Contents
<1>4. KeysIn(value'[o]) = T
  BY <1>2, SentinelAssumption DEF Contents, KeysIn
<1>5. IsFiniteSet(T) /\ T \subseteq Keys
  <2>1. IsFiniteSet(S) /\ T \in SUBSET S /\ S \subseteq Keys
    BY DEF Numbered, KeysIn
  <2>2. QED
    BY <2>1, FS_Subset
<1>6. s \in Numberings(T)
  BY <1>1
<1>7. s \in Seq(T)
  <2> HIDE DEF T
  <2>1. QED
    BY <1>5, <1>6, NumberingFacts
<1>8. s \in Seq(Keys)
  BY <1>5, <1>7
<1>9. order' \in [Infos -> Seq(Keys)]
  BY <1>1, <1>2, <1>8
<1>10. ASSUME NEW p \in Infos
       PROVE  IsFiniteSet(KeysIn(value'[p])) /\ order'[p] \in Numberings(KeysIn(value'[p]))
  <2>1. CASE p = o
    BY <1>1, <1>2, <1>4, <1>5, <2>1
  <2>2. CASE p # o
    <3>1. value'[p] = value[p] /\ order'[p] = order[p]
      BY <1>1, <1>2, <2>2 DEF Contents
    <3>2. QED
      BY <3>1 DEF Numbered
  <2>3. QED
    BY <2>1, <2>2
<1>11. QED
  BY <1>3, <1>9, <1>10 DEF Numbered, KeysIn, Numberings

LEMMA SetKeyEffect ==
  ASSUME Numbered, NEW o \in Infos, NEW k \in Keys, NEW v, SetKey(o, k, v)
  PROVE  /\ \A x \in Keys : value'[o][x] = IF x = k THEN v ELSE value[o][x]
         /\ \A p \in Infos : p # o => value'[p] = value[p] /\ order'[p] = order[p]
  BY DEF SetKey, Numbered, Contents

LEMMA DeleteKeyEffect ==
  ASSUME Numbered, NEW o \in Infos, NEW k, DeleteKey(o, k)
  PROVE  /\ \A x \in Keys : value'[o][x] = IF x = k THEN Absent ELSE value[o][x]
         /\ \A p \in Infos : p # o => value'[p] = value[p] /\ order'[p] = order[p]
         /\ k \in KeysIn(value[o]) => NKeys(o)' = NKeys(o) - 1
<1>1. PICK s \in Numberings(KeysIn(value[o]) \ {k}) : order' = [order EXCEPT ![o] = s]
  BY DEF DeleteKey
<1>2. /\ \A x \in Keys : value'[o][x] = IF x = k THEN Absent ELSE value[o][x]
      /\ \A p \in Infos : p # o => value'[p] = value[p]
  BY DEF DeleteKey, Numbered, Contents
<1>3. order'[o] = s /\ (\A p \in Infos : p # o => order'[p] = order[p])
  BY <1>1 DEF Numbered
<1>4. ASSUME k \in KeysIn(value[o])
      PROVE  NKeys(o)' = NKeys(o) - 1
  <2> DEFINE S == KeysIn(value[o])
  <2>1. IsFiniteSet(S) /\ k \in S
    BY <1>4 DEF Numbered
  <2>2. NKeys(o) = Cardinality(S)
    BY OrderFacts
  <2> HIDE DEF S
  <2>3. IsFiniteSet(S \ {k}) /\ Cardinality(S \ {k}) = Cardinality(S) - 1
    BY <2>1, FS_RemoveElement
  <2>4. Len(s) = Cardinality(S \ {k})
    BY <2>3, NumberingFacts DEF S
  <2>5. QED
    BY <1>3, <2>2, <2>3, <2>4 DEF NKeys
<1>5. QED
  BY <1>2, <1>3, <1>4

LEMMA KeyAt ==
  ASSUME Numbered, NEW o \in Infos, NEW n \in Nat, n < NKeys(o)
  PROVE  /\ NthKey(o, n) = order[o][n + 1] /\ NthKey(o, n) \in KeysIn(value[o])
         /\ NthKey(o, n) \in Keys /\ value[o][NthKey(o, n)] \in Values
<1>1. NthKey(o, n) = order[o][n + 1] /\ n + 1 \in 1..NKeys(o)
  BY OrderFacts DEF NthKey
<1>2. order[o] \in [1..NKeys(o) -> KeysIn(value[o])]
  BY OrderFacts
<1>3. NthKey(o, n) \in KeysIn(value[o])
  BY <1>1, <1>2
<1>4. QED
  BY <1>1, <1>3 DEF KeysIn, Numbered, Contents

-----------------------------------------------------------------------------
(* Activation records. *)

LEMMA InitInv == Init => ContainerInv
<1> SUFFICES ASSUME Init PROVE ContainerInv
  OBVIOUS
<1>1. \A o \in Infos : KeysIn(value[o]) = {}
  BY DEF Init, KeysIn
<1>2. IsFiniteSet({}) /\ Cardinality({}) = 0
  BY FS_EmptySet
<1>3. <<>> \in Numberings({})
  BY <1>2 DEF Numberings
<1>4. \A o \in Infos : IsFiniteSet(KeysIn(value[o])) /\ order[o] \in Numberings(KeysIn(value[o]))
  BY <1>1, <1>2, <1>3 DEF Init
<1>5. order \in [Infos -> Seq(Keys)] /\ value \in Contents /\ stable \in BOOLEAN
  BY DEF Init, Contents
<1>6. QED
  BY <1>4, <1>5 DEF Init, Numbered, ContainerInv, Progress

LEMMA BeginFacts ==
  ASSUME Numbered, NEW req \in Map!Requests, NEW todo \in Seq(Pairs) \union Seq(Keys),
         NEW n \in Nat, NEW range \in Nat \X Nat, Begin(req, todo, n, range), stable' = stable
  PROVE  /\ Numbered' /\ call' \in Activations
         /\ call'.req = req /\ call'.todo = todo /\ call'.i = 0 /\ call'.n = n
         /\ call'.range = range /\ call'.before = [value |-> value, order |-> order]
         /\ UNCHANGED <<value, order, erroneous, last>>
<1>1. /\ call' = [req |-> req, todo |-> todo, i |-> 0, n |-> n, range |-> range,
                  before |-> [value |-> value, order |-> order]]
      /\ UNCHANGED <<value, order, last, erroneous>>
  BY DEF Begin
<1>2. [value |-> value, order |-> order] \in [value : Contents, order : [Infos -> Seq(Keys)]]
  BY DEF Numbered
<1>3. call' \in Activations
  BY <1>1, <1>2 DEF Activations
<1>4. Numbered'
  BY <1>1 DEF Numbered, KeysIn, Numberings
<1>5. QED
  BY <1>1, <1>3, <1>4

LEMMA TodoFacts ==
  ASSUME NEW c \in Activations, NEW todo \in Seq(Pairs) \union Seq(Keys),
         NEW d, d = [c EXCEPT !.todo = todo]
  PROVE  /\ d \in Activations
         /\ d.req = c.req /\ d.todo = todo /\ d.i = c.i /\ d.n = c.n
         /\ d.range = c.range /\ d.before = c.before
<1> DEFINE R == Map!Requests
           T == Seq(Pairs) \union Seq(Keys)
           G == Nat \X Nat
           B == [value : Contents, order : [Infos -> Seq(Keys)]]
<1>1. c \in [req : R, todo : T, i : Nat, n : Nat, range : G, before : B] /\ todo \in T
  BY DEF Activations
<1> HIDE DEF R, T, G, B
<1>2. d \in [req : R, todo : T, i : Nat, n : Nat, range : G, before : B]
  BY <1>1
<1>3. /\ d.req = c.req /\ d.todo = todo /\ d.i = c.i /\ d.n = c.n
      /\ d.range = c.range /\ d.before = c.before
  BY <1>1
<1>4. QED
  BY <1>2, <1>3 DEF Activations, R, T, G, B

LEMMA CountFacts ==
  ASSUME NEW c \in Activations, NEW n \in Nat,
         NEW d, d = [c EXCEPT !.i = n]
  PROVE  /\ d \in Activations
         /\ d.req = c.req /\ d.todo = c.todo /\ d.i = n /\ d.n = c.n
         /\ d.range = c.range /\ d.before = c.before
<1> DEFINE R == Map!Requests
           T == Seq(Pairs) \union Seq(Keys)
           G == Nat \X Nat
           B == [value : Contents, order : [Infos -> Seq(Keys)]]
<1>1. c \in [req : R, todo : T, i : Nat, n : Nat, range : G, before : B]
  BY DEF Activations
<1> HIDE DEF R, T, G, B
<1>2. d \in [req : R, todo : T, i : Nat, n : Nat, range : G, before : B]
  BY <1>1
<1>3. /\ d.req = c.req /\ d.todo = c.todo /\ d.i = n /\ d.n = c.n
      /\ d.range = c.range /\ d.before = c.before
  BY <1>1
<1>4. QED
  BY <1>2, <1>3 DEF Activations, R, T, G, B

\* One step of a loop leaves a call in progress.
LEMMA StillRunning ==
  ASSUME Numbered', call' \in Activations,
         Inserting(call)' \/ Clearing(call)' \/ Removing(call)'
  PROVE  ContainerInv'
  BY DEF ContainerInv, Progress

-----------------------------------------------------------------------------
(* The actions. *)

LEMMA OneStepInv ==
  ASSUME ContainerInv, OneStepCall, stable' = stable
  PROVE  ContainerInv'
<1>1. Numbered
  BY DEF ContainerInv
<1>2. PICK o \in Infos :
         \/ \E p \in Pairs : Room(1) /\ (Insert(o, p) \/ InsertOrAssign(o, p) \/ ProxyWrite(o, p))
         \/ \E pos \in 0..NKeys(o) : ErasePos(o, pos) \/ ExtractPos(o, pos)
         \/ \E k \in Keys : EraseKey(o, k) \/ ExtractKey(o, k) \/ ProxyRead(o, k)
         \/ \E k \in Keys : Find(o, k) \/ Contains(o, k) \/ EqualRange(o, k) \/ At(o, k)
         \/ ItemsOf(o)
         \/ \E p \in Infos : Equal(o, p)
  BY DEF OneStepCall
<1>3. call' = Idle
  BY <1>2
  DEF Insert, InsertOrAssign, ProxyWrite, ErasePos, ExtractPos, EraseKey, ExtractKey, ProxyRead,
      Find, Contains, EqualRange, At, ItemsOf, Equal, Lookup, Ready, Answered
<1>4. CASE UNCHANGED <<value, order>>
  BY <1>1, <1>3, <1>4 DEF ContainerInv, Progress, Numbered, KeysIn, Numberings
<1>5. ASSUME NEW k \in Keys, NEW v \in Values, SetKey(o, k, v)
      PROVE  ContainerInv'
  BY <1>1, <1>3, <1>5, SetKeyNumbers DEF ContainerInv, Progress
<1>6. ASSUME NEW k, DeleteKey(o, k)
      PROVE  ContainerInv'
  BY <1>1, <1>3, <1>6, DeleteKeyNumbers DEF ContainerInv, Progress
<1>7. ASSUME NEW p \in Pairs, Insert(o, p) \/ InsertOrAssign(o, p) \/ ProxyWrite(o, p)
      PROVE  ContainerInv'
  BY <1>4, <1>5, <1>7 DEF Insert, InsertOrAssign, ProxyWrite, Pairs
<1>8. ASSUME NEW pos \in 0..NKeys(o), ErasePos(o, pos) \/ ExtractPos(o, pos)
      PROVE  ContainerInv'
  BY <1>6, <1>8 DEF ErasePos, ExtractPos
<1>9. ASSUME NEW k \in Keys, EraseKey(o, k) \/ ExtractKey(o, k) \/ ProxyRead(o, k)
      PROVE  ContainerInv'
  BY <1>4, <1>5, <1>6, <1>9, SentinelAssumption DEF EraseKey, ExtractKey, ProxyRead
<1>10. CASE \/ \E k \in Keys : Find(o, k) \/ Contains(o, k) \/ EqualRange(o, k) \/ At(o, k)
            \/ ItemsOf(o)
            \/ \E p \in Infos : Equal(o, p)
  BY <1>4, <1>10 DEF Find, Contains, EqualRange, At, ItemsOf, Equal, Lookup
<1>11. QED
  BY <1>2, <1>7, <1>8, <1>9, <1>10

LEMMA InsertAllInv ==
  ASSUME ContainerInv, stable' = stable, NEW o \in Infos, NEW op \in Inserts, NEW n \in Nat,
         NEW pairs \in [1..n -> Pairs], InsertAll(o, op, pairs)
  PROVE  ContainerInv'
<1> DEFINE req == [op |-> op, this |-> o, pairs |-> pairs]
<1>1. pairs \in Seq(Pairs)
  OBVIOUS
<1>2. req \in Map!Requests
  BY <1>1 DEF Inserts, Map!Requests, Map!Pairs, Pairs
<1>3. Begin(req, pairs, 0, <<0, 0>>) /\ Numbered
  BY DEF InsertAll, ContainerInv
<1>4. op = req.op
  OBVIOUS
<1> HIDE DEF req
<1>5. /\ Numbered' /\ call' \in Activations
      /\ call'.req = req /\ call'.todo = pairs /\ call'.i = 0 /\ call'.n = 0
  BY <1>1, <1>2, <1>3, BeginFacts
<1>6. Inserting(call)'
  BY <1>1, <1>4, <1>5 DEF Inserting
<1>7. QED
  BY <1>5, <1>6, StillRunning

LEMMA ClearInv ==
  ASSUME ContainerInv, stable' = stable, NEW o \in Infos, Clear(o)
  PROVE  ContainerInv'
<1> DEFINE req == [op |-> "clear", this |-> o]
<1>1. req \in Map!Requests
  BY DEF Map!Requests
<1>2. /\ Begin(req, <<>>, NKeys(o), <<0, 0>>) /\ Numbered
      /\ NKeys(o) \in Nat /\ <<>> \in Seq(Keys)
  BY OrderFacts DEF Clear, ContainerInv
<1>3. req.op = "clear" /\ req.this = o
  OBVIOUS
<1> HIDE DEF req
<1>4. /\ Numbered' /\ call' \in Activations /\ order' = order
      /\ call'.req = req /\ call'.todo = <<>> /\ call'.i = 0 /\ call'.n = NKeys(o)
  BY <1>1, <1>2, BeginFacts
<1>5. Clearing(call)'
  BY <1>2, <1>3, <1>4 DEF Clearing, NKeys
<1>6. QED
  BY <1>4, <1>5, StillRunning

LEMMA EraseRangeInv ==
  ASSUME ContainerInv, stable' = stable, NEW o \in Infos, NEW first \in 0..NKeys(o),
         NEW end \in 0..NKeys(o), EraseRange(o, first, end)
  PROVE  ContainerInv'
<1> DEFINE keys == SubSeq(order[o], first + 1, end)
           kset == {keys[i] : i \in DOMAIN keys}
           req == [op |-> "erase_keys", this |-> o, keys |-> kset]
<1>1. Numbered /\ first <= end /\ NKeys(o) \in Nat
  BY OrderFacts DEF EraseRange, ContainerInv
<1>2. /\ order[o] \in Seq(Keys) /\ order[o] \in [1..NKeys(o) -> KeysIn(value[o])]
      /\ \A i, j \in 1..NKeys(o) : order[o][i] = order[o][j] => i = j
  BY <1>1, OrderFacts
<1>3. /\ keys \in Seq(Keys) /\ Len(keys) = end - first
      /\ \A i \in 1..(end - first) : keys[i] = order[o][first + i]
  BY <1>1, <1>2 DEF NKeys
<1>4. \A i, j \in 1..Len(keys) : keys[i] = keys[j] => i = j
  BY <1>1, <1>2, <1>3
<1>5. \A i \in 1..Len(keys) : keys[i] \in KeysIn(value[o])
  BY <1>1, <1>2, <1>3
<1> HIDE DEF keys
<1>6. kset = {keys[i] : i \in 1..Len(keys)} /\ kset \subseteq KeysIn(value[o])
  BY <1>3, <1>5
<1>7. req \in Map!Requests
  BY <1>6 DEF Map!Requests, KeysIn
<1>8. Begin(req, keys, 0, <<first, end>>)
  BY DEF EraseRange, keys
<1>9. req.op = "erase_keys" /\ req.this = o /\ req.keys = kset
  OBVIOUS
<1> HIDE DEF req, kset
<1>10. /\ Numbered' /\ call' \in Activations /\ value' = value
       /\ call'.req = req /\ call'.todo = keys /\ call'.i = 0 /\ call'.n = 0
       /\ call'.before = [value |-> value, order |-> order]
  BY <1>1, <1>3, <1>7, <1>8, BeginFacts
<1>11. Doomed(call)' = kset /\ Left(call)' = kset /\ Target(call)' = o
  BY <1>6, <1>9, <1>10 DEF Doomed, Left, Target
<1>12. Deleting(call)'
  BY <1>10, <1>11 DEF Deleting
<1>13. Removing(call)'
  BY <1>3, <1>4, <1>6, <1>9, <1>10, <1>11, <1>12 DEF Removing, Deletes
<1>14. QED
  BY <1>10, <1>13, StillRunning

\* erase_if and merge begin alike: nothing is collected yet.
LEMMA CollectingBegins ==
  ASSUME Numbered, Numbered', UNCHANGED <<value, order>>,
         call'.req.op \in {"erase_if", "merge"}, NEW t \in Infos, Target(call)' = t,
         call'.todo = <<>>, call'.i = 0, call'.before.value = value,
         call'.n = IF call'.req.op = "merge" /\ call'.req.this = call'.req.source THEN 0
                   ELSE NKeys(t),
         Doomed(call)' \subseteq KeysIn(value[t]),
         call'.req.op = "merge" /\ call'.req.this = call'.req.source => Doomed(call)' = {}
  PROVE  Removing(call)'
<1>1. Left(call)' = {}
  BY DEF Left
<1>2. NKeys(t) \in Nat /\ (NKeys(t) = 0 => Doomed(call)' = {}) /\ NKeys(t)' = NKeys(t)
  BY OrderFacts DEF NKeys
<1>3. CASE call'.n = 0
  <2>1. Doomed(call)' = {}
    BY <1>2, <1>3
  <2>2. Deleting(call)'
    BY <1>1, <2>1 DEF Deleting
  <2>3. call'.req.op = "merge" => Copied(call)'
    BY <1>1, <2>1 DEF Copied
  <2>4. QED
    BY <1>1, <1>3, <2>1, <2>2, <2>3 DEF Removing, Deletes
<1>4. CASE call'.n # 0
  <2>1. call'.n = NKeys(t) /\ (call'.req.op = "merge" => call'.req.this # call'.req.source)
    BY <1>4
  <2>2. Collecting(call)'
    <3>1. {k \in Doomed(call)' : \E j \in 1..0 : order'[t][j] = k} = {}
      OBVIOUS
    <3>2. QED
      BY <1>1, <1>2, <2>1, <3>1 DEF Collecting, NKeys
  <2>3. call'.req.op = "merge" => Copied(call)'
    BY <1>1, <1>4 DEF Copied
  <2>4. QED
    BY <1>1, <1>2, <2>1, <1>4, <2>2, <2>3 DEF Removing, Deletes
<1>5. QED
  BY <1>3, <1>4

LEMMA EraseIfInv ==
  ASSUME ContainerInv, stable' = stable, NEW o \in Infos, NEW pred \in Predicates,
         EraseIf(o, pred)
  PROVE  ContainerInv'
<1> DEFINE req == [op |-> "erase_if", this |-> o, pred |-> pred]
<1>1. req \in Map!Requests
  BY PredicatesAssumption DEF Map!Requests, Map!Pairs
<1>2. /\ Begin(req, <<>>, NKeys(o), <<0, 0>>) /\ Numbered
      /\ NKeys(o) \in Nat /\ <<>> \in Seq(Keys)
  BY OrderFacts DEF EraseIf, ContainerInv
<1>3. req.op = "erase_if" /\ req.this = o
  OBVIOUS
<1> HIDE DEF req
<1>4. /\ Numbered' /\ call' \in Activations /\ UNCHANGED <<value, order>>
      /\ call'.req = req /\ call'.todo = <<>> /\ call'.i = 0 /\ call'.n = NKeys(o)
      /\ call'.before = [value |-> value, order |-> order]
  BY <1>1, <1>2, BeginFacts
<1>5. Target(call)' = o /\ Doomed(call)' \subseteq KeysIn(value[o])
  BY <1>3, <1>4 DEF Target, Doomed
<1>6. Removing(call)'
  BY <1>2, <1>3, <1>4, <1>5, CollectingBegins
<1>7. QED
  BY <1>4, <1>6, StillRunning

LEMMA MergeInv ==
  ASSUME ContainerInv, stable' = stable, NEW o \in Infos, NEW p \in Infos, Merge(o, p)
  PROVE  ContainerInv'
<1> DEFINE req == [op |-> "merge", this |-> o, source |-> p]
           n == IF o = p THEN 0 ELSE NKeys(p)
<1>1. req \in Map!Requests
  BY DEF Map!Requests
<1>2. /\ Begin(req, <<>>, n, <<0, 0>>) /\ Numbered
      /\ n \in Nat /\ <<>> \in Seq(Keys)
  BY OrderFacts DEF Merge, ContainerInv
<1>3. req.op = "merge" /\ req.this = o /\ req.source = p
  OBVIOUS
<1> HIDE DEF req, n
<1>4. /\ Numbered' /\ call' \in Activations /\ UNCHANGED <<value, order>>
      /\ call'.req = req /\ call'.todo = <<>> /\ call'.i = 0 /\ call'.n = n
      /\ call'.before = [value |-> value, order |-> order]
  BY <1>1, <1>2, BeginFacts
<1>5. Target(call)' = p /\ Doomed(call)' = KeysIn(value[p]) \ KeysIn(value[o])
  BY <1>3, <1>4 DEF Target, Doomed
<1>6. o = p => Doomed(call)' = {}
  BY <1>5
<1>7. Removing(call)'
  BY <1>2, <1>3, <1>4, <1>5, <1>6, CollectingBegins DEF n
<1>8. QED
  BY <1>4, <1>7, StillRunning

LEMMA InsertNextInv ==
  ASSUME ContainerInv, stable' = stable, InsertNext
  PROVE  ContainerInv' /\ call' \in Activations
<1>1. /\ Numbered /\ call \in Activations /\ Inserting(call)
      /\ call.req.this \in Infos /\ call.todo # <<>>
  <2>1. call # Idle /\ call.req.op \in Inserts /\ call.todo # <<>>
    BY DEF InsertNext, Running, Inserts
  <2>2. Numbered /\ call \in Activations /\ Inserting(call)
    BY <2>1 DEF ContainerInv, Progress, Clearing, Removing, Inserts, Deletes
  <2>3. call.req.this \in Infos
    BY <2>2 DEF Activations, Map!Requests
  <2>4. QED
    BY <2>1, <2>2, <2>3
<1>2. Head(call.todo) \in Pairs /\ Tail(call.todo) \in Seq(Pairs)
  BY <1>1 DEF Inserting
<1>3. Numbered'
  <2>1. CASE UNCHANGED <<value, order>>
    BY <1>1, <2>1 DEF Numbered, KeysIn, Numberings
  <2>2. CASE SetKey(call.req.this, Head(call.todo).key, Head(call.todo).val)
    BY <1>1, <1>2, <2>2, SetKeyNumbers DEF Pairs
  <2>3. QED
    BY <2>1, <2>2 DEF InsertNext
<1>4. call' \in Activations /\ call'.req = call.req /\ call'.todo = Tail(call.todo)
      /\ call'.i = 0 /\ call'.n = 0
  <2> DEFINE t == Tail(call.todo)
  <2>1. call' = [call EXCEPT !.todo = t] /\ call.i = 0 /\ call.n = 0
    BY <1>1 DEF InsertNext, Inserting
  <2>2. t \in Seq(Pairs) \union Seq(Keys) /\ call \in Activations
    BY <1>1, <1>2
  <2> HIDE DEF t
  <2>3. /\ call' \in Activations /\ call'.req = call.req /\ call'.todo = t
        /\ call'.i = call.i /\ call'.n = call.n
    BY <2>1, <2>2, TodoFacts
  <2>4. QED
    BY <2>1, <2>3 DEF t
<1>5. Inserting(call)'
  BY <1>1, <1>2, <1>4 DEF Inserting
<1>6. QED
  BY <1>3, <1>4, <1>5, StillRunning

LEMMA ClearNextFacts ==
  ASSUME ContainerInv, ClearNext
  PROVE  /\ Numbered /\ call \in Activations /\ Clearing(call) /\ call.i < call.n
         /\ call.req.this \in Infos
         /\ NthKey(call.req.this, 0) \in KeysIn(value[call.req.this])
         /\ NKeys(call.req.this) > 0
<1>1. call # Idle /\ call.req.op = "clear" /\ call.i < call.n
  BY DEF ClearNext, Running
<1>2. Numbered /\ call \in Activations /\ Clearing(call)
  BY <1>1 DEF ContainerInv, Progress, Inserting, Removing, Inserts, Deletes
<1>3. call.req.this \in Infos
  BY <1>2 DEF Activations, Map!Requests
<1>4. NKeys(call.req.this) > 0
  BY <1>1, <1>2 DEF Clearing, Activations
<1>5. QED
  BY <1>1, <1>2, <1>3, <1>4, KeyAt

LEMMA ClearNextInv ==
  ASSUME ContainerInv, stable' = stable, ClearNext
  PROVE  ContainerInv' /\ call' \in Activations
<1> DEFINE o == call.req.this
           key == NthKey(o, 0)
<1>1. /\ Numbered /\ call \in Activations /\ Clearing(call) /\ call.i < call.n
      /\ o \in Infos /\ key \in KeysIn(value[o]) /\ call.i \in Nat /\ call.n \in Nat
  BY ClearNextFacts DEF Activations
<1>2. DeleteKey(o, key)
  BY DEF ClearNext
<1>3. Numbered' /\ Len(order'[o]) = NKeys(o) - 1
  <2> HIDE DEF key
  <2>1. QED
    BY <1>1, <1>2, DeleteKeyNumbers, DeleteKeyEffect DEF NKeys
<1>4. /\ call' \in Activations /\ call'.req = call.req /\ call'.todo = <<>>
      /\ call'.i = call.i + 1 /\ call'.n = call.n
  <2>1. call' = [call EXCEPT !.i = call.i + 1] /\ call.todo = <<>> /\ call.i + 1 \in Nat
    BY <1>1 DEF ClearNext, Clearing
  <2>2. QED
    BY <1>1, <2>1, CountFacts
<1>5. Clearing(call)'
  BY <1>1, <1>3, <1>4 DEF Clearing, NKeys
<1>6. QED
  BY <1>3, <1>4, <1>5, StillRunning

LEMMA RemovingFacts ==
  ASSUME ContainerInv, Running(Deletes)
  PROVE  /\ Numbered /\ call \in Activations /\ Removing(call)
         /\ call.req.this \in Infos /\ Target(call) \in Infos
         /\ call.req.op = "merge" => call.req.source \in Infos
         /\ call.i \in Nat /\ call.n \in Nat
<1>1. Numbered /\ call \in Activations /\ Removing(call)
  BY DEF Running, ContainerInv, Progress, Inserting, Clearing, Inserts, Deletes
<1>2. call.req \in Map!Requests /\ call.i \in Nat /\ call.n \in Nat
  BY <1>1 DEF Activations
<1>3. call.req.op = "merge" => call.req.source \in Infos
  BY <1>2 DEF Map!Requests
<1>4. call.req.this \in Infos
  BY <1>2 DEF Map!Requests
<1>5. QED
  BY <1>1, <1>2, <1>3, <1>4 DEF Target

LEMMA SameRequest ==
  ASSUME NEW c, NEW d, d.req = c.req, d.before = c.before
  PROVE  Target(d) = Target(c) /\ Doomed(d) = Doomed(c)
  BY DEF Target, Doomed

\* An iteration of the first loop of erase_if or merge.
LEMMA CollectStep ==
  ASSUME Numbered, call \in Activations, Removing(call), Target(call) \in Infos,
         call.i < call.n, call.i \in Nat, call.n \in Nat,
         NEW key, key = NthKey(Target(call), call.i),
         NEW d, d.req = call.req, d.before = call.before, d.i = call.i + 1,
         d.todo = IF key \in Doomed(call) THEN Append(call.todo, key) ELSE call.todo
  PROVE  /\ Collecting(call) /\ key = order[Target(call)][call.i + 1]
         /\ key \in Keys /\ value[Target(call)][key] \in Values
         /\ key \in KeysIn(call.before.value[Target(call)]) /\ key \notin Left(call)
         /\ d.todo \in Seq(Keys)
         /\ \A i, j \in 1..Len(d.todo) : d.todo[i] = d.todo[j] => i = j
         /\ Left(d) = {k \in Doomed(call) : \E j \in 1..(call.i + 1) : order[Target(call)][j] = k}
         /\ call.i + 1 = call.n => Left(d) = Doomed(call)
<1> DEFINE t == Target(call)
           i == call.i
           todo == call.todo
           D == Doomed(call)
<1>1. Collecting(call)
  BY DEF Removing
<1>2. /\ value[t] = call.before.value[t] /\ call.n = NKeys(t) /\ i < NKeys(t) /\ NKeys(t) \in Nat
      /\ Left(call) = {k \in D : \E j \in 1..i : order[t][j] = k}
  BY <1>1, OrderFacts DEF Collecting
<1>3. /\ key = order[t][i + 1] /\ key \in KeysIn(value[t]) /\ key \in Keys
      /\ value[t][key] \in Values
  BY <1>2, KeyAt
<1>4. \A j \in 1..i : order[t][j] # key
  <2>1. \A j, m \in 1..NKeys(t) : order[t][j] = order[t][m] => j = m
    BY OrderFacts
  <2>2. QED
    BY <1>2, <1>3, <2>1
<1>5. key \notin Left(call)
  BY <1>2, <1>4
<1>6. /\ todo \in Seq(Keys)
      /\ \A a, b \in 1..Len(todo) : todo[a] = todo[b] => a = b
  BY DEF Removing
<1>7. \A a \in 1..Len(todo) : todo[a] # key
  BY <1>5 DEF Left
<1>8. d.todo \in Seq(Keys) /\ (\A a, b \in 1..Len(d.todo) : d.todo[a] = d.todo[b] => a = b)
  BY <1>3, <1>6, <1>7
<1>9. Left(d) = IF key \in D THEN Left(call) \union {key} ELSE Left(call)
  <2>1. CASE key \in D
    <3>1. /\ d.todo = Append(todo, key) /\ Len(d.todo) = Len(todo) + 1 /\ Len(todo) \in Nat
          /\ d.todo[Len(todo) + 1] = key /\ (\A a \in 1..Len(todo) : d.todo[a] = todo[a])
      BY <1>3, <1>6, <2>1
    <3>2. QED
      BY <2>1, <3>1 DEF Left
  <2>2. CASE key \notin D
    BY <2>2 DEF Left
  <2>3. QED
    BY <2>1, <2>2
<1>10. Left(d) = {k \in D : \E j \in 1..(i + 1) : order[t][j] = k}
  BY <1>2, <1>3, <1>9
<1>11. ASSUME i + 1 = call.n
       PROVE  Left(d) = D
  <2>1. D \subseteq KeysIn(value[t])
    BY <1>2 DEF Removing
  <2>2. \A k \in KeysIn(value[t]) : \E j \in 1..NKeys(t) : order[t][j] = k
    BY OrderFacts
  <2>3. QED
    BY <1>2, <1>10, <1>11, <2>1, <2>2
<1>12. QED
  BY <1>1, <1>2, <1>3, <1>5, <1>8, <1>10, <1>11

LEMMA EraseIfVisitInv ==
  ASSUME ContainerInv, stable' = stable, EraseIfVisit
  PROVE  ContainerInv' /\ call' \in Activations /\ erroneous' = erroneous
<1> DEFINE o == call.req.this
           key == NthKey(o, call.i)
           pair == [key |-> key, val |-> value[o][key]]
           todo == IF pair \in call.req.pred THEN Append(call.todo, key) ELSE call.todo
<1>1. call.req.op = "erase_if" /\ call.i < call.n /\ Running(Deletes)
  BY DEF EraseIfVisit, Running, Deletes
<1>2. /\ Numbered /\ call \in Activations /\ Removing(call) /\ o \in Infos
      /\ call.i \in Nat /\ call.n \in Nat
  BY <1>1, RemovingFacts
<1>3. Target(call) = o
  BY <1>1 DEF Target
<1>4. Collecting(call)
  BY <1>1, <1>2 DEF Removing
<1>5. call.i < NKeys(o) /\ call.n = NKeys(o) /\ value[o] = call.before.value[o]
  BY <1>1, <1>3, <1>4 DEF Collecting
<1>6. key \in KeysIn(value[o]) /\ key \in Keys
  BY <1>2, <1>5, KeyAt
<1>7. key \in Doomed(call) <=> pair \in call.req.pred
  BY <1>1, <1>5, <1>6 DEF Doomed
<1>8. call' = [call EXCEPT !.i = call.i + 1, !.todo = todo] /\ UNCHANGED <<value, order>>
  BY DEF EraseIfVisit
<1>9. call.todo \in Seq(Keys)
  BY <1>2 DEF Removing
<1>10. todo \in Seq(Keys) /\ todo = IF key \in Doomed(call) THEN Append(call.todo, key) ELSE call.todo
  BY <1>6, <1>7, <1>9
<1> HIDE DEF key, pair, todo
<1>11. /\ call' \in Activations /\ call'.req = call.req /\ call'.before = call.before
       /\ call'.i = call.i + 1 /\ call'.n = call.n /\ call'.todo = todo
  <2> DEFINE n == call.i + 1
  <2>1. n \in Nat /\ todo \in Seq(Pairs) \union Seq(Keys)
    BY <1>2, <1>10
  <2> DEFINE c == [call EXCEPT !.i = n]
  <2>2. call' = [c EXCEPT !.todo = todo] /\ call \in Activations
    BY <1>2, <1>8
  <2>3. c = [call EXCEPT !.i = n]
    OBVIOUS
  <2> HIDE DEF n, c
  <2>4. /\ c \in Activations /\ c.req = call.req /\ c.before = call.before
        /\ c.i = n /\ c.n = call.n
    BY <2>1, <2>2, <2>3, CountFacts
  <2>5. /\ call' \in Activations /\ call'.req = c.req /\ call'.before = c.before
        /\ call'.i = c.i /\ call'.n = c.n /\ call'.todo = todo
    BY <2>1, <2>2, <2>4, TodoFacts
  <2>6. QED
    BY <2>4, <2>5 DEF n
<1>12. /\ todo \in Seq(Keys) /\ (\A a, b \in 1..Len(todo) : todo[a] = todo[b] => a = b)
       /\ Left(call') = {k \in Doomed(call) : \E j \in 1..(call.i + 1) : order[o][j] = k}
       /\ call.i + 1 = call.n => Left(call') = Doomed(call)
  BY <1>1, <1>2, <1>3, <1>10, <1>11, CollectStep DEF key
<1>13. Target(call)' = o /\ Doomed(call)' = Doomed(call) /\ Left(call)' = Left(call')
  BY <1>3, <1>11, SameRequest DEF Target, Doomed, Left
<1>14. Numbered'
  BY <1>2, <1>8 DEF Numbered, KeysIn, Numberings
<1>15. Removing(call)'
  <2>1. CASE call.i + 1 < call.n
    <3>1. Collecting(call)'
      BY <1>1, <1>5, <1>8, <1>11, <1>12, <1>13 DEF Collecting, NKeys
    <3>2. QED
      BY <1>1, <1>2, <1>3, <1>11, <1>12, <1>13, <2>1, <3>1 DEF Removing, Deletes
  <2>2. CASE call.i + 1 = call.n
    <3>1. Deleting(call)'
      BY <1>5, <1>8, <1>11, <1>12, <1>13, <2>2 DEF Deleting
    <3>2. QED
      BY <1>1, <1>2, <1>3, <1>11, <1>12, <1>13, <2>2, <3>1 DEF Removing, Deletes
  <2>3. QED
    BY <1>1, <1>2, <2>1, <2>2
<1>16. erroneous' = erroneous
  BY <1>5 DEF EraseIfVisit, NthKeyErrors
<1>17. QED
  BY <1>11, <1>14, <1>15, <1>16, StillRunning

LEMMA MergeVisitInv ==
  ASSUME ContainerInv, stable' = stable, MergeVisit
  PROVE  ContainerInv' /\ call' \in Activations /\ erroneous' = erroneous
<1> DEFINE o == call.req.this
           s == call.req.source
           key == NthKey(s, call.i)
           todo == IF KeyExists(o, key) THEN call.todo ELSE Append(call.todo, key)
<1>1. call.req.op = "merge" /\ call.i < call.n /\ Running(Deletes)
  BY DEF MergeVisit, Running, Deletes
<1>2. /\ Numbered /\ call \in Activations /\ Removing(call) /\ o \in Infos /\ s \in Infos
      /\ call.i \in Nat /\ call.n \in Nat
  BY <1>1, RemovingFacts
<1>3. Target(call) = s
  BY <1>1 DEF Target
<1>4. Collecting(call) /\ Copied(call) /\ Left(call) \subseteq Doomed(call)
  BY <1>1, <1>2 DEF Removing
<1>5. /\ call.i < NKeys(s) /\ call.n = NKeys(s) /\ value[s] = call.before.value[s]
      /\ o # s
  BY <1>1, <1>3, <1>4 DEF Collecting
<1>6. key \in KeysIn(value[s]) /\ key \in Keys /\ value[s][key] \in Values
  BY <1>2, <1>5, KeyAt
<1>7. key \notin Left(call)
  <2>1. \A j, m \in 1..NKeys(s) : order[s][j] = order[s][m] => j = m
    BY <1>2, OrderFacts
  <2>2. key = order[s][call.i + 1] /\ NKeys(s) \in Nat
    BY <1>2, <1>5, KeyAt, OrderFacts
  <2>3. \A j \in 1..call.i : order[s][j] # key
    BY <1>2, <1>5, <2>1, <2>2
  <2>4. Left(call) = {k \in Doomed(call) : \E j \in 1..call.i : order[s][j] = k}
    BY <1>3, <1>4 DEF Collecting
  <2>5. QED
    BY <2>3, <2>4
<1>8. key \in Doomed(call) <=> ~KeyExists(o, key)
  <2>1. Doomed(call) = KeysIn(call.before.value[s]) \ KeysIn(call.before.value[o])
    BY <1>1 DEF Doomed
  <2>2. value[o][key] = call.before.value[o][key]
    BY <1>1, <1>2, <1>4, <1>6, <1>7 DEF Copied
  <2>3. QED
    BY <1>5, <1>6, <2>1, <2>2 DEF KeysIn, KeyExists
<1>9. IF KeyExists(o, key) THEN UNCHANGED <<value, order>> ELSE SetKey(o, key, value[s][key])
  BY DEF MergeVisit
<1>10. /\ call.todo \in Seq(Keys) /\ todo \in Seq(Keys)
       /\ todo = IF key \in Doomed(call) THEN Append(call.todo, key) ELSE call.todo
  BY <1>2, <1>6, <1>8 DEF Removing
<1>11. call' = [call EXCEPT !.i = call.i + 1, !.todo = todo]
  <2>1. CASE KeyExists(o, key)
    <3>1. call' = [call EXCEPT !.i = call.i + 1] /\ todo = call.todo
      BY <2>1 DEF MergeVisit
    <3>2. QED
      BY <1>2, <3>1 DEF Activations
  <2>2. CASE ~KeyExists(o, key)
    BY <2>2 DEF MergeVisit
  <2>3. QED
    BY <2>1, <2>2
<1>12. erroneous' = erroneous
  BY <1>5 DEF MergeVisit, NthKeyErrors
<1>13. Numbered'
  <2>1. CASE KeyExists(o, key)
    <3>1. value' = value /\ order' = order
      BY <1>9, <2>1
    <3>2. QED
      BY <1>2, <3>1 DEF Numbered, KeysIn, Numberings
  <2>2. CASE ~KeyExists(o, key)
    <3> HIDE DEF key
    <3>1. QED
      BY <1>2, <1>6, <1>9, <2>2, SetKeyNumbers
  <2>3. QED
    BY <2>1, <2>2
<1>14. /\ value'[s] = value[s] /\ order'[s] = order[s]
       /\ \A x \in Keys : value'[o][x] = IF x = key /\ key \in Doomed(call)
                                         THEN call.before.value[s][key] ELSE value[o][x]
  <2>1. CASE KeyExists(o, key)
    BY <1>8, <1>9, <2>1
  <2>2. CASE ~KeyExists(o, key)
    <3>1. /\ \A x \in Keys : value'[o][x] = IF x = key THEN value[s][key] ELSE value[o][x]
          /\ value'[s] = value[s] /\ order'[s] = order[s]
      <4> HIDE DEF key
      <4>1. QED
        BY <1>2, <1>5, <1>6, <1>9, <2>2, SetKeyEffect
    <3>2. QED
      BY <1>5, <1>8, <2>2, <3>1
  <2>3. QED
    BY <2>1, <2>2
<1> HIDE DEF key, todo
<1>15. /\ call' \in Activations /\ call'.req = call.req /\ call'.before = call.before
       /\ call'.i = call.i + 1 /\ call'.n = call.n /\ call'.todo = todo
  <2> DEFINE n == call.i + 1
  <2>1. n \in Nat /\ todo \in Seq(Pairs) \union Seq(Keys)
    BY <1>2, <1>10
  <2> DEFINE c == [call EXCEPT !.i = n]
  <2>2. call' = [c EXCEPT !.todo = todo] /\ call \in Activations
    BY <1>2, <1>11
  <2>3. c = [call EXCEPT !.i = n]
    OBVIOUS
  <2> HIDE DEF n, c
  <2>4. /\ c \in Activations /\ c.req = call.req /\ c.before = call.before
        /\ c.i = n /\ c.n = call.n
    BY <2>1, <2>2, <2>3, CountFacts
  <2>5. /\ call' \in Activations /\ call'.req = c.req /\ call'.before = c.before
        /\ call'.i = c.i /\ call'.n = c.n /\ call'.todo = todo
    BY <2>1, <2>2, <2>4, TodoFacts
  <2>6. QED
    BY <2>4, <2>5 DEF n
<1>16. /\ todo \in Seq(Keys) /\ (\A a, b \in 1..Len(todo) : todo[a] = todo[b] => a = b)
       /\ Left(call') = {k \in Doomed(call) : \E j \in 1..(call.i + 1) : order[s][j] = k}
       /\ call.i + 1 = call.n => Left(call') = Doomed(call)
       /\ Collecting(call) /\ key = order[s][call.i + 1]
  BY <1>1, <1>2, <1>3, <1>10, <1>15, CollectStep DEF key
<1>17. Target(call)' = s /\ Doomed(call)' = Doomed(call) /\ Left(call)' = Left(call')
  BY <1>3, <1>15, SameRequest DEF Target, Doomed, Left
<1>18. Left(call') = IF key \in Doomed(call) THEN Left(call) \union {key} ELSE Left(call)
  <2>1. Left(call) = {k \in Doomed(call) : \E j \in 1..call.i : order[s][j] = k}
    BY <1>3, <1>4 DEF Collecting
  <2>2. QED
    BY <1>2, <1>16, <2>1
<1>19. Copied(call)'
  <2> SUFFICES ASSUME NEW k \in Keys
               PROVE  value'[o][k] = IF k \in Doomed(call) /\ (call.i + 1 = call.n \/ k \in Left(call'))
                                     THEN call.before.value[s][k] ELSE call.before.value[o][k]
    BY <1>15, <1>17 DEF Copied
  <2>1. value[o][k] = IF k \in Doomed(call) /\ k \in Left(call)
                      THEN call.before.value[s][k] ELSE call.before.value[o][k]
    BY <1>1, <1>2, <1>4 DEF Copied
  <2>2. QED
    BY <1>14, <1>16, <1>18, <2>1
<1>20. Removing(call)'
  <2>1. CASE call.i + 1 < call.n
    <3> DEFINE Seen(ord) == {k \in Doomed(call) : \E j \in 1..(call.i + 1) : ord[j] = k}
    <3>1. Left(call)' = Seen(order'[s])
      <4>1. Left(call)' = Seen(order[s])
        BY <1>16, <1>17
      <4> HIDE DEF Seen
      <4>2. QED
        BY <1>14, <4>1
    <3>2. Collecting(call)'
      BY <1>1, <1>2, <1>5, <1>14, <1>15, <1>17, <3>1 DEF Collecting, NKeys
    <3>3. QED
      BY <1>1, <1>2, <1>3, <1>15, <1>16, <1>17, <1>19, <2>1, <3>2 DEF Removing, Deletes
  <2>2. CASE call.i + 1 = call.n
    <3>1. Deleting(call)'
      BY <1>5, <1>14, <1>15, <1>16, <1>17, <2>2 DEF Deleting
    <3>2. QED
      BY <1>1, <1>2, <1>3, <1>15, <1>16, <1>17, <1>19, <2>2, <3>1 DEF Removing, Deletes
  <2>3. QED
    BY <1>1, <1>2, <2>1, <2>2
<1>21. QED
  BY <1>12, <1>13, <1>15, <1>20, StillRunning

LEMMA DeleteNextFacts ==
  ASSUME ContainerInv, DeleteNext
  PROVE  LET t == Target(call)
             key == Head(call.todo)
         IN  /\ Numbered /\ call \in Activations /\ Removing(call) /\ Deleting(call)
             /\ call.req.this \in Infos /\ t \in Infos /\ call.i = call.n /\ call.i \in Nat
             /\ key \in Left(call) /\ key \in KeysIn(value[t]) /\ key \in Keys
             /\ DeleteKey(t, key) /\ erroneous' = erroneous
             /\ call' = [call EXCEPT !.todo = Tail(call.todo)]
<1> DEFINE t == Target(call)
           key == Head(call.todo)
<1>1. Running(Deletes) /\ call.i = call.n /\ call.todo # <<>>
  BY DEF DeleteNext, Deletes
<1>2. /\ Numbered /\ call \in Activations /\ Removing(call) /\ call.req.this \in Infos
      /\ t \in Infos /\ call.i \in Nat
  BY <1>1, RemovingFacts
<1>3. Deleting(call) /\ call.todo \in Seq(Keys) /\ Left(call) \subseteq Doomed(call)
      /\ Doomed(call) \subseteq KeysIn(call.before.value[t])
  BY <1>1, <1>2 DEF Removing
<1>4. key \in Left(call) /\ key \in Keys
  <2>1. 1 \in 1..Len(call.todo) /\ key = call.todo[1] /\ key \in Keys
    BY <1>1, <1>3
  <2>2. QED
    BY <2>1 DEF Left
<1>5. value[t][key] # Absent
  BY <1>3, <1>4 DEF Deleting, KeysIn
<1>6. key \in KeysIn(value[t])
  BY <1>4, <1>5 DEF KeysIn
<1>7. /\ DeleteKey(t, key) /\ erroneous' = erroneous \union DeleteErrors(t, key)
      /\ call' = [call EXCEPT !.todo = Tail(call.todo)]
  BY DEF DeleteNext, Target
<1>8. erroneous' = erroneous
  BY <1>6, <1>7 DEF DeleteErrors
<1>9. QED
  BY <1>1, <1>2, <1>3, <1>4, <1>6, <1>7, <1>8

LEMMA DeleteNextInv ==
  ASSUME ContainerInv, stable' = stable, DeleteNext
  PROVE  ContainerInv' /\ call' \in Activations
<1> DEFINE t == Target(call)
           key == Head(call.todo)
           rest == Tail(call.todo)
<1>1. /\ Numbered /\ call \in Activations /\ Removing(call) /\ Deleting(call)
      /\ call.req.this \in Infos /\ t \in Infos /\ call.i = call.n /\ call.i \in Nat
      /\ key \in Left(call) /\ key \in KeysIn(value[t]) /\ key \in Keys
      /\ DeleteKey(t, key) /\ call' = [call EXCEPT !.todo = rest]
  BY DeleteNextFacts
<1>2. /\ call.todo \in Seq(Keys) /\ (\A i, j \in 1..Len(call.todo) : call.todo[i] = call.todo[j] => i = j)
      /\ Left(call) \subseteq Doomed(call) /\ Doomed(call) \subseteq KeysIn(call.before.value[t])
      /\ call.req.op \in Deletes /\ (call.req.op = "merge" => Copied(call))
  BY <1>1 DEF Removing
<1>3. call.todo # <<>>
  BY DEF DeleteNext
<1>4. /\ rest \in Seq(Keys) /\ Len(rest) = Len(call.todo) - 1 /\ Len(call.todo) \in Nat
      /\ (\A i \in 1..Len(rest) : rest[i] = call.todo[i + 1]) /\ key = call.todo[1]
  BY <1>2, <1>3
<1>5. \A i, j \in 1..Len(rest) : rest[i] = rest[j] => i = j
  BY <1>2, <1>4
<1>6. {rest[j] : j \in 1..Len(rest)} = Left(call) \ {key}
  <2>1. \A j \in 1..Len(rest) : rest[j] \in Left(call) /\ rest[j] # key
    BY <1>2, <1>4 DEF Left
  <2>2. ASSUME NEW j \in 1..Len(call.todo), call.todo[j] # key
        PROVE  \E m \in 1..Len(rest) : rest[m] = call.todo[j]
    <3>1. j - 1 \in 1..Len(rest) /\ rest[j - 1] = call.todo[j]
      BY <1>4, <2>2
    <3>2. QED
      BY <3>1
  <2>3. QED
    BY <2>1, <2>2 DEF Left
<1>7. /\ Numbered'
      /\ \A x \in Keys : value'[t][x] = IF x = key THEN Absent ELSE value[t][x]
      /\ \A p \in Infos : p # t => value'[p] = value[p]
  <2> HIDE DEF t, key
  <2>1. QED
    BY <1>1, DeleteKeyNumbers, DeleteKeyEffect
<1>8. /\ call' \in Activations /\ call'.req = call.req /\ call'.before = call.before
      /\ call'.i = call.i /\ call'.n = call.n /\ call'.todo = rest
  <2>1. rest \in Seq(Pairs) \union Seq(Keys)
    BY <1>4
  <2> HIDE DEF rest
  <2>2. QED
    BY <1>1, <2>1, TodoFacts
<1> HIDE DEF key, rest
<1>9. Target(call)' = t /\ Doomed(call)' = Doomed(call) /\ Left(call)' = Left(call) \ {key}
  BY <1>6, <1>8, SameRequest DEF Target, Doomed, Left
<1>10. Deleting(call)'
  <2> SUFFICES ASSUME NEW k \in Keys
               PROVE  value'[t][k] = IF k \in Doomed(call) \ (Left(call) \ {key}) THEN Absent
                                     ELSE call.before.value[t][k]
    BY <1>8, <1>9 DEF Deleting
  <2>1. value[t][k] = IF k \in Doomed(call) \ Left(call) THEN Absent ELSE call.before.value[t][k]
    BY <1>1 DEF Deleting
  <2>2. QED
    BY <1>1, <1>2, <1>7, <2>1
<1>11. ASSUME call.req.op = "merge"
       PROVE  Copied(call)'
  <2>1. t = call.req.source /\ Doomed(call) = KeysIn(call.before.value[t])
                                              \ KeysIn(call.before.value[call.req.this])
    BY <1>11 DEF Target, Doomed
  <2>2. t # call.req.this
    BY <1>1, <1>2, <2>1
  <2>3. value'[call.req.this] = value[call.req.this]
    BY <1>1, <1>7, <2>2
  <2>4. Copied(call)
    BY <1>2, <1>11
  <2>5. QED
    BY <1>1, <1>8, <1>9, <2>3, <2>4 DEF Copied
<1>12. Removing(call)'
  BY <1>1, <1>2, <1>4, <1>5, <1>8, <1>9, <1>10, <1>11 DEF Removing
<1>13. QED
  BY <1>7, <1>8, <1>12, StillRunning

\* The call ends, or is left by an exception.
LEMMA EndInv ==
  ASSUME ContainerInv, stable' = stable, Return \/ CallbackThrows
  PROVE  ContainerInv'
<1>1. call' = Idle /\ UNCHANGED <<value, order>>
  BY DEF Return, CallbackThrows
<1>2. QED
  BY <1>1 DEF ContainerInv, Progress, Numbered, KeysIn, Numberings

LEMMA StepInv == ContainerInv /\ [Next]_vars => ContainerInv'
<1> SUFFICES ASSUME ContainerInv, [Next]_vars PROVE ContainerInv'
  OBVIOUS
<1>1. CASE UNCHANGED vars
  <2>1. UNCHANGED <<stable, value, order, call>>
    BY <1>1 DEF vars
  <2>2. Numbered'
    BY <2>1 DEF ContainerInv, Numbered, KeysIn, Numberings
  <2>3. ASSUME call # Idle
        PROVE  call' \in Activations /\ (Inserting(call)' \/ Clearing(call)' \/ Removing(call)')
    <3>1. call \in Activations /\ (Inserting(call) \/ Clearing(call) \/ Removing(call))
      BY <2>3 DEF ContainerInv, Progress
    <3>2. Inserting(call) => Inserting(call)'
      BY <2>1 DEF Inserting
    <3>3. Clearing(call) => Clearing(call)'
      BY <2>1 DEF Clearing, NKeys
    <3>4. Removing(call) => Removing(call)'
      <4>1. /\ Target(call)' = Target(call) /\ Doomed(call)' = Doomed(call)
            /\ Left(call)' = Left(call)
        BY <2>1 DEF Target, Doomed, Left
      <4>2. Collecting(call) => Collecting(call)'
        BY <2>1, <4>1 DEF Collecting, NKeys
      <4>3. Deleting(call) => Deleting(call)'
        BY <2>1, <4>1 DEF Deleting
      <4>4. Copied(call) => Copied(call)'
        BY <2>1, <4>1 DEF Copied
      <4>5. QED
        BY <2>1, <4>1, <4>2, <4>3, <4>4 DEF Removing
    <3>5. QED
      BY <2>1, <3>1, <3>2, <3>3, <3>4
  <2>4. QED
    BY <2>1, <2>2, <2>3 DEF ContainerInv, Progress
<1>2. ASSUME Next
      PROVE  stable' = stable /\ (OneStepCall \/ BeginCall \/ ContinueCall \/ CallbackThrows)
  BY <1>2 DEF Next
<1>3. CASE Next /\ OneStepCall
  BY <1>2, <1>3, OneStepInv
<1>4. CASE Next /\ BeginCall
  <2>1. PICK o \in Infos :
          \/ \E n \in 0..MaxPairs, op \in Inserts :
               \E pairs \in [1..n -> Pairs] : Room(n) /\ InsertAll(o, op, pairs)
          \/ Clear(o)
          \/ \E first, end \in 0..NKeys(o) : EraseRange(o, first, end)
          \/ \E pred \in Predicates : EraseIf(o, pred)
          \/ \E p \in Infos : Merge(o, p)
    BY <1>4 DEF BeginCall, Inserts
  <2>2. stable' = stable
    BY <1>2, <1>4
  <2>3. ASSUME NEW n \in 0..MaxPairs, NEW op \in Inserts, NEW pairs \in [1..n -> Pairs],
               InsertAll(o, op, pairs)
        PROVE  ContainerInv'
    <3>1. n \in Nat
      BY SwitchAssumption
    <3>2. QED
      BY <2>2, <2>3, <3>1, InsertAllInv
  <2>4. QED
    BY <2>1, <2>2, <2>3, ClearInv, EraseRangeInv, EraseIfInv, MergeInv
<1>5. CASE Next /\ ContinueCall
  BY <1>2, <1>5, InsertNextInv, ClearNextInv, EraseIfVisitInv, MergeVisitInv, DeleteNextInv, EndInv
  DEF ContinueCall
<1>6. CASE Next /\ CallbackThrows
  BY <1>2, <1>6, EndInv
<1>7. QED
  BY <1>1, <1>2, <1>3, <1>4, <1>5, <1>6

\* The invariant the theorems below rest on: on a library that renumbers keys
\* on every modification, every loop of the class knows where it is.
THEOREM Invariant == Spec => []ContainerInv
  BY InitInv, StepInv, PTL DEF Spec

\* Type correctness, which includes that the library's numbering of every
\* object lists exactly the keys of the object.
THEOREM TypeCorrect == Spec => []TypeOK
<1> DEFINE ErrorsOK == erroneous \in SUBSET {"MPI_Info_get_nthkey", "MPI_Info_delete"}
<1>1. Init => ErrorsOK
  BY DEF Init
<1>2. ErrorsOK /\ [Next]_vars => ErrorsOK'
  BY DEF Next, OneStepCall, BeginCall, ContinueCall, CallbackThrows, vars, Begin, Lookup,
         Insert, InsertOrAssign, ProxyWrite, ErasePos, ExtractPos, EraseKey, ExtractKey, ProxyRead,
         Find, Contains, EqualRange, At, ItemsOf, Equal, InsertAll, Clear, EraseRange, EraseIf,
         Merge, InsertNext, ClearNext, EraseIfVisit, MergeVisit, DeleteNext, Return,
         NthKeyErrors, DeleteErrors
<1>3. ContainerInv /\ ErrorsOK => TypeOK
  BY DEF ContainerInv, Numbered, Progress, TypeOK
<1>4. QED
  BY <1>1, <1>2, <1>3, Invariant, PTL DEF Spec

\* No loop of the class, and no member with an iterator argument that
\* designates a pair, asks the library for a key number that does not exist or
\* deletes a key that is not there, whatever the renumbering.
THEOREM NoError ==
  ASSUME PastTheEnd = FALSE
  PROVE  Spec => []NoErroneousCall
<1>1. Init => NoErroneousCall
  BY DEF Init, NoErroneousCall
<1>2. ASSUME ContainerInv, Next
      PROVE  erroneous' = erroneous
  <2>1. ASSUME NEW o \in Infos, NEW pos \in 0..NKeys(o), ErasePos(o, pos) \/ ExtractPos(o, pos)
        PROVE  erroneous' = erroneous
    <3>1. Numbered /\ NKeys(o) \in Nat /\ pos \in Nat /\ pos < NKeys(o)
      BY <1>2, <2>1, OrderFacts DEF ContainerInv, ErasePos, ExtractPos
    <3>2. NthKey(o, pos) \in KeysIn(value[o])
      BY <3>1, KeyAt
    <3>3. NthKeyErrors(o, pos) = {} /\ DeleteErrors(o, NthKey(o, pos)) = {}
      BY <3>1, <3>2 DEF NthKeyErrors, DeleteErrors
    <3>4. QED
      BY <2>1, <3>3 DEF ErasePos, ExtractPos
  <2>2. ASSUME NEW o \in Infos, NEW k \in Keys, EraseKey(o, k) \/ ExtractKey(o, k)
        PROVE  erroneous' = erroneous
    BY <2>2 DEF EraseKey, ExtractKey, DeleteErrors, KeysIn, KeyExists
  <2>3. CASE ClearNext
    <3>1. /\ call.req.this \in Infos /\ NKeys(call.req.this) > 0
          /\ NthKey(call.req.this, 0) \in KeysIn(value[call.req.this])
      BY <1>2, <2>3, ClearNextFacts
    <3>2. QED
      BY <2>3, <3>1 DEF ClearNext, NthKeyErrors, DeleteErrors
  <2>4. CASE EraseIfVisit \/ MergeVisit \/ DeleteNext
    BY <1>2, <2>4, EraseIfVisitInv, MergeVisitInv, DeleteNextFacts DEF Next
  <2>5. CASE UNCHANGED erroneous
    BY <2>5
  <2>6. CASE OneStepCall
    BY <2>1, <2>2, <2>5, <2>6
    DEF OneStepCall, Insert, InsertOrAssign, ProxyWrite, ProxyRead, Find, Contains, EqualRange,
        At, ItemsOf, Equal, Lookup
  <2>7. CASE BeginCall
    BY <2>7 DEF BeginCall, InsertAll, Clear, EraseRange, EraseIf, Merge, Begin
  <2>8. CASE ContinueCall \/ CallbackThrows
    BY <2>3, <2>4, <2>5, <2>8 DEF ContinueCall, CallbackThrows, InsertNext, Return
  <2>9. QED
    BY <1>2, <2>6, <2>7, <2>8 DEF Next
<1>3. ContainerInv /\ NoErroneousCall /\ [Next]_vars => NoErroneousCall'
  BY <1>2 DEF NoErroneousCall, vars
<1>4. QED
  BY <1>1, <1>3, Invariant, PTL DEF Spec

\* While merge copies pairs and then deletes them from the source, every pair
\* of either object is in one of the two.
THEOREM NothingLost == Spec => []MergeLosesNothing
<1>1. ContainerInv => MergeLosesNothing
  <2> SUFFICES ASSUME ContainerInv, Running({"merge"}), NEW k \in Keys
               PROVE  LET o == call.req.this
                          s == call.req.source
                          was == call.before.value
                      IN  /\ was[o][k] # Absent => value[o][k] = was[o][k]
                          /\ was[s][k] # Absent => was[s][k] \in {value[s][k], value[o][k]}
    BY DEF MergeLosesNothing
  <2> DEFINE o == call.req.this
             s == call.req.source
             was == call.before.value
  <2>1. call.req.op = "merge" /\ Removing(call) /\ o \in Infos /\ s \in Infos
        /\ Target(call) = s /\ call.i \in Nat /\ call.n \in Nat
    BY RemovingFacts DEF Running, Deletes, Target
  <2>2. Doomed(call) = KeysIn(was[s]) \ KeysIn(was[o])
    BY <2>1 DEF Doomed
  <2>3. value[o][k] = IF k \in Doomed(call) /\ (call.i = call.n \/ k \in Left(call))
                      THEN was[s][k] ELSE was[o][k]
    BY <2>1 DEF Removing, Copied
  <2>4. was[o][k] # Absent => value[o][k] = was[o][k]
    BY <2>2, <2>3 DEF KeysIn
  <2>5. CASE call.i < call.n
    BY <2>1, <2>4, <2>5 DEF Removing, Collecting
  <2>6. CASE call.i = call.n
    <3>1. value[s][k] = IF k \in Doomed(call) \ Left(call) THEN Absent ELSE was[s][k]
      BY <2>1, <2>6 DEF Removing, Deleting
    <3>2. QED
      BY <2>3, <2>4, <2>6, <3>1
  <2>7. QED
    BY <2>1, <2>5, <2>6 DEF Removing
<1>2. QED
  BY <1>1, Invariant, PTL

-----------------------------------------------------------------------------
(* The numbering of a library that is stable. *)

\* While erase(first, last) deletes: the keys in front of the range, those it
\* has yet to delete and those behind the range follow each other.
InPlace ==
  stable /\ Running({"erase_keys"}) =>
    LET now == order[call.req.this]
        was == call.before.order[call.req.this]
        first == call.range[1]
        end == call.range[2]
        rest == Len(call.todo)
    IN  /\ first + rest <= end /\ end <= Len(was)
        /\ Len(now) + end = Len(was) + first + rest
        /\ \A i \in 1..first : now[i] = was[i]
        /\ \A i \in 1..rest : now[first + i] = call.todo[i]
        /\ \A i \in (end + 1)..Len(was) : now[first + rest + (i - end)] = was[i]

\* The key at position p goes and those behind it move up.
LEMMA ClosedUpFacts ==
  ASSUME NEW S, NEW s \in Seq(S), \A i, j \in 1..Len(s) : s[i] = s[j] => i = j,
         NEW p \in 1..Len(s)
  PROVE  /\ Len(ClosedUp(s, s[p])) = Len(s) - 1
         /\ \A i \in 1..(Len(s) - 1) : ClosedUp(s, s[p])[i] = IF i < p THEN s[i] ELSE s[i + 1]
<1> DEFINE n == Len(s)
           hits == {i \in 0..(n - 1) : s[i + 1] = s[p]}
<1>1. n \in Nat /\ p \in Nat
  OBVIOUS
<1>2. hits = {p - 1}
  <2>1. p - 1 \in 0..(n - 1) /\ s[(p - 1) + 1] = s[p]
    BY <1>1
  <2>2. ASSUME NEW i \in 0..(n - 1), s[i + 1] = s[p]
        PROVE  i = p - 1
    <3>1. i + 1 \in 1..n
      BY <1>1
    <3>2. i + 1 = p
      BY <2>2, <3>1
    <3>3. QED
      BY <3>2
  <2>3. QED
    BY <2>1, <2>2
<1>3. FindPos(s, s[p]) = p - 1
  <2>1. hits # {} /\ FindPos(s, s[p]) = CHOOSE i \in hits : \A j \in hits : i <= j
    BY <1>2 DEF FindPos
  <2> HIDE DEF hits
  <2>2. QED
    BY <1>1, <1>2, <2>1
<1>4. ClosedUp(s, s[p]) = [i \in 1..(n - 1) |-> IF i <= p - 1 THEN s[i] ELSE s[i + 1]]
  BY <1>1, <1>3 DEF ClosedUp
<1>5. QED
  BY <1>1, <1>4

LEMMA InPlaceStep == ContainerInv /\ InPlace /\ [Next]_vars => InPlace'
<1> SUFFICES ASSUME ContainerInv, InPlace, [Next]_vars, stable', Running({"erase_keys"})'
             PROVE  LET now == order'[call'.req.this]
                        was == call'.before.order[call'.req.this]
                        first == call'.range[1]
                        end == call'.range[2]
                        rest == Len(call'.todo)
                    IN  /\ first + rest <= end /\ end <= Len(was)
                        /\ Len(now) + end = Len(was) + first + rest
                        /\ \A i \in 1..first : now[i] = was[i]
                        /\ \A i \in 1..rest : now[first + i] = call'.todo[i]
                        /\ \A i \in (end + 1)..Len(was) : now[first + rest + (i - end)] = was[i]
  BY DEF InPlace
<1>1. stable /\ call' # Idle /\ call'.req.op = "erase_keys"
  BY DEF Next, vars, Running
<1>2. CASE UNCHANGED vars
  BY <1>1, <1>2 DEF vars, InPlace, Running
<1>3. ASSUME NEW o \in Infos, NEW first \in 0..NKeys(o), NEW end \in 0..NKeys(o),
             EraseRange(o, first, end)
      PROVE  InPlace'
  <2> DEFINE s == order[o]
             keys == SubSeq(s, first + 1, end)
  <2>1. /\ s \in Seq(Keys) /\ NKeys(o) \in Nat /\ NKeys(o) = Len(s) /\ first <= end
        /\ first \in Nat /\ end \in Nat /\ end <= Len(s)
    BY <1>3, OrderFacts DEF ContainerInv, EraseRange, NKeys
  <2>2. Len(keys) = end - first /\ (\A i \in 1..(end - first) : keys[i] = s[first + i])
    BY <2>1
  <2>3. /\ call'.req.this = o /\ call'.todo = keys /\ call'.range = <<first, end>>
        /\ call'.before.order = order /\ order' = order
    BY <1>3 DEF EraseRange, Begin
  <2> HIDE DEF s, keys
  <2>4. order'[o] = s /\ call'.before.order[o] = s
    BY <2>3 DEF s
  <2>5. /\ first + Len(keys) <= end /\ end <= Len(s)
        /\ Len(s) + end = Len(s) + first + Len(keys)
        /\ \A i \in 1..Len(keys) : s[first + i] = keys[i]
        /\ \A i \in (end + 1)..Len(s) : first + Len(keys) + (i - end) = i
    BY <2>1, <2>2
  <2>6. /\ call'.range[1] = first /\ call'.range[2] = end
    BY <2>3
  <2>7. QED
    BY <2>3, <2>4, <2>5, <2>6 DEF InPlace
<1>4. CASE DeleteNext
  <2> DEFINE o == call.req.this
             s == order[o]
             was == call.before.order[o]
             first == call.range[1]
             end == call.range[2]
             rest == Len(call.todo)
             t == order'[o]
  <2>1. /\ call' = [call EXCEPT !.todo = Tail(call.todo)] /\ call \in Activations
        /\ DeleteKey(Target(call), Head(call.todo)) /\ Numbered /\ Removing(call) /\ o \in Infos
    BY <1>4, DeleteNextFacts
  <2>2. call.todo \in Seq(Keys) /\ call.todo # <<>>
    BY <1>4, <2>1 DEF DeleteNext, Removing
  <2>3. /\ call'.req = call.req /\ call'.range = call.range /\ call'.before = call.before
        /\ call'.todo = Tail(call.todo)
    BY <2>1 DEF Activations
  <2>4. call # Idle /\ call.req.op = "erase_keys" /\ Target(call) = o
    BY <1>1, <1>4, <2>3 DEF DeleteNext, Running, Target
  <2>5. first \in Nat /\ end \in Nat
    BY <2>1 DEF Activations
  <2>6. was \in Seq(Keys) /\ s \in Seq(Keys) /\ Len(was) \in Nat /\ Len(s) \in Nat
    BY <2>1 DEF Activations, Numbered
  <2>7. /\ first + rest <= end /\ end <= Len(was)
        /\ Len(s) + end = Len(was) + first + rest
        /\ \A i \in 1..first : s[i] = was[i]
        /\ \A i \in 1..rest : s[first + i] = call.todo[i]
        /\ \A i \in (end + 1)..Len(was) : s[first + rest + (i - end)] = was[i]
    BY <1>1, <2>4 DEF InPlace, Running
  <2>8. /\ rest \in Nat /\ rest > 0 /\ Len(call'.todo) = rest - 1
        /\ Head(call.todo) = call.todo[1]
        /\ \A i \in 1..(rest - 1) : call'.todo[i] = call.todo[i + 1]
    BY <2>2, <2>3
  <2>9. Head(call.todo) = s[first + 1] /\ first + 1 \in 1..Len(s)
    <3> HIDE DEF s, was, first, end, rest
    <3>1. 1 \in 1..rest
      BY <2>8
    <3>2. s[first + 1] = call.todo[1]
      BY <2>7, <3>1
    <3>3. QED
      BY <2>5, <2>6, <2>7, <2>8, <3>2
  <2>10. t = ClosedUp(s, s[first + 1])
    BY <1>1, <2>1, <2>4, <2>9 DEF DeleteKey, Numbered
  <2>11. \A i, j \in 1..Len(s) : s[i] = s[j] => i = j
    BY <2>1, OrderFacts DEF NKeys
  <2>12. /\ Len(t) = Len(s) - 1
         /\ \A i \in 1..(Len(s) - 1) : t[i] = IF i < first + 1 THEN s[i] ELSE s[i + 1]
    <3> HIDE DEF s, t
    <3>1. QED
      BY <2>6, <2>9, <2>10, <2>11, ClosedUpFacts
  <2> HIDE DEF s, t, was, first, end, rest
  <2>13. /\ first + (rest - 1) <= end /\ end <= Len(was)
         /\ Len(t) + end = Len(was) + first + (rest - 1)
    BY <2>5, <2>6, <2>7, <2>8, <2>12
  <2>14. \A i \in 1..first : t[i] = was[i]
    BY <2>5, <2>6, <2>7, <2>8, <2>9, <2>12
  <2>15. ASSUME NEW i \in 1..(rest - 1)
         PROVE  t[first + i] = call'.todo[i]
    <3>1. i + 1 \in 1..rest /\ first + i \in 1..(Len(s) - 1) /\ ~(first + i < first + 1)
      BY <2>5, <2>6, <2>7, <2>8
    <3>2. t[first + i] = s[(first + i) + 1] /\ (first + i) + 1 = first + (i + 1)
      BY <2>5, <2>12, <3>1
    <3>3. QED
      BY <2>7, <2>8, <3>1, <3>2
  <2>16. ASSUME NEW i \in (end + 1)..Len(was)
         PROVE  t[first + (rest - 1) + (i - end)] = was[i]
    <3> DEFINE j == first + (rest - 1) + (i - end)
    <3>1. j \in 1..(Len(s) - 1) /\ ~(j < first + 1) /\ j + 1 = first + rest + (i - end)
      BY <2>5, <2>6, <2>7, <2>8
    <3> HIDE DEF j
    <3>2. t[j] = s[j + 1]
      BY <2>12, <3>1
    <3>3. QED
      BY <2>7, <3>1, <3>2 DEF j
  <2>17. QED
    BY <2>3, <2>8, <2>13, <2>14, <2>15, <2>16 DEF InPlace, s, t, was, first, end, rest
<1>5. ASSUME NEW req, NEW todo, NEW n, NEW range, Begin(req, todo, n, range)
      PROVE  req.op = "erase_keys"
  BY <1>1, <1>5 DEF Begin
<1>6. ASSUME BeginCall
      PROVE  InPlace'
  <2>1. PICK o \in Infos :
          \/ \E n \in 0..MaxPairs, op \in Inserts :
               \E pairs \in [1..n -> Pairs] : Room(n) /\ InsertAll(o, op, pairs)
          \/ Clear(o)
          \/ \E first, end \in 0..NKeys(o) : EraseRange(o, first, end)
          \/ \E pred \in Predicates : EraseIf(o, pred)
          \/ \E p \in Infos : Merge(o, p)
    BY <1>6 DEF BeginCall, Inserts
  <2>2. ASSUME NEW op \in Inserts, NEW pairs, InsertAll(o, op, pairs)
        PROVE  FALSE
    BY <1>5, <2>2 DEF InsertAll, Inserts
  <2>3. ~Clear(o)
    BY <1>5 DEF Clear
  <2>4. ASSUME NEW pred, EraseIf(o, pred)
        PROVE  FALSE
    BY <1>5, <2>4 DEF EraseIf
  <2>5. ASSUME NEW p, Merge(o, p)
        PROVE  FALSE
    BY <1>5, <2>5 DEF Merge
  <2>6. PICK first \in 0..NKeys(o), end \in 0..NKeys(o) : EraseRange(o, first, end)
    <3>1. ~(\E n \in 0..MaxPairs, op \in Inserts :
              \E pairs \in [1..n -> Pairs] : Room(n) /\ InsertAll(o, op, pairs))
      BY <2>2
    <3>2. QED
      BY <2>1, <2>3, <2>4, <2>5, <3>1
  <2>7. QED
    BY <1>3, <2>6
<1>7. ~OneStepCall /\ ~Return /\ ~CallbackThrows
  BY <1>1
  DEF OneStepCall, Insert, InsertOrAssign, ProxyWrite, ErasePos, ExtractPos, EraseKey, ExtractKey,
      ProxyRead, Find, Contains, EqualRange, At, ItemsOf, Equal, Lookup, Ready, Answered,
      Return, CallbackThrows
<1>8. ~(InsertNext \/ ClearNext \/ EraseIfVisit \/ MergeVisit)
  <2> SUFFICES ASSUME InsertNext \/ ClearNext \/ EraseIfVisit \/ MergeVisit PROVE FALSE
    OBVIOUS
  <2>1. call # Idle /\ call.req.op \in {"insert_all", "insert_or_assign_all", "clear", "erase_if", "merge"}
    BY DEF InsertNext, ClearNext, EraseIfVisit, MergeVisit, Running
  <2>2. call \in Activations
    BY <2>1 DEF ContainerInv, Progress
  <2>3. call'.req = call.req
    BY <2>2 DEF InsertNext, ClearNext, EraseIfVisit, MergeVisit, Activations
  <2>4. QED
    BY <1>1, <2>1, <2>3
<1>9. QED
  BY <1>2, <1>4, <1>6, <1>7, <1>8 DEF Next, ContinueCall, InPlace

\* erase(pos) and erase(first, last) on a library that is stable: the iterator
\* returned designates the pair that followed what was erased, and the pairs in
\* front of it are where they were.
THEOREM ReturnsFollower == Spec => EraseReturnsFollower
<1>1. Init => InPlace
  BY DEF Init, InPlace, Running
<1>2. ASSUME ContainerInv, InPlace, NEW o \in Infos, stable, Running({"erase_keys"}),
             call.req.this = o, Return
      PROVE  ClosesUp(call.before.order[o], order[o], call.range[1], call.range[2])
  <2> DEFINE s == order[o]
             was == call.before.order[o]
             first == call.range[1]
             end == call.range[2]
  <2>1. call \in Activations /\ Numbered /\ call.todo = <<>>
    BY <1>2 DEF Return, Running, ContainerInv, Progress
  <2>2. /\ first \in Nat /\ end \in Nat /\ was \in Seq(Keys) /\ s \in Seq(Keys)
        /\ Len(was) \in Nat /\ Len(s) \in Nat
    BY <2>1 DEF Activations, Numbered
  <2>3. /\ end <= Len(was) /\ Len(s) + end = Len(was) + first
        /\ \A i \in 1..first : s[i] = was[i]
        /\ \A i \in (end + 1)..Len(was) : s[first + (i - end)] = was[i]
    <3>1. Len(call.todo) = 0
      BY <2>1
    <3>2. /\ end <= Len(was) /\ Len(s) + end = Len(was) + first + 0
          /\ \A i \in 1..first : s[i] = was[i]
          /\ \A i \in (end + 1)..Len(was) : s[first + 0 + (i - end)] = was[i]
      BY <1>2, <3>1 DEF InPlace
    <3> HIDE DEF s, was, first, end
    <3>3. QED
      BY <2>2, <3>2
  <2> HIDE DEF s, was, first, end
  <2>4. CASE end < Len(was)
    <3>1. first < Len(s) /\ end + 1 \in (end + 1)..Len(was) /\ first + ((end + 1) - end) = first + 1
      BY <2>2, <2>3, <2>4
    <3>2. s[first + 1] = was[end + 1]
      BY <2>3, <3>1
    <3>3. QED
      BY <2>2, <2>3, <2>4, <3>1, <3>2 DEF ClosesUp, Designates, s, was, first, end
  <2>5. CASE end = Len(was)
    <3>1. ~(first < Len(s)) /\ ~(end < Len(was))
      BY <2>2, <2>3, <2>5
    <3>2. QED
      BY <2>3, <3>1 DEF ClosesUp, Designates, s, was, first, end
  <2>6. QED
    BY <2>2, <2>3, <2>4, <2>5
<1>3. ASSUME ContainerInv, NEW o \in Infos, stable, NEW pos \in 0..(NKeys(o) - 1),
             ErasePos(o, pos)
      PROVE  ClosesUp(order[o], order'[o], pos, pos + 1)
  <2> DEFINE s == order[o]
             t == order'[o]
  <2>1. /\ s \in Seq(Keys) /\ Len(s) \in Nat /\ pos + 1 \in 1..Len(s)
        /\ \A i, j \in 1..Len(s) : s[i] = s[j] => i = j
    BY <1>3, OrderFacts DEF ContainerInv, Numbered, NKeys
  <2>2. DeleteKey(o, s[pos + 1])
    BY <1>3, <2>1 DEF ErasePos, NthKey, NKeys
  <2>3. t = ClosedUp(s, s[pos + 1])
    BY <1>3, <2>2 DEF DeleteKey, ContainerInv, Numbered
  <2> HIDE DEF s, t
  <2>4. /\ Len(t) = Len(s) - 1
        /\ \A i \in 1..(Len(s) - 1) : t[i] = IF i < pos + 1 THEN s[i] ELSE s[i + 1]
    BY <2>1, <2>3, ClosedUpFacts
  <2>5. Designates(t, pos) = Designates(s, pos + 1)
    BY <2>1, <2>4 DEF Designates
  <2>6. \A i \in 1..pos : t[i] = s[i]
    BY <2>1, <2>4
  <2>7. QED
    BY <2>5, <2>6 DEF ClosesUp, s, t
<1> DEFINE Step ==
      [stable => \A o \in Infos :
         /\ \A pos \in 0..(NKeys(o) - 1) :
              ErasePos(o, pos) => ClosesUp(order[o], order'[o], pos, pos + 1)
         /\ Running({"erase_keys"}) /\ call.req.this = o /\ Return =>
              ClosesUp(call.before.order[o], order[o], call.range[1], call.range[2])]_vars
<1>4. ContainerInv /\ InPlace /\ [Next]_vars => Step
  BY <1>2, <1>3
<1>5. Spec => []InPlace
  BY <1>1, InPlaceStep, Invariant, PTL DEF Spec
<1>6. QED
  BY <1>4, <1>5, Invariant, PTL DEF Spec, EraseReturnsFollower
=============================================================================
