---------------------------- MODULE InfoMapProofs ----------------------------
(***************************************************************************)
(* InfoContainer implements InfoMap: every member function of mpicxx::info *)
(* has the effect and the answer of its counterpart in std::map.           *)
(*                                                                         *)
(* A call that loops takes effect when it ends: until then the client sees *)
(* the map the call began with, and Follows says how far the objects have  *)
(* got towards the map it ends with.                                       *)
(***************************************************************************)
EXTENDS InfoContainerProofs

\* The object after the first n pairs of an insertion.
Applied(c, n) ==
  LET was == c.before.value[c.req.this]
      pairs == SubSeq(c.req.pairs, 1, n)
  IN  IF c.req.op = "insert_all" THEN Map!Inserted(was, pairs) ELSE Map!Assigned(was, pairs)

\* The pairs still to insert are the last ones, the others are in the object.
Applying(c) ==
  LET done == Len(c.req.pairs) - Len(c.todo)
  IN  /\ Len(c.todo) <= Len(c.req.pairs)
      /\ \A j \in 1..Len(c.todo) : c.todo[j] = c.req.pairs[done + j]
      /\ value[c.req.this] = Applied(c, done)

Follows ==
  call # Idle =>
    /\ \A o \in Infos : o \notin {call.req.this, Target(call)} => value[o] = call.before.value[o]
    /\ call.req.op \in Inserts => Applying(call)

-----------------------------------------------------------------------------
(* Insertions, one pair at a time. *)

LEMMA LeastNumber ==
  ASSUME NEW S, S \subseteq Nat, S # {}
  PROVE  \E i \in S : \A j \in S : i <= j
<1> DEFINE R == OpToRel(<, Nat)
<1>1. IsWellFoundedOn(R, Nat)
  BY NatLessThanWellFounded
<1>2. \A i, j \in Nat : <<i, j>> \in R <=> i < j
  BY DEF OpToRel
<1> DEFINE N == Nat
<1>3. IsWellFoundedOn(R, N) /\ S \subseteq N
  BY <1>1
<1> HIDE DEF R, N
<1>4. \E i \in S : \A j \in S : ~(<<j, i>> \in R)
  BY <1>3, WFMin
<1>5. PICK i \in S : \A j \in S : ~(<<j, i>> \in R)
  BY <1>4
<1>6. ASSUME NEW j \in S
      PROVE  i <= j
  <2>1. i \in Nat /\ j \in Nat
    OBVIOUS
  <2>2. ~(j < i)
    BY <1>2, <1>5, <2>1, Zenon
  <2>3. QED
    BY <2>1, <2>2
<1>7. QED
  BY <1>6

First(S) == CHOOSE i \in S : \A j \in S : i <= j
Last(S)  == CHOOSE i \in S : \A j \in S : i >= j

LEMMA FirstFacts ==
  ASSUME NEW S, S \subseteq Nat, NEW i \in S
  PROVE  /\ First(S) \in S /\ (\A j \in S : First(S) <= j)
         /\ (\A j \in S : i <= j) => First(S) = i
<1>1. \E m \in S : \A j \in S : m <= j
  BY LeastNumber
<1>2. First(S) \in S /\ (\A j \in S : First(S) <= j)
  BY <1>1 DEF First
<1>3. ASSUME \A j \in S : i <= j
      PROVE  First(S) = i
  <2>1. i <= First(S) /\ First(S) <= i /\ i \in Nat /\ First(S) \in Nat
    BY <1>2, <1>3
  <2>2. QED
    BY <2>1
<1>4. QED
  BY <1>2, <1>3

LEMMA LastFacts ==
  ASSUME NEW n \in Nat, NEW S, S \subseteq 1..n, NEW i \in S
  PROVE  /\ Last(S) \in S /\ (\A j \in S : Last(S) >= j)
         /\ (\A j \in S : i >= j) => Last(S) = i
<1> DEFINE T == {n - j : j \in S}
<1>1. T \subseteq Nat /\ n - i \in T
  OBVIOUS
<1> HIDE DEF T
<1>2. PICK m \in T : \A j \in T : m <= j
  BY <1>1, LeastNumber
<1>3. PICK l \in S : m = n - l
  BY DEF T
<1>4. ASSUME NEW j \in S
      PROVE  l >= j
  <2>1. n - j \in T
    BY DEF T
  <2>2. n - l <= n - j /\ j \in Int /\ l \in Int
    BY <1>2, <1>3, <2>1
  <2>3. QED
    BY <2>2
<1>5. Last(S) \in S /\ (\A j \in S : Last(S) >= j)
  BY <1>4 DEF Last
<1>6. ASSUME \A j \in S : i >= j
      PROVE  Last(S) = i
  <2>1. i >= Last(S) /\ Last(S) >= i
    BY <1>5, <1>6
  <2>2. \A j \in S : j \in Int
    OBVIOUS
  <2>3. i \in Int /\ Last(S) \in Int
    BY <1>5, <2>2
  <2>4. QED
    BY <2>1, <2>3
<1>7. QED
  BY <1>5, <1>6

\* The positions of a key among the pairs.
Positions(pairs, k) == {i \in 1..Len(pairs) : pairs[i].key = k}

\* One more pair adds its position to those of its key.
LEMMA OneMorePosition ==
  ASSUME NEW ps \in Seq(Pairs), NEW qs \in Seq(Pairs), Len(qs) = Len(ps) + 1,
         \A i \in 1..Len(ps) : qs[i] = ps[i], NEW k
  PROVE  /\ Positions(qs, k) = IF qs[Len(qs)].key = k THEN Positions(ps, k) \union {Len(qs)}
                               ELSE Positions(ps, k)
         /\ Positions(ps, k) \subseteq 1..Len(ps) /\ Positions(ps, k) \subseteq Nat
         /\ Len(qs) \in Nat /\ qs[Len(qs)] \in Pairs
<1>1. Len(ps) \in Nat /\ Len(qs) \in Nat
  OBVIOUS
<1>2. Positions(qs, k) = IF qs[Len(qs)].key = k THEN Positions(ps, k) \union {Len(qs)}
                         ELSE Positions(ps, k)
  BY <1>1 DEF Positions
<1>3. qs[Len(qs)] \in Pairs
  BY <1>1
<1>4. QED
  BY <1>1, <1>2, <1>3 DEF Positions

LEMMA InsertedAt ==
  ASSUME NEW m, NEW pairs, NEW k \in Keys
  PROVE  /\ Map!Inserted(m, pairs)[k] =
              IF m[k] # Absent \/ Positions(pairs, k) = {} THEN m[k]
              ELSE pairs[First(Positions(pairs, k))].val
         /\ Map!Assigned(m, pairs)[k] =
              IF Positions(pairs, k) = {} THEN m[k] ELSE pairs[Last(Positions(pairs, k))].val
  BY DEF Map!Inserted, Map!Assigned, Map!Has, Positions, First, Last

LEMMA InsertedNone ==
  ASSUME NEW m \in [Keys -> Values \union {Absent}]
  PROVE  Map!Inserted(m, <<>>) = m /\ Map!Assigned(m, <<>>) = m
<1>1. \A k : Positions(<<>>, k) = {}
  BY DEF Positions
<1>2. \A k \in Keys : Map!Inserted(m, <<>>)[k] = m[k] /\ Map!Assigned(m, <<>>)[k] = m[k]
  BY <1>1, InsertedAt
<1>3. /\ Map!Inserted(m, <<>>) = [k \in Keys |-> Map!Inserted(m, <<>>)[k]]
      /\ Map!Assigned(m, <<>>) = [k \in Keys |-> Map!Assigned(m, <<>>)[k]]
  BY DEF Map!Inserted, Map!Assigned
<1>4. m = [k \in Keys |-> m[k]]
  OBVIOUS
<1>5. QED
  BY <1>2, <1>3, <1>4

\* insert(): the pair counts if its key is new.
LEMMA InsertedOneMore ==
  ASSUME NEW m \in [Keys -> Values \union {Absent}], NEW ps \in Seq(Pairs), NEW qs \in Seq(Pairs),
         Len(qs) = Len(ps) + 1, \A i \in 1..Len(ps) : qs[i] = ps[i],
         NEW p, p = qs[Len(qs)]
  PROVE  LET w == Map!Inserted(m, ps)
         IN  Map!Inserted(m, qs) = IF w[p.key] # Absent THEN w ELSE [w EXCEPT ![p.key] = p.val]
<1> DEFINE w == Map!Inserted(m, ps)
           v == Map!Inserted(m, qs)
           u == IF w[p.key] # Absent THEN w ELSE [w EXCEPT ![p.key] = p.val]
<1>1. w = [k \in Keys |-> w[k]] /\ v = [k \in Keys |-> v[k]]
  BY DEF Map!Inserted
<1>2. p \in Pairs /\ p.key \in Keys /\ p.val \in Values
  BY OneMorePosition DEF Pairs
<1>3. ASSUME NEW k \in Keys
      PROVE  v[k] = IF k = p.key /\ w[k] = Absent THEN p.val ELSE w[k]
  <2> DEFINE at == Positions(ps, k)
             after == Positions(qs, k)
             n == Len(qs)
  <2>1. /\ w[k] = IF m[k] # Absent \/ at = {} THEN m[k] ELSE ps[First(at)].val
        /\ v[k] = IF m[k] # Absent \/ after = {} THEN m[k] ELSE qs[First(after)].val
    BY InsertedAt
  <2>2. /\ after = IF p.key = k THEN at \union {n} ELSE at
        /\ at \subseteq 1..Len(ps) /\ at \subseteq Nat /\ n \in Nat /\ n = Len(ps) + 1
    BY OneMorePosition
  <2> HIDE DEF at, after, w, v
  <2>3. ASSUME at # {}
        PROVE  /\ First(at) \in at /\ (\A j \in at : First(at) <= j)
               /\ qs[First(at)] = ps[First(at)] /\ ps[First(at)].val \in Values
    <3>1. First(at) \in at /\ (\A j \in at : First(at) <= j)
      BY <2>2, <2>3, FirstFacts
    <3>2. First(at) \in 1..Len(ps)
      BY <2>2, <3>1
    <3>3. ps[First(at)] \in Pairs
      BY <3>2
    <3>4. QED
      BY <3>1, <3>2, <3>3 DEF Pairs
  <2>4. CASE m[k] # Absent
    BY <2>1, <2>4
  <2>5. CASE m[k] = Absent /\ p.key # k
    BY <2>1, <2>2, <2>3, <2>5
  <2>6. CASE m[k] = Absent /\ p.key = k /\ at = {}
    <3>1. after = {n} /\ {n} \subseteq Nat
      BY <2>2, <2>6
    <3>2. First(after) = n
      BY <3>1 DEF First
    <3>3. QED
      BY <2>1, <2>6, <3>1, <3>2
  <2>7. CASE m[k] = Absent /\ p.key = k /\ at # {}
    <3>1. after \subseteq Nat /\ First(at) \in after
      BY <2>2, <2>3, <2>7
    <3>2. \A j \in after : First(at) <= j
      <4>1. First(at) <= n
        <5>1. First(at) \in at /\ at \subseteq 1..Len(ps) /\ Len(ps) \in Nat
          BY <2>2, <2>3, <2>7
        <5>2. First(at) \in 1..Len(ps)
          BY <5>1
        <5>3. n = Len(ps) + 1
          BY <2>2
        <5> HIDE DEF n
        <5>4. QED
          BY <5>1, <5>2, <5>3
      <4>2. QED
        BY <2>2, <2>3, <2>7, <4>1
    <3>3. First(after) = First(at)
      BY <3>1, <3>2, FirstFacts
    <3>4. v[k] = w[k]
      BY <2>1, <2>3, <2>7, <3>1, <3>3
    <3>5. w[k] # Absent
      BY <2>1, <2>3, <2>7, SentinelAssumption
    <3>6. QED
      BY <3>4, <3>5
  <2>8. QED
    BY <2>4, <2>5, <2>6, <2>7
<1> HIDE DEF w, v
<1>4. v = u
  BY <1>1, <1>2, <1>3
<1>5. QED
  BY <1>4 DEF w, v

\* insert_or_assign(): the pair counts.
LEMMA AssignedOneMore ==
  ASSUME NEW m \in [Keys -> Values \union {Absent}], NEW ps \in Seq(Pairs), NEW qs \in Seq(Pairs),
         Len(qs) = Len(ps) + 1, \A i \in 1..Len(ps) : qs[i] = ps[i],
         NEW p, p = qs[Len(qs)]
  PROVE  Map!Assigned(m, qs) = [Map!Assigned(m, ps) EXCEPT ![p.key] = p.val]
<1> DEFINE w == Map!Assigned(m, ps)
           v == Map!Assigned(m, qs)
<1>1. w = [k \in Keys |-> w[k]] /\ v = [k \in Keys |-> v[k]]
  BY DEF Map!Assigned
<1>2. p \in Pairs /\ p.key \in Keys
  BY OneMorePosition DEF Pairs
<1>3. ASSUME NEW k \in Keys
      PROVE  v[k] = IF k = p.key THEN p.val ELSE w[k]
  <2> DEFINE at == Positions(ps, k)
             after == Positions(qs, k)
             n == Len(qs)
  <2>1. /\ w[k] = IF at = {} THEN m[k] ELSE ps[Last(at)].val
        /\ v[k] = IF after = {} THEN m[k] ELSE qs[Last(after)].val
    BY InsertedAt
  <2>2. /\ after = IF p.key = k THEN at \union {n} ELSE at
        /\ at \subseteq 1..Len(ps) /\ n \in Nat /\ n = Len(ps) + 1 /\ Len(ps) \in Nat
    BY OneMorePosition
  <2> HIDE DEF at, after, w, v
  <2>3. CASE p.key # k
    <3>1. at # {} => Last(at) \in at
      BY <2>2, LastFacts
    <3>2. at # {} => qs[Last(at)] = ps[Last(at)]
      BY <2>2, <3>1
    <3>3. QED
      BY <2>1, <2>2, <2>3, <3>2
  <2>4. CASE p.key = k
    <3>1. n \in after /\ after \subseteq 1..n
      <4>1. after = at \union {n} /\ 1..Len(ps) \subseteq 1..n /\ n \in 1..n
        BY <2>2, <2>4
      <4>2. QED
        BY <2>2, <4>1
    <3>2. \A j \in after : n >= j
      BY <2>2, <3>1
    <3>3. Last(after) = n
      BY <2>2, <3>1, <3>2, LastFacts
    <3>4. QED
      BY <2>1, <2>4, <3>1, <3>3
  <2>5. QED
    BY <2>3, <2>4
<1> HIDE DEF w, v
<1>4. v = [w EXCEPT ![p.key] = p.val]
  BY <1>1, <1>2, <1>3
<1>5. QED
  BY <1>4 DEF w, v

LEMMA InsertedOne ==
  ASSUME NEW m \in [Keys -> Values \union {Absent}], NEW p \in Pairs
  PROVE  /\ Map!Inserted(m, <<p>>) = IF m[p.key] # Absent THEN m ELSE [m EXCEPT ![p.key] = p.val]
         /\ Map!Assigned(m, <<p>>) = [m EXCEPT ![p.key] = p.val]
<1> DEFINE none == <<>>
           one == <<p>>
<1>1. /\ none \in Seq(Pairs) /\ one \in Seq(Pairs) /\ Len(one) = Len(none) + 1
      /\ (\A i \in 1..Len(none) : one[i] = none[i]) /\ p = one[Len(one)]
  OBVIOUS
<1>2. Map!Inserted(m, none) = m /\ Map!Assigned(m, none) = m
  BY InsertedNone
<1> HIDE DEF none, one
<1>3. LET w == Map!Inserted(m, none)
      IN  Map!Inserted(m, one) = IF w[p.key] # Absent THEN w ELSE [w EXCEPT ![p.key] = p.val]
  BY <1>1, InsertedOneMore
<1>4. Map!Assigned(m, one) = [Map!Assigned(m, none) EXCEPT ![p.key] = p.val]
  BY <1>1, AssignedOneMore
<1>5. QED
  BY <1>2, <1>3, <1>4 DEF one

-----------------------------------------------------------------------------
(* How far a call has got. *)

\* A step inside a loop is not visible to the client.
LEMMA LoopFacts ==
  ASSUME ContainerInv, stable' = stable,
         InsertNext \/ ClearNext \/ EraseIfVisit \/ MergeVisit \/ DeleteNext
  PROVE  /\ Numbered /\ call \in Activations /\ call' \in Activations
         /\ call # Idle /\ call' # Idle
         /\ call'.req = call.req /\ call'.before = call.before /\ UNCHANGED last
<1>1. call # Idle
  BY DEF InsertNext, ClearNext, EraseIfVisit, MergeVisit, DeleteNext, Running
<1>2. call \in Activations /\ Numbered
  BY <1>1 DEF ContainerInv, Progress
<1>3. call'.req = call.req /\ call'.before = call.before /\ UNCHANGED last
  BY <1>2 DEF InsertNext, ClearNext, EraseIfVisit, MergeVisit, DeleteNext, Activations
<1>4. call' \in Activations
  BY InsertNextInv, ClearNextInv, EraseIfVisitInv, MergeVisitInv, DeleteNextInv
<1>5. QED
  BY <1>1, <1>2, <1>3, <1>4, IdleAssumption

\* The first of the pairs still to insert joins those that are inserted.
JoinsInserted(pairs, todo, done) ==
  LET ps == SubSeq(pairs, 1, done)
      qs == SubSeq(pairs, 1, done + 1)
      rest == Tail(todo)
  IN  /\ done \in Nat
      /\ ps \in Seq(Pairs) /\ qs \in Seq(Pairs) /\ Len(qs) = Len(ps) + 1
      /\ \A i \in 1..Len(ps) : qs[i] = ps[i]
      /\ Head(todo) = qs[Len(qs)] /\ Head(todo) \in Pairs
      /\ Len(rest) <= Len(pairs) /\ Len(pairs) - Len(rest) = done + 1
      /\ \A j \in 1..Len(rest) : rest[j] = pairs[(done + 1) + j]

LEMMA SplitNext ==
  ASSUME NEW pairs \in Seq(Pairs), NEW todo \in Seq(Pairs), todo # <<>>,
         Len(todo) <= Len(pairs), NEW done, done = Len(pairs) - Len(todo),
         \A j \in 1..Len(todo) : todo[j] = pairs[done + j]
  PROVE  JoinsInserted(pairs, todo, done)
<1> DEFINE ps == SubSeq(pairs, 1, done)
           qs == SubSeq(pairs, 1, done + 1)
           rest == Tail(todo)
<1>1. /\ Len(todo) \in Nat /\ Len(todo) > 0 /\ Len(pairs) \in Nat /\ done \in Nat
      /\ done + 1 \in 1..Len(pairs)
  OBVIOUS
<1>2. /\ ps \in Seq(Pairs) /\ Len(ps) = done /\ (\A i \in 1..done : ps[i] = pairs[i])
      /\ qs \in Seq(Pairs) /\ Len(qs) = done + 1 /\ (\A i \in 1..(done + 1) : qs[i] = pairs[i])
  BY <1>1
<1>3. Head(todo) = todo[1] /\ Head(todo) \in Pairs /\ todo[1] = pairs[done + 1]
  BY <1>1
<1>4. Len(rest) = Len(todo) - 1 /\ (\A j \in 1..Len(rest) : rest[j] = todo[j + 1])
  BY <1>1
<1> HIDE DEF ps, qs, rest
<1>5. Len(rest) <= Len(pairs) /\ Len(pairs) - Len(rest) = done + 1
  BY <1>1, <1>4
<1>6. ASSUME NEW j \in 1..Len(rest)
      PROVE  rest[j] = pairs[(done + 1) + j]
  <2>1. j + 1 \in 1..Len(todo) /\ done + (j + 1) = (done + 1) + j
    BY <1>1, <1>4
  <2>2. QED
    BY <1>4, <2>1
<1>7. Head(todo) = qs[Len(qs)] /\ (\A i \in 1..Len(ps) : qs[i] = ps[i])
  BY <1>1, <1>2, <1>3
<1>8. QED
  BY <1>1, <1>2, <1>3, <1>5, <1>6, <1>7 DEF JoinsInserted, ps, qs, rest

LEMMA InsertNextFollows ==
  ASSUME ContainerInv, Follows, stable' = stable, InsertNext
  PROVE  Follows'
<1> DEFINE o == call.req.this
           pairs == call.req.pairs
           was == call.before.value[o]
           done == Len(pairs) - Len(call.todo)
           p == Head(call.todo)
           ps == SubSeq(pairs, 1, done)
           qs == SubSeq(pairs, 1, done + 1)
<1>1. /\ Numbered /\ call \in Activations /\ call # Idle
      /\ call'.req = call.req /\ call'.before = call.before
  BY LoopFacts
<1>2. call.req.op \in Inserts /\ call.todo # <<>> /\ call'.todo = Tail(call.todo)
  BY <1>1 DEF InsertNext, Running, Inserts, Activations
<1>3. call.todo \in Seq(Pairs)
  BY <1>1, <1>2 DEF ContainerInv, Progress, Inserting, Clearing, Removing, Inserts, Deletes
<1>4. o \in Infos /\ pairs \in Seq(Pairs) /\ was \in [Keys -> Values \union {Absent}]
  <2>1. call.req \in Map!Requests
    BY <1>1 DEF Activations
  <2>2. o \in Infos /\ pairs \in Seq(Pairs)
    BY <1>2, <2>1 DEF Map!Requests, Map!Pairs, Pairs, Inserts
  <2>3. QED
    BY <1>1, <2>2 DEF Activations, Contents
<1>5. /\ Len(call.todo) <= Len(pairs)
      /\ \A j \in 1..Len(call.todo) : call.todo[j] = pairs[done + j]
      /\ value[o] = Applied(call, done)
  BY <1>1, <1>2 DEF Follows, Applying
<1>6. /\ ps \in Seq(Pairs) /\ qs \in Seq(Pairs) /\ Len(qs) = Len(ps) + 1
      /\ \A i \in 1..Len(ps) : qs[i] = ps[i]
      /\ p = qs[Len(qs)] /\ p \in Pairs
      /\ Len(call'.todo) <= Len(pairs) /\ Len(pairs) - Len(call'.todo) = done + 1
      /\ \A j \in 1..Len(call'.todo) : call'.todo[j] = pairs[(done + 1) + j]
  <2> DEFINE todo == call.todo
             all == pairs
             n == done
  <2>1. /\ all \in Seq(Pairs) /\ todo \in Seq(Pairs) /\ todo # <<>> /\ Len(todo) <= Len(all)
        /\ n = Len(all) - Len(todo) /\ (\A j \in 1..Len(todo) : todo[j] = all[n + j])
    BY <1>2, <1>3, <1>4, <1>5
  <2> HIDE DEF todo, all, n
  <2>2. JoinsInserted(all, todo, n)
    BY <2>1, SplitNext
  <2>3. QED
    BY <1>2, <2>2 DEF JoinsInserted, todo, all, n
<1>7. p.key \in Keys /\ p.val \in Values
  BY <1>6 DEF Pairs
<1>9. value' = IF call.req.op = "insert_all" /\ value[o][p.key] # Absent THEN value
               ELSE [value EXCEPT ![o][p.key] = p.val]
  BY DEF InsertNext, SetKey, KeyExists
<1>10. value[o] = IF call.req.op = "insert_all" THEN Map!Inserted(was, ps) ELSE Map!Assigned(was, ps)
  BY <1>5 DEF Applied
<1>11. value'[o] = IF call.req.op = "insert_all" /\ value[o][p.key] # Absent THEN value[o]
                   ELSE [value[o] EXCEPT ![p.key] = p.val]
  BY <1>1, <1>4, <1>9 DEF Numbered, Contents
<1>12. \A q \in Infos : q # o => value'[q] = value[q]
  BY <1>1, <1>9 DEF Numbered, Contents
<1> HIDE DEF ps, qs, p, was
<1>13. value'[o] = IF call.req.op = "insert_all" THEN Map!Inserted(was, qs) ELSE Map!Assigned(was, qs)
  <2>1. CASE call.req.op = "insert_all"
    <3>1. LET w == Map!Inserted(was, ps)
          IN  Map!Inserted(was, qs) = IF w[p.key] # Absent THEN w ELSE [w EXCEPT ![p.key] = p.val]
      BY <1>4, <1>6, InsertedOneMore
    <3>2. QED
      BY <1>10, <1>11, <2>1, <3>1
  <2>2. CASE call.req.op # "insert_all"
    <3>1. Map!Assigned(was, qs) = [Map!Assigned(was, ps) EXCEPT ![p.key] = p.val]
      <4>1. /\ was \in [Keys -> Values \union {Absent}] /\ ps \in Seq(Pairs) /\ qs \in Seq(Pairs)
            /\ Len(qs) = Len(ps) + 1 /\ (\A i \in 1..Len(ps) : qs[i] = ps[i]) /\ p = qs[Len(qs)]
        BY <1>4, <1>6
      <4>2. QED
        BY <4>1, AssignedOneMore
    <3>2. QED
      BY <1>10, <1>11, <2>2, <3>1
  <2>3. QED
    BY <2>1, <2>2
<1>14. Applying(call)'
  <2>1. value'[o] = Applied(call', done + 1)
    BY <1>1, <1>13 DEF Applied, was, qs
  <2> HIDE DEF done
  <2>2. QED
    BY <1>1, <1>6, <2>1 DEF Applying
<1>15. \A q \in Infos : q \notin {o, Target(call)} => value'[q] = call.before.value[q]
  BY <1>1, <1>12 DEF Follows
<1>16. QED
  BY <1>1, <1>14, <1>15 DEF Follows, Target

LEMMA BeginFollows ==
  ASSUME ContainerInv, NEW req, NEW todo, NEW n, NEW range, Begin(req, todo, n, range),
         req.op \in Inserts => /\ req.this \in Infos /\ req.pairs \in Seq(Pairs)
                               /\ todo = req.pairs
  PROVE  Follows'
<1>1. /\ call'.req = req /\ call'.todo = todo /\ call'.before.value = value /\ value' = value
      /\ call'.before = [value |-> value, order |-> order]
  BY DEF Begin
<1>2. ASSUME req.op \in Inserts
      PROVE  Applying(call)'
  <2> DEFINE was == value[req.this]
             pairs == req.pairs
  <2>1. was \in [Keys -> Values \union {Absent}]
    BY <1>2 DEF ContainerInv, Numbered, Contents
  <2>2. Len(pairs) - Len(todo) = 0 /\ SubSeq(pairs, 1, 0) = <<>> /\ Len(pairs) \in Nat
    BY <1>2
  <2>3. Map!Inserted(was, <<>>) = was /\ Map!Assigned(was, <<>>) = was
    <3> HIDE DEF was
    <3>1. QED
      BY <2>1, InsertedNone
  <2>4. value'[req.this] = Applied(call', 0)
    BY <1>1, <2>2, <2>3 DEF Applied
  <2>5. \A j \in 1..Len(todo) : todo[j] = pairs[0 + j]
    BY <1>2, <2>2
  <2>6. QED
    BY <1>1, <1>2, <2>2, <2>4, <2>5 DEF Applying
<1>3. QED
  BY <1>1, <1>2 DEF Follows

LEMMA FollowsStep == ContainerInv /\ Follows /\ [Next]_vars => Follows'
<1> SUFFICES ASSUME ContainerInv, Follows, [Next]_vars PROVE Follows'
  OBVIOUS
<1>1. CASE UNCHANGED vars
  <2>1. UNCHANGED <<value, call>>
    BY <1>1 DEF vars
  <2>2. Applying(call) => Applying(call)'
    BY <2>1 DEF Applying, Applied
  <2>3. QED
    BY <2>1, <2>2 DEF Follows, Target
<1>2. ASSUME Next
      PROVE  stable' = stable
  BY <1>2 DEF Next
<1>3. CASE call' = Idle
  BY <1>3 DEF Follows
<1>4. OneStepCall \/ Return \/ CallbackThrows => call' = Idle
  BY DEF OneStepCall, Insert, InsertOrAssign, ProxyWrite, ErasePos, ExtractPos, EraseKey,
         ExtractKey, ProxyRead, Find, Contains, EqualRange, At, ItemsOf, Equal, Lookup, Ready,
         Answered, Return, CallbackThrows
<1>5. CASE Next /\ BeginCall
  <2>1. PICK o \in Infos :
          \/ \E n \in 0..MaxPairs, op \in Inserts :
               \E pairs \in [1..n -> Pairs] : Room(n) /\ InsertAll(o, op, pairs)
          \/ Clear(o)
          \/ \E first, end \in 0..NKeys(o) : EraseRange(o, first, end)
          \/ \E pred \in Predicates : EraseIf(o, pred)
          \/ \E p \in Infos : Merge(o, p)
    BY <1>5 DEF BeginCall, Inserts
  <2>2. ASSUME NEW n \in 0..MaxPairs, NEW op \in Inserts, NEW pairs \in [1..n -> Pairs],
               InsertAll(o, op, pairs)
        PROVE  Follows'
    <3> DEFINE req == [op |-> op, this |-> o, pairs |-> pairs]
    <3>1. n \in Nat /\ pairs \in Seq(Pairs)
      BY SwitchAssumption
    <3>2. Begin(req, pairs, 0, <<0, 0>>) /\ req.this = o /\ req.pairs = pairs
      BY <2>2 DEF InsertAll
    <3> HIDE DEF req
    <3>3. QED
      BY <3>1, <3>2, BeginFollows
  <2>3. ASSUME NEW req, NEW todo, NEW n, NEW range, Begin(req, todo, n, range),
               req.op \notin Inserts
        PROVE  Follows'
    BY <2>3, BeginFollows
  <2>4. ASSUME Clear(o)
        PROVE  Follows'
    BY <2>3, <2>4 DEF Clear, Inserts
  <2>5. ASSUME NEW first, NEW end, EraseRange(o, first, end)
        PROVE  Follows'
    BY <2>3, <2>5 DEF EraseRange, Inserts
  <2>6. ASSUME NEW pred, EraseIf(o, pred)
        PROVE  Follows'
    BY <2>3, <2>6 DEF EraseIf, Inserts
  <2>7. ASSUME NEW p, Merge(o, p)
        PROVE  Follows'
    BY <2>3, <2>7 DEF Merge, Inserts
  <2>8. ASSUME \E n \in 0..MaxPairs, op \in Inserts :
                  \E pairs \in [1..n -> Pairs] : Room(n) /\ InsertAll(o, op, pairs)
        PROVE  Follows'
    BY <2>2, <2>8
  <2>9. QED
    BY <2>1, <2>4, <2>5, <2>6, <2>7, <2>8
<1>6. CASE Next /\ InsertNext
  BY <1>2, <1>6, InsertNextFollows
<1>7. CASE Next /\ (ClearNext \/ EraseIfVisit \/ MergeVisit \/ DeleteNext)
  <2>1. /\ Numbered /\ call \in Activations /\ call # Idle
        /\ call'.req = call.req /\ call'.before = call.before
    BY <1>2, <1>7, LoopFacts
  <2>2. call.req.op \notin Inserts
    BY <1>7 DEF ClearNext, EraseIfVisit, MergeVisit, DeleteNext, Running, Inserts
  <2>3. \A p \in Infos : p \notin {call.req.this, Target(call)} => value'[p] = value[p]
    BY <1>7, <2>1
    DEF ClearNext, EraseIfVisit, MergeVisit, DeleteNext, Running, Target, SetKey, DeleteKey,
        Numbered, Contents
  <2>4. Target(call)' = Target(call)
    BY <2>1 DEF Target
  <2>5. QED
    BY <2>1, <2>2, <2>3, <2>4 DEF Follows
<1>8. QED
  BY <1>1, <1>3, <1>4, <1>5, <1>6, <1>7 DEF Next, ContinueCall

-----------------------------------------------------------------------------
(* What the abstract specification asks, one member function at a time. *)

LEMMA EffectOf ==
  ASSUME NEW r, NEW m
  PROVE  LET self == m[r.this]
             Self(new) == [m EXCEPT ![r.this] = new]
         IN
         /\ r.op = "insert" => Map!Effect(r, m) = Self(Map!Inserted(self, <<r.pair>>))
         /\ r.op = "insert_all" => Map!Effect(r, m) = Self(Map!Inserted(self, r.pairs))
         /\ r.op = "insert_or_assign" => Map!Effect(r, m) = Self(Map!Assigned(self, <<r.pair>>))
         /\ r.op = "insert_or_assign_all" => Map!Effect(r, m) = Self(Map!Assigned(self, r.pairs))
         /\ r.op = "clear" => Map!Effect(r, m) = Self(Map!Without(self, Keys))
         /\ r.op = "erase_keys" => Map!Effect(r, m) = Self(Map!Without(self, r.keys))
         /\ r.op = "erase_if" =>
              Map!Effect(r, m) = Self(Map!Without(self, Map!KeysOf(Map!Items(self) \intersect r.pred)))
         /\ r.op \in {"erase", "extract"} => Map!Effect(r, m) = Self(Map!Without(self, {r.key}))
         /\ r.op = "read" =>
              Map!Effect(r, m) = Self(Map!Inserted(self, <<[key |-> r.key, val |-> Blank]>>))
         /\ r.op \in {"find", "contains", "equal_range", "at", "items", "equal"} =>
              Map!Effect(r, m) = m
  BY DEF Map!Effect

LEMMA AnswerOf ==
  ASSUME NEW r, NEW m
  PROVE  LET self == m[r.this] IN
         /\ r.op \in {"insert", "insert_or_assign"} =>
              Map!Answer(r, m) = [at |-> r.pair.key, inserted |-> ~(self[r.pair.key] # Absent)]
         /\ r.op = "erase" => Map!Answer(r, m) = IF self[r.key] # Absent THEN 1 ELSE 0
         /\ r.op = "extract" => Map!Answer(r, m) = self[r.key]
         /\ r.op = "read" => Map!Answer(r, m) = IF self[r.key] # Absent THEN self[r.key] ELSE Blank
         /\ r.op = "find" => Map!Answer(r, m) = IF self[r.key] # Absent THEN r.key ELSE End
         /\ r.op = "contains" => Map!Answer(r, m) = (self[r.key] # Absent)
         /\ r.op = "equal_range" => Map!Answer(r, m) = IF self[r.key] # Absent THEN {r.key} ELSE {}
         /\ r.op = "at" => Map!Answer(r, m) = IF self[r.key] # Absent THEN self[r.key] ELSE Threw
         /\ r.op = "items" => Map!Answer(r, m) = Map!Items(self)
         /\ r.op = "equal" => Map!Answer(r, m) = (self = m[r.source])
         /\ r.op \in Inserts \union Deletes \union {"clear"} => Map!Answer(r, m) = End
  BY DEF Map!Answer, Map!Has, Inserts, Deletes

\* A member function that takes one step takes effect in it.
LEMMA OneStepCalls ==
  ASSUME NEW r \in Map!Requests, NEW a, call = Idle, call' = Idle,
         last' = [req |-> r, answer |-> a],
         value' = Map!Effect(r, value), a = Map!Answer(r, value)
  PROVE  Map!Next
<1>1. map = value /\ map' = value'
  BY DEF map
<1>2. last'.req = r
  OBVIOUS
<1>3. QED
  BY <1>1, <1>2 DEF Map!Next, Map!Call

\* The positions find_pos() finds.
LEMMA DesignatesFound ==
  ASSUME NEW S, IsFiniteSet(S), NEW s \in Numberings(S), NEW k
  PROVE  /\ k \in S => /\ FindPos(s, k) \in 0..(Len(s) - 1) /\ FindPos(s, k) # Len(s)
                       /\ Designates(s, FindPos(s, k)) = k
         /\ k \notin S => FindPos(s, k) = Len(s) /\ Designates(s, FindPos(s, k)) = End
<1> DEFINE hits == {i \in 0..(Len(s) - 1) : s[i + 1] = k}
<1>1. /\ Len(s) \in Nat /\ s \in [1..Len(s) -> S]
      /\ \A i, j \in 1..Len(s) : s[i] = s[j] => i = j
      /\ \A x \in S : \E i \in 1..Len(s) : s[i] = x
  BY NumberingFacts
<1>2. FindPos(s, k) = IF hits = {} THEN Len(s) ELSE CHOOSE i \in hits : \A j \in hits : i <= j
  BY DEF FindPos
<1>3. ASSUME k \in S
      PROVE  /\ FindPos(s, k) \in 0..(Len(s) - 1) /\ FindPos(s, k) # Len(s)
             /\ Designates(s, FindPos(s, k)) = k
  <2>1. PICK i \in 1..Len(s) : s[i] = k
    BY <1>1, <1>3
  <2>2. i - 1 \in 0..(Len(s) - 1) /\ (i - 1) + 1 = i
    BY <1>1
  <2>3. i - 1 \in hits
    BY <2>1, <2>2
  <2>4. \A j \in hits : j = i - 1
    <3> SUFFICES ASSUME NEW j \in 0..(Len(s) - 1), s[j + 1] = k PROVE j = i - 1
      OBVIOUS
    <3>1. j + 1 \in 1..Len(s)
      BY <1>1
    <3>2. j + 1 = i
      BY <1>1, <2>1, <3>1
    <3>3. QED
      BY <1>1, <3>2
  <2>5. hits = {i - 1}
    BY <2>3, <2>4
  <2> HIDE DEF hits
  <2>6. FindPos(s, k) = i - 1
    BY <1>1, <1>2, <2>5
  <2>7. QED
    BY <1>1, <2>1, <2>2, <2>6 DEF Designates
<1>4. ASSUME k \notin S
      PROVE  FindPos(s, k) = Len(s) /\ Designates(s, FindPos(s, k)) = End
  <2>1. hits = {}
    <3> SUFFICES ASSUME NEW j \in 0..(Len(s) - 1), s[j + 1] = k PROVE FALSE
      OBVIOUS
    <3>1. j + 1 \in 1..Len(s)
      BY <1>1
    <3>2. QED
      BY <1>1, <1>4, <3>1
  <2> HIDE DEF hits
  <2>2. FindPos(s, k) = Len(s)
    BY <1>2, <2>1
  <2>3. QED
    BY <1>1, <2>2 DEF Designates
<1>5. QED
  BY <1>3, <1>4

\* Every present key is found, in the state before a step and in the one after.
LEMMA FoundIn ==
  ASSUME Numbered, NEW o \in Infos, NEW k \in Keys
  PROVE  /\ Designates(order[o], FindPos(order[o], k)) = IF KeyExists(o, k) THEN k ELSE End
         /\ FindPos(order[o], k) # NKeys(o) <=> KeyExists(o, k)
         /\ NKeys(o) \in Nat /\ FindPos(order[o], k) \in 0..NKeys(o)
<1> DEFINE S == KeysIn(value[o])
           s == order[o]
<1>1. IsFiniteSet(S) /\ s \in Numberings(S) /\ (k \in S <=> KeyExists(o, k)) /\ NKeys(o) = Len(s)
  BY DEF Numbered, KeysIn, KeyExists, NKeys
<1>2. NKeys(o) \in Nat
  BY OrderFacts
<1> HIDE DEF S, s
<1>3. /\ k \in S => /\ FindPos(s, k) \in 0..(Len(s) - 1) /\ FindPos(s, k) # Len(s)
                    /\ Designates(s, FindPos(s, k)) = k
      /\ k \notin S => FindPos(s, k) = Len(s) /\ Designates(s, FindPos(s, k)) = End
  BY <1>1, DesignatesFound
<1>4. QED
  BY <1>1, <1>2, <1>3 DEF s

LEMMA FoundAfter ==
  ASSUME Numbered', NEW o \in Infos, NEW k \in Keys, value'[o][k] # Absent
  PROVE  Designates(order'[o], FindPos(order'[o], k)) = k
<1> DEFINE S == KeysIn(value'[o])
           s == order'[o]
<1>1. IsFiniteSet(S) /\ s \in Numberings(S) /\ k \in S
  BY DEF Numbered, KeysIn, Numberings
<1> HIDE DEF S, s
<1>2. Designates(s, FindPos(s, k)) = k
  BY <1>1, DesignatesFound
<1>3. QED
  BY <1>2 DEF s

LEMMA SetKeyMap ==
  ASSUME Numbered, NEW o \in Infos, NEW p \in Pairs
  PROVE  /\ value[o] \in [Keys -> Values \union {Absent}] /\ p.key \in Keys /\ p.val \in Values
         /\ SetKey(o, p.key, p.val) =>
              /\ value' = [value EXCEPT ![o] = Map!Assigned(value[o], <<p>>)]
              /\ value'[o][p.key] = p.val
         /\ SetKey(o, p.key, p.val) /\ ~KeyExists(o, p.key) =>
              value' = [value EXCEPT ![o] = Map!Inserted(value[o], <<p>>)]
         /\ KeyExists(o, p.key) => value = [value EXCEPT ![o] = Map!Inserted(value[o], <<p>>)]
<1> DEFINE m == value[o]
<1>1. m \in [Keys -> Values \union {Absent}] /\ value \in Contents /\ p.key \in Keys /\ p.val \in Values
  BY DEF Numbered, Contents, Pairs
<1> HIDE DEF m
<1>2. /\ Map!Inserted(m, <<p>>) = IF m[p.key] # Absent THEN m ELSE [m EXCEPT ![p.key] = p.val]
      /\ Map!Assigned(m, <<p>>) = [m EXCEPT ![p.key] = p.val]
  BY <1>1, InsertedOne
<1>3. ASSUME SetKey(o, p.key, p.val)
      PROVE  value' = [value EXCEPT ![o] = [m EXCEPT ![p.key] = p.val]] /\ value'[o][p.key] = p.val
  BY <1>1, <1>3 DEF SetKey, m, Contents
<1>4. value = [value EXCEPT ![o] = m]
  BY <1>1 DEF m, Contents
<1>5. KeyExists(o, p.key) <=> m[p.key] # Absent
  BY DEF KeyExists, m
<1>6. QED
  BY <1>1, <1>2, <1>3, <1>4, <1>5 DEF m

LEMMA DeleteKeyMap ==
  ASSUME Numbered, NEW o \in Infos, NEW k
  PROVE  /\ DeleteKey(o, k) => value' = [value EXCEPT ![o] = Map!Without(value[o], {k})]
         /\ k \notin KeysIn(value[o]) => value = [value EXCEPT ![o] = Map!Without(value[o], {k})]
<1>1. Map!Without(value[o], {k}) = [x \in Keys |-> IF x = k THEN Absent ELSE value[o][x]]
  BY DEF Map!Without
<1>2. value \in [Infos -> [Keys -> Values \union {Absent}]]
  BY DEF Numbered, Contents
<1>3. k \notin KeysIn(value[o]) => [x \in Keys |-> IF x = k THEN Absent ELSE value[o][x]] = value[o]
  BY <1>2 DEF KeysIn
<1>4. QED
  BY <1>1, <1>2, <1>3 DEF DeleteKey

LEMMA InsertRefines ==
  ASSUME ContainerInv, ContainerInv', NEW o \in Infos, NEW p \in Pairs,
         Insert(o, p) \/ InsertOrAssign(o, p) \/ ProxyWrite(o, p)
  PROVE  Map!Next
<1> DEFINE found == Designates(order'[o], FindPos(order'[o], p.key))
           a == [at |-> found, inserted |-> ~KeyExists(o, p.key)]
<1>1. Numbered /\ Numbered' /\ call = Idle /\ call' = Idle
  BY DEF ContainerInv, Insert, InsertOrAssign, ProxyWrite, Ready, Answered
<1>2. /\ value[o] \in [Keys -> Values \union {Absent}] /\ p.key \in Keys /\ p.val \in Values
      /\ SetKey(o, p.key, p.val) =>
           /\ value' = [value EXCEPT ![o] = Map!Assigned(value[o], <<p>>)]
           /\ value'[o][p.key] = p.val
      /\ SetKey(o, p.key, p.val) /\ ~KeyExists(o, p.key) =>
           value' = [value EXCEPT ![o] = Map!Inserted(value[o], <<p>>)]
      /\ KeyExists(o, p.key) => value = [value EXCEPT ![o] = Map!Inserted(value[o], <<p>>)]
  BY <1>1, SetKeyMap
<1>3. Insert(o, p) \/ InsertOrAssign(o, p) => value'[o][p.key] # Absent
  BY <1>2, SentinelAssumption DEF Insert, InsertOrAssign, KeyExists
<1>4. Insert(o, p) \/ InsertOrAssign(o, p) => found = p.key
  BY <1>1, <1>2, <1>3, FoundAfter
<1> HIDE DEF found
<1>5. CASE Insert(o, p)
  <2> DEFINE r == [op |-> "insert", this |-> o, pair |-> p]
  <2>1. r \in Map!Requests /\ r.op = "insert" /\ r.this = o /\ r.pair = p
    BY DEF Map!Requests, Map!Pairs, Pairs
  <2>2. last' = [req |-> r, answer |-> a]
    BY <1>5 DEF Insert, Answered, found
  <2>3. value' = [value EXCEPT ![o] = Map!Inserted(value[o], <<p>>)]
    BY <1>2, <1>5 DEF Insert
  <2> HIDE DEF r
  <2>4. Map!Effect(r, value) = [value EXCEPT ![o] = Map!Inserted(value[o], <<p>>)]
    BY <2>1, EffectOf
  <2>5. Map!Answer(r, value) = a
    BY <1>4, <1>5, <2>1, AnswerOf DEF KeyExists
  <2>6. QED
    BY <1>1, <2>1, <2>2, <2>3, <2>4, <2>5, OneStepCalls
<1>6. CASE InsertOrAssign(o, p)
  <2> DEFINE r == [op |-> "insert_or_assign", this |-> o, pair |-> p]
  <2>1. r \in Map!Requests /\ r.op = "insert_or_assign" /\ r.this = o /\ r.pair = p
    BY DEF Map!Requests, Map!Pairs, Pairs
  <2>2. last' = [req |-> r, answer |-> a]
    BY <1>6 DEF InsertOrAssign, Answered, found
  <2>3. value' = [value EXCEPT ![o] = Map!Assigned(value[o], <<p>>)]
    BY <1>2, <1>6 DEF InsertOrAssign
  <2> HIDE DEF r
  <2>4. Map!Effect(r, value) = [value EXCEPT ![o] = Map!Assigned(value[o], <<p>>)]
    BY <2>1, EffectOf
  <2>5. Map!Answer(r, value) = a
    BY <1>4, <1>6, <2>1, AnswerOf DEF KeyExists
  <2>6. QED
    BY <1>1, <2>1, <2>2, <2>3, <2>4, <2>5, OneStepCalls
<1>7. CASE ProxyWrite(o, p)
  <2> DEFINE one == <<p>>
             r == [op |-> "insert_or_assign_all", this |-> o, pairs |-> one]
  <2>1. one \in Seq(Pairs)
    OBVIOUS
  <2>2. last' = [req |-> r, answer |-> End]
    BY <1>7 DEF ProxyWrite, Answered
  <2>3. value' = [value EXCEPT ![o] = Map!Assigned(value[o], one)]
    BY <1>2, <1>7 DEF ProxyWrite
  <2> HIDE DEF one
  <2>4. r \in Map!Requests /\ r.op = "insert_or_assign_all" /\ r.this = o /\ r.pairs = one
    BY <2>1 DEF Map!Requests, Map!Pairs, Pairs
  <2> HIDE DEF r
  <2>5. Map!Effect(r, value) = [value EXCEPT ![o] = Map!Assigned(value[o], one)]
    BY <2>4, EffectOf
  <2>6. Map!Answer(r, value) = End
    BY <2>4, AnswerOf DEF Inserts
  <2>7. QED
    BY <1>1, <2>2, <2>3, <2>4, <2>5, <2>6, OneStepCalls
<1>8. QED
  BY <1>5, <1>6, <1>7

LEMMA ReadRefines ==
  ASSUME ContainerInv, NEW o \in Infos, NEW k \in Keys, ProxyRead(o, k)
  PROVE  Map!Next
<1> DEFINE p == [key |-> k, val |-> Blank]
           a == IF KeyExists(o, k) THEN value[o][k] ELSE Blank
           r == [op |-> "read", this |-> o, key |-> k]
<1>1. /\ Numbered /\ call = Idle /\ call' = Idle /\ last' = [req |-> r, answer |-> a]
      /\ IF KeyExists(o, k) THEN UNCHANGED <<value, order>> ELSE SetKey(o, k, Blank)
  BY DEF ContainerInv, ProxyRead, Ready, Answered
<1>2. p \in Pairs /\ p.key = k /\ p.val = Blank
  BY SentinelAssumption DEF Pairs
<1>3. r \in Map!Requests /\ r.op = "read" /\ r.this = o /\ r.key = k
  BY DEF Map!Requests
<1>4. p = [key |-> k, val |-> Blank]
  OBVIOUS
<1> HIDE DEF p, r
<1>5. value' = [value EXCEPT ![o] = Map!Inserted(value[o], <<p>>)]
  BY <1>1, <1>2, SetKeyMap
<1>6. Map!Effect(r, value) = [value EXCEPT ![o] = Map!Inserted(value[o], <<p>>)]
  BY <1>3, <1>4, EffectOf
<1>7. Map!Answer(r, value) = a
  BY <1>3, AnswerOf DEF KeyExists
<1>8. QED
  BY <1>1, <1>3, <1>5, <1>6, <1>7, OneStepCalls

LEMMA EraseRefines ==
  ASSUME ContainerInv, NEW o \in Infos, NEW k \in Keys, EraseKey(o, k) \/ ExtractKey(o, k)
  PROVE  Map!Next
<1>1. Numbered /\ call = Idle /\ call' = Idle
  BY DEF ContainerInv, EraseKey, ExtractKey, Ready, Answered
<1>2. value' = [value EXCEPT ![o] = Map!Without(value[o], {k})]
  <2>1. CASE KeyExists(o, k)
    BY <1>1, <2>1, DeleteKeyMap DEF EraseKey, ExtractKey
  <2>2. CASE ~KeyExists(o, k)
    <3>1. k \notin KeysIn(value[o]) /\ value' = value
      BY <2>2 DEF EraseKey, ExtractKey, KeyExists, KeysIn
    <3>2. QED
      BY <1>1, <3>1, DeleteKeyMap
  <2>3. QED
    BY <2>1, <2>2
<1>3. CASE EraseKey(o, k)
  <2> DEFINE req == [op |-> "erase", this |-> o, key |-> k]
             ans == IF KeyExists(o, k) THEN 1 ELSE 0
  <2>1. req \in Map!Requests /\ req.op = "erase" /\ req.this = o /\ req.key = k
    BY DEF Map!Requests
  <2>2. last' = [req |-> req, answer |-> ans]
    BY <1>3 DEF EraseKey, Answered
  <2> HIDE DEF req
  <2>3. Map!Effect(req, value) = [value EXCEPT ![o] = Map!Without(value[o], {k})]
    BY <2>1, EffectOf
  <2>4. Map!Answer(req, value) = ans
    BY <2>1, AnswerOf DEF KeyExists
  <2>5. QED
    BY <1>1, <1>2, <2>1, <2>2, <2>3, <2>4, OneStepCalls
<1>4. CASE ExtractKey(o, k)
  <2> DEFINE req == [op |-> "extract", this |-> o, key |-> k]
  <2>1. req \in Map!Requests /\ req.op = "extract" /\ req.this = o /\ req.key = k
    BY DEF Map!Requests
  <2>2. last' = [req |-> req, answer |-> value[o][k]]
    BY <1>4 DEF ExtractKey, Answered
  <2> HIDE DEF req
  <2>3. Map!Effect(req, value) = [value EXCEPT ![o] = Map!Without(value[o], {k})]
    BY <2>1, EffectOf
  <2>4. Map!Answer(req, value) = value[o][k]
    BY <2>1, AnswerOf
  <2>5. QED
    BY <1>1, <1>2, <2>1, <2>2, <2>3, <2>4, OneStepCalls
<1>5. QED
  BY <1>3, <1>4

\* The iterator given to erase() must designate a pair.
LEMMA ErasePosRefines ==
  ASSUME ContainerInv, NEW o \in Infos, NEW pos \in 0..NKeys(o), pos < NKeys(o),
         ErasePos(o, pos) \/ ExtractPos(o, pos)
  PROVE  Map!Next
<1> DEFINE k == NthKey(o, pos)
<1>1. Numbered /\ call = Idle /\ call' = Idle
  BY DEF ContainerInv, ErasePos, ExtractPos, Ready, Answered
<1>2. k \in Keys
  BY <1>1, KeyAt
<1>3. value' = [value EXCEPT ![o] = Map!Without(value[o], {k})]
  BY <1>1, DeleteKeyMap DEF ErasePos, ExtractPos
<1>4. CASE ErasePos(o, pos)
  <2> DEFINE req == [op |-> "erase_keys", this |-> o, keys |-> {k}]
  <2>1. last' = [req |-> req, answer |-> End]
    BY <1>4 DEF ErasePos, Answered
  <2> HIDE DEF k
  <2>2. req \in Map!Requests /\ req.op = "erase_keys" /\ req.this = o /\ req.keys = {k}
    BY <1>2 DEF Map!Requests
  <2> HIDE DEF req
  <2>3. Map!Effect(req, value) = [value EXCEPT ![o] = Map!Without(value[o], {k})]
    <3>1. Map!Effect(req, value)
            = [value EXCEPT ![req.this] = Map!Without(value[req.this], req.keys)]
      BY <2>2, EffectOf
    <3>2. QED
      BY <2>2, <3>1
  <2>4. Map!Answer(req, value) = End
    BY <2>2, AnswerOf DEF Deletes
  <2>5. QED
    BY <1>1, <1>3, <2>1, <2>2, <2>3, <2>4, OneStepCalls
<1>5. CASE ExtractPos(o, pos)
  <2> DEFINE req == [op |-> "extract", this |-> o, key |-> k]
  <2>1. last' = [req |-> req, answer |-> value[o][k]]
    BY <1>5 DEF ExtractPos, Answered
  <2> HIDE DEF k
  <2>2. req \in Map!Requests /\ req.op = "extract" /\ req.this = o /\ req.key = k
    BY <1>2 DEF Map!Requests
  <2> HIDE DEF req
  <2>3. Map!Effect(req, value) = [value EXCEPT ![o] = Map!Without(value[o], {k})]
    BY <2>2, EffectOf
  <2>4. Map!Answer(req, value) = value[o][k]
    BY <2>2, AnswerOf
  <2>5. QED
    BY <1>1, <1>3, <2>1, <2>2, <2>3, <2>4, OneStepCalls
<1>6. QED
  BY <1>4, <1>5

\* Lookups change nothing: only the answer matters.
LEMMA LookupRefines ==
  ASSUME NEW r \in Map!Requests, NEW a, Lookup(r, a),
         r.op \in {"find", "contains", "equal_range", "at", "items", "equal"},
         a = Map!Answer(r, value)
  PROVE  Map!Next
<1>1. call = Idle /\ call' = Idle /\ last' = [req |-> r, answer |-> a] /\ value' = value
  BY DEF Lookup, Ready, Answered
<1>2. Map!Effect(r, value) = value
  BY EffectOf
<1>3. QED
  BY <1>1, <1>2, OneStepCalls

LEMMA KeyLookupRefines ==
  ASSUME ContainerInv, NEW o \in Infos, NEW k \in Keys,
         Find(o, k) \/ Contains(o, k) \/ EqualRange(o, k) \/ At(o, k)
  PROVE  Map!Next
<1> DEFINE pos == FindPos(order[o], k)
           n == NKeys(o)
<1>1. Numbered
  BY DEF ContainerInv
<1>2. /\ Designates(order[o], pos) = IF KeyExists(o, k) THEN k ELSE End
      /\ pos # n <=> KeyExists(o, k)
      /\ n \in Nat /\ pos \in 0..n
  BY <1>1, FoundIn
<1>3. CASE Find(o, k)
  <2> DEFINE r == [op |-> "find", this |-> o, key |-> k]
  <2>1. r \in Map!Requests /\ r.op = "find" /\ r.this = o /\ r.key = k
    BY DEF Map!Requests
  <2>2. Lookup(r, Designates(order[o], pos))
    BY <1>3 DEF Find
  <2> HIDE DEF r
  <2>3. Map!Answer(r, value) = Designates(order[o], pos)
    BY <1>2, <2>1, AnswerOf DEF KeyExists
  <2>4. QED
    BY <2>1, <2>2, <2>3, LookupRefines
<1>4. CASE Contains(o, k)
  <2> DEFINE r == [op |-> "contains", this |-> o, key |-> k]
             a == (pos # n)
  <2>1. r \in Map!Requests /\ r.op = "contains" /\ r.this = o /\ r.key = k
    BY DEF Map!Requests
  <2>2. Lookup(r, a)
    BY <1>4 DEF Contains
  <2> HIDE DEF r
  <2>3. Map!Answer(r, value) = (value[o][k] # Absent)
    BY <2>1, AnswerOf
  <2>4. a = (value[o][k] # Absent)
    BY <1>2 DEF KeyExists
  <2> HIDE DEF a
  <2>5. QED
    BY <2>1, <2>2, <2>3, <2>4, LookupRefines
<1>5. CASE EqualRange(o, k)
  <2> DEFINE r == [op |-> "equal_range", this |-> o, key |-> k]
             range == IF pos # n THEN <<pos, pos + 1>> ELSE <<n, n>>
             a == {Designates(order[o], i) : i \in range[1]..(range[2] - 1)}
  <2>1. r \in Map!Requests /\ r.op = "equal_range" /\ r.this = o /\ r.key = k
    BY DEF Map!Requests
  <2>2. Lookup(r, a)
    BY <1>5 DEF EqualRange
  <2> HIDE DEF r, pos, n
  <2>3. a = IF KeyExists(o, k) THEN {k} ELSE {}
    <3>1. CASE KeyExists(o, k)
      <4>1. range[1] = pos /\ range[2] - 1 = pos /\ pos..pos = {pos}
        BY <1>2, <3>1
      <4>2. a = {Designates(order[o], pos)}
        BY <4>1
      <4>3. QED
        BY <1>2, <3>1, <4>2
    <3>2. CASE ~KeyExists(o, k)
      <4>1. range[1] = n /\ range[2] - 1 = n - 1 /\ n..(n - 1) = {}
        BY <1>2, <3>2
      <4>2. QED
        BY <3>2, <4>1
    <3>3. QED
      BY <3>1, <3>2
  <2>4. Map!Answer(r, value) = IF value[o][k] # Absent THEN {k} ELSE {}
    BY <2>1, AnswerOf
  <2>5. a = Map!Answer(r, value)
    BY <2>3, <2>4 DEF KeyExists
  <2> HIDE DEF a
  <2>6. QED
    BY <2>1, <2>2, <2>5, LookupRefines
<1>6. CASE At(o, k)
  <2> DEFINE r == [op |-> "at", this |-> o, key |-> k]
             a == IF KeyExists(o, k) THEN value[o][k] ELSE Threw
  <2>1. r \in Map!Requests /\ r.op = "at" /\ r.this = o /\ r.key = k
    BY DEF Map!Requests
  <2>2. Lookup(r, a)
    BY <1>6 DEF At
  <2> HIDE DEF r
  <2>3. Map!Answer(r, value) = a
    BY <2>1, AnswerOf DEF KeyExists
  <2> HIDE DEF a
  <2>4. QED
    BY <2>1, <2>2, <2>3, LookupRefines
<1>7. QED
  BY <1>3, <1>4, <1>5, <1>6

\* keys() and values() together list the pairs of the object.
LEMMA ItemsRefines ==
  ASSUME ContainerInv, NEW o \in Infos, ItemsOf(o)
  PROVE  Map!Next
<1> DEFINE r == [op |-> "items", this |-> o]
           n == NKeys(o)
           Item(i) == [key |-> NthKey(o, i), val |-> value[o][NthKey(o, i)]]
           a == {Item(i) : i \in 0..(n - 1)}
<1>1. Numbered
  BY DEF ContainerInv
<1>2. r \in Map!Requests /\ r.op = "items" /\ r.this = o
  BY DEF Map!Requests
<1>3. Lookup(r, a)
  BY DEF ItemsOf
<1> HIDE DEF r
<1>4. Map!Answer(r, value) = Map!Items(value[o])
  BY <1>2, AnswerOf
<1>5. n \in Nat /\ (\A k \in KeysIn(value[o]) : \E i \in 1..n : order[o][i] = k)
  BY <1>1, OrderFacts
<1>6. ASSUME NEW i \in 0..(n - 1)
      PROVE  Item(i) \in Map!Items(value[o])
  <2>1. i \in Nat /\ i < NKeys(o)
    BY <1>5
  <2>2. NthKey(o, i) \in Keys /\ value[o][NthKey(o, i)] \in Values
    BY <1>1, <2>1, KeyAt
  <2>3. QED
    BY <2>2 DEF Map!Items, Map!Pairs
<1>7. ASSUME NEW p \in Map!Items(value[o])
      PROVE  \E i \in 0..(n - 1) : p = Item(i)
  <2>1. /\ p \in [key : Keys, val : Values] /\ value[o][p.key] = p.val
    BY DEF Map!Items, Map!Pairs
  <2>2. p.key \in KeysIn(value[o])
    BY <2>1, SentinelAssumption DEF KeysIn
  <2>3. PICK j \in 1..n : order[o][j] = p.key
    BY <1>5, <2>2
  <2>4. j - 1 \in 0..(n - 1) /\ j - 1 < NKeys(o) /\ (j - 1) + 1 = j
    BY <1>5
  <2>5. NthKey(o, j - 1) = p.key
    BY <2>3, <2>4 DEF NthKey
  <2>6. p = [key |-> p.key, val |-> value[o][p.key]]
    BY <2>1
  <2>7. p = Item(j - 1)
    BY <2>5, <2>6
  <2>8. QED
    BY <2>4, <2>7
<1> HIDE DEF Item, n
<1>8. a = Map!Items(value[o])
  BY <1>6, <1>7
<1> HIDE DEF a
<1>9. QED
  BY <1>2, <1>3, <1>4, <1>8, LookupRefines

\* operator== compares the sizes and looks the keys of one side up in the other.
LEMMA EqualRefines ==
  ASSUME ContainerInv, NEW o \in Infos, NEW p \in Infos, Equal(o, p)
  PROVE  Map!Next
<1> DEFINE r == [op |-> "equal", this |-> o, source |-> p]
           Same(i) == KeyExists(p, NthKey(o, i)) /\ value[p][NthKey(o, i)] = value[o][NthKey(o, i)]
           a == NKeys(o) = NKeys(p) /\ (\A i \in 0..(NKeys(o) - 1) : Same(i))
           S == KeysIn(value[o])
           T == KeysIn(value[p])
<1>1. Numbered
  BY DEF ContainerInv
<1>2. r \in Map!Requests /\ r.op = "equal" /\ r.this = o /\ r.source = p
  BY DEF Map!Requests
<1>3. Lookup(r, a)
  BY DEF Equal
<1>4. /\ NKeys(o) \in Nat /\ NKeys(o) = Cardinality(S) /\ NKeys(p) = Cardinality(T)
      /\ \A k \in S : \E i \in 1..NKeys(o) : order[o][i] = k
  BY <1>1, OrderFacts
<1>5. /\ IsFiniteSet(S) /\ IsFiniteSet(T)
      /\ value[o] \in [Keys -> Values \union {Absent}]
      /\ value[p] \in [Keys -> Values \union {Absent}]
  BY <1>1 DEF Numbered, Contents
<1>6. ASSUME value[o] = value[p]
      PROVE  a
  <2>1. NKeys(o) = NKeys(p)
    BY <1>4, <1>6
  <2>2. ASSUME NEW i \in 0..(NKeys(o) - 1)
        PROVE  Same(i)
    <3>1. i \in Nat /\ i < NKeys(o)
      BY <1>4
    <3>2. NthKey(o, i) \in KeysIn(value[o])
      BY <1>1, <3>1, KeyAt
    <3>3. QED
      BY <1>6, <3>2 DEF KeyExists, KeysIn
  <2>3. QED
    BY <2>1, <2>2
<1>7. ASSUME a
      PROVE  value[o] = value[p]
  <2>1. ASSUME NEW k \in S
        PROVE  k \in T /\ value[p][k] = value[o][k]
    <3>1. PICK j \in 1..NKeys(o) : order[o][j] = k
      BY <1>4
    <3>2. j - 1 \in 0..(NKeys(o) - 1) /\ j - 1 < NKeys(o) /\ (j - 1) + 1 = j
      BY <1>4
    <3>3. NthKey(o, j - 1) = k
      BY <3>1, <3>2 DEF NthKey
    <3>4. Same(j - 1)
      BY <1>7, <3>2
    <3>5. QED
      BY <3>3, <3>4 DEF KeyExists, KeysIn
  <2>2. S = T
    <3>1. S \in SUBSET T /\ Cardinality(S) = Cardinality(T)
      BY <1>4, <1>7, <2>1
    <3> HIDE DEF S, T
    <3>2. QED
      BY <1>5, <3>1, FS_Subset
  <2>3. ASSUME NEW k \in Keys
        PROVE  value[o][k] = value[p][k]
    <3>1. CASE k \in S
      BY <2>1, <3>1
    <3>2. CASE k \notin S
      BY <2>2, <3>2 DEF KeysIn
    <3>3. QED
      BY <3>1, <3>2
  <2>4. QED
    BY <1>5, <2>3
<1>8. Map!Answer(r, value) = (value[o] = value[p])
  <2> HIDE DEF r
  <2>1. QED
    BY <1>2, AnswerOf
<1>9. a = (value[o] = value[p])
  <2>1. a <=> (value[o] = value[p])
    BY <1>6, <1>7
  <2>2. a \in BOOLEAN
    OBVIOUS
  <2> HIDE DEF a
  <2>3. QED
    BY <2>1, <2>2
<1> HIDE DEF r, a
<1>10. QED
  BY <1>2, <1>3, <1>8, <1>9, LookupRefines

-----------------------------------------------------------------------------
(* Calls that loop take effect when they end. *)

\* The objects a call leaves alone, its argument and what it began with.
LEMMA EndFacts ==
  ASSUME ContainerInv, Follows, call # Idle
  PROVE  /\ call \in Activations /\ call.req \in Map!Requests /\ call.req.this \in Infos
         /\ call.i \in Nat /\ call.n \in Nat
         /\ value \in Contents /\ call.before.value \in Contents
         /\ \A q \in Infos : q \notin {call.req.this, Target(call)} => value[q] = call.before.value[q]
         /\ call.req.op \in Inserts \union Deletes \union {"clear"}
         /\ call.req.op \in Inserts => Inserting(call) /\ Applying(call)
         /\ call.req.op = "clear" => Clearing(call)
         /\ call.req.op \in Deletes => Removing(call)
<1>1. /\ Numbered /\ call \in Activations
      /\ Inserting(call) \/ Clearing(call) \/ Removing(call)
  BY DEF ContainerInv, Progress
<1>2. /\ call.req \in Map!Requests /\ call.i \in Nat /\ call.n \in Nat
      /\ call.before.value \in Contents
  BY <1>1 DEF Activations
<1>3. call.req.this \in Infos
  BY <1>2 DEF Map!Requests
<1>4. /\ Inserting(call) => call.req.op \in Inserts
      /\ Clearing(call) => call.req.op = "clear"
      /\ Removing(call) => call.req.op \in Deletes
  BY DEF Inserting, Clearing, Removing
<1>5. QED
  BY <1>1, <1>2, <1>3, <1>4 DEF Numbered, Follows, Inserts, Deletes

LEMMA OneObjectChanged ==
  ASSUME NEW m \in Contents, NEW v \in Contents, NEW o \in Infos,
         \A q \in Infos : q # o => v[q] = m[q]
  PROVE  v = [m EXCEPT ![o] = v[o]]
  BY DEF Contents

LEMMA WholeSequence ==
  ASSUME NEW S, NEW s \in Seq(S)
  PROVE  SubSeq(s, 1, Len(s)) = s
  OBVIOUS

LEMMA InsertEnds ==
  ASSUME ContainerInv, Follows, call # Idle, call.req.op \in Inserts, call.todo = <<>>
  PROVE  value = Map!Effect(call.req, call.before.value)
<1> DEFINE r == call.req
           m == call.before.value
<1>1. /\ r \in Map!Requests /\ r.this \in Infos /\ value \in Contents /\ m \in Contents
      /\ \A q \in Infos : q \notin {r.this, Target(call)} => value[q] = m[q]
      /\ Applying(call)
  BY EndFacts
<1>2. r.pairs \in Seq(Pairs) /\ Target(call) = r.this
  BY <1>1 DEF Map!Requests, Map!Pairs, Pairs, Inserts, Target
<1>3. Len(r.pairs) \in Nat /\ Len(r.pairs) - Len(call.todo) = Len(r.pairs)
  BY <1>2
<1>4. value[r.this] = Applied(call, Len(r.pairs))
  BY <1>1, <1>3 DEF Applying
<1>5. value[r.this] = IF r.op = "insert_all" THEN Map!Inserted(m[r.this], r.pairs)
                      ELSE Map!Assigned(m[r.this], r.pairs)
  BY <1>2, <1>4, WholeSequence DEF Applied
<1>6. value = [m EXCEPT ![r.this] = value[r.this]]
  BY <1>1, <1>2, OneObjectChanged
<1>7. r.op = "insert_all" \/ r.op = "insert_or_assign_all"
  BY DEF Inserts
<1> HIDE DEF r, m
<1>8. /\ r.op = "insert_all" =>
           Map!Effect(r, m) = [m EXCEPT ![r.this] = Map!Inserted(m[r.this], r.pairs)]
      /\ r.op = "insert_or_assign_all" =>
           Map!Effect(r, m) = [m EXCEPT ![r.this] = Map!Assigned(m[r.this], r.pairs)]
  BY EffectOf
<1>9. value = Map!Effect(r, m)
  BY <1>5, <1>6, <1>7, <1>8
<1>10. QED
  BY <1>9 DEF r, m

LEMMA ClearEnds ==
  ASSUME ContainerInv, Follows, call # Idle, call.req.op = "clear", call.i = call.n
  PROVE  value = Map!Effect(call.req, call.before.value)
<1> DEFINE r == call.req
           m == call.before.value
<1>1. /\ r.this \in Infos /\ value \in Contents /\ m \in Contents /\ Clearing(call)
      /\ \A q \in Infos : q # r.this => value[q] = m[q]
      /\ call.n \in Nat
  BY EndFacts DEF Target
<1>2. NKeys(r.this) = 0
  BY <1>1 DEF Clearing
<1>3. KeysIn(value[r.this]) = {}
  BY <1>1, <1>2, OrderFacts DEF ContainerInv
<1>4. value[r.this] = Map!Without(m[r.this], Keys)
  BY <1>1, <1>3 DEF KeysIn, Map!Without, Contents
<1>5. value = [m EXCEPT ![r.this] = value[r.this]]
  BY <1>1, OneObjectChanged
<1>6. Map!Effect(r, m) = [m EXCEPT ![r.this] = Map!Without(m[r.this], Keys)]
  <2> HIDE DEF r, m
  <2>1. r.op = "clear"
    BY DEF r
  <2>2. QED
    BY <2>1, EffectOf
<1>7. QED
  BY <1>4, <1>5, <1>6

\* The target of a call that has deleted everything it had to delete.
LEMMA DeletingEnds ==
  ASSUME ContainerInv, Follows, call # Idle, call.req.op \in Deletes,
         call.i = call.n, call.todo = <<>>
  PROVE  value[Target(call)] = Map!Without(call.before.value[Target(call)], Doomed(call))
<1> DEFINE t == Target(call)
           was == call.before.value[t]
<1>1. t \in Infos /\ Numbered /\ call.i \in Nat /\ Removing(call)
  BY RemovingFacts DEF Running
<1>2. Deleting(call) /\ Left(call) = {}
  BY <1>1 DEF Removing, Left
<1>3. \A k \in Keys : value[t][k] = IF k \in Doomed(call) THEN Absent ELSE was[k]
  BY <1>2 DEF Deleting
<1>4. value[t] \in [Keys -> Values \union {Absent}]
  BY <1>1 DEF Numbered, Contents
<1>5. QED
  BY <1>3, <1>4 DEF Map!Without

LEMMA EraseEnds ==
  ASSUME ContainerInv, Follows, call # Idle, call.req.op \in {"erase_keys", "erase_if"},
         call.i = call.n, call.todo = <<>>
  PROVE  value = Map!Effect(call.req, call.before.value)
<1> DEFINE r == call.req
           m == call.before.value
<1>1. /\ r \in Map!Requests /\ r.this \in Infos /\ value \in Contents /\ m \in Contents
      /\ \A q \in Infos : q # r.this => value[q] = m[q]
      /\ Target(call) = r.this
  BY EndFacts DEF Target
<1>2. value[r.this] = Map!Without(m[r.this], Doomed(call))
  BY <1>1, DeletingEnds DEF Deletes
<1>3. value = [m EXCEPT ![r.this] = value[r.this]]
  BY <1>1, OneObjectChanged
<1>4. r.op = "erase_if" => Doomed(call) = Map!KeysOf(Map!Items(m[r.this]) \intersect r.pred)
  <2> SUFFICES ASSUME r.op = "erase_if"
               PROVE  Doomed(call) = Map!KeysOf(Map!Items(m[r.this]) \intersect r.pred)
    OBVIOUS
  <2> DEFINE was == m[r.this]
             chosen == Map!Items(was) \intersect r.pred
  <2>1. Doomed(call) = {k \in KeysIn(was) : [key |-> k, val |-> was[k]] \in r.pred}
    BY DEF Doomed
  <2>2. was \in [Keys -> Values \union {Absent}] /\ r.pred \in SUBSET [key : Keys, val : Values]
    BY <1>1 DEF Contents, Map!Requests, Map!Pairs
  <2>3. ASSUME NEW k \in Doomed(call)
        PROVE  k \in Map!KeysOf(chosen)
    <3> DEFINE p == [key |-> k, val |-> was[k]]
    <3>1. p \in chosen /\ p.key = k
      BY <2>1, <2>2 DEF KeysIn, Map!Items, Map!Pairs
    <3> HIDE DEF p, chosen
    <3>2. QED
      BY <3>1 DEF Map!KeysOf
  <2>4. ASSUME NEW k \in Map!KeysOf(chosen)
        PROVE  k \in Doomed(call)
    <3>1. PICK p \in chosen : k = p.key
      BY DEF Map!KeysOf
    <3>2. p \in [key : Keys, val : Values] /\ was[p.key] = p.val /\ p \in r.pred
      BY <3>1 DEF Map!Items, Map!Pairs
    <3>3. p = [key |-> k, val |-> was[k]] /\ k \in Keys /\ was[k] # Absent
      BY <3>1, <3>2, SentinelAssumption
    <3>4. QED
      BY <2>1, <3>2, <3>3 DEF KeysIn
  <2>5. QED
    BY <2>3, <2>4
<1>5. r.op = "erase_keys" => Doomed(call) = r.keys
  BY DEF Doomed
<1>6. r.op \in {"erase_keys", "erase_if"}
  OBVIOUS
<1> HIDE DEF r, m
<1>7. /\ r.op = "erase_keys" =>
           Map!Effect(r, m) = [m EXCEPT ![r.this] = Map!Without(m[r.this], r.keys)]
      /\ r.op = "erase_if" =>
           Map!Effect(r, m)
             = [m EXCEPT ![r.this]
                  = Map!Without(m[r.this], Map!KeysOf(Map!Items(m[r.this]) \intersect r.pred))]
  BY EffectOf
<1>8. value = Map!Effect(r, m)
  BY <1>2, <1>3, <1>4, <1>5, <1>6, <1>7
<1>9. QED
  BY <1>8 DEF r, m

LEMMA MergeEnds ==
  ASSUME ContainerInv, Follows, call # Idle, call.req.op = "merge",
         call.i = call.n, call.todo = <<>>
  PROVE  value = Map!Effect(call.req, call.before.value)
<1> DEFINE r == call.req
           m == call.before.value
           o == r.this
           s == r.source
           doomed == Doomed(call)
<1>1. /\ o \in Infos /\ value \in Contents /\ m \in Contents
      /\ \A q \in Infos : q \notin {o, s} => value[q] = m[q]
      /\ Target(call) = s
  BY EndFacts DEF Target
<1>2. s \in Infos /\ Removing(call)
  BY RemovingFacts DEF Running, Deletes
<1>3. doomed = KeysIn(m[s]) \ KeysIn(m[o])
  BY DEF Doomed
<1>4. \A k \in Keys : value[o][k] = IF k \in doomed THEN m[s][k] ELSE m[o][k]
  BY <1>2 DEF Removing, Copied
<1>5. value[s] = Map!Without(m[s], doomed)
  BY <1>1, DeletingEnds DEF Deletes
<1>6. CASE o = s
  <2>1. value[o] = m[o]
    BY <1>1, <1>2, <1>3, <1>4, <1>6 DEF Contents
  <2>2. value = m
    BY <1>1, <1>6, <2>1 DEF Contents
  <2>3. Map!Effect(r, m) = m
    BY <1>6 DEF Map!Effect
  <2>4. QED
    BY <2>2, <2>3
<1>7. CASE o # s
  <2> DEFINE moved == {k \in Keys : Map!Has(m[s], k) /\ ~Map!Has(m[o], k)}
             new == [k \in Keys |-> IF k \in moved THEN m[s][k] ELSE m[o][k]]
  <2>1. moved = doomed
    BY <1>3 DEF Map!Has, KeysIn
  <2>2. Map!Effect(r, m) = [m EXCEPT ![o] = new, ![s] = Map!Without(m[s], moved)]
    BY <1>7 DEF Map!Effect
  <2>3. value[o] = new
    BY <1>1, <1>4, <2>1 DEF Contents
  <2> HIDE DEF new, moved, doomed
  <2>4. value = [m EXCEPT ![o] = new, ![s] = Map!Without(m[s], moved)]
    BY <1>1, <1>2, <1>5, <1>7, <2>1, <2>3 DEF Contents
  <2>5. QED
    BY <2>2, <2>4
<1>8. QED
  BY <1>6, <1>7

LEMMA ReturnRefines ==
  ASSUME ContainerInv, Follows, Return
  PROVE  Map!Next
<1> DEFINE r == call.req
           m == call.before.value
<1>1. /\ call # Idle /\ call.i = call.n /\ call.todo = <<>>
      /\ last' = [req |-> r, answer |-> End] /\ call' = Idle /\ value' = value
  BY DEF Return
<1>2. r \in Map!Requests /\ r.op \in Inserts \union Deletes \union {"clear"}
  BY <1>1, EndFacts
<1>3. value = Map!Effect(r, m)
  BY <1>1, <1>2, InsertEnds, ClearEnds, EraseEnds, MergeEnds DEF Inserts, Deletes
<1>4. map = m /\ map' = value
  BY <1>1 DEF map
<1> HIDE DEF r, m
<1>5. Map!Answer(r, m) = End
  BY <1>2, AnswerOf
<1>6. last'.req = r
  BY <1>1
<1>7. map' = Map!Effect(r, map) /\ last' = [req |-> r, answer |-> Map!Answer(r, map)]
  BY <1>1, <1>3, <1>4, <1>5
<1>8. QED
  BY <1>2, <1>6, <1>7 DEF Map!Next, Map!Call

\* A call left by an exception: a prefix of the pairs has been inserted, or no
\* pair erased.
LEMMA CallbackThrowsRefines ==
  ASSUME ContainerInv, Follows, CallbackThrows
  PROVE  Map!Next
<1> DEFINE r == call.req
           m == call.before.value
<1>1. /\ call # Idle /\ last' = [req |-> r, answer |-> Threw] /\ call' = Idle /\ value' = value
      /\ r.op \in Inserts \/ (r.op = "erase_if" /\ call.i < call.n)
  BY DEF CallbackThrows, Running, Inserts
<1>2. /\ r \in Map!Requests /\ r.this \in Infos /\ value \in Contents /\ m \in Contents
      /\ call.i \in Nat /\ call.n \in Nat
      /\ \A q \in Infos : q # r.this => value[q] = m[q]
      /\ r.op \in Inserts => Inserting(call) /\ Applying(call)
      /\ r.op = "erase_if" => Removing(call)
  BY <1>1, EndFacts DEF Target, Deletes, Inserts
<1>3. map = m /\ map' = value
  BY <1>1 DEF map
<1>4. value = [m EXCEPT ![r.this] = value[r.this]]
  BY <1>2, OneObjectChanged
<1>5. CASE r.op = "erase_if"
  <2>1. value[r.this] = m[r.this]
    BY <1>1, <1>2, <1>5 DEF Removing, Collecting, Target, Inserts
  <2>2. value = m
    BY <1>2, <1>4, <2>1 DEF Contents
  <2>3. map' \in Map!Interrupted(r, map)
    BY <1>3, <1>5, <2>2 DEF Map!Interrupted
  <2>4. QED
    BY <1>1, <1>2, <2>3 DEF Map!Next, Map!Call
<1>6. CASE r.op \in Inserts
  <2> DEFINE done == Len(r.pairs) - Len(call.todo)
             some == SubSeq(r.pairs, 1, done)
             q == [r EXCEPT !.pairs = some]
  <2>1. /\ r.pairs \in Seq(Pairs)
        /\ r \in [op : Inserts, this : Infos, pairs : Seq(Pairs)]
    BY <1>2, <1>6 DEF Map!Requests, Map!Pairs, Pairs, Inserts
  <2>2. done \in 0..Len(r.pairs)
    <3>1. call.todo \in Seq(Pairs) /\ Len(call.todo) <= Len(r.pairs)
      BY <1>2, <1>6 DEF Applying, Inserting
    <3>2. Len(call.todo) \in Nat /\ Len(r.pairs) \in Nat
      BY <2>1, <3>1
    <3>3. \A l, n \in Nat : l <= n => n - l \in 0..n
      OBVIOUS
    <3>4. QED
      BY <3>1, <3>2, <3>3
  <2>3. q.op = r.op /\ q.this = r.this /\ q.pairs = some
    BY <2>1
  <2>4. value[r.this] = IF r.op = "insert_all" THEN Map!Inserted(m[r.this], some)
                        ELSE Map!Assigned(m[r.this], some)
    BY <1>2, <1>6 DEF Applying, Applied
  <2>5. r.op = "insert_all" \/ r.op = "insert_or_assign_all"
    BY <1>6 DEF Inserts
  <2>6. Map!Interrupted(r, m)
          = {Map!Effect([r EXCEPT !.pairs = SubSeq(@, 1, n)], m) : n \in 0..Len(r.pairs)}
    BY <2>5 DEF Map!Interrupted
  <2>7. Map!Effect(q, m) \in Map!Interrupted(r, m)
    BY <2>2, <2>6
  <2> HIDE DEF q, some, r, m, done
  <2>8. /\ q.op = "insert_all" =>
             Map!Effect(q, m) = [m EXCEPT ![q.this] = Map!Inserted(m[q.this], q.pairs)]
        /\ q.op = "insert_or_assign_all" =>
             Map!Effect(q, m) = [m EXCEPT ![q.this] = Map!Assigned(m[q.this], q.pairs)]
    BY EffectOf
  <2>9. value = Map!Effect(q, m)
    BY <1>4, <2>3, <2>4, <2>5, <2>8
  <2>10. map' \in Map!Interrupted(r, map)
    BY <1>3, <2>7, <2>9
  <2>11. last'.req = r
    BY <1>1
  <2>12. QED
    BY <1>1, <1>2, <2>10, <2>11 DEF Map!Next, Map!Call
<1>7. QED
  BY <1>1, <1>5, <1>6

-----------------------------------------------------------------------------

\* The beginning of a call and its iterations are invisible.
LEMMA InvisibleSteps ==
  ASSUME ContainerInv, stable' = stable,
         \/ BeginCall
         \/ InsertNext \/ ClearNext \/ EraseIfVisit \/ MergeVisit \/ DeleteNext
  PROVE  UNCHANGED <<map, last>>
<1>1. CASE BeginCall
  <2>1. PICK req, todo, n, range : Begin(req, todo, n, range)
    BY <1>1 DEF BeginCall, InsertAll, Clear, EraseRange, EraseIf, Merge
  <2>2. call = Idle /\ call'.before.value = value /\ value' = value /\ last' = last
    BY <2>1 DEF Begin, Ready
  <2>3. map' = value
    BY <2>2 DEF map
  <2>4. QED
    BY <2>2, <2>3 DEF map
<1>2. CASE InsertNext \/ ClearNext \/ EraseIfVisit \/ MergeVisit \/ DeleteNext
  BY <1>2, LoopFacts DEF map
<1>3. QED
  BY <1>1, <1>2

LEMMA NextRefines ==
  ASSUME PastTheEnd = FALSE, ContainerInv, ContainerInv', Follows, Next
  PROVE  [Map!Next]_<<map, last>>
<1>1. CASE OneStepCall
  <2>1. PICK o \in Infos :
          \/ \E p \in Pairs : Room(1) /\ (Insert(o, p) \/ InsertOrAssign(o, p) \/ ProxyWrite(o, p))
          \/ \E pos \in 0..NKeys(o) : ErasePos(o, pos) \/ ExtractPos(o, pos)
          \/ \E k \in Keys : EraseKey(o, k) \/ ExtractKey(o, k) \/ ProxyRead(o, k)
          \/ \E k \in Keys : Find(o, k) \/ Contains(o, k) \/ EqualRange(o, k) \/ At(o, k)
          \/ ItemsOf(o)
          \/ \E p \in Infos : Equal(o, p)
    BY <1>1 DEF OneStepCall
  <2>2. ASSUME NEW pos \in 0..NKeys(o), ErasePos(o, pos) \/ ExtractPos(o, pos)
        PROVE  Map!Next
    <3>1. NKeys(o) \in Nat /\ pos <= NKeys(o) /\ pos # NKeys(o)
      BY <2>2, OrderFacts DEF ContainerInv, ErasePos, ExtractPos
    <3>2. pos < NKeys(o)
      BY <2>2, <3>1
    <3>3. QED
      BY <2>2, <3>2, ErasePosRefines
  <2>3. QED
    BY <2>1, <2>2, InsertRefines, EraseRefines, ReadRefines, KeyLookupRefines, ItemsRefines,
       EqualRefines
<1>2. CASE BeginCall
  BY <1>2, InvisibleSteps DEF Next
<1>3. CASE ContinueCall
  BY <1>3, InvisibleSteps, ReturnRefines DEF Next, ContinueCall
<1>4. CASE CallbackThrows
  BY <1>4, CallbackThrowsRefines
<1>5. QED
  BY <1>1, <1>2, <1>3, <1>4 DEF Next

\* Every member function of mpicxx::info has the effect and the answer of its
\* counterpart in std::map, for a client that hands erase() iterators that
\* designate a pair: on a library that renumbers the keys on every
\* modification, and when a callback throws in the middle of a call.
THEOREM Implementation ==
  ASSUME PastTheEnd = FALSE
  PROVE  Spec => ImplementsMap
<1>1. Init => Follows
  BY DEF Init, Follows
<1>2. Init => Map!Init
  BY DEF Init, Map!Init, map
<1>3. ContainerInv /\ ContainerInv' /\ Follows /\ [Next]_vars => [Map!Next]_<<map, last>>
  <2>1. ASSUME UNCHANGED vars
        PROVE  UNCHANGED <<map, last>>
    BY <2>1 DEF vars, map
  <2>2. QED
    BY <2>1, NextRefines
<1>4. QED
  BY <1>1, <1>2, <1>3, Invariant, FollowsStep, PTL DEF Spec, ImplementsMap, Map!Spec
=============================================================================
