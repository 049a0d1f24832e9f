------------------------- MODULE InfoIteratorsProofs -------------------------
(***************************************************************************)
(* Proofs about InfoIterators, for any objects, iterators and keys.  That  *)
(* an iterator the client may still use stays in range (FreshInRange) is   *)
(* inductive together with the types: each assertion compares the position *)
(* with one end of the range only, and the position it starts from must be *)
(* known to be within the other.                                           *)
(***************************************************************************)
EXTENDS InfoIterators, FiniteSetTheorems, TLAPS

IteratorInv == TypeOK /\ FreshInRange /\ NoErroneousCall

-----------------------------------------------------------------------------

\* A numbering of keys is a list of keys without duplicates.
LEMMA OrdersAreLists ==
  ASSUME NEW S \in SUBSET Keys, NEW s \in Orders(S)
  PROVE  s \in KeyLists
<1>1. IsFiniteSet(S) /\ Cardinality(S) \in Nat
  BY KeysAssumption, FS_Subset, FS_CardinalityType
<1>2. s \in Seq(Keys)
  BY <1>1 DEF Orders
<1>3. QED
  BY <1>2 DEF Orders, KeyLists

LEMMA EmptyList == <<>> \in KeyLists
  BY DEF KeyLists

\* An iterator that is not stale and attached is within its object's range.
LEMMA InRange ==
  ASSUME IteratorInv, NEW i \in Iterators, Attached(i)
  PROVE  /\ target[i] \in Objects /\ keys[target[i]] \in Seq(Keys)
         /\ InfoSize(i) \in Nat /\ pos[i] \in Nat
         /\ ~stale[i] => pos[i] <= InfoSize(i)
<1>1. target[i] \in Objects /\ target[i] # Singular
  BY SentinelAssumption DEF Attached, Holds
<1>2. keys[target[i]] \in Seq(Keys) /\ pos[i] \in Nat
  BY <1>1 DEF IteratorInv, TypeOK, KeyLists
<1>3. ~stale[i] => pos[i] \in 0..InfoSize(i)
  BY <1>1 DEF IteratorInv, FreshInRange
<1>4. InfoSize(i) \in Nat
  BY <1>2 DEF InfoSize
<1>5. QED
  BY <1>1, <1>2, <1>3, <1>4

-----------------------------------------------------------------------------

LEMMA InitInv == Init => IteratorInv
  BY EmptyList DEF Init, IteratorInv, TypeOK, FreshInRange, NoErroneousCall

\* Moving an iterator to a position that is no number below 0 and, for a fresh
\* one, none beyond the size.
LEMMA MoveInv ==
  ASSUME IteratorInv, NEW i \in Iterators, NEW n \in Int, Move(i, n), Attached(i),
         pos[i] + n >= 0, ~stale[i] => pos[i] + n <= InfoSize(i)
  PROVE  IteratorInv'
<1>1. InfoSize(i) \in Nat /\ pos[i] \in Nat
  BY InRange
<1>2. pos[i] + n \in Nat
  BY <1>1
<1>3. /\ pos' \in [Iterators -> Nat] /\ pos'[i] = pos[i] + n
      /\ \A j \in Iterators \ {i} : pos'[j] = pos[j]
  BY <1>2 DEF Move, IteratorInv, TypeOK
<1>4. TypeOK' /\ NoErroneousCall'
  BY <1>3 DEF Move, IteratorInv, TypeOK, NoErroneousCall
<1>5. FreshInRange'
  <2> SUFFICES ASSUME NEW j \in Iterators, target[j] # Singular, ~stale[j]
               PROVE  Attached(j)' /\ pos'[j] \in 0..InfoSize(j)'
    BY DEF FreshInRange, Move
  <2>1. Attached(j)' = Attached(j) /\ InfoSize(j)' = InfoSize(j)
    BY DEF Attached, Holds, InfoSize, Move
  <2>2. Attached(j) /\ pos[j] \in 0..InfoSize(j)
    BY DEF IteratorInv, FreshInRange
  <2>3. QED
    BY <1>1, <1>2, <1>3, <2>1, <2>2
<1>6. QED
  BY <1>4, <1>5 DEF IteratorInv

\* Where an iterator comes from, and what is read through it.
LEMMA IteratorStepInv ==
  ASSUME IteratorInv, IteratorStep
  PROVE  IteratorInv'
<1> PICK i \in Iterators :
      \/ \E o \in Objects : \E n \in 0..Cardinality(Keys) : Obtain(i, o, n)
      \/ \E j \in Iterators : Copy(i, j)
      \/ Increment(i) \/ Decrement(i)
      \/ \E n \in Offsets : Advance(i, n) \/ Subscript(i, n)
      \/ Dereference(i)
  BY DEF IteratorStep
<1>0. Cardinality(Keys) \in Nat
  BY KeysAssumption, FS_CardinalityType
<1>1. ASSUME NEW o \in Objects, NEW n \in 0..Cardinality(Keys), Obtain(i, o, n)
      PROVE  IteratorInv'
  <2>1. n \in Nat
    BY <1>0
  <2>2. TypeOK' /\ NoErroneousCall'
    BY <1>1, <2>1 DEF Obtain, IteratorInv, TypeOK, NoErroneousCall
  <2>3. FreshInRange'
    BY <1>1, <2>1 DEF Obtain, IteratorInv, TypeOK, FreshInRange, Attached, Holds, InfoSize, KeyLists
  <2>4. QED
    BY <2>2, <2>3 DEF IteratorInv
<1>2. ASSUME NEW j \in Iterators, Copy(i, j)
      PROVE  IteratorInv'
  <2>1. target[j] \in Objects
    BY <1>2 DEF Copy, Attached, Holds
  <2>2. TypeOK' /\ NoErroneousCall'
    BY <1>2, <2>1 DEF Copy, IteratorInv, TypeOK, NoErroneousCall
  <2>3. FreshInRange'
    BY <1>2 DEF Copy, IteratorInv, TypeOK, FreshInRange, Attached, Holds, InfoSize
  <2>4. QED
    BY <2>2, <2>3 DEF IteratorInv
<1>3. CASE Increment(i)
  <2>1. Attached(i) /\ pos[i] < InfoSize(i)
    BY <1>3, InRange DEF Increment, Incrementable, PastTheEnd
  <2>2. QED
    BY <1>3, <2>1, InRange, MoveInv DEF Increment
<1>4. CASE Decrement(i)
  <2>1. Attached(i) /\ pos[i] # 0
    BY <1>4 DEF Decrement, Decrementable
  <2>2. QED
    BY <1>4, <2>1, InRange, MoveInv DEF Decrement
<1>5. ASSUME NEW n \in Offsets, Advance(i, n)
      PROVE  IteratorInv'
  <2>1. n \in Int /\ Attached(i) /\ Move(i, n)
    BY <1>0, <1>5 DEF Offsets, Advance, Advanceable
  <2>2. IF n > 0 THEN pos[i] + n <= InfoSize(i) ELSE pos[i] + n >= 0
    BY <1>5 DEF Advance, Advanceable
  <2>3. /\ pos[i] + n >= 0
        /\ ~stale[i] => pos[i] + n <= InfoSize(i)
    BY <2>1, <2>2, InRange
  <2>4. QED
    BY <2>1, <2>3, MoveInv
<1>6. ASSUME NEW n \in Int, NEW name, Access(i, n, name), Attached(i),
             pos[i] + n >= 0, pos[i] + n < InfoSize(i)
      PROVE  IteratorInv'
  <2>1. pos[i] + n \in 0..(InfoSize(i) - 1)
    BY <1>6, InRange
  <2>2. UNCHANGED vars
    BY <1>6, <2>1 DEF Access, vars
  <2>3. QED
    BY <2>2 DEF vars, IteratorInv, TypeOK, NoErroneousCall, FreshInRange, Attached, Holds, InfoSize
<1>7. ASSUME NEW n \in Offsets, Subscript(i, n)
      PROVE  IteratorInv'
  <2>1. n \in Int /\ Attached(i) /\ ~stale[i] /\ Access(i, n, "subscript")
    BY <1>0, <1>7 DEF Offsets, Subscript, Advanceable
  <2>2. /\ IF n > 0 THEN pos[i] + n <= InfoSize(i) ELSE pos[i] + n >= 0
        /\ IF n + 1 > 0 THEN pos[i] + (n + 1) <= InfoSize(i) ELSE pos[i] + (n + 1) >= 0
    BY <1>7 DEF Subscript, Advanceable
  <2>3. pos[i] + n >= 0 /\ pos[i] + n < InfoSize(i)
    BY <2>1, <2>2, InRange
  <2>4. QED
    BY <1>6, <2>1, <2>3
<1>8. CASE Dereference(i)
  <2>1. Attached(i) /\ pos[i] + 1 <= InfoSize(i) /\ Access(i, 0, "dereference")
    BY <1>8 DEF Dereference, Advanceable
  <2>2. QED
    BY <1>6, <2>1, InRange
<1>9. QED
  BY <1>1, <1>2, <1>3, <1>4, <1>5, <1>7, <1>8

-----------------------------------------------------------------------------

\* Whatever happens to the objects os makes the iterators into them stale; the
\* others do not notice.
LEMMA ObjectsInv ==
  ASSUME IteratorInv, NEW os \in SUBSET Objects, Replaced(os), Others,
         state' \in [Objects -> {"raw", "null", "valid"}],
         keys' \in [Objects -> KeyLists],
         \A o \in Objects \ os : state'[o] = state[o] /\ keys'[o] = keys[o]
  PROVE  IteratorInv'
<1>1. /\ stale' \in [Iterators -> BOOLEAN]
      /\ \A i \in Iterators : ~stale'[i] => ~stale[i] /\ target[i] \notin os
  BY DEF Replaced, IteratorInv, TypeOK
<1>2. TypeOK' /\ NoErroneousCall'
  BY <1>1 DEF Others, IteratorInv, TypeOK, NoErroneousCall
<1>3. FreshInRange'
  BY <1>1 DEF Others, IteratorInv, TypeOK, FreshInRange, Attached, Holds, InfoSize
<1>4. QED
  BY <1>2, <1>3 DEF IteratorInv

LEMMA ObjectStepInv ==
  ASSUME IteratorInv, ObjectStep
  PROVE  IteratorInv'
<1> PICK o \in Objects :
      \/ Construct(o) \/ Destroy(o)
      \/ \E k \in Keys : Modify(o, k)
      \/ \E p \in Objects : \/ CopyAssign(o, p) \/ Swap(o, p)
                            \/ MoveConstruct(o, p) \/ MoveAssign(o, p)
  BY DEF ObjectStep
<1> USE DEF IteratorInv, TypeOK
<1>1. CASE Construct(o) \/ Destroy(o)
  BY <1>1, ObjectsInv, EmptyList DEF Construct, Destroy
<1>2. ASSUME NEW k \in Keys, Modify(o, k)
      PROVE  IteratorInv'
  <2>1. KeysOf(o) \subseteq Keys
    BY DEF KeysOf, KeyLists
  <2>2. PICK S \in {KeysOf(o) \union {k}, KeysOf(o) \ {k}} : \E s \in Orders(S) :
               keys' = [keys EXCEPT ![o] = s]
    BY <1>2 DEF Modify
  <2>3. PICK s \in Orders(S) : keys' = [keys EXCEPT ![o] = s]
    BY <2>2
  <2>4. s \in KeyLists
    BY <2>1, OrdersAreLists
  <2>5. /\ state' = state /\ Replaced({o}) /\ Others
    BY <1>2 DEF Modify
  <2>6. QED
    BY <2>3, <2>4, <2>5, ObjectsInv
<1>3. ASSUME NEW p \in Objects, CopyAssign(o, p)
      PROVE  IteratorInv'
  BY <1>3, ObjectsInv DEF CopyAssign
<1>4. ASSUME NEW p \in Objects, Swap(o, p)
      PROVE  IteratorInv'
  BY <1>4, ObjectsInv DEF Swap
<1>5. ASSUME NEW p \in Objects, MoveConstruct(o, p) \/ MoveAssign(o, p)
      PROVE  IteratorInv'
  BY <1>5, ObjectsInv, EmptyList DEF MoveConstruct, MoveAssign, Transfer
<1>6. QED
  BY <1>1, <1>2, <1>3, <1>4, <1>5

-----------------------------------------------------------------------------

\* Types, range and accesses, however iterators are moved about and whatever
\* happens to the objects meanwhile.
THEOREM Invariance == Spec => []IteratorInv
<1>1. IteratorInv /\ UNCHANGED vars => IteratorInv'
  BY DEF vars, IteratorInv, TypeOK, NoErroneousCall, FreshInRange, Attached, Holds, InfoSize
<1>2. IteratorInv /\ [Next]_vars => IteratorInv'
  BY <1>1, IteratorStepInv, ObjectStepInv DEF Next
<1>3. QED
  BY <1>2, InitInv, PTL DEF Spec

\* The lists of keys have no duplicates and positions are natural numbers.
THEOREM Typed == Spec => []TypeOK
<1>1. IteratorInv => TypeOK
  BY DEF IteratorInv
<1>2. QED
  BY <1>1, Invariance, PTL

\* One-sided assertions suffice: an iterator that no modification has made stale
\* never leaves the range of its object.
THEOREM StaysInRange == Spec => []FreshInRange
<1>1. IteratorInv => FreshInRange
  BY DEF IteratorInv
<1>2. QED
  BY <1>1, Invariance, PTL

\* The asserted accesses ask MPI for keys that exist only.
THEOREM NoErroneousAccess == Spec => []NoErroneousCall
<1>1. IteratorInv => NoErroneousCall
  BY DEF IteratorInv
<1>2. QED
  BY <1>1, Invariance, PTL

\* Comparing positions is comparing pairs, for iterators that may be compared.
THEOREM ComparePairs == Spec => []ComparisonsAgree
<1>1. ASSUME IteratorInv, NEW i \in Iterators, NEW j \in Iterators,
             Comparable(i, j), ~stale[i], ~stale[j]
      PROVE  /\ Equals(i, j) <=> Designates(i) = Designates(j)
             /\ Advanceable(j, Distance(i, j))
             /\ Precedes(j, i) => Incrementable(j) /\ Decrementable(i)
  <2>1. /\ Attached(i) /\ Attached(j) /\ target[i] = target[j]
        /\ InfoSize(i) = InfoSize(j)
    BY <1>1 DEF Comparable, InfoSize
  <2>2. /\ InfoSize(i) \in Nat /\ pos[i] \in Nat /\ pos[j] \in Nat
        /\ pos[i] <= InfoSize(i) /\ pos[j] <= InfoSize(i)
    BY <1>1, <2>1, InRange
  <2>3. Equals(i, j) <=> Designates(i) = Designates(j)
    <3> DEFINE list == keys[target[i]]
    <3>1. /\ list \in Seq(Keys) /\ Len(list) = InfoSize(i)
          /\ \A m, n \in DOMAIN list : list[m] = list[n] => m = n
      BY <1>1, <2>1, InRange DEF InfoSize, IteratorInv, TypeOK, KeyLists
    <3>2. /\ Designates(i) = IF pos[i] >= InfoSize(i) THEN End ELSE list[pos[i] + 1]
          /\ Designates(j) = IF pos[j] >= InfoSize(i) THEN End ELSE list[pos[j] + 1]
      BY <2>1 DEF Designates, PastTheEnd
    <3>3. Equals(i, j) <=> pos[i] = pos[j]
      BY <2>1 DEF Equals
    <3> HIDE DEF list
    <3>4. CASE pos[i] < InfoSize(i) /\ pos[j] < InfoSize(i)
      <4>1. pos[i] + 1 \in DOMAIN list /\ pos[j] + 1 \in DOMAIN list
        BY <2>2, <3>1, <3>4
      <4>2. list[pos[i] + 1] = list[pos[j] + 1] => pos[i] + 1 = pos[j] + 1
        BY <3>1, <4>1
      <4>3. QED
        BY <2>2, <3>2, <3>3, <3>4, <4>2
    <3>5. CASE pos[i] = InfoSize(i) /\ pos[j] < InfoSize(i)
      <4>1. list[pos[j] + 1] \in Keys
        BY <2>2, <3>1, <3>5
      <4>2. QED
        BY <2>2, <3>2, <3>3, <3>5, <4>1, SentinelAssumption
    <3>6. CASE pos[j] = InfoSize(i) /\ pos[i] < InfoSize(i)
      <4>1. list[pos[i] + 1] \in Keys
        BY <2>2, <3>1, <3>6
      <4>2. QED
        BY <2>2, <3>2, <3>3, <3>6, <4>1, SentinelAssumption
    <3>7. CASE pos[i] = InfoSize(i) /\ pos[j] = InfoSize(i)
      BY <2>2, <3>2, <3>3, <3>7
    <3>8. QED
      BY <2>2, <3>4, <3>5, <3>6, <3>7
  <2>4. Advanceable(j, Distance(i, j))
    BY <2>1, <2>2 DEF Advanceable, Distance
  <2>5. Precedes(j, i) => Incrementable(j) /\ Decrementable(i)
    BY <2>1, <2>2 DEF Precedes, Incrementable, Decrementable, PastTheEnd
  <2>6. QED
    BY <2>3, <2>4, <2>5
<1>2. IteratorInv => ComparisonsAgree
  BY <1>1 DEF ComparisonsAgree
<1>3. QED
  BY <1>2, Invariance, PTL

=============================================================================
