---------------------------- MODULE InfoIterators ----------------------------
(***************************************************************************)
(* Iterators over mpicxx::info objects (info/info.hpp, class               *)
(* iterator_impl, whose iterator and const_iterator forms differ only in   *)
(* what dereferencing returns), with the assertion categories SANITY and   *)
(* PRECONDITION on: a call whose assertion fails ends the program and is   *)
(* no step of the model.                                                   *)
(*                                                                         *)
(* An iterator is a pointer to the info_ member of an info object and a    *)
(* signed position.  It is never told of what happens to that object: the  *)
(* info object may be modified, assigned to, moved from or swapped, and    *)
(* the iterator's next access goes to what info_ refers to then.           *)
(***************************************************************************)
EXTENDS Integers, Sequences, FiniteSets

CONSTANTS
  Objects,        \* addresses at which an info object may be constructed
  Iterators,      \* the client's iterator variables
  Keys,
  Singular,       \* the iterator is not attached to an object
  End             \* what a past-the-end iterator designates

ASSUME SentinelAssumption == Singular \notin Objects /\ End \notin Keys
ASSUME KeysAssumption == IsFiniteSet(Keys)

VARIABLES
  state,      \* of each address: "raw", or an object that is "null" or "valid"
  keys,       \* the keys, in the order of their numbers, of what info_ refers to
  target,     \* member info_ of each iterator: an address, or Singular
  pos,        \* member pos_ of each iterator
  stale,      \* history: the object was modified or replaced after the iterator was obtained
  erroneous   \* history: accesses that asked MPI for a key number that does not exist

vars == <<state, keys, target, pos, stale, erroneous>>

KeyLists == {s \in Seq(Keys) : \A i, j \in DOMAIN s : s[i] = s[j] => i = j}

TypeOK ==
  /\ state \in [Objects -> {"raw", "null", "valid"}]
  /\ keys \in [Objects -> KeyLists]
  /\ target \in [Iterators -> Objects \union {Singular}]
  /\ pos \in [Iterators -> Nat]
  /\ stale \in [Iterators -> BOOLEAN]
  /\ erroneous \in SUBSET {"subscript", "dereference"}

Init ==
  /\ state = [o \in Objects |-> "raw"]
  /\ keys = [o \in Objects |-> <<>>]
  /\ target = [i \in Iterators |-> Singular]
  /\ pos = [i \in Iterators |-> 0]
  /\ stale = [i \in Iterators |-> FALSE]
  /\ erroneous = {}

-----------------------------------------------------------------------------
(* What the assertions test. *)

\* A numbering of the keys in S.
Orders(S) == {s \in [1..Cardinality(S) -> S] : \A i, j \in DOMAIN s : s[i] = s[j] => i = j}

KeysOf(o) == {keys[o][n] : n \in DOMAIN keys[o]}

\* The object exists and does not refer to MPI_INFO_NULL.
Holds(o) == o \in Objects /\ state[o] = "valid"

\* Neither singular nor referring to MPI_INFO_NULL; nobody may use an iterator
\* whose object has been destroyed.
Attached(i) == Holds(target[i])

InfoSize(i) == Len(keys[target[i]])

PastTheEnd(i) == pos[i] >= InfoSize(i)

\* Mutant of Incrementable: the past-the-end position may be left.
IncrementableAtEnd(i) == Attached(i) /\ pos[i] <= InfoSize(i)

Incrementable(i) == Attached(i) /\ ~PastTheEnd(i)

Decrementable(i) == Attached(i) /\ pos[i] # 0

\* Mutant of Advanceable: going back is always possible.
AdvanceableForward(i, n) == Attached(i) /\ (n > 0 => pos[i] + n <= InfoSize(i))

\* Only a step forward is compared with the size.
Advanceable(i, n) ==
  Attached(i) /\ IF n > 0 THEN pos[i] + n <= InfoSize(i) ELSE pos[i] + n >= 0

Dereferenceable(i) == Attached(i) /\ ~PastTheEnd(i) /\ pos[i] >= 0

-----------------------------------------------------------------------------
(* The iterators. *)

\* begin(), and end() or a lookup that returns a position.
Obtain(i, o, n) ==
  /\ Holds(o)
  /\ 0 <= n /\ n <= Len(keys[o])
  /\ target' = [target EXCEPT ![i] = o]
  /\ pos' = [pos EXCEPT ![i] = n]
  /\ stale' = [stale EXCEPT ![i] = FALSE]
  /\ UNCHANGED <<state, keys, erroneous>>

\* Copy construction and copy assignment.
Copy(i, j) ==
  /\ Attached(j)
  /\ target' = [target EXCEPT ![i] = target[j]]
  /\ pos' = [pos EXCEPT ![i] = pos[j]]
  /\ stale' = [stale EXCEPT ![i] = stale[j]]
  /\ UNCHANGED <<state, keys, erroneous>>

Move(i, n) ==
  /\ pos' = [pos EXCEPT ![i] = @ + n]
  /\ UNCHANGED <<state, keys, target, stale, erroneous>>

\* ++ and --, prefix and postfix.
Increment(i) == Incrementable(i) /\ Move(i, 1)
Decrement(i) == Decrementable(i) /\ Move(i, -1)

\* += and -=, + and -.
Advance(i, n) == Advanceable(i, n) /\ Move(i, n)

\* MPI_Info_get_nthkey is called with pos_ + n.
Access(i, n, name) ==
  /\ erroneous' = IF pos[i] + n \in 0..(InfoSize(i) - 1) THEN erroneous
                  ELSE erroneous \union {name}
  /\ UNCHANGED <<state, keys, target, pos, stale>>

\* Mutant of Subscript: the position one behind is not tested.
SubscriptOneTest(i, n) ==
  /\ ~stale[i]
  /\ Advanceable(i, n)
  /\ Access(i, n, "subscript")

\* For a stale iterator, negative offsets pass without a test against the size:
\* the client must know that the iterator has become invalid.
Subscript(i, n) ==
  /\ ~stale[i]
  /\ Advanceable(i, n) /\ Advanceable(i, n + 1)
  /\ Access(i, n, "subscript")

\* operator* and operator->, which assert more and then call operator[](0).
Dereference(i) ==
  /\ Dereferenceable(i)
  /\ Advanceable(i, 0) /\ Advanceable(i, 1)
  /\ Access(i, 0, "dereference")

-----------------------------------------------------------------------------
(* Comparison and distance, which change nothing: what they assert and answer. *)

\* Mutant of Comparable: iterators of different objects compare.
ComparableAnywhere(i, j) == Attached(i) /\ Attached(j)

\* Attached to the same info object: addresses are compared, not MPI handles.
Comparable(i, j) == Attached(i) /\ Attached(j) /\ target[i] = target[j]

Equals(i, j) == target[i] = target[j] /\ pos[i] = pos[j]
Precedes(i, j) == target[i] = target[j] /\ pos[i] < pos[j]
Distance(i, j) == pos[i] - pos[j]

-----------------------------------------------------------------------------
(* What happens to the info objects. *)

\* Every iterator into one of the objects os is stale from now on.
Replaced(os) == stale' = [i \in Iterators |-> stale[i] \/ target[i] \in os]

Others == UNCHANGED <<target, pos, erroneous>>

Construct(o) ==
  /\ state[o] = "raw"
  /\ state' = [state EXCEPT ![o] = "valid"]
  /\ keys' = [keys EXCEPT ![o] = <<>>]
  /\ Replaced({o}) /\ Others

Destroy(o) ==
  /\ state[o] # "raw"
  /\ state' = [state EXCEPT ![o] = "raw"]
  /\ keys' = [keys EXCEPT ![o] = <<>>]
  /\ Replaced({o}) /\ Others

\* A modifier inserts or removes one key, which may renumber all of them.
Modify(o, k) ==
  /\ Holds(o)
  /\ \E S \in {KeysOf(o) \union {k}, KeysOf(o) \ {k}} : \E s \in Orders(S) :
       keys' = [keys EXCEPT ![o] = s]
  /\ UNCHANGED state
  /\ Replaced({o}) /\ Others

\* The copy keeps the numbering.
CopyAssign(o, p) ==
  /\ state[o] # "raw" /\ state[p] # "raw" /\ o # p
  /\ state' = [state EXCEPT ![o] = state[p]]
  /\ keys' = [keys EXCEPT ![o] = keys[p]]
  /\ Replaced({o}) /\ Others

\* o takes over what p refers to, and p refers to MPI_INFO_NULL.
Transfer(o, p) ==
  /\ state' = [state EXCEPT ![o] = state[p], ![p] = "null"]
  /\ keys' = [keys EXCEPT ![o] = keys[p], ![p] = <<>>]
  /\ Replaced({o, p}) /\ Others

MoveConstruct(o, p) == state[o] = "raw" /\ state[p] # "raw" /\ Transfer(o, p)

MoveAssign(o, p) ==
  /\ state[o] # "raw" /\ state[p] # "raw" /\ o # p
  /\ Transfer(o, p)

Swap(o, p) ==
  /\ state[o] # "raw" /\ state[p] # "raw"
  /\ state' = [state EXCEPT ![o] = state[p], ![p] = state[o]]
  /\ keys' = [keys EXCEPT ![o] = keys[p], ![p] = keys[o]]
  /\ Replaced({o, p}) /\ Others

-----------------------------------------------------------------------------

Offsets == (-Cardinality(Keys))..Cardinality(Keys)

IteratorStep ==
  \E i \in Iterators :
    \/ \E o \in Objects : \E n \in 0..Cardinality(Keys) : Obtain(i, o, n)
    \/ \E j \in Iterators : Copy(i, j)
    \/ Increment(i) \/ Decrement(i)
    \/ \E n \in Offsets : Advance(i, n) \/ Subscript(i, n)
    \/ Dereference(i)

ObjectStep ==
  \E o \in Objects :
    \/ Construct(o) \/ Destroy(o)
    \/ \E k \in Keys : Modify(o, k)
    \/ \E p \in Objects : \/ CopyAssign(o, p) \/ Swap(o, p)
                          \/ MoveConstruct(o, p) \/ MoveAssign(o, p)

Next == IteratorStep \/ ObjectStep

Spec == Init /\ [][Next]_vars

-----------------------------------------------------------------------------
(* Correctness. *)

\* An iterator that no modification has made stale denotes a position of its
\* object, the past-the-end position included, however it was moved about.
FreshInRange ==
  \A i \in Iterators :
    target[i] # Singular /\ ~stale[i] => Attached(i) /\ pos[i] \in 0..InfoSize(i)

\* No access that passes the assertions asks MPI for a key number that does not
\* exist.  The assertions of operator* ensure that even for a stale iterator.
NoErroneousCall == erroneous = {}

\* The key the iterator designates.
Designates(i) ==
  IF ~Attached(i) THEN Singular
  ELSE IF PastTheEnd(i) THEN End
  ELSE keys[target[i]][pos[i] + 1]

\* Iterators that pass the assertions of operator==, <=> and operator- and are not
\* stale are ordered as the pairs they designate: equal if they designate the same,
\* and from one the distance leads to the other without failing an assertion.
ComparisonsAgree ==
  \A i, j \in Iterators :
    Comparable(i, j) /\ ~stale[i] /\ ~stale[j] =>
      /\ Equals(i, j) <=> Designates(i) = Designates(j)
      /\ Advanceable(j, Distance(i, j))
      /\ Precedes(j, i) => Incrementable(j) /\ Decrementable(i)

\* Docs of swap, "All iterators remain valid, but now refer to the other info
\* object", and of the move operations, "All iterators referring to other remain
\* valid, but now refer to *this": they designate the keys they did before.
TransfersKeepIterators ==
  [][\A o, p \in Objects :
       /\ Swap(o, p) =>
            \A i \in Iterators : target[i] \in {o, p} => Designates(i)' = Designates(i)
       /\ MoveConstruct(o, p) \/ MoveAssign(o, p) =>
            \A i \in Iterators : target[i] = p => Designates(i)' = Designates(i)]_vars
=============================================================================
