---------------------------- MODULE InfoContainer ----------------------------
(***************************************************************************)
(* The container interface of mpicxx::info (info/info.hpp) on top of an    *)
(* MPI library that numbers the keys of an info object.                    *)
(*                                                                         *)
(* MPI 3.1 keeps the numbering only "as long as no call to MPI_Info_set or *)
(* MPI_Info_delete is made": each such call may renumber the keys in any   *)
(* way.  Libraries that are stable append a new key and close the gap left *)
(* by a deleted one; a program may be linked with either kind.             *)
(*                                                                         *)
(* A member function that loops over library calls takes one step per      *)
(* iteration; call is its activation record.  Objects refer to distinct    *)
(* live MPI objects here: InfoLifecycle is about that.                     *)
(***************************************************************************)
EXTENDS Naturals, Sequences, FiniteSets

CONSTANTS
  Infos, Keys, Values,
  Absent, Blank, End, Threw,   \* see InfoMap
  NoKey,            \* what an unwritten key buffer holds
  Idle,             \* no member function is running
  PastTheEnd,       \* does the client pass past-the-end iterators to erase?
  MaxPairs,         \* bound: pairs passed to one insert
  MaxHeld,          \* bound: pairs held by all objects together
  Predicates        \* the predicates clients pass to erase_if, as sets of pairs

ASSUME SentinelAssumption ==
  Absent \notin Values /\ Blank \in Values /\ NoKey \notin Keys /\ End \notin Keys
ASSUME PredicatesAssumption == Predicates \subseteq SUBSET [key : Keys, val : Values]
ASSUME SwitchAssumption ==
  PastTheEnd \in BOOLEAN /\ MaxPairs \in Nat /\ MaxHeld \in Nat

VARIABLES
  stable,     \* the MPI library: does it keep the numbering across modifications?
  value,      \* the MPI library: value of each key of each object, or Absent
  order,      \* the MPI library: the numbering of the keys of each object
  call,       \* activation record of the running member function, or Idle
  last,       \* the last call that ended and its answer
  erroneous   \* library calls made so far with an illegal argument

vars == <<stable, value, order, call, last, erroneous>>

Pairs == [key : Keys, val : Values]

\* Every numbering of the keys in S.
Numberings(S) ==
  {s \in [1..Cardinality(S) -> S] : \A i, j \in DOMAIN s : s[i] = s[j] => i = j}

KeysIn(v) == {k \in Keys : v[k] # Absent}

\* The map a client observes: a running call has not happened yet.
map == IF call = Idle THEN value ELSE call.before.value

Map == INSTANCE InfoMap WITH map <- map

Contents == [Infos -> [Keys -> Values \union {Absent}]]

\* The activation record of a member function that loops.  todo: the pairs
\* still to insert or the keys still to delete; i of n: the iterations of the
\* first loop; range: the positions given to erase.
Activations ==
  [req : Map!Requests, todo : Seq(Pairs) \union Seq(Keys), i : Nat, n : Nat,
   range : Nat \X Nat, before : [value : Contents, order : [Infos -> Seq(Keys)]]]

ASSUME IdleAssumption == Idle \notin Activations

TypeOK ==
  /\ stable \in BOOLEAN
  /\ value \in Contents
  /\ \A o \in Infos : order[o] \in Numberings(KeysIn(value[o]))
  /\ call \in {Idle} \union Activations
  /\ erroneous \in SUBSET {"MPI_Info_get_nthkey", "MPI_Info_delete"}

Init ==
  /\ stable \in BOOLEAN
  /\ value = [o \in Infos |-> [k \in Keys |-> Absent]]
  /\ order = [o \in Infos |-> <<>>]
  /\ call = Idle
  /\ last = [req |-> End, answer |-> End]
  /\ erroneous = {}

-----------------------------------------------------------------------------
(* Positions. An iterator is the position of a key, or the number of keys   *)
(* for end().                                                               *)

\* find_pos(key, size()): the first position holding the key, or size.
FindPos(ord, k) ==
  LET hits == {i \in 0..(Len(ord) - 1) : ord[i + 1] = k}
  IN  IF hits = {} THEN Len(ord) ELSE CHOOSE i \in hits : \A j \in hits : i <= j

\* The key the iterator at position pos designates.
Designates(ord, pos) == IF pos < Len(ord) THEN ord[pos + 1] ELSE End

-----------------------------------------------------------------------------
(* The MPI library. *)

NKeys(o) == Len(order[o])

\* MPI_Info_get_nthkey leaves the buffer alone when there is no nth key.
NthKey(o, n) == IF n < NKeys(o) THEN order[o][n + 1] ELSE NoKey

NthKeyErrors(o, n) == IF n < NKeys(o) THEN {} ELSE {"MPI_Info_get_nthkey"}

\* MPI_Info_get_valuelen's flag.
KeyExists(o, k) == value[o][k] # Absent

SetKey(o, k, v) ==
  /\ value' = [value EXCEPT ![o][k] = v]
  /\ \E s \in Numberings(KeysIn(value[o]) \union {k}) :
       /\ stable => s = IF KeyExists(o, k) THEN order[o] ELSE Append(order[o], k)
       /\ order' = [order EXCEPT ![o] = s]

\* Mutant of DeleteKey: the key keeps its number.
DeleteKeyKeepingNumber(o, k) ==
  /\ value' = [value EXCEPT ![o] = [x \in Keys |-> IF x = k THEN Absent ELSE @[x]]]
  /\ UNCHANGED order

\* A library that is stable closes the gap.
ClosedUp(ord, k) ==
  LET pos == FindPos(ord, k)
  IN  IF pos = Len(ord) THEN ord
      ELSE [i \in 1..(Len(ord) - 1) |-> IF i <= pos THEN ord[i] ELSE ord[i + 1]]

DeleteKey(o, k) ==
  /\ value' = [value EXCEPT ![o] = [x \in Keys |-> IF x = k THEN Absent ELSE @[x]]]
  /\ \E s \in Numberings(KeysIn(value[o]) \ {k}) :
       /\ stable => s = ClosedUp(order[o], k)
       /\ order' = [order EXCEPT ![o] = s]

DeleteErrors(o, k) == IF k \in KeysIn(value[o]) THEN {} ELSE {"MPI_Info_delete"}

-----------------------------------------------------------------------------
(* Calls that end in the step they begin in. *)

Ready == call = Idle

Answered(req, answer) ==
  /\ last' = [req |-> req, answer |-> answer]
  /\ UNCHANGED call

Insert(o, p) ==
  /\ Ready
  /\ IF KeyExists(o, p.key) THEN UNCHANGED <<value, order>> ELSE SetKey(o, p.key, p.val)
  /\ Answered([op |-> "insert", this |-> o, pair |-> p],
              [at |-> Designates(order'[o], FindPos(order'[o], p.key)),
               inserted |-> ~KeyExists(o, p.key)])
  /\ UNCHANGED erroneous

InsertOrAssign(o, p) ==
  /\ Ready
  /\ SetKey(o, p.key, p.val)
  /\ Answered([op |-> "insert_or_assign", this |-> o, pair |-> p],
              [at |-> Designates(order'[o], FindPos(order'[o], p.key)),
               inserted |-> ~KeyExists(o, p.key)])
  /\ UNCHANGED erroneous

\* erase(pos) asserts info_iterator_valid(pos), which lets pos = size() pass;
\* the documented precondition does not.
ErasePos(o, pos) ==
  /\ Ready
  /\ 0 <= pos /\ pos <= NKeys(o)
  /\ pos = NKeys(o) => PastTheEnd
  /\ LET key == NthKey(o, pos) IN
       /\ DeleteKey(o, key)
       /\ erroneous' = erroneous \union NthKeyErrors(o, pos) \union DeleteErrors(o, key)
       /\ Answered([op |-> "erase_keys", this |-> o, keys |-> {key}], End)

\* extract(pos) dereferences pos, which is asserted, then deletes the key.
ExtractPos(o, pos) ==
  /\ Ready
  /\ 0 <= pos /\ pos < NKeys(o)
  /\ LET key == NthKey(o, pos) IN
       /\ DeleteKey(o, key)
       /\ erroneous' = erroneous \union NthKeyErrors(o, pos) \union DeleteErrors(o, key)
       /\ Answered([op |-> "extract", this |-> o, key |-> key], value[o][key])

EraseKey(o, k) ==
  /\ Ready
  /\ IF KeyExists(o, k)
     THEN DeleteKey(o, k) /\ erroneous' = erroneous \union DeleteErrors(o, k)
     ELSE UNCHANGED <<value, order, erroneous>>
  /\ Answered([op |-> "erase", this |-> o, key |-> k], IF KeyExists(o, k) THEN 1 ELSE 0)

ExtractKey(o, k) ==
  /\ Ready
  /\ IF KeyExists(o, k)
     THEN DeleteKey(o, k) /\ erroneous' = erroneous \union DeleteErrors(o, k)
     ELSE UNCHANGED <<value, order, erroneous>>
  /\ Answered([op |-> "extract", this |-> o, key |-> k], value[o][k])

\* Conversion of a proxy (operator[], at(), *iterator) to a string.  A proxy
\* holds the object and the key only, so one made long ago acts like a new one.
ProxyRead(o, k) ==
  /\ Ready
  /\ IF KeyExists(o, k) THEN UNCHANGED <<value, order>> ELSE SetKey(o, k, Blank)
  /\ Answered([op |-> "read", this |-> o, key |-> k],
              IF KeyExists(o, k) THEN value[o][k] ELSE Blank)
  /\ UNCHANGED erroneous

\* Assignment through a proxy.
ProxyWrite(o, p) ==
  /\ Ready
  /\ SetKey(o, p.key, p.val)
  /\ Answered([op |-> "insert_or_assign_all", this |-> o, pairs |-> <<p>>], End)
  /\ UNCHANGED erroneous

-----------------------------------------------------------------------------
(* Lookups: nothing but the answer. *)

Lookup(req, answer) ==
  /\ Ready
  /\ Answered(req, answer)
  /\ UNCHANGED <<value, order, erroneous>>

\* find(), both overloads.
Find(o, k) ==
  Lookup([op |-> "find", this |-> o, key |-> k],
         Designates(order[o], FindPos(order[o], k)))

\* contains(), and count(), which converts its result.
Contains(o, k) ==
  Lookup([op |-> "contains", this |-> o, key |-> k], FindPos(order[o], k) # NKeys(o))

\* equal_range(), both overloads: the keys between the two iterators.
EqualRange(o, k) ==
  LET pos   == FindPos(order[o], k)
      range == IF pos # NKeys(o) THEN <<pos, pos + 1>> ELSE <<NKeys(o), NKeys(o)>>
  IN  Lookup([op |-> "equal_range", this |-> o, key |-> k],
             {Designates(order[o], i) : i \in range[1]..(range[2] - 1)})

\* at() const; the other overload makes the same test before it makes a proxy.
At(o, k) ==
  Lookup([op |-> "at", this |-> o, key |-> k],
         IF KeyExists(o, k) THEN value[o][k] ELSE Threw)

\* keys() and values(), whose results line up position by position.
ItemsOf(o) ==
  Lookup([op |-> "items", this |-> o],
         {[key |-> NthKey(o, i), val |-> value[o][NthKey(o, i)]] : i \in 0..(NKeys(o) - 1)})

\* Mutant of Equal: the sizes are not compared.
EqualWithoutSizes(o, p) ==
  Lookup([op |-> "equal", this |-> o, source |-> p],
         \A i \in 0..(NKeys(o) - 1) :
           LET k == NthKey(o, i) IN KeyExists(p, k) /\ value[p][k] = value[o][k])

\* operator==: sizes first, then every key of the left side.
Equal(o, p) ==
  Lookup([op |-> "equal", this |-> o, source |-> p],
         /\ NKeys(o) = NKeys(p)
         /\ \A i \in 0..(NKeys(o) - 1) :
              LET k == NthKey(o, i) IN KeyExists(p, k) /\ value[p][k] = value[o][k])

-----------------------------------------------------------------------------
(* Calls that loop over library calls. *)

Begin(req, todo, n, range) ==
  /\ Ready
  /\ call' = [req |-> req, todo |-> todo, i |-> 0, n |-> n, range |-> range,
              before |-> [value |-> value, order |-> order]]
  /\ UNCHANGED <<value, order, last, erroneous>>

InsertAll(o, op, pairs) ==
  Begin([op |-> op, this |-> o, pairs |-> pairs], pairs, 0, <<0, 0>>)

Clear(o) == Begin([op |-> "clear", this |-> o], <<>>, NKeys(o), <<0, 0>>)

\* Mutant of EraseRange: one key too few.
EraseRangeShort(o, first, end) ==
  /\ 0 <= first /\ first <= end /\ end <= NKeys(o)
  /\ LET keys == SubSeq(order[o], first + 1, end - 1) IN
       Begin([op |-> "erase_keys", this |-> o, keys |-> {keys[i] : i \in DOMAIN keys}],
             keys, 0, <<first, end>>)

\* erase(first, last) saves the keys of the range before it deletes any.
EraseRange(o, first, end) ==
  /\ 0 <= first /\ first <= end /\ end <= NKeys(o)
  /\ LET keys == SubSeq(order[o], first + 1, end) IN
       Begin([op |-> "erase_keys", this |-> o, keys |-> {keys[i] : i \in DOMAIN keys}],
             keys, 0, <<first, end>>)

EraseIf(o, pred) ==
  Begin([op |-> "erase_if", this |-> o, pred |-> pred], <<>>, NKeys(o), <<0, 0>>)

\* A merge with itself returns at once.
Merge(o, source) ==
  Begin([op |-> "merge", this |-> o, source |-> source], <<>>,
        IF o = source THEN 0 ELSE NKeys(source), <<0, 0>>)

Running(ops) == call # Idle /\ call.req.op \in ops

\* Mutant of InsertNext: insert overwrites.
InsertNextOverwriting ==
  /\ Running({"insert_all", "insert_or_assign_all"})
  /\ call.todo # <<>>
  /\ LET p == Head(call.todo) IN SetKey(call.req.this, p.key, p.val)
  /\ call' = [call EXCEPT !.todo = Tail(@)]
  /\ UNCHANGED <<last, erroneous>>

InsertNext ==
  /\ Running({"insert_all", "insert_or_assign_all"})
  /\ call.todo # <<>>
  /\ LET p == Head(call.todo)
         o == call.req.this
     IN  IF call.req.op = "insert_all" /\ KeyExists(o, p.key)
         THEN UNCHANGED <<value, order>>
         ELSE SetKey(o, p.key, p.val)
  /\ call' = [call EXCEPT !.todo = Tail(@)]
  /\ UNCHANGED <<last, erroneous>>

\* Mutant of ClearNext: the ith key of a map that is shrinking.
ClearNextInOrder ==
  /\ Running({"clear"})
  /\ call.i < call.n
  /\ LET o == call.req.this
         key == NthKey(o, call.i)
     IN  /\ DeleteKey(o, key)
         /\ erroneous' = erroneous \union NthKeyErrors(o, call.i) \union DeleteErrors(o, key)
  /\ call' = [call EXCEPT !.i = @ + 1]
  /\ UNCHANGED last

\* Always the first key: the numbering after a deletion is not relied upon.
ClearNext ==
  /\ Running({"clear"})
  /\ call.i < call.n
  /\ LET o == call.req.this
         key == NthKey(o, 0)
     IN  /\ DeleteKey(o, key)
         /\ erroneous' = erroneous \union NthKeyErrors(o, 0) \union DeleteErrors(o, key)
  /\ call' = [call EXCEPT !.i = @ + 1]
  /\ UNCHANGED last

\* erase_if hands the ith pair to the predicate and remembers its key.
EraseIfVisit ==
  /\ Running({"erase_if"})
  /\ call.i < call.n
  /\ LET o == call.req.this
         key == NthKey(o, call.i)
         pair == [key |-> key, val |-> value[o][key]]
     IN  /\ call' = [call EXCEPT !.i = @ + 1,
                                 !.todo = IF pair \in call.req.pred THEN Append(@, key) ELSE @]
         /\ erroneous' = erroneous \union NthKeyErrors(o, call.i)
  /\ UNCHANGED <<value, order, last>>

\* Mutants of MergeVisit: the target's value is overwritten; a pair leaves the
\* source while the source is still being visited.
MergeVisitOverwriting ==
  /\ Running({"merge"})
  /\ call.i < call.n
  /\ LET s == call.req.source
         key == NthKey(s, call.i)
     IN  /\ SetKey(call.req.this, key, value[s][key])
         /\ call' = [call EXCEPT !.i = @ + 1, !.todo = Append(@, key)]
         /\ erroneous' = erroneous \union NthKeyErrors(s, call.i)
  /\ UNCHANGED last

MergeVisitDeleting ==
  /\ Running({"merge"})
  /\ call.i < call.n
  /\ LET s == call.req.source
         key == NthKey(s, call.i)
     IN  /\ IF key \in KeysIn(value[call.req.this])
            THEN UNCHANGED <<value, order>>
            ELSE DeleteKey(s, key)
         /\ erroneous' = erroneous \union NthKeyErrors(s, call.i)
  /\ call' = [call EXCEPT !.i = @ + 1]
  /\ UNCHANGED last

\* merge copies the ith pair of the source unless the key is there already.
MergeVisit ==
  /\ Running({"merge"})
  /\ call.i < call.n
  /\ LET o == call.req.this
         s == call.req.source
         key == NthKey(s, call.i)
     IN  /\ IF KeyExists(o, key)
            THEN /\ UNCHANGED <<value, order>>
                 /\ call' = [call EXCEPT !.i = @ + 1]
            ELSE /\ SetKey(o, key, value[s][key])
                 /\ call' = [call EXCEPT !.i = @ + 1, !.todo = Append(@, key)]
         /\ erroneous' = erroneous \union NthKeyErrors(s, call.i)
  /\ UNCHANGED last

\* The second loop of erase(first, last), erase_if and merge.
DeleteNext ==
  /\ Running({"erase_keys", "erase_if", "merge"})
  /\ call.i = call.n /\ call.todo # <<>>
  /\ LET o == IF call.req.op = "merge" THEN call.req.source ELSE call.req.this
         key == Head(call.todo)
     IN  /\ DeleteKey(o, key)
         /\ erroneous' = erroneous \union DeleteErrors(o, key)
  /\ call' = [call EXCEPT !.todo = Tail(@)]
  /\ UNCHANGED last

Return ==
  /\ call # Idle
  /\ call.i = call.n /\ call.todo = <<>>
  /\ last' = [req |-> call.req, answer |-> End]
  /\ call' = Idle
  /\ UNCHANGED <<value, order, erroneous>>

\* The iterator of the range, or the predicate, throws: the call is left.
CallbackThrows ==
  /\ \/ Running({"insert_all", "insert_or_assign_all"}) /\ call.todo # <<>>
     \/ Running({"erase_if"}) /\ call.i < call.n
  /\ last' = [req |-> call.req, answer |-> Threw]
  /\ call' = Idle
  /\ UNCHANGED <<value, order, erroneous>>

-----------------------------------------------------------------------------

\* Pairs are inserted while the objects together have room for them.
Room(n) == Cardinality({h \in Infos \X Keys : value[h[1]][h[2]] # Absent}) + n <= MaxHeld

OneStepCall ==
  \E o \in Infos :
    \/ \E p \in Pairs : Room(1) /\ (Insert(o, p) \/ InsertOrAssign(o, p) \/ ProxyWrite(o, p))
    \/ \E pos \in 0..NKeys(o) : ErasePos(o, pos) \/ ExtractPos(o, pos)
    \/ \E k \in Keys : EraseKey(o, k) \/ ExtractKey(o, k) \/ ProxyRead(o, k)
    \/ \E k \in Keys : Find(o, k) \/ Contains(o, k) \/ EqualRange(o, k) \/ At(o, k)
    \/ ItemsOf(o)
    \/ \E p \in Infos : Equal(o, p)

BeginCall ==
  \E o \in Infos :
    \/ \E n \in 0..MaxPairs, op \in {"insert_all", "insert_or_assign_all"} :
         \E pairs \in [1..n -> Pairs] : Room(n) /\ InsertAll(o, op, pairs)
    \/ Clear(o)
    \/ \E first, end \in 0..NKeys(o) : EraseRange(o, first, end)
    \/ \E pred \in Predicates : EraseIf(o, pred)
    \/ \E p \in Infos : Merge(o, p)

ContinueCall ==
  InsertNext \/ ClearNext \/ EraseIfVisit \/ MergeVisit \/ DeleteNext \/ Return

Next == (OneStepCall \/ BeginCall \/ ContinueCall \/ CallbackThrows) /\ UNCHANGED stable

Spec == Init /\ [][Next]_vars

-----------------------------------------------------------------------------
(* Correctness. *)

\* Every member function has the effect and the answer of its counterpart in
\* std::map, even if the library renumbers the keys on every modification and
\* even if a callback throws in the middle.
ImplementsMap == Map!Spec

\* No loop asks for a key number that does not exist, or deletes a key that
\* is not there, whatever its own modifications did to the numbering.
NoErroneousCall == erroneous = {}

\* Doc of erase(pos): "The position denoted by pos must be in the half-open
\* interval [0, this->size())", asserted "If attempting an illegal
\* dereferencing": what passes the assertions asks MPI for an existing key.
EraseAssertsPosition ==
  [][\A o \in Infos : \A pos \in 0..NKeys(o) :
       ErasePos(o, pos) => erroneous' = erroneous]_vars

\* While merge runs no pair of either object is in neither: a program that is
\* left in the middle has lost nothing.
MergeLosesNothing ==
  Running({"merge"}) =>
    LET o == call.req.this
        s == call.req.source
        was == call.before.value
    IN  \A k \in Keys :
          /\ was[o][k] # Absent => value[o][k] = was[o][k]
          /\ was[s][k] # Absent => was[s][k] \in {value[s][k], value[o][k]}

\* A range is gone: where it began is what followed it, and what is in front of it
\* is where it was.
ClosesUp(was, now, first, end) ==
  /\ Designates(now, first) = Designates(was, end)
  /\ \A i \in 1..first : now[i] = was[i]

\* Doc of erase(pos) and erase(first, last), on a library that is stable: "return
\* iterator following the [last] removed [key, value]-pair", and the pairs in front
\* of it keep their positions.
EraseReturnsFollower ==
  [][stable => \A o \in Infos :
       /\ \A pos \in 0..(NKeys(o) - 1) :
            ErasePos(o, pos) => ClosesUp(order[o], order'[o], pos, pos + 1)
       /\ Running({"erase_keys"}) /\ call.req.this = o /\ Return =>
            ClosesUp(call.before.order[o], order[o], call.range[1], call.range[2])]_vars
=============================================================================
