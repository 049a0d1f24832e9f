------------------------------- MODULE InfoMap -------------------------------
(***************************************************************************)
(* What the container interface of mpicxx::info promises, in the terms of  *)
(* the std::map interface it mirrors: every object is a partial map from   *)
(* keys to values, and every member function has its effect and its answer *)
(* at once, whatever the order in which the MPI library numbers the keys.  *)
(***************************************************************************)
EXTENDS Naturals, Sequences, FiniteSets

CONSTANTS
  Infos,     \* the info objects
  Keys, Values,
  Absent,    \* the key is not in the map
  Blank,     \* the value " " a proxy inserts when it reads a missing key
  End,       \* what the past-the-end iterator designates
  Threw      \* the call left by an exception

VARIABLES
  map,       \* [Infos -> [Keys -> Values \union {Absent}]]
  last       \* the last call that ended: what was asked and what came back

Pairs == [key : Keys, val : Values]

\* One request per member function.  An iterator argument is given by the keys
\* of the [key, value]-pairs it designates when the call is made.
Requests ==
  [op : {"insert", "insert_or_assign"}, this : Infos, pair : Pairs]
  \union [op : {"insert_all", "insert_or_assign_all"}, this : Infos, pairs : Seq(Pairs)]
  \union [op : {"clear", "items"}, this : Infos]
  \union [op : {"erase_keys"}, this : Infos, keys : SUBSET Keys]
  \union [op : {"erase_if"}, this : Infos, pred : SUBSET Pairs]
  \union [op : {"erase", "extract", "read", "find", "contains", "equal_range", "at"},
          this : Infos, key : Keys]
  \union [op : {"merge", "equal"}, this : Infos, source : Infos]

Has(m, k) == m[k] # Absent

\* insert(): the first pair of a key counts, and only if the key is new.
Inserted(m, pairs) ==
  [k \in Keys |->
     LET at == {i \in 1..Len(pairs) : pairs[i].key = k}
     IN  IF Has(m, k) \/ at = {} THEN m[k]
         ELSE pairs[CHOOSE i \in at : \A j \in at : i <= j].val]

\* insert_or_assign(): the last pair of a key counts.
Assigned(m, pairs) ==
  [k \in Keys |->
     LET at == {i \in 1..Len(pairs) : pairs[i].key = k}
     IN  IF at = {} THEN m[k]
         ELSE pairs[CHOOSE i \in at : \A j \in at : i >= j].val]

Without(m, keys) == [k \in Keys |-> IF k \in keys THEN Absent ELSE m[k]]

Items(m) == {p \in Pairs : m[p.key] = p.val}

KeysOf(pairs) == {p.key : p \in pairs}

\* The map of every object after request r.
Effect(r, m) ==
  LET self == m[r.this]
      Self(new) == [m EXCEPT ![r.this] = new]
  IN
  CASE r.op = "insert"               -> Self(Inserted(self, <<r.pair>>))
    [] r.op = "insert_all"           -> Self(Inserted(self, r.pairs))
    [] r.op = "insert_or_assign"     -> Self(Assigned(self, <<r.pair>>))
    [] r.op = "insert_or_assign_all" -> Self(Assigned(self, r.pairs))
    [] r.op = "clear"                -> Self(Without(self, Keys))
    [] r.op = "erase_keys"           -> Self(Without(self, r.keys))
    [] r.op = "erase_if"             -> Self(Without(self, KeysOf(Items(self) \intersect r.pred)))
    [] r.op \in {"erase", "extract"} -> Self(Without(self, {r.key}))
    [] r.op = "read"                 -> Self(Inserted(self, <<[key |-> r.key, val |-> Blank]>>))
    [] r.op = "merge" /\ r.this # r.source ->
         LET other == m[r.source]
             moved == {k \in Keys : Has(other, k) /\ ~Has(self, k)}
         IN  [m EXCEPT ![r.this] = [k \in Keys |-> IF k \in moved THEN other[k] ELSE self[k]],
                       ![r.source] = Without(other, moved)]
    [] OTHER -> m

\* What the call returns.  A returned iterator is given by what it designates.
Answer(r, m) ==
  LET self == m[r.this] IN
  CASE r.op \in {"insert", "insert_or_assign"} ->
         [at |-> r.pair.key, inserted |-> ~Has(self, r.pair.key)]
    [] r.op = "erase"       -> IF Has(self, r.key) THEN 1 ELSE 0
    [] r.op = "extract"     -> self[r.key]
    [] r.op = "read"        -> IF Has(self, r.key) THEN self[r.key] ELSE Blank
    [] r.op = "find"        -> IF Has(self, r.key) THEN r.key ELSE End
    [] r.op = "contains"    -> Has(self, r.key)
    [] r.op = "equal_range" -> IF Has(self, r.key) THEN {r.key} ELSE {}
    [] r.op = "at"          -> IF Has(self, r.key) THEN self[r.key] ELSE Threw
    [] r.op = "items"       -> Items(self)
    [] r.op = "equal"       -> self = m[r.source]
    [] OTHER -> End

\* What an exception thrown by a client's callback may leave behind: nothing at
\* all when a predicate throws, a prefix of the range when its iterator throws.
Interrupted(r, m) ==
  IF r.op = "erase_if" THEN {m}
  ELSE IF r.op \in {"insert_all", "insert_or_assign_all"}
  THEN {Effect([r EXCEPT !.pairs = SubSeq(@, 1, n)], m) : n \in 0..Len(r.pairs)}
  ELSE {}

Init ==
  /\ map = [o \in Infos |-> [k \in Keys |-> Absent]]
  /\ last = [req |-> End, answer |-> End]

Call(r) ==
  \/ /\ map' = Effect(r, map)
     /\ last' = [req |-> r, answer |-> Answer(r, map)]
  \/ /\ map' \in Interrupted(r, map)
     /\ last' = [req |-> r, answer |-> Threw]

\* The request is the one the client made: last' names it.
Next == LET r == last'.req IN r \in Requests /\ Call(r)

Spec == Init /\ [][Next]_<<map, last>>
=============================================================================
