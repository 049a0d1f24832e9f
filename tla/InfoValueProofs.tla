--------------------------- MODULE InfoValueProofs ---------------------------
(***************************************************************************)
(* Proof that InfoLifecycle implements InfoValue: initial states map to    *)
(* initial states, and under the ownership invariant every step maps to a  *)
(* step of the value type or to a stutter.                                 *)
(***************************************************************************)
EXTENDS InfoLifecycleRefinement, InfoLifecycleProofs

\* How a change at one address, or at two, shows in the abstract state.
LEMMA OneValue ==
  ASSUME NEW o \in Objects, \A q \in Objects \ {o} : ValueOf(q)' = ValueOf(q)
  PROVE  val' = [val EXCEPT ![o] = ValueOf(o)']
  BY DEF val

LEMMA TwoValues ==
  ASSUME NEW o \in Objects, NEW p \in Objects,
         \A q \in Objects \ {o, p} : ValueOf(q)' = ValueOf(q)
  PROVE  val' = [val EXCEPT ![o] = ValueOf(o)', ![p] = ValueOf(p)']
  BY DEF val

LEMMA NoValue ==
  ASSUME \A q \in Objects : ValueOf(q)' = ValueOf(q)
  PROVE  val' = val
  BY DEF val

\* Nothing a step does to other addresses or other handles shows in q.
LEMMA Untouched ==
  ASSUME NEW q \in Objects, info'[q] = info[q], freeable'[q] = freeable[q],
         freeable[q] => store'[info[q]] = store[info[q]]
  PROVE  ValueOf(q)' = ValueOf(q)
  BY DEF ValueOf

\* The abstract value of each address, by what the object there refers to.
LEMMA ValueCases ==
  ASSUME OwnershipInv, NEW o \in Objects
  PROVE  /\ val[o] = ValueOf(o)
         /\ val[o] = Raw <=> ~Constructed(o)
         /\ freeable[o] => /\ info[o] \in Handles /\ Live(info[o])
                           /\ val[o] = store[info[o]] /\ val[o] \in Contents
         /\ ~freeable[o] /\ info[o] \notin {Raw, Null} => val[o] = Ref
         /\ info[o] = Null => val[o] = Null
         /\ val[o] = Ref => info[o] \notin {Raw, Null} /\ ~freeable[o]
         /\ val[o] \in Contents => freeable[o]
         /\ val[o] \in Contents \union {Null, Ref, Raw}
  BY HandlesAssumption, ContentsAssumption, RefAssumption, SentinelAssumption
  DEF val, ValueOf, Constructed, OwnershipInv, TypeOK, OwnedIsLive, Live

\* A release is invisible at every other address.
LEMMA ReleaseInvisible ==
  ASSUME OwnershipInv, NEW o \in Objects, NEW q \in Objects \ {o}, freeable[q]
  PROVE  info[q] \in Handles /\ Released(o)[info[q]] = store[info[q]]
                             /\ Released(o)[info[q]] # Freed
  BY ReleaseIsLocal DEF OwnershipInv, OwnedIsLive, SoleOwner, Owns, Live

\* Initial states map to initial states.
LEMMA InitRefines == Init => Value!Init
  BY DEF Init, Value!Init, val, ValueOf

\* A copy gives the target one of the abstract copies of the source and is
\* invisible everywhere else.
LEMMA CopyRefines ==
  ASSUME OwnershipInv,
         NEW o \in Objects, NEW p \in Objects, o # p, NEW STATE lib,
         lib \in [Handles -> Contents \union {Freed}],
         \A q \in Objects \ {o} :
           freeable[q] => /\ info[q] \in Handles
                          /\ lib[info[q]] = store[info[q]]
                          /\ lib[info[q]] # Freed,
         Usable(p), DupErrors(p, lib) = {},
         CopyNull(o, p, lib) \/ CopyDup(o, p, lib)
  PROVE  /\ ValueOf(o)' \in Value!CopiesOf(p)
         /\ \A q \in Objects \ {o} : ValueOf(q)' = ValueOf(q)
<1>1. CASE CopyNull(o, p, lib)
  <2>1. val[p] = Null /\ Null # Ref
    BY <1>1, ValueCases, RefAssumption DEF CopyNull
  <2>2. ValueOf(o)' = Null
    BY <1>1 DEF CopyNull, ValueOf, OwnershipInv, TypeOK
  <2>3. \A q \in Objects \ {o} : ValueOf(q)' = ValueOf(q)
    BY <1>1, Untouched DEF CopyNull, OwnershipInv, TypeOK
  <2>4. QED
    BY <2>1, <2>2, <2>3 DEF Value!CopiesOf
<1>2. CASE CopyDup(o, p, lib)
  <2>1. PICK h \in Fresh(lib) :
          /\ store' = [lib EXCEPT ![h] = ContentsOf(lib, info[p])]
          /\ info' = [info EXCEPT ![o] = h]
    BY <1>2 DEF CopyDup
  <2>2. freeable' = [freeable EXCEPT ![o] = TRUE] /\ info[p] # Null
    BY <1>2 DEF CopyDup
  <2>3. h \in Handles /\ lib[h] = Freed
    BY <2>1 DEF Fresh
  <2>4. ContentsOf(lib, info[p]) \in Contents
    BY <2>2, ContentsAssumption
    DEF ContentsOf, DupErrors, Usable, Constructed, OwnershipInv, TypeOK
  <2>5. ValueOf(o)' = ContentsOf(lib, info[p])
    BY <2>1, <2>2, <2>3, HandlesAssumption DEF ValueOf, OwnershipInv, TypeOK
  <2>6. ContentsOf(lib, info[p]) \in Value!CopiesOf(p)
    <3>1. CASE freeable[p]
      <4>1. info[p] \in Handles /\ val[p] = store[info[p]] /\ val[p] # Ref
        BY <3>1, ValueCases, RefAssumption
      <4>2. ContentsOf(lib, info[p]) = val[p]
        BY <3>1, <4>1, HandlesAssumption DEF ContentsOf
      <4>3. QED
        BY <4>1, <4>2 DEF Value!CopiesOf
    <3>2. CASE ~freeable[p]
      <4>1. val[p] = Ref
        BY <2>2, <3>2, ValueCases DEF Usable, Constructed
      <4>2. QED
        BY <2>4, <4>1 DEF Value!CopiesOf
    <3>3. QED
      BY <3>1, <3>2 DEF OwnershipInv, TypeOK
  <2>7. ASSUME NEW q \in Objects \ {o}
        PROVE  ValueOf(q)' = ValueOf(q)
    <3>1. info'[q] = info[q] /\ freeable'[q] = freeable[q]
      BY <2>1, <2>2 DEF OwnershipInv, TypeOK
    <3>2. freeable[q] => store'[info[q]] = store[info[q]]
      BY <2>1, <2>3
    <3>3. QED
      BY <3>1, <3>2, Untouched
  <2>8. QED
    BY <2>5, <2>6, <2>7
<1>3. QED
  BY <1>1, <1>2

\* Every operation of an info object is a step of the value type, or invisible.
LEMMA ObjectStepRefines ==
  ASSUME OwnershipInv, ObjectStep, ~AliasedAssign
  PROVE  [Value!Next]_val
<1> USE DEF OwnershipInv, TypeOK
<1>1. ASSUME NEW o \in Objects, NEW c \in Contents, Construct(o, c)
      PROVE  Value!Construct(o, c)
  <2>1. PICK h \in Handles : /\ store[h] = Freed
                              /\ store' = [store EXCEPT ![h] = c]
                              /\ info' = [info EXCEPT ![o] = h]
    BY <1>1 DEF Construct, Fresh
  <2>2. freeable' = [freeable EXCEPT ![o] = TRUE]
    BY <1>1 DEF Construct
  <2>3. ValueOf(o)' = c
    BY <2>1, <2>2, HandlesAssumption DEF ValueOf
  <2>4. \A q \in Objects \ {o} : ValueOf(q)' = ValueOf(q)
    BY <2>1, <2>2, Untouched DEF OwnedIsLive, Live
  <2>5. QED
    BY <1>1, <2>3, <2>4, OneValue, ValueCases DEF Value!Construct, Construct
<1>2. ASSUME NEW o \in Objects, NEW c \in Contents, ListAssign(o, c)
      PROVE  Value!ListAssign(o, c)
  <2>1. PICK h \in Handles : /\ Released(o)[h] = Freed
                              /\ store' = [Released(o) EXCEPT ![h] = c]
                              /\ info' = [info EXCEPT ![o] = h]
    BY <1>2 DEF ListAssign, Fresh
  <2>2. freeable' = [freeable EXCEPT ![o] = TRUE]
    BY <1>2 DEF ListAssign
  <2>3. ValueOf(o)' = c
    BY <2>1, <2>2, ReleaseIsLocal, HandlesAssumption DEF ValueOf
  <2>4. ASSUME NEW q \in Objects \ {o}
        PROVE  ValueOf(q)' = ValueOf(q)
    <3>1. info'[q] = info[q] /\ freeable'[q] = freeable[q]
      BY <2>1, <2>2
    <3>2. freeable[q] => store'[info[q]] = store[info[q]]
      BY <2>1, ReleaseInvisible, ReleaseIsLocal
    <3>3. QED
      BY <3>1, <3>2, Untouched
  <2>5. QED
    BY <1>2, <2>3, <2>4, OneValue, ValueCases DEF Value!ListAssign, ListAssign
<1>3. ASSUME NEW o \in Objects, NEW c \in Contents, Modify(o, c)
      PROVE  \/ Value!Modify(o, c)
             \/ Value!ModifyThrough(o, c)
             \/ val' = val
  <2>1. /\ info[o] \in Handles /\ store' = [store EXCEPT ![info[o]] = c]
        /\ info' = info /\ freeable' = freeable
    BY <1>3 DEF Modify
  <2>2. CASE \E p \in Objects : Owns(p, info[o])
    <3>1. PICK p \in Objects : Owns(p, info[o])
      BY <2>2
    <3>2. ValueOf(p)' = c
      BY <2>1, <3>1, HandlesAssumption DEF ValueOf, Owns
    <3>3. \A q \in Objects \ {p} : ValueOf(q)' = ValueOf(q)
      BY <2>1, <3>1, Untouched DEF Owns, SoleOwner
    <3>4. val' = [val EXCEPT ![p] = c] /\ val[p] \in Contents
      BY <3>1, <3>2, <3>3, OneValue, ValueCases DEF Owns
    <3>5. CASE freeable[o]
      BY <2>1, <3>1, <3>4, <3>5 DEF Value!Modify, SoleOwner, Owns
    <3>6. CASE ~freeable[o]
      BY <2>1, <3>4, <3>6, ValueCases, HandlesAssumption DEF Value!ModifyThrough
    <3>7. QED
      BY <3>5, <3>6
  <2>3. CASE ~\E p \in Objects : Owns(p, info[o])
    BY <2>1, <2>3, Untouched, NoValue DEF Owns
  <2>4. QED
    BY <2>2, <2>3
<1>4. ASSUME NEW o \in Objects, NEW p \in Objects, CopyConstruct(o, p)
      PROVE  Value!CopyConstruct(o, p)
  <2>1. /\ ~Constructed(o) /\ Usable(p) /\ o # p
        /\ CopyNull(o, p, store) \/ CopyDup(o, p, store)
    BY <1>4 DEF CopyConstruct, Usable
  <2>2. DupErrors(p, store) = {}
    BY <2>1 DEF Usable, Live, DupErrors
  <2>3. \A q \in Objects \ {o} :
          freeable[q] => info[q] \in Handles /\ store[info[q]] # Freed
    BY DEF OwnedIsLive, Live
  <2>4. /\ ValueOf(o)' \in Value!CopiesOf(p)
        /\ \A q \in Objects \ {o} : ValueOf(q)' = ValueOf(q)
    BY <2>1, <2>2, <2>3, CopyRefines
  <2>5. val[o] = Raw /\ val[p] # Raw
    BY <2>1, ValueCases DEF Usable
  <2>6. QED
    BY <2>4, <2>5, OneValue DEF Value!CopyConstruct
<1>5. ASSUME NEW o \in Objects, NEW p \in Objects, MoveConstruct(o, p)
      PROVE  Value!MoveConstruct(o, p)
  <2>1. o # p /\ store' = store
    BY <1>5 DEF MoveConstruct
  <2>2. /\ info' = [info EXCEPT ![o] = info[p], ![p] = Null]
        /\ freeable' = [freeable EXCEPT ![o] = freeable[p], ![p] = FALSE]
    BY <1>5 DEF MoveConstruct
  <2>3. \A q \in Objects \ {o, p} : ValueOf(q)' = ValueOf(q)
    BY <2>1, <2>2, Untouched
  <2>4. ValueOf(o)' = val[p] /\ ValueOf(p)' = Null
    BY <2>1, <2>2 DEF ValueOf, val
  <2>5. QED
    BY <1>5, <2>3, <2>4, TwoValues, ValueCases DEF Value!MoveConstruct, MoveConstruct
<1>6. ASSUME NEW o \in Objects, NEW p \in Objects, CopyAssign(o, p)
      PROVE  Value!CopyAssign(o, p)
  <2>1. /\ Constructed(o) /\ Usable(p) /\ o # p /\ ~Aliased(o, p)
        /\ CopyNull(o, p, Released(o)) \/ CopyDup(o, p, Released(o))
    BY <1>6 DEF CopyAssign
  <2>2. DupErrors(p, Released(o)) = {}
    BY <2>1, SourceSurvives
  <2>3. \A q \in Objects \ {o} :
          freeable[q] => /\ info[q] \in Handles
                         /\ Released(o)[info[q]] = store[info[q]]
                         /\ Released(o)[info[q]] # Freed
    BY ReleaseInvisible
  <2>4. /\ ValueOf(o)' \in Value!CopiesOf(p)
        /\ \A q \in Objects \ {o} : ValueOf(q)' = ValueOf(q)
    BY <2>1, <2>2, <2>3, ReleaseIsLocal, CopyRefines
  <2>5. val[o] # Raw /\ val[p] # Raw
    BY <2>1, ValueCases DEF Usable
  <2>6. QED
    BY <2>1, <2>4, <2>5, OneValue DEF Value!CopyAssign
<1>7. ASSUME NEW o \in Objects, NEW p \in Objects, MoveAssign(o, p)
      PROVE  Value!MoveAssign(o, p)
  <2>1. /\ Constructed(o) /\ Constructed(p) /\ ~Aliased(o, p)
        /\ store' = Released(o)
        /\ info' = [info EXCEPT ![o] = info[p], ![p] = Null]
        /\ freeable' = [freeable EXCEPT ![o] = freeable[p], ![p] = FALSE]
    BY <1>7 DEF MoveAssign
  <2>2. ASSUME NEW q \in Objects \ {o, p}
        PROVE  ValueOf(q)' = ValueOf(q)
    BY <2>1, ReleaseInvisible, Untouched
  <2>3. ValueOf(p)' = Null
    BY <2>1 DEF ValueOf
  <2>4. CASE o = p
    <3>1. val' = [val EXCEPT ![o] = Null]
      BY <2>2, <2>3, <2>4, OneValue
    <3>2. QED
      BY <2>1, <2>4, <3>1, ValueCases DEF Value!MoveAssign, Value!Values, val
  <2>5. CASE o # p
    <3>1. ValueOf(o)' = val[p]
      BY <2>1, <2>5, ReleaseInvisible DEF ValueOf, val
    <3>2. QED
      BY <2>1, <2>2, <2>3, <3>1, TwoValues, ValueCases DEF Value!MoveAssign
  <2>6. QED
    BY <2>4, <2>5
<1>8. ASSUME NEW o \in Objects, NEW p \in Objects, Swap(o, p)
      PROVE  Value!Swap(o, p)
  <2>1. /\ Constructed(o) /\ Constructed(p) /\ store' = store
        /\ info' = [info EXCEPT ![o] = info[p], ![p] = info[o]]
        /\ freeable' = [freeable EXCEPT ![o] = freeable[p], ![p] = freeable[o]]
    BY <1>8 DEF Swap
  <2>2. \A q \in Objects \ {o, p} : ValueOf(q)' = ValueOf(q)
    BY <2>1, Untouched
  <2>3. ValueOf(o)' = val[p] /\ ValueOf(p)' = val[o]
    BY <2>1 DEF ValueOf, val
  <2>4. QED
    BY <2>1, <2>2, <2>3, TwoValues, ValueCases DEF Value!Swap
<1>9. ASSUME NEW o \in Objects, NEW h \in Handles, WrapOwned(o, h)
      PROVE  \E v \in Value!Values : Value!Wrap(o, v)
  <2>1. /\ ~Constructed(o) /\ Live(h) /\ store' = store
        /\ info' = [info EXCEPT ![o] = h]
        /\ freeable' = [freeable EXCEPT ![o] = TRUE]
    BY <1>9 DEF WrapOwned, OwnedIsLive
  <2>2. \A q \in Objects \ {o} : ValueOf(q)' = ValueOf(q)
    BY <2>1, Untouched
  <2>3. ValueOf(o)' = store[h] /\ store[h] \in Contents
    BY <2>1, HandlesAssumption DEF ValueOf, Live
  <2>4. val[o] = Raw /\ store[h] # Raw
    BY <2>1, <2>3, ValueCases, SentinelAssumption
  <2>5. QED
    BY <2>2, <2>3, <2>4, OneValue DEF Value!Wrap, Value!Values
<1>10. ASSUME NEW o \in Objects, NEW h \in Handles \union {Null, Env}, WrapView(o, h)
       PROVE  \E v \in Value!Values : Value!Wrap(o, v)
  <2>1. /\ ~Constructed(o) /\ store' = store
        /\ info' = [info EXCEPT ![o] = h]
        /\ freeable' = [freeable EXCEPT ![o] = FALSE]
    BY <1>10 DEF WrapView
  <2>2. \A q \in Objects \ {o} : ValueOf(q)' = ValueOf(q)
    BY <2>1, Untouched
  <2>3. ValueOf(o)' \in {Null, Ref}
    BY <2>1, HandlesAssumption DEF ValueOf
  <2>4. val[o] = Raw /\ Raw \notin {Null, Ref}
    BY <2>1, ValueCases, HandlesAssumption, RefAssumption
  <2>5. QED
    BY <2>2, <2>3, <2>4, OneValue DEF Value!Wrap, Value!Values
<1>11. ASSUME NEW o \in Objects, Destroy(o)
       PROVE  Value!Destroy(o)
  <2>1. /\ Constructed(o) /\ store' = Released(o)
        /\ info' = [info EXCEPT ![o] = Raw]
        /\ freeable' = [freeable EXCEPT ![o] = FALSE]
    BY <1>11 DEF Destroy
  <2>2. \A q \in Objects \ {o} : ValueOf(q)' = ValueOf(q)
    BY <2>1, ReleaseInvisible, Untouched
  <2>3. ValueOf(o)' = Raw
    BY <2>1 DEF ValueOf
  <2>4. QED
    BY <2>1, <2>2, <2>3, OneValue, ValueCases DEF Value!Destroy
<1>12. QED
  BY <1>1, <1>2, <1>3, <1>4, <1>5, <1>6, <1>7, <1>8, <1>9, <1>10, <1>11
  DEF ObjectStep, Value!Next

\* The client's raw MPI handles are invisible.
LEMMA ClientStepRefines ==
  ASSUME OwnershipInv, ClientStep
  PROVE  val' = val
<1>1. ASSUME NEW q \in Objects
      PROVE  ValueOf(q)' = ValueOf(q)
  <2>1. info' = info /\ freeable' = freeable
    BY DEF ClientStep, UserCreate, UserFree
  <2>2. freeable[q] => store'[info[q]] = store[info[q]]
    BY DEF ClientStep, UserCreate, UserFree, Fresh, OwnershipInv, TypeOK, OwnedIsLive,
           SoleOwner, Owns, Live
  <2>3. QED
    BY <2>1, <2>2, Untouched
<1>2. QED
  BY <1>1, NoValue

\* mpicxx::info behaves as a value: copies are independent, a move transfers
\* the value, and no operation is visible at an address it was not applied to,
\* however the MPI library recycles its handles.
THEOREM Implementation ==
  ASSUME ~AliasedAssign
  PROVE  Spec => ImplementsValue
<1>1. Init => Value!Init
  BY InitRefines
<1>2. OwnershipInv /\ [Next]_vars => [Value!Next]_val
  <2>1. UNCHANGED vars => val' = val
    BY NoValue, Untouched DEF vars
  <2>2. QED
    BY <2>1, ObjectStepRefines, ClientStepRefines DEF Next
<1>3. QED
  BY <1>1, <1>2, Ownership, PTL DEF Spec, ImplementsValue, Value!Spec
=============================================================================
