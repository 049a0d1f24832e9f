------------------------- MODULE InfoLifecycleProofs -------------------------
(***************************************************************************)
(* Proofs about InfoLifecycle, for any number of addresses, handles and    *)
(* contents.  The client is assumed not to assign from an object that      *)
(* shares the target's handle (AliasedAssign = FALSE); without this the    *)
(* invariant is false, as the run of the aliased client shows.             *)
(***************************************************************************)
EXTENDS InfoLifecycle, TLAPS

\* The initial state satisfies the ownership invariant.
LEMMA InitOwnership == Init => OwnershipInv
  BY HandlesAssumption, ContentsAssumption
  DEF Init, OwnershipInv, TypeOK, OwnedIsLive, SoleOwner, Owns, NoErroneousCall

\* Freeing the handle an object owns takes it away from nobody else: every
\* other owned handle, and every handle of the client, is as live as before.
LEMMA ReleaseIsLocal ==
  ASSUME OwnershipInv, NEW o \in Objects
  PROVE  /\ Released(o) \in [Handles -> Contents \union {Freed}]
         /\ ReleaseErrors(o) = {}
         /\ \A p \in Objects \ {o} :
              freeable[p] => info[p] \in Handles /\ Released(o)[info[p]] # Freed
         /\ freeable[o] => info[o] \in Handles /\ Released(o)[info[o]] = Freed
         /\ \A h \in Handles : ~Owns(o, h) => Released(o)[h] = store[h]
  BY DEF OwnershipInv, TypeOK, OwnedIsLive, SoleOwner, Owns, Live, Released,
         ReleaseErrors

\* Under the documented use of copies the source survives the release of the
\* target, so MPI_Info_dup gets a live handle.
LEMMA SourceSurvives ==
  ASSUME OwnershipInv, NEW o \in Objects, NEW p \in Objects,
         o # p, ~Aliased(o, p), Usable(p)
  PROVE  DupErrors(p, Released(o)) = {}
  BY HandlesAssumption
  DEF OwnershipInv, TypeOK, Usable, Constructed, Aliased, Live, Released, DupErrors

\* A copy into o, made when lib is what the library holds, leaves every owner
\* of lib alone: o ends up referring to MPI_INFO_NULL or owning a handle that
\* nobody had.
LEMMA CopyPreserves ==
  ASSUME OwnershipInv,
         NEW o \in Objects, NEW p \in Objects, NEW STATE lib,
         lib \in [Handles -> Contents \union {Freed}],
         \A q \in Objects \ {o} :
           freeable[q] => info[q] \in Handles /\ lib[info[q]] # Freed,
         \A h \in user : lib[h] # Freed,
         Usable(p), DupErrors(p, lib) = {},
         CopyNull(o, p, lib) \/ CopyDup(o, p, lib),
         user' = user, erroneous' = {}
  PROVE  OwnershipInv'
<1>1. CASE CopyNull(o, p, lib)
  <2>1. ~freeable[p]
    BY <1>1, HandlesAssumption DEF OwnershipInv, OwnedIsLive, Live, CopyNull
  <2>2. ~freeable'[o] /\ \A q \in Objects \ {o} : info'[q] = info[q] /\ freeable'[q] = freeable[q]
    BY <1>1, <2>1 DEF CopyNull, OwnershipInv, TypeOK
  <2>3. TypeOK'
    BY <1>1, <2>1 DEF CopyNull, OwnershipInv, TypeOK
  <2>4. OwnedIsLive'
    BY <1>1, <2>2 DEF CopyNull, OwnershipInv, TypeOK, OwnedIsLive, Live
  <2>5. SoleOwner'
    BY <2>2 DEF OwnershipInv, TypeOK, SoleOwner, Owns
  <2>6. QED
    BY <2>3, <2>4, <2>5 DEF OwnershipInv, NoErroneousCall
<1>2. CASE CopyDup(o, p, lib)
  <2>1. PICK h \in Fresh(lib) :
          /\ store' = [lib EXCEPT ![h] = ContentsOf(lib, info[p])]
          /\ info' = [info EXCEPT ![o] = h]
    BY <1>2 DEF CopyDup
  <2>2. freeable' = [freeable EXCEPT ![o] = TRUE]
    BY <1>2 DEF CopyDup
  <2>3. h \in Handles /\ lib[h] = Freed
    BY <2>1 DEF Fresh
  <2>4. ContentsOf(lib, info[p]) \in Contents
    BY <1>2, ContentsAssumption
    DEF CopyDup, ContentsOf, DupErrors, Usable, Constructed, OwnershipInv, TypeOK
  <2>5. TypeOK'
    BY <2>1, <2>2, <2>3, <2>4 DEF OwnershipInv, TypeOK
  <2>6. OwnedIsLive'
    BY <2>1, <2>2, <2>3, <2>4, ContentsAssumption
    DEF OwnershipInv, TypeOK, OwnedIsLive, Live
  <2>7. SoleOwner'
    BY <2>1, <2>2, <2>3 DEF OwnershipInv, TypeOK, SoleOwner, Owns
  <2>8. QED
    BY <2>5, <2>6, <2>7 DEF OwnershipInv, NoErroneousCall
<1>3. QED
  BY <1>1, <1>2

\* Every operation of an info object preserves the ownership invariant.
LEMMA ObjectStepOwnership ==
  ASSUME OwnershipInv, ObjectStep, ~AliasedAssign
  PROVE  OwnershipInv'
<1> USE DEF NoErroneousCall
<1>1. ASSUME NEW o \in Objects, NEW c \in Contents, Construct(o, c)
      PROVE  OwnershipInv'
  BY <1>1, ContentsAssumption
  DEF Construct, Fresh, OwnershipInv, TypeOK, OwnedIsLive, SoleOwner, Owns, Live
<1>2. ASSUME NEW o \in Objects, NEW c \in Contents, ListAssign(o, c)
      PROVE  OwnershipInv'
  <2>1. PICK h \in Fresh(Released(o)) :
          /\ store' = [Released(o) EXCEPT ![h] = c]
          /\ info' = [info EXCEPT ![o] = h]
    BY <1>2 DEF ListAssign
  <2>2. /\ freeable' = [freeable EXCEPT ![o] = TRUE]
        /\ erroneous' = {} /\ user' = user
    BY <1>2, ReleaseIsLocal DEF ListAssign, OwnershipInv
  <2>3. h \in Handles /\ Released(o)[h] = Freed
    BY <2>1 DEF Fresh
  <2>4. TypeOK'
    BY <2>1, <2>2, <2>3, ReleaseIsLocal DEF OwnershipInv, TypeOK
  <2>5. OwnedIsLive'
    BY <2>1, <2>2, <2>3, ReleaseIsLocal, ContentsAssumption
    DEF OwnershipInv, TypeOK, OwnedIsLive, SoleOwner, Owns, Live
  <2>6. SoleOwner'
    BY <2>1, <2>2, <2>3, ReleaseIsLocal
    DEF OwnershipInv, TypeOK, OwnedIsLive, SoleOwner, Owns, Live
  <2>7. QED
    BY <2>2, <2>4, <2>5, <2>6 DEF OwnershipInv
<1>3. ASSUME NEW o \in Objects, NEW c \in Contents, Modify(o, c)
      PROVE  OwnershipInv'
  BY <1>3, ContentsAssumption
  DEF Modify, OwnershipInv, TypeOK, OwnedIsLive, SoleOwner, Owns, Live
<1>4. ASSUME NEW o \in Objects, NEW p \in Objects, CopyConstruct(o, p)
      PROVE  OwnershipInv'
  <2>1. DupErrors(p, store) = {}
    BY <1>4 DEF CopyConstruct, Usable, Live, DupErrors
  <2>2. \A q \in Objects \ {o} : freeable[q] => info[q] \in Handles /\ store[info[q]] # Freed
    BY DEF OwnershipInv, OwnedIsLive, Live
  <2>3. \A h \in user : store[h] # Freed
    BY DEF OwnershipInv, OwnedIsLive, Live
  <2>4. erroneous' = {}
    BY <1>4, <2>1 DEF CopyConstruct, OwnershipInv
  <2>5. QED
    BY <1>4, <2>1, <2>2, <2>3, <2>4, CopyPreserves DEF CopyConstruct, OwnershipInv, TypeOK
<1>5. ASSUME NEW o \in Objects, NEW p \in Objects, MoveConstruct(o, p)
      PROVE  OwnershipInv'
  BY <1>5
  DEF MoveConstruct, Constructed, OwnershipInv, TypeOK, OwnedIsLive, SoleOwner, Owns, Live
<1>6. ASSUME NEW o \in Objects, NEW p \in Objects, CopyAssign(o, p)
      PROVE  OwnershipInv'
  <2>1. o # p /\ Usable(p) /\ ~Aliased(o, p) /\ user' = user
    BY <1>6 DEF CopyAssign
  <2>2. DupErrors(p, Released(o)) = {}
    BY <2>1, SourceSurvives
  <2>3. erroneous' = {}
    BY <1>6, <2>2, ReleaseIsLocal DEF CopyAssign, OwnershipInv
  <2>4. \A h \in user : Released(o)[h] # Freed
    BY ReleaseIsLocal DEF OwnershipInv, TypeOK, OwnedIsLive, SoleOwner, Live
  <2>5. CopyNull(o, p, Released(o)) \/ CopyDup(o, p, Released(o))
    BY <1>6 DEF CopyAssign
  <2>6. QED
    BY <2>1, <2>2, <2>3, <2>4, <2>5, ReleaseIsLocal, CopyPreserves
<1>7. ASSUME NEW o \in Objects, NEW p \in Objects, MoveAssign(o, p)
      PROVE  OwnershipInv'
  <2>1. erroneous' = {} /\ store' = Released(o) /\ user' = user
    BY <1>7, ReleaseIsLocal DEF MoveAssign, OwnershipInv
  <2>2. /\ info' = [info EXCEPT ![o] = info[p], ![p] = Null]
        /\ freeable' = [freeable EXCEPT ![o] = freeable[p], ![p] = FALSE]
    BY <1>7 DEF MoveAssign
  <2>3. TypeOK'
    BY <2>1, <2>2, ReleaseIsLocal DEF OwnershipInv, TypeOK
  <2>4. OwnedIsLive'
    BY <2>1, <2>2, ReleaseIsLocal
    DEF OwnershipInv, TypeOK, OwnedIsLive, SoleOwner, Live
  <2>5. SoleOwner'
    BY <2>1, <2>2 DEF OwnershipInv, TypeOK, SoleOwner, Owns
  <2>6. QED
    BY <2>1, <2>3, <2>4, <2>5 DEF OwnershipInv
<1>8. ASSUME NEW o \in Objects, NEW p \in Objects, Swap(o, p)
      PROVE  OwnershipInv'
  BY <1>8 DEF Swap, OwnershipInv, TypeOK, OwnedIsLive, SoleOwner, Owns, Live
<1>9. ASSUME NEW o \in Objects, NEW h \in Handles, WrapOwned(o, h)
      PROVE  OwnershipInv'
  BY <1>9 DEF WrapOwned, OwnershipInv, TypeOK, OwnedIsLive, SoleOwner, Owns, Live
<1>10. ASSUME NEW o \in Objects, NEW h \in Handles \union {Null, Env}, WrapView(o, h)
       PROVE  OwnershipInv'
  BY <1>10 DEF WrapView, OwnershipInv, TypeOK, OwnedIsLive, SoleOwner, Owns, Live
<1>11. ASSUME NEW o \in Objects, Destroy(o)
       PROVE  OwnershipInv'
  <2>1. erroneous' = {} /\ store' = Released(o) /\ user' = user
    BY <1>11, ReleaseIsLocal DEF Destroy, OwnershipInv
  <2>2. /\ info' = [info EXCEPT ![o] = Raw]
        /\ freeable' = [freeable EXCEPT ![o] = FALSE]
    BY <1>11 DEF Destroy
  <2>3. TypeOK'
    BY <2>1, <2>2, ReleaseIsLocal DEF OwnershipInv, TypeOK
  <2>4. OwnedIsLive'
    BY <2>1, <2>2, ReleaseIsLocal
    DEF OwnershipInv, TypeOK, OwnedIsLive, SoleOwner, Live
  <2>5. SoleOwner'
    BY <2>1, <2>2 DEF OwnershipInv, TypeOK, SoleOwner, Owns
  <2>6. QED
    BY <2>1, <2>3, <2>4, <2>5 DEF OwnershipInv
<1>12. QED
  BY <1>1, <1>2, <1>3, <1>4, <1>5, <1>6, <1>7, <1>8, <1>9, <1>10, <1>11 DEF ObjectStep

\* The client's own calls into MPI preserve it as well.
LEMMA ClientStepOwnership ==
  ASSUME OwnershipInv, ClientStep
  PROVE  OwnershipInv'
<1>1. ASSUME NEW c \in Contents, UserCreate(c)
      PROVE  OwnershipInv'
  BY <1>1, ContentsAssumption
  DEF UserCreate, Fresh, OwnershipInv, TypeOK, OwnedIsLive, SoleOwner, Owns, Live,
      NoErroneousCall
<1>2. ASSUME NEW h \in Handles, UserFree(h)
      PROVE  OwnershipInv'
  BY <1>2
  DEF UserFree, OwnershipInv, TypeOK, OwnedIsLive, SoleOwner, Owns, Live,
      NoErroneousCall
<1>3. QED
  BY <1>1, <1>2 DEF ClientStep

\* For any program built from these operations that never assigns from an
\* alias of the target: handles that somebody still has to free are live and
\* have exactly one owner, and no MPI call ever gets a dead handle.
THEOREM Ownership ==
  ASSUME ~AliasedAssign
  PROVE  Spec => []OwnershipInv
<1>1. Init => OwnershipInv
  BY InitOwnership
<1>2. OwnershipInv /\ [Next]_vars => OwnershipInv'
  <2> SUFFICES ASSUME OwnershipInv, [Next]_vars
               PROVE  OwnershipInv'
    OBVIOUS
  <2>1. CASE ObjectStep
    BY <2>1, ObjectStepOwnership
  <2>2. CASE ClientStep
    BY <2>2, ClientStepOwnership
  <2>3. CASE UNCHANGED vars
    BY <2>3
    DEF vars, OwnershipInv, TypeOK, OwnedIsLive, SoleOwner, Owns, Live, NoErroneousCall
  <2>4. QED
    BY <2>1, <2>2, <2>3 DEF Next
<1>3. QED
  BY <1>1, <1>2, PTL DEF Spec

\* The members of the objects and the library's handles keep their types.
THEOREM Typed ==
  ASSUME ~AliasedAssign
  PROVE  Spec => []TypeOK
<1>1. OwnershipInv => TypeOK
  BY DEF OwnershipInv
<1>2. QED
  BY <1>1, Ownership, PTL

\* An info object that is going to free its handle has one that is alive.
THEOREM OwnersAreLive ==
  ASSUME ~AliasedAssign
  PROVE  Spec => []OwnedIsLive
<1>1. OwnershipInv => OwnedIsLive
  BY DEF OwnershipInv
<1>2. QED
  BY <1>1, Ownership, PTL

\* No two owners will free one handle.
THEOREM OwnersAreAlone ==
  ASSUME ~AliasedAssign
  PROVE  Spec => []SoleOwner
<1>1. OwnershipInv => SoleOwner
  BY DEF OwnershipInv
<1>2. QED
  BY <1>1, Ownership, PTL

\* MPI is never given a dead handle to free or to duplicate.
THEOREM NoErroneousCalls ==
  ASSUME ~AliasedAssign
  PROVE  Spec => []NoErroneousCall
<1>1. OwnershipInv => NoErroneousCall
  BY DEF OwnershipInv
<1>2. QED
  BY <1>1, Ownership, PTL

-----------------------------------------------------------------------------
(* Nothing is leaked. *)

\* After a release only the handle that was freed has lost its owner.
LEMMA ReleaseLeaksNothing ==
  ASSUME OwnershipInv, NoLeak, NEW o \in Objects, NEW h \in Handles,
         Released(o)[h] # Freed
  PROVE  h \in user \/ \E q \in Objects \ {o} : Owns(q, h)
<1>1. ~Owns(o, h) /\ store[h] # Freed
  BY DEF Released, Owns, OwnershipInv, TypeOK
<1>2. QED
  BY <1>1 DEF NoLeak, Live, Owns

\* A copy into o adds one MPI object, owned by o, and disowns nothing else.
LEMMA CopyLeaksNothing ==
  ASSUME OwnershipInv, NEW o \in Objects, NEW p \in Objects, NEW STATE lib,
         lib \in [Handles -> Contents \union {Freed}],
         \A h \in Handles :
           lib[h] # Freed => h \in user \/ \E q \in Objects \ {o} : Owns(q, h),
         CopyNull(o, p, lib) \/ CopyDup(o, p, lib),
         user' = user
  PROVE  NoLeak'
  BY DEF CopyNull, CopyDup, Fresh, NoLeak, Live, Owns, OwnershipInv, TypeOK

\* Every operation of an info object keeps every MPI object owned.
LEMMA ObjectStepNoLeak ==
  ASSUME OwnershipInv, NoLeak, ObjectStep
  PROVE  NoLeak'
<1> USE DEF OwnershipInv, TypeOK
<1>1. ASSUME NEW o \in Objects, NEW c \in Contents, Construct(o, c)
      PROVE  NoLeak'
  <2>1. ~freeable[o]
    BY <1>1, HandlesAssumption DEF Construct, Constructed, OwnedIsLive, Live
  <2>2. PICK h \in Fresh(store) :
          store' = [store EXCEPT ![h] = c] /\ info' = [info EXCEPT ![o] = h]
    BY <1>1 DEF Construct
  <2>3. QED
    BY <1>1, <2>1, <2>2 DEF Construct, Fresh, NoLeak, Live, Owns
<1>2. ASSUME NEW o \in Objects, NEW c \in Contents, ListAssign(o, c)
      PROVE  NoLeak'
  BY <1>2, ReleaseLeaksNothing, ReleaseIsLocal DEF ListAssign, Fresh, NoLeak, Live, Owns
<1>3. ASSUME NEW o \in Objects, NEW c \in Contents, Modify(o, c)
      PROVE  NoLeak'
  BY <1>3 DEF Modify, Usable, NoLeak, Live, Owns
<1>4. ASSUME NEW o \in Objects, NEW p \in Objects, CopyConstruct(o, p)
      PROVE  NoLeak'
  <2>1. \A h \in Handles :
          store[h] # Freed => h \in user \/ \E q \in Objects \ {o} : Owns(q, h)
    BY <1>4, HandlesAssumption DEF CopyConstruct, Constructed, NoLeak, Live, Owns
  <2>2. QED
    BY <1>4, <2>1, CopyLeaksNothing DEF CopyConstruct
<1>5. ASSUME NEW o \in Objects, NEW p \in Objects, MoveConstruct(o, p)
      PROVE  NoLeak'
  BY <1>5, HandlesAssumption DEF MoveConstruct, Constructed, NoLeak, OwnedIsLive, Live, Owns
<1>6. ASSUME NEW o \in Objects, NEW p \in Objects, CopyAssign(o, p)
      PROVE  NoLeak'
  <2>1. \A h \in Handles :
          Released(o)[h] # Freed => h \in user \/ \E q \in Objects \ {o} : Owns(q, h)
    BY ReleaseLeaksNothing
  <2>2. CopyNull(o, p, Released(o)) \/ CopyDup(o, p, Released(o))
    BY <1>6 DEF CopyAssign
  <2>3. Released(o) \in [Handles -> Contents \union {Freed}] /\ user' = user
    BY <1>6, ReleaseIsLocal DEF CopyAssign
  <2>4. QED
    BY <2>1, <2>2, <2>3, CopyLeaksNothing
<1>7. ASSUME NEW o \in Objects, NEW p \in Objects, MoveAssign(o, p)
      PROVE  NoLeak'
  <2>1. \A h \in Handles : Live(h)' => h \in user \/ \E q \in Objects \ {o} : Owns(q, h)
    BY <1>7, ReleaseLeaksNothing DEF MoveAssign, Live
  <2>2. \A q \in Objects \ {o}, h \in Handles :
          Owns(q, h) => \E r \in Objects : Owns(r, h)'
    BY <1>7 DEF MoveAssign, Owns
  <2>3. QED
    BY <1>7, <2>1, <2>2 DEF MoveAssign, NoLeak, Live
<1>8. ASSUME NEW o \in Objects, NEW p \in Objects, Swap(o, p)
      PROVE  NoLeak'
  <2>1. \A q \in Objects, h \in Handles :
          Owns(q, h) => \E r \in Objects : Owns(r, h)'
    BY <1>8 DEF Swap, Owns
  <2>2. QED
    BY <1>8, <2>1 DEF Swap, NoLeak, Live
<1>9. ASSUME NEW o \in Objects, NEW h \in Handles, WrapOwned(o, h)
      PROVE  NoLeak'
  BY <1>9, HandlesAssumption DEF WrapOwned, Constructed, NoLeak, OwnedIsLive, Live, Owns
<1>10. ASSUME NEW o \in Objects, NEW h \in Handles \union {Null, Env}, WrapView(o, h)
       PROVE  NoLeak'
  BY <1>10, HandlesAssumption DEF WrapView, Constructed, NoLeak, OwnedIsLive, Live, Owns
<1>11. ASSUME NEW o \in Objects, Destroy(o)
       PROVE  NoLeak'
  BY <1>11, ReleaseLeaksNothing DEF Destroy, NoLeak, Live, Owns
<1>12. QED
  BY <1>1, <1>2, <1>3, <1>4, <1>5, <1>6, <1>7, <1>8, <1>9, <1>10, <1>11 DEF ObjectStep

\* The client's own calls leak nothing: what it creates is its to free.
LEMMA ClientStepNoLeak ==
  ASSUME OwnershipInv, NoLeak, ClientStep
  PROVE  NoLeak'
  BY DEF ClientStep, UserCreate, UserFree, Fresh, NoLeak, Live, Owns, OwnershipInv, TypeOK

\* Every MPI info object in existence always has somebody who will free it.
THEOREM NothingLeaks ==
  ASSUME ~AliasedAssign
  PROVE  Spec => []NoLeak
<1>1. Init => NoLeak
  BY DEF Init, NoLeak, Live
<1>2. OwnershipInv /\ NoLeak /\ [Next]_vars => NoLeak'
  <2>1. ASSUME OwnershipInv, NoLeak, UNCHANGED vars
        PROVE  NoLeak'
    BY <2>1 DEF vars, NoLeak, Live, Owns
  <2>2. QED
    BY <2>1, ObjectStepNoLeak, ClientStepNoLeak DEF Next
<1>3. QED
  BY <1>1, <1>2, Ownership, PTL DEF Spec

-----------------------------------------------------------------------------
(* Copy assignment. *)

\* Unless releasing the target takes the argument away, the target is valid
\* afterwards exactly if the argument was valid before.
LEMMA CopyAssignIsValid ==
  ASSUME OwnershipInv, ~AliasedAssign,
         NEW o \in Objects, NEW p \in Objects, CopyAssign(o, p)
  PROVE  Valid(o)' <=> Valid(p)
<1> DEFINE lib == Released(o)
<1>1. /\ info \in [Objects -> Handles \union {Null, Env, Raw}]
      /\ info[p] # Raw /\ (info[p] \in Handles => store[info[p]] # Freed)
  BY DEF OwnershipInv, TypeOK, CopyAssign, Usable, Constructed, Live
<1>2. lib \in [Handles -> Contents \union {Freed}]
  BY ReleaseIsLocal
<1>3. CASE CopyNull(o, p, lib)
  <2>1. info[p] = Null /\ info'[o] = Null
    BY <1>1, <1>3 DEF CopyNull
  <2>2. QED
    BY <2>1, HandlesAssumption DEF Valid, Live
<1>4. CASE CopyDup(o, p, lib)
  <2>1. PICK h \in Fresh(lib) :
          store' = [lib EXCEPT ![h] = ContentsOf(lib, info[p])] /\ info' = [info EXCEPT ![o] = h]
    BY <1>4 DEF CopyDup
  <2>2. info[p] # Null /\ h \in Handles /\ info'[o] = h
    BY <1>1, <1>4, <2>1 DEF CopyDup, Fresh
  <2>3. info[p] \in Handles => lib[info[p]] # Freed
    <3>1. o # p /\ ~Aliased(o, p) /\ Usable(p)
      BY DEF CopyAssign
    <3>2. DupErrors(p, lib) = {}
      BY <3>1, SourceSurvives
    <3>3. QED
      BY <3>2 DEF DupErrors
  <2>4. ContentsOf(lib, info[p]) # Freed
    BY <1>1, <2>2, <2>3, ContentsAssumption DEF ContentsOf
  <2>5. Valid(o)'
    <3>1. store'[h] = ContentsOf(lib, info[p])
      BY <1>2, <2>1, <2>2
    <3>2. QED
      BY <2>2, <2>4, <3>1 DEF Valid, Live
  <2>6. Valid(p)
    BY <1>1, <2>2 DEF Valid, Live
  <2>7. QED
    BY <2>5, <2>6
<1>5. QED
  BY <1>3, <1>4 DEF CopyAssign

\* The doc of the copy assignment: the object assigned to is valid if and only
\* if the argument was, as it was passed in.
THEOREM AssignmentsAreValid ==
  ASSUME ~AliasedAssign
  PROVE  Spec => AssignedIsValid
<1>1. OwnershipInv =>
        \A o, p \in Objects : CopyAssign(o, p) => (Valid(o)' <=> Valid(p))
  BY CopyAssignIsValid
<1>2. QED
  BY <1>1, Ownership, PTL DEF AssignedIsValid
=============================================================================
