---------------------------- MODULE InfoLifecycle ----------------------------
(***************************************************************************)
(* Ownership of MPI info objects by mpicxx::info (info/info.hpp).          *)
(*                                                                         *)
(* An mpicxx::info object is a pair (info_, is_freeable_): a handle to an  *)
(* object inside the MPI library and whether the destructor has to free    *)
(* it.  The model keeps every special member function, the wrapping        *)
(* constructor, the assignments, swap and the destructor.  What a modifier *)
(* does to the [key, value]-pairs is abstracted to "the contents change";  *)
(* InfoContainer refines that part.                                        *)
(*                                                                         *)
(* The MPI library is external.  A freed handle may be handed out again by *)
(* the next MPI_Info_create or MPI_Info_dup, as MPI implementations do.    *)
(***************************************************************************)
EXTENDS Naturals, FiniteSets

CONSTANTS
  Objects,        \* addresses at which the program may construct an info object
  Handles,        \* MPI_Info handles the library can hand out
  Contents,       \* abstract sets of [key, value]-pairs
  EnvContents,    \* what MPI_INFO_ENV holds
  Null,           \* MPI_INFO_NULL
  Env,            \* MPI_INFO_ENV
  Raw,            \* no info object lives at this address
  Freed,          \* the handle does not name an MPI object
  AliasedAssign   \* may the client assign from an object sharing the target's handle?

ASSUME HandlesAssumption ==
  /\ Null \notin Handles /\ Env \notin Handles /\ Raw \notin Handles
  /\ Null # Env /\ Null # Raw /\ Env # Raw
ASSUME ContentsAssumption == Freed \notin Contents /\ EnvContents \in Contents
ASSUME AliasedAssignAssumption == AliasedAssign \in BOOLEAN

VARIABLES
  store,      \* the MPI library: contents of each handle, or Freed
  user,       \* raw handles the client itself has to free
  info,       \* member info_ of the object at each address, or Raw
  freeable,   \* member is_freeable_ of the object at each address
  erroneous   \* the MPI calls made so far with a handle naming no MPI object

vars == <<store, user, info, freeable, erroneous>>

TypeOK ==
  /\ store \in [Handles -> Contents \union {Freed}]
  /\ user \in SUBSET Handles
  /\ info \in [Objects -> Handles \union {Null, Env, Raw}]
  /\ freeable \in [Objects -> BOOLEAN]
  /\ erroneous \in SUBSET {"MPI_Info_free", "MPI_Info_dup"}

Init ==
  /\ store = [h \in Handles |-> Freed]
  /\ user = {}
  /\ info = [o \in Objects |-> Raw]
  /\ freeable = [o \in Objects |-> FALSE]
  /\ erroneous = {}

-----------------------------------------------------------------------------
(* The MPI library. *)

Live(h) == h \in Handles /\ store[h] # Freed

\* Handles that MPI_Info_create and MPI_Info_dup may return.
Fresh(lib) == {h \in Handles : lib[h] = Freed}

\* Mutant of ContentsOf: a shallow duplicate, the handle itself for what it holds.
ShallowContents(lib, h) == h

\* MPI_Info_dup copies what the handle holds; a handle naming nothing holds Freed.
ContentsOf(lib, h) == IF h = Env THEN EnvContents ELSE lib[h]

\* The library after "if (is_freeable_) MPI_Info_free(&info_);" in object o.
Released(o) ==
  [h \in Handles |-> IF freeable[o] /\ info[o] = h THEN Freed ELSE store[h]]

\* The precondition asserted before that call, and what MPI itself demands.
ReleaseErrors(o) ==
  IF freeable[o] /\ ~Live(info[o]) THEN {"MPI_Info_free"} ELSE {}

\* Raw MPI_Info_create by the client, filled with c.
UserCreate(c) ==
  \E h \in Fresh(store) :
    /\ store' = [store EXCEPT ![h] = c]
    /\ user' = user \union {h}
    /\ UNCHANGED <<info, freeable, erroneous>>

\* Raw MPI_Info_free by the client; a view on h dangles from here on.
UserFree(h) ==
  /\ h \in user
  /\ store' = [store EXCEPT ![h] = Freed]
  /\ user' = user \ {h}
  /\ UNCHANGED <<info, freeable, erroneous>>

-----------------------------------------------------------------------------
(* Preconditions on the client. *)

Constructed(o) == info[o] # Raw

\* The object may be read or written: a view is used only while its target lives.
Usable(o) == Constructed(o) /\ (info[o] \in Handles => Live(info[o]))

\* Releasing o's handle takes p's handle away too.
Aliased(o, p) == o # p /\ freeable[o] /\ info[o] = info[p]

-----------------------------------------------------------------------------
(* Constructors and destructor. *)

\* info(), and the range, initializer_list and pack constructors that
\* delegate to it and then insert: the new MPI object ends up holding c.
Construct(o, c) ==
  /\ ~Constructed(o)
  /\ \E h \in Fresh(store) :
       /\ store' = [store EXCEPT ![h] = c]
       /\ info' = [info EXCEPT ![o] = h]
  /\ freeable' = [freeable EXCEPT ![o] = TRUE]
  /\ UNCHANGED <<user, erroneous>>

\* Mutants of CopyNull: the copy always owns; MPI_INFO_NULL is not tested for.
CopyNullOwning(o, p, lib) ==
  /\ info[p] = Null
  /\ info' = [info EXCEPT ![o] = Null]
  /\ freeable' = [freeable EXCEPT ![o] = TRUE]
  /\ store' = lib

CopyNullUntested(o, p, lib) ==
  /\ info' = [info EXCEPT ![o] = Null]
  /\ freeable' = [freeable EXCEPT ![o] = freeable[p]]
  /\ store' = lib

\* Mutant of CopyDup: the copy takes over the flag of its source.
CopyDupWithFlag(o, p, lib) ==
  /\ info[p] # Null
  /\ \E h \in Fresh(lib) :
       /\ store' = [lib EXCEPT ![h] = ContentsOf(lib, info[p])]
       /\ info' = [info EXCEPT ![o] = h]
  /\ freeable' = [freeable EXCEPT ![o] = freeable[p]]

\* Common body of the copy constructor and the copy assignment, given the
\* library and the erroneous calls left by what ran before.
CopyNull(o, p, lib) ==
  /\ info[p] = Null
  /\ info' = [info EXCEPT ![o] = Null]
  /\ freeable' = [freeable EXCEPT ![o] = freeable[p]]
  /\ store' = lib

CopyDup(o, p, lib) ==
  /\ info[p] # Null
  /\ \E h \in Fresh(lib) :
       /\ store' = [lib EXCEPT ![h] = ContentsOf(lib, info[p])]
       /\ info' = [info EXCEPT ![o] = h]
  /\ freeable' = [freeable EXCEPT ![o] = TRUE]

DupErrors(p, lib) ==
  IF info[p] \in Handles /\ lib[info[p]] = Freed THEN {"MPI_Info_dup"} ELSE {}

CopyConstruct(o, p) ==
  /\ ~Constructed(o) /\ Usable(p)
  /\ CopyNull(o, p, store) \/ CopyDup(o, p, store)
  /\ erroneous' = erroneous \union DupErrors(p, store)
  /\ UNCHANGED user

\* Mutant of MoveConstruct: the source is left as it is.
MoveConstructKeepingSource(o, p) ==
  /\ ~Constructed(o) /\ Constructed(p)
  /\ info' = [info EXCEPT ![o] = info[p]]
  /\ freeable' = [freeable EXCEPT ![o] = freeable[p]]
  /\ UNCHANGED <<store, user, erroneous>>

MoveConstruct(o, p) ==
  /\ ~Constructed(o) /\ Constructed(p)
  /\ info' = [info EXCEPT ![o] = info[p], ![p] = Null]
  /\ freeable' = [freeable EXCEPT ![o] = freeable[p], ![p] = FALSE]
  /\ UNCHANGED <<store, user, erroneous>>

\* info(MPI_Info, bool), owning: the client hands its raw handle over.  The
\* sanity assertions rule out MPI_INFO_NULL and MPI_INFO_ENV.
WrapOwned(o, h) ==
  /\ ~Constructed(o)
  /\ h \in user
  /\ info' = [info EXCEPT ![o] = h]
  /\ freeable' = [freeable EXCEPT ![o] = TRUE]
  /\ user' = user \ {h}
  /\ UNCHANGED <<store, erroneous>>

\* info(MPI_Info, bool), not owning: a view on a raw handle, on another
\* object's handle (get()), on MPI_INFO_ENV (info::env) or MPI_INFO_NULL
\* (info::null).
WrapView(o, h) ==
  /\ ~Constructed(o)
  /\ h \in {Null, Env} \/ Live(h)
  /\ info' = [info EXCEPT ![o] = h]
  /\ freeable' = [freeable EXCEPT ![o] = FALSE]
  /\ UNCHANGED <<store, user, erroneous>>

Destroy(o) ==
  /\ Constructed(o)
  /\ store' = Released(o)
  /\ erroneous' = erroneous \union ReleaseErrors(o)
  /\ info' = [info EXCEPT ![o] = Raw]
  /\ freeable' = [freeable EXCEPT ![o] = FALSE]
  /\ UNCHANGED user

-----------------------------------------------------------------------------
(* Assignments, swap and the modifiers. *)

\* Mutant of CopyAssign: without the self-assignment test.
CopyAssignUntested(o, p) ==
  /\ Constructed(o) /\ Usable(p)
  /\ Aliased(o, p) => AliasedAssign
  /\ CopyNull(o, p, Released(o)) \/ CopyDup(o, p, Released(o))
  /\ erroneous' = erroneous \union ReleaseErrors(o) \union DupErrors(p, Released(o))
  /\ UNCHANGED user

\* The self-assignment test compares addresses, not handles.
CopyAssign(o, p) ==
  /\ Constructed(o) /\ Usable(p)
  /\ Aliased(o, p) => AliasedAssign
  /\ o # p
  /\ CopyNull(o, p, Released(o)) \/ CopyDup(o, p, Released(o))
  /\ erroneous' = erroneous \union ReleaseErrors(o) \union DupErrors(p, Released(o))
  /\ UNCHANGED user

\* MPI_Info_free sets the freed member to MPI_INFO_NULL before it is read again
\* in a self-move (o = p).
MoveAssign(o, p) ==
  /\ Constructed(o) /\ Constructed(p)
  /\ Aliased(o, p) => AliasedAssign
  /\ store' = Released(o)
  /\ erroneous' = erroneous \union ReleaseErrors(o)
  /\ info' = [info EXCEPT ![o] = info[p], ![p] = Null]
  /\ freeable' = [freeable EXCEPT ![o] = freeable[p], ![p] = FALSE]
  /\ UNCHANGED user

\* Mutant of ListAssign: the previous MPI object is not freed.
ListAssignForgetting(o, c) ==
  /\ Constructed(o)
  /\ \E h \in Fresh(store) :
       /\ store' = [store EXCEPT ![h] = c]
       /\ info' = [info EXCEPT ![o] = h]
  /\ freeable' = [freeable EXCEPT ![o] = TRUE]
  /\ UNCHANGED <<user, erroneous>>

ListAssign(o, c) ==
  /\ Constructed(o)
  /\ \E h \in Fresh(Released(o)) :
       /\ store' = [Released(o) EXCEPT ![h] = c]
       /\ info' = [info EXCEPT ![o] = h]
  /\ freeable' = [freeable EXCEPT ![o] = TRUE]
  /\ erroneous' = erroneous \union ReleaseErrors(o)
  /\ UNCHANGED user

Swap(o, p) ==
  /\ Constructed(o) /\ Constructed(p)
  /\ info' = [info EXCEPT ![o] = info[p], ![p] = info[o]]
  /\ freeable' = [freeable EXCEPT ![o] = freeable[p], ![p] = freeable[o]]
  /\ UNCHANGED <<store, user, erroneous>>

\* Any modifier, or a proxy: it asserts that the object does not refer to
\* MPI_INFO_NULL.  MPI_INFO_ENV is read-only.
Modify(o, c) ==
  /\ info[o] \in Handles /\ Usable(o)
  /\ store' = [store EXCEPT ![info[o]] = c]
  /\ UNCHANGED <<user, info, freeable, erroneous>>

-----------------------------------------------------------------------------

ObjectStep ==
  \E o \in Objects :
    \/ \E c \in Contents : \/ Construct(o, c)
                           \/ ListAssign(o, c)
                           \/ Modify(o, c)
    \/ \E p \in Objects : \/ CopyConstruct(o, p)
                          \/ MoveConstruct(o, p)
                          \/ CopyAssign(o, p)
                          \/ MoveAssign(o, p)
                          \/ Swap(o, p)
    \/ \E h \in Handles : WrapOwned(o, h)
    \/ \E h \in Handles \union {Null, Env} : WrapView(o, h)
    \/ Destroy(o)

ClientStep ==
  \/ \E c \in Contents : UserCreate(c)
  \/ \E h \in Handles : UserFree(h)

Next == ObjectStep \/ ClientStep

Spec == Init /\ [][Next]_vars

-----------------------------------------------------------------------------
(* Correctness. *)

Owns(o, h) == freeable[o] /\ info[o] = h

\* An object that will free its handle refers to an MPI object that still
\* exists, never to MPI_INFO_NULL or MPI_INFO_ENV and never to one already
\* freed: the preconditions asserted in ~info() and in every assignment hold.
\* The same holds for the raw handles the client has to free.
OwnedIsLive ==
  /\ \A o \in Objects : freeable[o] => Live(info[o])
  /\ \A h \in user : Live(h)

\* Whoever has to free an MPI object is unique: never two info objects, never
\* an info object and the client.  Without it something is freed twice.
SoleOwner ==
  /\ \A o, p \in Objects : \A h \in Handles : Owns(o, h) /\ Owns(p, h) => o = p
  /\ \A o \in Objects : \A h \in user : ~Owns(o, h)

\* No MPI object is forgotten: as long as it exists, some info object or the
\* client still has to free it, whatever was assigned, moved or destroyed.
NoLeak ==
  \A h \in Handles : Live(h) => h \in user \/ \E o \in Objects : Owns(o, h)

\* No operation, at any time, passes MPI_Info_free or MPI_Info_dup a handle
\* that names no MPI object.  (What a program does after such a call is
\* undefined; the model lets it go on, the call itself is the violation.)
NoErroneousCall == erroneous = {}

\* The object refers to an MPI object that exists.
Valid(o) == info[o] = Env \/ Live(info[o])

\* Doc of the copy assignment (info.hpp:1268): "The assigned to info object is
\* in a valid state iff other is in a valid state", other being the argument
\* as it was passed in.
AssignedIsValid ==
  [][\A o, p \in Objects : CopyAssign(o, p) => (Valid(o)' <=> Valid(p))]_vars

\* What the ownership protocol rests on, inductive as it stands.
OwnershipInv == TypeOK /\ OwnedIsLive /\ SoleOwner /\ NoErroneousCall
=============================================================================
