----------------------- MODULE InfoLifecycleRefinement -----------------------
(***************************************************************************)
(* The handle-level model of mpicxx::info implements the value type of     *)
(* InfoValue: handles, the freeable flag and the library's recycling of    *)
(* handles are invisible to the client.                                    *)
(***************************************************************************)
EXTENDS InfoLifecycle

CONSTANT Ref      \* the abstract value of a non-owning wrapper

ASSUME RefAssumption == Ref \notin Contents \union {Null, Raw}
ASSUME SentinelAssumption == Null \notin Contents /\ Raw \notin Contents

\* The value a client sees at address o.
ValueOf(o) ==
  IF info[o] \in {Raw, Null} THEN info[o]
  ELSE IF freeable[o] THEN store[info[o]]
  ELSE Ref

val == [o \in Objects |-> ValueOf(o)]

Value == INSTANCE InfoValue WITH val <- val

\* Every behaviour of the handle-level model is one of the value type.
ImplementsValue == Value!Spec
=============================================================================
