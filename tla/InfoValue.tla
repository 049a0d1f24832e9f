------------------------------ MODULE InfoValue ------------------------------
(***************************************************************************)
(* What mpicxx::info promises a client that never looks at handles: an     *)
(* info object is a value.  Copies are equal and independent, a move       *)
(* transfers the value and empties the source, and no operation changes    *)
(* the value of an object it is not applied to.  A non-owning wrapper is a *)
(* reference (Ref) and has no value of its own.                            *)
(***************************************************************************)
CONSTANTS Objects, Contents, Null, Raw, Ref

VARIABLE val      \* Contents, Null (moved-from), Ref (a view) or Raw (no object)

Values == Contents \union {Null, Ref, Raw}

TypeOK == val \in [Objects -> Values]

Init == val = [o \in Objects |-> Raw]

\* The value a copy of p takes: a copy of a view owns some contents.
CopiesOf(p) == IF val[p] = Ref THEN Contents ELSE {val[p]}

Construct(o, c) == val[o] = Raw /\ val' = [val EXCEPT ![o] = c]

Wrap(o, v) == val[o] = Raw /\ v # Raw /\ val' = [val EXCEPT ![o] = v]

CopyConstruct(o, p) ==
  /\ val[o] = Raw /\ val[p] # Raw
  /\ \E v \in CopiesOf(p) : val' = [val EXCEPT ![o] = v]

MoveConstruct(o, p) ==
  /\ val[o] = Raw /\ val[p] # Raw
  /\ val' = [val EXCEPT ![o] = val[p], ![p] = Null]

Destroy(o) == val[o] # Raw /\ val' = [val EXCEPT ![o] = Raw]

CopyAssign(o, p) ==
  /\ val[o] # Raw /\ val[p] # Raw /\ o # p
  /\ \E v \in CopiesOf(p) : val' = [val EXCEPT ![o] = v]

MoveAssign(o, p) ==
  /\ val[o] # Raw /\ val[p] # Raw
  /\ val' = [val EXCEPT ![o] = val[p], ![p] = Null]

ListAssign(o, c) == val[o] # Raw /\ val' = [val EXCEPT ![o] = c]

Swap(o, p) ==
  /\ val[o] # Raw /\ val[p] # Raw
  /\ val' = [val EXCEPT ![o] = val[p], ![p] = val[o]]

Modify(o, c) == val[o] \in Contents /\ val' = [val EXCEPT ![o] = c]

\* Writing through a view changes at most the one value it refers to.
ModifyThrough(r, c) ==
  /\ val[r] = Ref
  /\ \E o \in Objects : val[o] \in Contents /\ val' = [val EXCEPT ![o] = c]

Next ==
  \E o \in Objects :
    \/ \E c \in Contents : \/ Construct(o, c) \/ ListAssign(o, c)
                           \/ Modify(o, c) \/ ModifyThrough(o, c)
    \/ \E v \in Values : Wrap(o, v)
    \/ \E p \in Objects : \/ CopyConstruct(o, p) \/ MoveConstruct(o, p)
                          \/ CopyAssign(o, p) \/ MoveAssign(o, p) \/ Swap(o, p)
    \/ Destroy(o)

Spec == Init /\ [][Next]_val
=============================================================================
