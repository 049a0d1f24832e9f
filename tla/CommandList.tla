----------------------------- MODULE CommandList -----------------------------
(***************************************************************************)
(* What a multiple_spawner stands for: a list of commands, each with its   *)
(* arguments, its number of processes and its info.  An operation changes  *)
(* one field of all entries or of one entry, or joins lists; whatever it   *)
(* does not name keeps its value and its place.                            *)
(***************************************************************************)
EXTENDS Integers, Sequences

CONSTANTS
  Texts,      \* commands and arguments
  Numbers,    \* numbers of processes
  Infos,
  Initially,  \* the info of a command that was given none
  Unusable    \* the list of a spawner that is not there or has failed

VARIABLE list

Entries == [command : Texts, argv : Seq(Texts), maxprocs : Int, info : Infos]

Init == list = Unusable

\* The first list is made up of any entries.
Build == list = Unusable /\ list' \in Seq(Entries) \ {<<>>}

\* One field of every entry is replaced.
SetCommands ==
  \E names \in [DOMAIN list -> Texts] :
    list' = [k \in DOMAIN list |-> [list[k] EXCEPT !.command = names[k]]]

SetMaxprocs ==
  \E ns \in [DOMAIN list -> Numbers] :
    list' = [k \in DOMAIN list |-> [list[k] EXCEPT !.maxprocs = ns[k]]]

SetInfos ==
  \E infos \in [DOMAIN list -> Infos] :
    list' = [k \in DOMAIN list |-> [list[k] EXCEPT !.info = infos[k]]]

\* One field of one entry is replaced.
SetCommandAt == \E k \in DOMAIN list, c \in Texts : list' = [list EXCEPT ![k].command = c]
SetMaxprocsAt == \E k \in DOMAIN list, n \in Numbers : list' = [list EXCEPT ![k].maxprocs = n]
SetInfoAt == \E k \in DOMAIN list, i \in Infos : list' = [list EXCEPT ![k].info = i]

\* Arguments go behind those an entry has, all others stay as they are.
AddArguments ==
  /\ DOMAIN list' = DOMAIN list
  /\ \A k \in DOMAIN list :
       /\ Len(list'[k].argv) >= Len(list[k].argv)
       /\ SubSeq(list'[k].argv, 1, Len(list[k].argv)) = list[k].argv
       /\ list'[k] = [list[k] EXCEPT !.argv = list'[k].argv]

RemoveArguments == list' = [k \in DOMAIN list |-> [list[k] EXCEPT !.argv = <<>>]]
RemoveArgumentsAt == \E k \in DOMAIN list : list' = [list EXCEPT ![k].argv = <<>>]
RemoveArgumentAt ==
  \E k \in DOMAIN list : \E j \in DOMAIN list[k].argv :
    list' = [list EXCEPT ![k].argv = SubSeq(@, 1, j - 1) \o SubSeq(@, j + 1, Len(@))]

\* A new entry, without arguments and info, goes to one of the ends.
Append1 ==
  \E c \in Texts, n \in Numbers :
    LET new == <<[command |-> c, argv |-> <<>>, maxprocs |-> n, info |-> Initially]>> IN
      list' \in {list \o new, new \o list}

\* A call that is given what it must not be given makes the list unusable.
Fail == list' = Unusable

Next ==
  \/ Build
  \/ /\ list # Unusable
     /\ \/ SetCommands \/ SetMaxprocs \/ SetInfos
        \/ SetCommandAt \/ SetMaxprocsAt \/ SetInfoAt
        \/ RemoveArguments \/ RemoveArgumentsAt \/ RemoveArgumentAt
        \/ Append1 \/ Fail
        \/ list' # Unusable /\ AddArguments

Spec == Init /\ [][Next]_list
=============================================================================
