------------------------------- MODULE Startup -------------------------------
(***************************************************************************)
(* The MPI environment of one process: init(), active(), finalize() and    *)
(* the callbacks of atfinalize(), as a program sees them that runs its     *)
(* code inside one of the mpicxx::main overloads (startup/init.hpp,        *)
(* startup/finalize.hpp, startup/mpicxx_main.hpp).                         *)
(*                                                                         *)
(* The process's main thread executes mpicxx::main; other threads call     *)
(* active(), which is documented to be thread safe and consists of two     *)
(* reads.  atfinalize() keeps the functions in a fixed array and gives MPI *)
(* one attribute of MPI_COMM_SELF per function, whose delete callback      *)
(* calls the function in the topmost slot: the ith deletion is assumed to  *)
(* be the one of the ith slot from the top.                                *)
(***************************************************************************)
EXTENDS Integers, Sequences, FiniteSets

CONSTANTS
  Threads,          \* the threads calling active()
  Callbacks,        \* functions passed to atfinalize()
  Unset,            \* a slot nothing was ever stored in
  MaxCallbacks,     \* MPIC_MAX_NUMBER_OF_ATFINALIZE_CALLBACKS
  MaxCalls,         \* bound: calls of atfinalize()
  Levels,           \* thread support levels, as integers
  Exceptions,       \* what the code of the application may throw
  Unsupported       \* mpicxx::thread_support_not_satisfied

ASSUME LimitsAssumption ==
  /\ MaxCallbacks \in Nat /\ MaxCalls \in Nat /\ Levels \subseteq Int
  /\ Unset \notin Callbacks

VARIABLES
  pc,           \* where mpicxx::main is
  overload,     \* the overload of mpicxx::main: "plain" or "threaded"
  initialized,  \* the MPI library: MPI_Init has completed
  finalized,    \* the MPI library: MPI_Finalize has completed
  support,      \* thread support required and provided
  slots,        \* atfinalize_lookup_callbacks, counted from 1
  idx,          \* atfinalize_idx
  attrs,        \* the MPI library: attributes on MPI_COMM_SELF
  todo,         \* the MPI library: deletions MPI_Finalize has still to make
  snapshot,     \* the MPI library: does MPI_Finalize delete only what was set before?
  query,        \* the call of active() each thread is in or has ended
  registered,   \* history: the functions atfinalize() accepted
  nested,       \* history: how many of them were registered by callbacks
  called        \* history: the functions invoked

library  == <<initialized, finalized>>
handlers == <<slots, idx, attrs, registered>>
choices  == <<snapshot, nested>>
vars == <<pc, overload, initialized, finalized, support, slots, idx, attrs,
          todo, snapshot, query, registered, nested, called>>

Active == initialized /\ ~finalized

\* The first read and, history, what the environment was during the call.
Queries == [at : {"idle", "second"}, init : BOOLEAN, answer : BOOLEAN, seen : SUBSET BOOLEAN]

TypeOK ==
  /\ pc \in {"start", "func", "unsupported", "finalize", "callback", "returned", "left"}
  /\ overload \in {"plain", "threaded"}
  /\ initialized \in BOOLEAN /\ finalized \in BOOLEAN
  /\ slots \in [1..MaxCallbacks -> Callbacks \union {Unset}]
  /\ idx \in 0..MaxCallbacks
  /\ attrs \in Nat /\ todo \in Nat
  /\ snapshot \in BOOLEAN /\ nested \in Nat
  /\ query \in [Threads -> Queries]
  /\ registered \in Seq(Callbacks) /\ called \in Seq(Callbacks)

Init ==
  /\ pc = "start"
  /\ overload \in {"plain", "threaded"}
  /\ initialized = FALSE /\ finalized = FALSE
  /\ support = [required |-> 0, provided |-> 0]
  /\ slots = [i \in 1..MaxCallbacks |-> Unset]
  /\ idx = 0 /\ attrs = 0 /\ todo = 0
  /\ snapshot \in BOOLEAN /\ nested = 0
  /\ query = [t \in Threads |-> [at |-> "idle", init |-> FALSE, answer |-> FALSE, seen |-> {FALSE}]]
  /\ registered = <<>> /\ called = <<>>

-----------------------------------------------------------------------------
(* active(), by any thread at any time. *)

\* A call in progress sees what the environment becomes; history only.
Witness(active) ==
  query' = [t \in Threads |-> IF query[t].at = "idle" THEN query[t]
                              ELSE [query[t] EXCEPT !.seen = @ \union {active}]]

ReadInitialized(t) ==
  /\ query[t].at = "idle"
  /\ query' = [query EXCEPT ![t] =
       [at |-> "second", init |-> initialized, answer |-> FALSE, seen |-> {Active}]]
  /\ UNCHANGED <<pc, overload, choices, library, support, handlers, todo, called>>

\* Mutant of ReadFinalized: the environment counts as active until it is finalized.
ReadFinalizedOnly(t) ==
  /\ query[t].at = "second"
  /\ query' = [query EXCEPT ![t].at = "idle", ![t].answer = ~finalized]
  /\ UNCHANGED <<pc, overload, choices, library, support, handlers, todo, called>>

ReadFinalized(t) ==
  /\ query[t].at = "second"
  /\ query' = [query EXCEPT ![t].at = "idle", ![t].answer = query[t].init /\ ~finalized]
  /\ UNCHANGED <<pc, overload, choices, library, support, handlers, todo, called>>

-----------------------------------------------------------------------------
(* init(), as mpicxx::main calls it. *)

InitPlain ==
  /\ pc = "start" /\ overload = "plain"
  /\ ~initialized
  /\ initialized' = TRUE
  /\ pc' = "func"
  /\ Witness(TRUE)
  /\ UNCHANGED <<overload, choices, finalized, support, handlers, todo, called>>

\* Mutant of InitThread: whatever the library provides is accepted.
InitThreadUnchecked(required, provided) ==
  /\ pc = "start" /\ overload = "threaded"
  /\ ~initialized
  /\ initialized' = TRUE
  /\ support' = [required |-> required, provided |-> provided]
  /\ pc' = "func"
  /\ Witness(TRUE)
  /\ UNCHANGED <<overload, choices, finalized, handlers, todo, called>>

\* The library may provide more than was required, or less: then init()
\* throws with the environment initialized, and main() catches.
InitThread(required, provided) ==
  /\ pc = "start" /\ overload = "threaded"
  /\ ~initialized
  /\ initialized' = TRUE
  /\ support' = [required |-> required, provided |-> provided]
  /\ pc' = IF required > provided THEN "unsupported" ELSE "func"
  /\ Witness(TRUE)
  /\ UNCHANGED <<overload, choices, finalized, handlers, todo, called>>

-----------------------------------------------------------------------------
(* The code of the application. *)

\* Mutants of Push: the limit is off by one; MPI is given the attribute before
\* the limit is tested.
PushPastLimit(f) ==
  IF idx > MaxCallbacks THEN UNCHANGED handlers
  ELSE /\ slots' = [slots EXCEPT ![idx + 1] = f]
       /\ idx' = idx + 1
       /\ attrs' = attrs + 1
       /\ registered' = Append(registered, f)

PushAttributeFirst(f) ==
  /\ attrs' = attrs + 1
  /\ IF idx >= MaxCallbacks THEN UNCHANGED <<slots, idx, registered>>
     ELSE /\ slots' = [slots EXCEPT ![idx + 1] = f]
          /\ idx' = idx + 1
          /\ registered' = Append(registered, f)

\* atfinalize(f): 1 and nothing else when all slots are taken, where the
\* precondition is not asserted.
Push(f) ==
  IF idx >= MaxCallbacks THEN UNCHANGED handlers
  ELSE /\ slots' = [slots EXCEPT ![idx + 1] = f]
       /\ idx' = idx + 1
       /\ attrs' = attrs + 1
       /\ registered' = Append(registered, f)

Register(f) ==
  /\ pc = "func"
  /\ Len(registered) < MaxCalls
  /\ Push(f)
  /\ UNCHANGED <<pc, overload, choices, library, support, todo, query, called>>

\* atfinalize(f) inside a callback.  A library that does not work on a
\* snapshot of the attributes will delete the new one, too.
RegisterNested(f) ==
  /\ pc = "callback"
  /\ Len(registered) < MaxCalls
  /\ Push(f)
  /\ nested' = nested + (idx' - idx)
  /\ todo' = IF snapshot THEN todo ELSE todo + (attrs' - attrs)
  /\ UNCHANGED <<pc, overload, library, support, snapshot, query, called>>

\* Only the overloads with a thread support level have a handler, and it takes
\* one exception only.
FuncThrows(e) ==
  /\ pc = "func"
  /\ pc' = IF overload = "threaded" /\ e = Unsupported THEN "unsupported" ELSE "left"
  /\ UNCHANGED <<overload, choices, library, support, handlers, todo, query, called>>

-----------------------------------------------------------------------------
(* finalize(): after func has returned, or after the handler of main(). *)

\* Mutants of FinalizeBegin: the flag is set at the beginning; the handler of
\* main() returns at once.
FinalizeBeginFlagged ==
  /\ pc \in {"func", "unsupported"}
  /\ ~finalized
  /\ finalized' = TRUE
  /\ pc' = "finalize"
  /\ todo' = attrs
  /\ UNCHANGED <<overload, choices, initialized, support, handlers, query, called>>

FinalizeBeginAfterFunc ==
  /\ pc = "func"
  /\ ~finalized
  /\ pc' = "finalize"
  /\ todo' = attrs
  /\ UNCHANGED <<overload, choices, library, support, handlers, query, called>>

\* MPI_Finalize first frees MPI_COMM_SELF.
FinalizeBegin ==
  /\ pc \in {"func", "unsupported"}
  /\ ~finalized
  /\ pc' = "finalize"
  /\ todo' = attrs
  /\ UNCHANGED <<overload, choices, library, support, handlers, query, called>>

\* Mutant of Delete: the first slot in use first.
DeleteInOrder ==
  /\ pc = "finalize" /\ todo > 0
  /\ idx' = idx - 1
  /\ called' = Append(called, slots[Len(called) + 1])
  /\ attrs' = attrs - 1 /\ todo' = todo - 1
  /\ pc' = "callback"
  /\ UNCHANGED <<overload, choices, library, support, slots, registered, query>>

\* atfinalize_delete_fn: the index is lowered, then the function is invoked.
Delete ==
  /\ pc = "finalize" /\ todo > 0
  /\ idx' = idx - 1
  /\ called' = Append(called, slots[idx])
  /\ attrs' = attrs - 1 /\ todo' = todo - 1
  /\ pc' = "callback"
  /\ UNCHANGED <<overload, choices, library, support, slots, registered, query>>

CallbackReturns ==
  /\ pc = "callback"
  /\ pc' = "finalize"
  /\ UNCHANGED <<overload, choices, library, support, handlers, todo, query, called>>

FinalizeEnd ==
  /\ pc = "finalize" /\ todo = 0
  /\ finalized' = TRUE
  /\ pc' = "returned"
  /\ Witness(FALSE)
  /\ UNCHANGED <<overload, choices, initialized, support, handlers, todo, called>>

-----------------------------------------------------------------------------

Main ==
  \/ InitPlain
  \/ \E required, provided \in Levels : InitThread(required, provided)
  \/ FinalizeBegin \/ Delete \/ CallbackReturns \/ FinalizeEnd

Application ==
  \/ \E f \in Callbacks : Register(f) \/ RegisterNested(f)
  \/ \E e \in Exceptions : FuncThrows(e)

Query == \E t \in Threads : ReadInitialized(t) \/ ReadFinalized(t)

Next == Main \/ Application \/ Query

Spec == Init /\ [][Next]_vars

\* The operating system runs the main thread, and func returns.
FairSpec == Spec /\ WF_vars(Main)

-----------------------------------------------------------------------------
(* Correctness. *)

\* The function that is the nth from the end.
FromEnd(s, n) == s[Len(s) + 1 - n]

\* Doc of atfinalize(): the functions are called "in reverse order in which
\* they were set", and all of them before MPI_Finalize completes.
CallbacksInReverse ==
  nested = 0 =>
    /\ Len(called) <= Len(registered)
    /\ \A n \in 1..Len(called) : called[n] = FromEnd(registered, n)
    /\ finalized => Len(called) = Len(registered)

\* The array and the attributes stay in step.
Bookkeeping ==
  /\ attrs = idx
  /\ \A i \in 1..idx : slots[i] \in Callbacks
  /\ pc \in {"start", "func", "unsupported", "left"} => todo = 0 /\ called = <<>> /\ nested = 0
  /\ pc \in {"finalize", "callback", "returned"} =>
       todo <= idx /\ (~snapshot \/ nested = 0 => todo = idx)
  /\ finalized => pc = "returned" /\ todo = 0

\* What the array holds is what was registered and not called yet.
SlotsHoldRest ==
  nested = 0 =>
    /\ Len(called) + idx = Len(registered)
    /\ \A i \in 1..idx : slots[i] = registered[i]
    /\ \A n \in 1..Len(called) : called[n] = FromEnd(registered, n)

\* The inductive invariant behind CallbacksInReverse and SlotsSuffice.
StartupInv == TypeOK /\ Bookkeeping /\ SlotsHoldRest

\* Every deletion MPI_Finalize makes finds a function in a slot: atfinalize_idx,
\* which is unsigned, is never lowered below 0, even if callbacks register
\* callbacks.
SlotsSuffice ==
  /\ todo <= idx
  /\ \A i \in 1..idx : slots[i] # Unset

Count(s, f) == Cardinality({i \in DOMAIN s : s[i] = f})

\* It takes a library that deletes the attributes set meanwhile, too: then all
\* functions run, also those that callbacks register.
EveryCallbackRuns ==
  finalized => \A f \in Callbacks : Count(called, f) = Count(registered, f)
EveryCallbackRunsIfDeleted == ~snapshot => EveryCallbackRuns

\* Doc of atfinalize(): "Calls all registered functions in reverse order in which
\* they were set."  A function registered before MPI_Finalize is not left out, even
\* if callbacks register functions and the library does not delete their attributes.
EarlierCallbacksRun ==
  finalized =>
    \A n \in 1..(Len(registered) - nested) : \E k \in 1..Len(called) : called[k] = registered[n]

\* Doc of atfinalize(): "finalized() will return false in any of these callback
\* functions", and MPI is still usable.
CallbacksSeeActive == pc = "callback" => Active

\* The code of the application runs only with the thread support it required.
FuncHasSupport ==
  pc = "func" => Active /\ support.required <= support.provided

\* The answer of active() was true at some moment of the call, whatever main()
\* does between its two reads.
ActiveWasTrue == \A t \in Threads : query[t].at = "idle" => query[t].answer \in query[t].seen

\* mpicxx_main.hpp:7: "without the possibility to forget a call to [...]
\* MPI_Finalize", and the postcondition of main(): however main() is left.
LeavesFinalized == pc \in {"returned", "left"} => finalized

\* Unless the application throws, the environment is torn down in the end.
TornDown == initialized ~> finalized \/ pc = "left"
=============================================================================
