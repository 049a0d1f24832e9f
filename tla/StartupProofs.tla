---------------------------- MODULE StartupProofs ----------------------------
(***************************************************************************)
(* Proofs about Startup, for any capacity of the array of callbacks, any   *)
(* number of threads and any thread support levels.                        *)
(***************************************************************************)
EXTENDS Startup, FiniteSetTheorems, TLAPS

\* Nothing is registered and nothing called in the initial state.
LEMMA InitStartup == Init => StartupInv
<1> SUFFICES ASSUME Init PROVE StartupInv
  OBVIOUS
<1>1. query \in [Threads -> Queries]
  <2>1. [at |-> "idle", init |-> FALSE, answer |-> FALSE, seen |-> {FALSE}] \in Queries
    BY DEF Queries
  <2>2. QED
    BY <2>1 DEF Init
<1>2. slots \in [1..MaxCallbacks -> Callbacks \union {Unset}]
  BY DEF Init
<1>3. registered \in Seq(Callbacks) /\ called \in Seq(Callbacks)
  BY DEF Init
<1>4. idx \in 0..MaxCallbacks /\ attrs \in Nat /\ todo \in Nat
  BY LimitsAssumption DEF Init
<1>5. TypeOK
  BY <1>1, <1>2, <1>3, <1>4, Zenon DEF Init, TypeOK
<1>6. Bookkeeping /\ SlotsHoldRest
  BY DEF Init, Bookkeeping, SlotsHoldRest
<1>7. QED
  BY <1>5, <1>6 DEF StartupInv

\* active() and the history of its calls leave everything else alone.
LEMMA QueryStartup ==
  ASSUME StartupInv, Query
  PROVE  StartupInv'
<1>1. UNCHANGED <<pc, overload, initialized, finalized, support, slots, idx, attrs,
                  todo, snapshot, registered, nested, called>>
  BY DEF Query, ReadInitialized, ReadFinalized, library, handlers, choices
<1>2. query' \in [Threads -> Queries]
  <2>1. PICK t \in Threads : ReadInitialized(t) \/ ReadFinalized(t)
    BY DEF Query
  <2>2. CASE ReadInitialized(t)
    <3>1. Active \in BOOLEAN /\ initialized \in BOOLEAN
      BY DEF Active, StartupInv, TypeOK
    <3>2. [at |-> "second", init |-> initialized, answer |-> FALSE, seen |-> {Active}] \in Queries
      BY <3>1 DEF Queries
    <3>3. QED
      BY <2>2, <3>2 DEF ReadInitialized, StartupInv, TypeOK
  <2>3. CASE ReadFinalized(t)
    <3>1. query[t] \in Queries /\ (query[t].init /\ ~finalized) \in BOOLEAN
      BY DEF StartupInv, TypeOK
    <3>2. [query[t] EXCEPT !.at = "idle", !.answer = query[t].init /\ ~finalized] \in Queries
      BY <3>1 DEF Queries
    <3>3. query' = [query EXCEPT ![t] =
                      [query[t] EXCEPT !.at = "idle", !.answer = query[t].init /\ ~finalized]]
      BY <2>3 DEF ReadFinalized, StartupInv, TypeOK
    <3>4. QED
      BY <3>2, <3>3 DEF StartupInv, TypeOK
  <2>4. QED
    BY <2>1, <2>2, <2>3
<1>3. TypeOK'
  BY <1>1, <1>2 DEF StartupInv, TypeOK
<1>4. QED
  BY <1>1, <1>3 DEF StartupInv, Bookkeeping, SlotsHoldRest, FromEnd

\* A thread's call of active() keeps its form when the environment changes.
LEMMA WitnessTyped ==
  ASSUME StartupInv, NEW active \in BOOLEAN, Witness(active)
  PROVE  query' \in [Threads -> Queries]
<1>1. \A t \in Threads : [query[t] EXCEPT !.seen = @ \union {active}] \in Queries
  BY DEF StartupInv, TypeOK, Queries
<1>2. QED
  BY <1>1 DEF Witness, StartupInv, TypeOK

\* atfinalize() appends to the array, the attributes and the history alike, or
\* does nothing.
LEMMA PushKeepsStep ==
  ASSUME StartupInv, NEW f \in Callbacks, Push(f), called' = called
  PROVE  /\ slots' \in [1..MaxCallbacks -> Callbacks \union {Unset}]
         /\ idx' \in 0..MaxCallbacks
         /\ registered' \in Seq(Callbacks)
         /\ attrs' = idx' /\ attrs' \in Nat
         /\ (idx' = idx /\ attrs' = attrs) \/ (idx' = idx + 1 /\ attrs' = attrs + 1)
         /\ \A i \in 1..idx' : slots'[i] \in Callbacks
         /\ idx' = idx => UNCHANGED handlers
         /\ called = <<>> /\ nested' = nested => SlotsHoldRest'
<1>1. CASE idx >= MaxCallbacks
  BY <1>1 DEF Push, handlers, StartupInv, TypeOK, Bookkeeping, SlotsHoldRest, FromEnd
<1>2. CASE idx < MaxCallbacks
  <2>1. /\ slots' = [slots EXCEPT ![idx + 1] = f] /\ idx' = idx + 1
        /\ attrs' = attrs + 1 /\ registered' = Append(registered, f)
    BY <1>2, LimitsAssumption DEF Push, StartupInv, TypeOK
  <2>2. /\ slots' \in [1..MaxCallbacks -> Callbacks \union {Unset}]
        /\ idx' \in 0..MaxCallbacks
        /\ \A i \in 1..idx : slots'[i] = slots[i]
        /\ slots'[idx'] = f
    BY <1>2, <2>1, LimitsAssumption DEF StartupInv, TypeOK
  <2>3. \A i \in 1..idx' : slots'[i] \in Callbacks
    BY <2>1, <2>2 DEF StartupInv, TypeOK, Bookkeeping
  <2>4. /\ registered' \in Seq(Callbacks) /\ Len(registered') = Len(registered) + 1
        /\ \A i \in 1..Len(registered) : registered'[i] = registered[i]
        /\ registered'[Len(registered')] = f
    BY <2>1 DEF StartupInv, TypeOK
  <2>5. ASSUME called = <<>>, nested' = nested PROVE SlotsHoldRest'
    <3>1. SUFFICES ASSUME nested = 0 PROVE SlotsHoldRest'
      BY <2>5 DEF SlotsHoldRest
    <3>2. /\ idx = Len(registered)
          /\ \A i \in 1..idx : slots[i] = registered[i]
      BY <2>5, <3>1 DEF StartupInv, TypeOK, SlotsHoldRest
    <3>3. \A i \in 1..idx' : slots'[i] = registered'[i]
      BY <2>1, <2>2, <2>4, <3>2 DEF StartupInv, TypeOK
    <3>4. QED
      BY <2>1, <2>4, <2>5, <3>2, <3>3 DEF SlotsHoldRest, StartupInv, TypeOK
  <2>6. QED
    BY <2>1, <2>2, <2>3, <2>4, <2>5 DEF StartupInv, TypeOK, Bookkeeping
<1>3. QED
  BY <1>1, <1>2, LimitsAssumption DEF StartupInv, TypeOK

\* init() changes neither the array nor the histories.
LEMMA InitKeepsStep ==
  ASSUME StartupInv,
         InitPlain \/ \E required, provided \in Levels : InitThread(required, provided)
  PROVE  StartupInv'
<1>1. /\ UNCHANGED <<overload, choices, finalized, handlers, todo, called>>
      /\ pc = "start" /\ pc' \in {"func", "unsupported"}
      /\ initialized' = TRUE /\ Witness(TRUE)
  BY DEF InitPlain, InitThread
<1>2. query' \in [Threads -> Queries]
  BY <1>1, WitnessTyped
<1>3. TypeOK'
  BY <1>1, <1>2 DEF StartupInv, TypeOK, choices, handlers
<1>4. Bookkeeping' /\ SlotsHoldRest'
  BY <1>1 DEF StartupInv, TypeOK, Bookkeeping, SlotsHoldRest, FromEnd, choices, handlers
<1>5. QED
  BY <1>3, <1>4 DEF StartupInv

\* atfinalize(), called by func or by a callback.
LEMMA RegisterKeepsStep ==
  ASSUME StartupInv, NEW f \in Callbacks, Register(f) \/ RegisterNested(f)
  PROVE  StartupInv'
<1>1. CASE Register(f)
  <2>1. /\ pc = "func" /\ Push(f)
        /\ UNCHANGED <<pc, overload, choices, library, support, todo, query, called>>
    BY <1>1 DEF Register
  <2>2. /\ slots' \in [1..MaxCallbacks -> Callbacks \union {Unset}]
        /\ idx' \in 0..MaxCallbacks
        /\ registered' \in Seq(Callbacks)
        /\ attrs' = idx' /\ attrs' \in Nat
        /\ \A i \in 1..idx' : slots'[i] \in Callbacks
        /\ called = <<>> /\ nested' = nested => SlotsHoldRest'
    BY <2>1, PushKeepsStep
  <2>3. TypeOK'
    BY <2>1, <2>2 DEF StartupInv, TypeOK, choices, library
  <2>4. Bookkeeping'
    BY <2>1, <2>2 DEF StartupInv, TypeOK, Bookkeeping, choices, library
  <2>5. SlotsHoldRest'
    BY <2>1, <2>2 DEF StartupInv, Bookkeeping, choices
  <2>6. QED
    BY <2>3, <2>4, <2>5 DEF StartupInv
<1>2. CASE RegisterNested(f)
  <2>1. /\ pc = "callback" /\ Push(f) /\ nested' = nested + (idx' - idx)
        /\ todo' = IF snapshot THEN todo ELSE todo + (attrs' - attrs)
        /\ UNCHANGED <<pc, overload, library, support, snapshot, query, called>>
    BY <1>2 DEF RegisterNested
  <2>2. /\ slots' \in [1..MaxCallbacks -> Callbacks \union {Unset}]
        /\ idx' \in 0..MaxCallbacks
        /\ registered' \in Seq(Callbacks)
        /\ attrs' = idx' /\ attrs' \in Nat
        /\ (idx' = idx /\ attrs' = attrs) \/ (idx' = idx + 1 /\ attrs' = attrs + 1)
        /\ \A i \in 1..idx' : slots'[i] \in Callbacks
        /\ idx' = idx => UNCHANGED handlers
    BY <2>1, PushKeepsStep
  <2>3. todo' \in Nat /\ todo' <= idx' /\ (~snapshot => todo' = idx')
    <3>1. todo \in Nat /\ idx \in Nat /\ attrs \in Nat /\ todo <= idx
      BY <2>1, LimitsAssumption DEF StartupInv, TypeOK, Bookkeeping
    <3>2. idx' \in Nat /\ idx' >= idx
      BY <2>2, <3>1, LimitsAssumption
    <3>3. idx' = idx + (attrs' - attrs)
      <4>1. CASE idx' = idx /\ attrs' = attrs
        BY <3>1, <4>1
      <4>2. CASE idx' = idx + 1 /\ attrs' = attrs + 1
        BY <3>1, <4>2
      <4>3. QED
        BY <2>2, <4>1, <4>2, Zenon
    <3>4. CASE snapshot
      <4>1. todo' = todo
        BY <2>1, <3>4, Zenon
      <4>2. todo' \in Nat /\ todo' <= idx'
        BY <3>1, <3>2, <4>1
      <4>3. QED
        BY <2>1, <3>4, <4>2, Zenon
    <3>5. CASE ~snapshot
      <4>1. todo' = todo + (attrs' - attrs)
        BY <2>1, <3>5, Zenon
      <4>2. todo = idx
        BY <2>1, <3>5, Zenon DEF StartupInv, Bookkeeping
      <4>3. todo' = idx' /\ todo' \in Nat /\ todo' <= idx'
        BY <3>1, <3>2, <3>3, <4>1, <4>2
      <4>4. QED
        BY <4>3
    <3>6. QED
      BY <3>4, <3>5
  <2>4. nested' \in Nat /\ (nested' = 0 => nested = 0 /\ UNCHANGED handlers)
    <3>1. nested \in Nat /\ idx \in Nat /\ nested' = nested + (idx' - idx)
      BY <2>1, LimitsAssumption DEF StartupInv, TypeOK
    <3>2. CASE idx' = idx
      <4>1. nested' = nested
        BY <3>1, <3>2
      <4>2. QED
        BY <2>2, <3>1, <3>2, <4>1
    <3>3. CASE idx' = idx + 1
      <4>1. nested' = nested + 1
        BY <3>1, <3>3
      <4>2. QED
        BY <3>1, <4>1
    <3>4. QED
      BY <2>2, <3>2, <3>3
  <2>5. TypeOK'
    BY <2>1, <2>2, <2>3, <2>4 DEF StartupInv, TypeOK, library
  <2>6. Bookkeeping'
    <3>1. nested' = 0 => todo' = idx'
      <4>1. nested' = 0 => todo = idx /\ attrs \in Nat /\ todo \in Nat
        BY <2>1, <2>4 DEF StartupInv, TypeOK, Bookkeeping
      <4>2. QED
        BY <2>1, <2>4, <4>1 DEF handlers
    <3>2. QED
      BY <2>1, <2>2, <2>3, <3>1 DEF StartupInv, TypeOK, Bookkeeping, library
  <2>7. SlotsHoldRest'
    BY <2>1, <2>4 DEF StartupInv, SlotsHoldRest, handlers, FromEnd
  <2>8. QED
    BY <2>5, <2>6, <2>7 DEF StartupInv
<1>3. QED
  BY <1>1, <1>2

\* A deletion moves the topmost function from the array to the history.
LEMMA DeleteKeepsStep ==
  ASSUME StartupInv, Delete
  PROVE  StartupInv'
<1>1. /\ pc = "finalize" /\ todo > 0 /\ pc' = "callback"
      /\ idx' = idx - 1 /\ attrs' = attrs - 1 /\ todo' = todo - 1
      /\ called' = Append(called, slots[idx])
      /\ UNCHANGED <<overload, choices, library, support, slots, registered, query>>
  BY DEF Delete
<1>2. idx \in 1..MaxCallbacks /\ slots[idx] \in Callbacks
  BY <1>1, LimitsAssumption DEF StartupInv, TypeOK, Bookkeeping
<1>3. /\ called' \in Seq(Callbacks)
      /\ Len(called') = Len(called) + 1
      /\ \A n \in 1..Len(called) : called'[n] = called[n]
      /\ called'[Len(called')] = slots[idx]
  BY <1>1, <1>2 DEF StartupInv, TypeOK
<1>4. TypeOK'
  <2>1. idx' \in 0..MaxCallbacks /\ attrs' \in Nat /\ todo' \in Nat
    BY <1>1, <1>2, LimitsAssumption DEF StartupInv, TypeOK, Bookkeeping
  <2>2. pc' \in {"start", "func", "unsupported", "finalize", "callback", "returned", "left"}
    BY <1>1
  <2>3. QED
    BY <1>1, <1>3, <2>1, <2>2, Zenon DEF StartupInv, TypeOK, choices, library
<1>5. Bookkeeping'
  BY <1>1, <1>2, LimitsAssumption DEF StartupInv, TypeOK, Bookkeeping, choices, library
<1>6. SlotsHoldRest'
  <2>1. SUFFICES ASSUME nested = 0 PROVE SlotsHoldRest'
    BY <1>1 DEF SlotsHoldRest, choices
  <2>2. /\ Len(called) + idx = Len(registered)
        /\ \A i \in 1..idx : slots[i] = registered[i]
        /\ \A n \in 1..Len(called) : called[n] = FromEnd(registered, n)
    BY <2>1 DEF StartupInv, SlotsHoldRest
  <2>3. slots[idx] = FromEnd(registered, Len(called) + 1)
    BY <1>2, <2>2 DEF StartupInv, TypeOK, FromEnd
  <2>4. \A n \in 1..Len(called') : called'[n] = FromEnd(registered', n)
    <3> SUFFICES ASSUME NEW n \in 1..Len(called') PROVE called'[n] = FromEnd(registered', n)
      OBVIOUS
    <3>1. registered' = registered /\ Len(called) \in Nat
      BY <1>1 DEF StartupInv, TypeOK
    <3>2. CASE n \in 1..Len(called)
      BY <1>3, <2>2, <3>1, <3>2 DEF FromEnd
    <3>3. CASE n = Len(called) + 1
      BY <1>3, <2>3, <3>1, <3>3 DEF FromEnd
    <3>4. QED
      BY <1>3, <3>1, <3>2, <3>3
  <2>5. \A i \in 1..idx' : slots'[i] = registered'[i]
    BY <1>1, <1>2, <2>2 DEF StartupInv, TypeOK
  <2>6. Len(called') + idx' = Len(registered')
    <3>1. idx \in Int /\ Len(called) \in Nat
      BY <1>2, LimitsAssumption DEF StartupInv, TypeOK
    <3>2. idx' = idx - 1 /\ registered' = registered
      BY <1>1
    <3>3. QED
      BY <1>3, <2>2, <3>1, <3>2
  <2>7. QED
    BY <2>4, <2>5, <2>6 DEF SlotsHoldRest
<1>7. QED
  BY <1>4, <1>5, <1>6 DEF StartupInv

\* The steps that move the main thread only, and the end of finalize().
LEMMA ControlKeepsStep ==
  ASSUME StartupInv,
         \/ FinalizeBegin \/ CallbackReturns \/ FinalizeEnd
         \/ \E e \in Exceptions : FuncThrows(e)
  PROVE  StartupInv'
<1>1. /\ UNCHANGED <<overload, choices, initialized, handlers, called>>
      /\ pc' \in {"finalize", "returned", "unsupported", "left"}
  BY DEF FinalizeBegin, CallbackReturns, FinalizeEnd, FuncThrows, library
<1>2. query' \in [Threads -> Queries]
  <2>1. CASE FinalizeEnd
    <3>1. Witness(FALSE)
      BY <2>1 DEF FinalizeEnd
    <3>2. QED
      BY <3>1, WitnessTyped
  <2>2. CASE ~FinalizeEnd
    BY <2>2 DEF FinalizeBegin, CallbackReturns, FuncThrows, StartupInv, TypeOK
  <2>3. QED
    BY <2>1, <2>2
<1>3. TypeOK' /\ Bookkeeping'
  <2>1. CASE FinalizeBegin
    BY <1>1, <1>2, <2>1 DEF FinalizeBegin, StartupInv, TypeOK, Bookkeeping, library, choices, handlers
  <2>2. CASE CallbackReturns
    BY <1>1, <1>2, <2>2 DEF CallbackReturns, StartupInv, TypeOK, Bookkeeping, library, choices, handlers
  <2>3. CASE FinalizeEnd
    BY <1>1, <1>2, <2>3 DEF FinalizeEnd, StartupInv, TypeOK, Bookkeeping, library, choices, handlers
  <2>4. ASSUME NEW e \in Exceptions, FuncThrows(e) PROVE TypeOK' /\ Bookkeeping'
    BY <1>1, <1>2, <2>4 DEF FuncThrows, StartupInv, TypeOK, Bookkeeping, library, choices, handlers
  <2>5. QED
    BY <2>1, <2>2, <2>3, <2>4
<1>4. SlotsHoldRest'
  BY <1>1 DEF StartupInv, SlotsHoldRest, FromEnd, choices, handlers
<1>5. QED
  BY <1>3, <1>4 DEF StartupInv

\* The array, the attributes and the history of calls stay in step: the
\* inductive invariant of atfinalize() and finalize().
THEOREM Invariance == Spec => []StartupInv
<1>1. Init => StartupInv
  BY InitStartup
<1>2. StartupInv /\ [Next]_vars => StartupInv'
  <2> SUFFICES ASSUME StartupInv, [Next]_vars PROVE StartupInv'
    OBVIOUS
  <2>1. CASE InitPlain \/ \E required, provided \in Levels : InitThread(required, provided)
    BY <2>1, InitKeepsStep
  <2>2. CASE FinalizeBegin \/ CallbackReturns \/ FinalizeEnd
    BY <2>2, ControlKeepsStep
  <2>3. CASE \E e \in Exceptions : FuncThrows(e)
    BY <2>3, ControlKeepsStep
  <2>4. CASE Delete
    BY <2>4, DeleteKeepsStep
  <2>5. CASE \E f \in Callbacks : Register(f) \/ RegisterNested(f)
    BY <2>5, RegisterKeepsStep
  <2>6. CASE Query
    BY <2>6, QueryStartup
  <2>7. CASE UNCHANGED vars
    BY <2>7 DEF vars, StartupInv, TypeOK, Bookkeeping, SlotsHoldRest, FromEnd
  <2>8. QED
    BY <2>1, <2>2, <2>3, <2>4, <2>5, <2>6, <2>7 DEF Next, Main, Application
<1>3. QED
  BY <1>1, <1>2, PTL DEF Spec

\* As long as no callback registers a callback, the functions are called in
\* the reverse order of their registration, and all of them before
\* MPI_Finalize completes, for any capacity of the array.
THEOREM ReverseOrder == Spec => []CallbacksInReverse
<1>1. StartupInv => CallbacksInReverse
  <2> SUFFICES ASSUME StartupInv, nested = 0
               PROVE  /\ Len(called) <= Len(registered)
                      /\ \A n \in 1..Len(called) : called[n] = FromEnd(registered, n)
                      /\ finalized => Len(called) = Len(registered)
    BY DEF CallbacksInReverse
  <2>1. /\ Len(called) + idx = Len(registered)
        /\ \A n \in 1..Len(called) : called[n] = FromEnd(registered, n)
    BY DEF StartupInv, SlotsHoldRest
  <2>2. finalized => idx = 0
    BY DEF StartupInv, Bookkeeping
  <2>3. QED
    BY <2>1, <2>2 DEF StartupInv, TypeOK
<1>2. QED
  BY <1>1, Invariance, PTL

\* MPI_Finalize never invokes a slot nothing was stored in and the unsigned
\* index never drops below 0, even if callbacks register callbacks.
THEOREM EnoughSlots == Spec => []SlotsSuffice
<1>1. StartupInv => SlotsSuffice
  <2> SUFFICES ASSUME StartupInv PROVE SlotsSuffice
    OBVIOUS
  <2>1. \A i \in 1..idx : slots[i] # Unset
    BY LimitsAssumption DEF StartupInv, Bookkeeping
  <2>2. todo <= idx
    BY DEF StartupInv, TypeOK, Bookkeeping
  <2>3. QED
    BY <2>1, <2>2 DEF SlotsSuffice
<1>2. QED
  BY <1>1, Invariance, PTL

-----------------------------------------------------------------------------
(* The environment and those who ask for it. *)

\* The environment is there from init() to the end of finalize(), and the
\* application's code runs if the library provides what was required.
EnvironmentInv ==
  /\ initialized <=> pc # "start"
  /\ finalized => pc = "returned"
  /\ pc \in {"start", "func"} => support.required <= support.provided

\* What a call of active() has read, and what it will answer, was true during it.
CallInv(t) ==
  /\ query[t].at = "idle" => query[t].answer \in query[t].seen
  /\ query[t].at = "second" =>
       /\ query[t].init /\ ~finalized => TRUE \in query[t].seen
       /\ ~query[t].init \/ finalized => FALSE \in query[t].seen

QueriesInv == \A t \in Threads : CallInv(t)

LEMMA InitEnvironment == Init => EnvironmentInv /\ QueriesInv
<1> SUFFICES ASSUME Init PROVE EnvironmentInv /\ QueriesInv
  OBVIOUS
<1>1. support.required = 0 /\ support.provided = 0 /\ pc = "start"
  BY DEF Init
<1>2. EnvironmentInv
  BY <1>1 DEF Init, EnvironmentInv
<1>3. \A t \in Threads :
        query[t].at = "idle" /\ query[t].answer = FALSE /\ query[t].seen = {FALSE}
  BY DEF Init
<1>4. QED
  BY <1>2, <1>3 DEF QueriesInv, CallInv

\* Only init() and the end of finalize() change what the library says.
LEMMA EnvironmentStep == StartupInv /\ EnvironmentInv /\ [Next]_vars => EnvironmentInv'
<1> SUFFICES ASSUME StartupInv, EnvironmentInv, [Next]_vars PROVE EnvironmentInv'
  OBVIOUS
<1> USE DEF EnvironmentInv
<1>1. CASE InitPlain
  BY <1>1 DEF InitPlain, StartupInv, Bookkeeping
<1>2. ASSUME NEW required \in Levels, NEW provided \in Levels, InitThread(required, provided)
      PROVE  EnvironmentInv'
  <2>1. required \in Int /\ provided \in Int
    BY LimitsAssumption
  <2>2. QED
    BY <1>2, <2>1 DEF InitThread, StartupInv, Bookkeeping
<1>3. CASE FinalizeBegin
  BY <1>3 DEF FinalizeBegin, library
<1>4. CASE Delete
  BY <1>4 DEF Delete, library, StartupInv, Bookkeeping
<1>5. CASE CallbackReturns
  BY <1>5 DEF CallbackReturns, library
<1>6. CASE FinalizeEnd
  BY <1>6 DEF FinalizeEnd
<1>7. CASE Application
  BY <1>7 DEF Application, Register, RegisterNested, FuncThrows, library, StartupInv, Bookkeeping
<1>8. CASE Query \/ UNCHANGED vars
  <2>1. UNCHANGED <<pc, initialized, finalized, support>>
    BY <1>8, Zenon DEF Query, ReadInitialized, ReadFinalized, library, vars
  <2>2. QED
    BY <2>1
<1>9. QED
  BY <1>1, <1>2, <1>3, <1>4, <1>5, <1>6, <1>7, <1>8 DEF Next, Main

\* The two reads of active() are one query of a state in between, because the
\* environment is initialized once and finalized once: a thread that is asking
\* sees (Witness) what each of these makes of it.
LEMMA QueriesStep ==
  StartupInv /\ EnvironmentInv /\ QueriesInv /\ [Next]_vars => QueriesInv'
<1> SUFFICES ASSUME StartupInv, EnvironmentInv, QueriesInv, [Next]_vars,
                    NEW t \in Threads
             PROVE  CallInv(t)'
  BY DEF QueriesInv
<1>1. /\ CallInv(t) /\ query[t] \in Queries
      /\ initialized \in BOOLEAN /\ finalized \in BOOLEAN
      /\ query \in [Threads -> Queries]
  BY DEF QueriesInv, StartupInv, TypeOK
<1>2. CASE InitPlain \/ \E required, provided \in Levels : InitThread(required, provided)
  <2>1. Witness(TRUE) /\ finalized' = finalized /\ ~finalized
    BY <1>2 DEF InitPlain, InitThread, EnvironmentInv
  <2>2. QED
    BY <1>1, <2>1 DEF Witness, CallInv, Queries
<1>3. CASE FinalizeEnd
  <2>1. Witness(FALSE) /\ finalized' = TRUE
    BY <1>3 DEF FinalizeEnd
  <2>2. QED
    BY <1>1, <2>1 DEF Witness, CallInv, Queries
<1>4. ASSUME NEW u \in Threads, ReadInitialized(u)
      PROVE  CallInv(t)'
  <2>1. finalized' = finalized /\ (t # u => query'[t] = query[t])
    BY <1>1, <1>4 DEF ReadInitialized, library
  <2>2. CASE t # u
    BY <1>1, <2>1, <2>2 DEF CallInv
  <2>3. CASE t = u
    <3>1. query'[t] = [at |-> "second", init |-> initialized, answer |-> FALSE, seen |-> {Active}]
      BY <1>1, <1>4, <2>3 DEF ReadInitialized
    <3>2. query'[t].at = "second" /\ query'[t].init = initialized /\ query'[t].seen = {Active}
      BY <3>1
    <3>3. initialized /\ ~finalized => Active = TRUE
      BY <1>1 DEF Active
    <3>4. ~initialized \/ finalized => Active = FALSE
      BY <1>1 DEF Active
    <3>5. QED
      BY <2>1, <3>2, <3>3, <3>4 DEF CallInv
  <2>4. QED
    BY <2>2, <2>3
<1>5. ASSUME NEW u \in Threads, ReadFinalized(u)
      PROVE  CallInv(t)'
  <2>1. finalized' = finalized /\ (t # u => query'[t] = query[t])
    BY <1>1, <1>5 DEF ReadFinalized, library
  <2>2. CASE t # u
    BY <1>1, <2>1, <2>2 DEF CallInv
  <2>3. CASE t = u
    <3>1. /\ query'[t].at = "idle" /\ query'[t].seen = query[t].seen
          /\ query'[t].answer = (query[t].init /\ ~finalized)
      BY <1>1, <1>5, <2>3 DEF ReadFinalized, Queries
    <3>2. query[t].at = "second" /\ query[t].init \in BOOLEAN
      BY <1>1, <1>5, <2>3 DEF ReadFinalized, Queries
    <3>3. (query[t].init /\ ~finalized) \in query[t].seen
      <4>1. CASE query[t].init /\ ~finalized
        BY <1>1, <3>2, <4>1 DEF CallInv
      <4>2. CASE ~(query[t].init /\ ~finalized)
        BY <1>1, <3>2, <4>2 DEF CallInv
      <4>3. QED
        BY <4>1, <4>2
    <3>4. QED
      BY <3>1, <3>3 DEF CallInv
  <2>4. QED
    BY <2>2, <2>3
<1>6. CASE UNCHANGED <<query, finalized>>
  BY <1>1, <1>6 DEF CallInv
<1>7. CASE FinalizeBegin \/ Delete \/ CallbackReturns \/ Application \/ UNCHANGED vars
  <2>1. UNCHANGED <<query, finalized>>
    BY <1>7 DEF FinalizeBegin, Delete, CallbackReturns, Application, Register, RegisterNested,
                FuncThrows, library, vars
  <2>2. QED
    BY <1>6, <2>1
<1>8. QED
  BY <1>2, <1>3, <1>4, <1>5, <1>7 DEF Next, Main, Query

LEMMA EnvironmentThroughout == Spec => [](EnvironmentInv /\ QueriesInv)
<1>1. QED
  BY Invariance, InitEnvironment, EnvironmentStep, QueriesStep, PTL DEF Spec

\* The variables keep their types; the capacity bounds the index.
THEOREM Typed == Spec => []TypeOK
<1>1. StartupInv => TypeOK
  BY DEF StartupInv
<1>2. QED
  BY <1>1, Invariance, PTL

\* The callbacks of atfinalize() run while MPI is initialized and not finalized.
THEOREM CallbacksActive == Spec => []CallbacksSeeActive
<1>1. EnvironmentInv => CallbacksSeeActive
  BY DEF EnvironmentInv, CallbacksSeeActive, Active
<1>2. QED
  BY <1>1, EnvironmentThroughout, PTL

\* The application runs in an active environment with the thread support that
\* mpicxx::main was asked for.
THEOREM Supported == Spec => []FuncHasSupport
<1>1. EnvironmentInv => FuncHasSupport
  BY DEF EnvironmentInv, FuncHasSupport, Active
<1>2. QED
  BY <1>1, EnvironmentThroughout, PTL

\* active() is linearizable, for any number of threads.
THEOREM Linearizable == Spec => []ActiveWasTrue
<1>1. QueriesInv => ActiveWasTrue
  BY DEF QueriesInv, CallInv, ActiveWasTrue
<1>2. QED
  BY <1>1, EnvironmentThroughout, PTL

-----------------------------------------------------------------------------
(* Every callback runs: those called and those in the array are, counted by   *)
(* function, those registered, also when callbacks register callbacks.       *)

\* How often f is in the first n slots.
Held(array, n, f) == Cardinality({i \in 1..n : array[i] = f})

CountInv ==
  \A f \in Callbacks : Count(registered, f) = Count(called, f) + Held(slots, idx, f)

\* A function behind a list of functions counts once.
LEMMA CountAppend ==
  ASSUME NEW S, NEW s \in Seq(S), NEW x \in S, NEW f
  PROVE  /\ Count(s, f) \in Nat
         /\ Count(Append(s, x), f) = Count(s, f) + (IF x = f THEN 1 ELSE 0)
<1> DEFINE at == {i \in DOMAIN s : s[i] = f}
           after == {i \in DOMAIN Append(s, x) : Append(s, x)[i] = f}
<1>1. Len(s) \in Nat /\ DOMAIN s = 1..Len(s) /\ DOMAIN Append(s, x) = 1..(Len(s) + 1)
  OBVIOUS
<1>2. IsFiniteSet(at) /\ Cardinality(at) \in Nat
  <2>1. IsFiniteSet(1..Len(s))
    BY <1>1, FS_Interval
  <2>2. at \in SUBSET (1..Len(s))
    BY <1>1
  <2>3. IsFiniteSet(at)
    BY <2>1, <2>2, FS_Subset
  <2>4. QED
    BY <2>3, FS_CardinalityType
<1>3. Len(s) + 1 \notin at
  BY <1>1
<1>4. \A i \in 1..Len(s) : Append(s, x)[i] = s[i]
  OBVIOUS
<1>5. Append(s, x)[Len(s) + 1] = x
  OBVIOUS
<1>6. after = IF x = f THEN at \union {Len(s) + 1} ELSE at
  BY <1>1, <1>4, <1>5
<1> HIDE DEF at, after
<1>7. Cardinality(after) = Cardinality(at) + (IF x = f THEN 1 ELSE 0)
  <2>1. CASE x = f
    BY <1>2, <1>3, <1>6, <2>1, FS_AddElement
  <2>2. CASE x # f
    BY <1>2, <1>6, <2>2
  <2>3. QED
    BY <2>1, <2>2
<1>8. QED
  BY <1>2, <1>7 DEF Count, at, after

\* So does a function in the slot above the others.
LEMMA HeldAbove ==
  ASSUME NEW n \in Nat, NEW a, NEW b, NEW f, \A i \in 1..n : a[i] = b[i]
  PROVE  /\ Held(a, n, f) \in Nat
         /\ Held(b, n + 1, f) = Held(a, n, f) + (IF b[n + 1] = f THEN 1 ELSE 0)
<1> DEFINE at == {i \in 1..n : a[i] = f}
           after == {i \in 1..(n + 1) : b[i] = f}
<1>1. IsFiniteSet(at) /\ Cardinality(at) \in Nat
  <2>1. IsFiniteSet(1..n) /\ at \in SUBSET (1..n)
    BY FS_Interval
  <2>2. IsFiniteSet(at)
    BY <2>1, FS_Subset
  <2>3. QED
    BY <2>2, FS_CardinalityType
<1>2. n + 1 \notin at
  OBVIOUS
<1>3. after = IF b[n + 1] = f THEN at \union {n + 1} ELSE at
  OBVIOUS
<1> HIDE DEF at, after
<1>4. Cardinality(after) = Cardinality(at) + (IF b[n + 1] = f THEN 1 ELSE 0)
  <2>1. CASE b[n + 1] = f
    BY <1>1, <1>2, <1>3, <2>1, FS_AddElement
  <2>2. CASE b[n + 1] # f
    BY <1>1, <1>3, <2>2
  <2>3. QED
    BY <2>1, <2>2
<1>5. QED
  BY <1>1, <1>4 DEF Held, at, after

LEMMA InitCount == Init => CountInv
<1> SUFFICES ASSUME Init, NEW f \in Callbacks
             PROVE  Count(registered, f) = Count(called, f) + Held(slots, idx, f)
  BY DEF CountInv
<1>1. idx = 0 /\ registered = <<>> /\ called = <<>>
  BY DEF Init
<1>2. {i \in DOMAIN registered : registered[i] = f} = {} /\ {i \in 1..idx : slots[i] = f} = {}
  BY <1>1
<1>3. Count(registered, f) = 0 /\ Count(called, f) = 0 /\ Held(slots, idx, f) = 0
  BY <1>1, <1>2, FS_EmptySet DEF Count, Held
<1>4. QED
  BY <1>3

\* atfinalize() adds one to both sides.
LEMMA PushCounts ==
  ASSUME StartupInv, CountInv, NEW g \in Callbacks, Push(g), called' = called
  PROVE  CountInv'
<1> SUFFICES ASSUME NEW f \in Callbacks
             PROVE  (Count(registered, f) = Count(called, f) + Held(slots, idx, f))'
  BY DEF CountInv
<1>1. Count(registered, f) = Count(called, f) + Held(slots, idx, f)
  BY DEF CountInv
<1>2. CASE idx >= MaxCallbacks
  BY <1>1, <1>2 DEF Push, handlers, Count, Held
<1>3. CASE idx < MaxCallbacks
  <2>1. /\ slots' = [slots EXCEPT ![idx + 1] = g] /\ idx' = idx + 1
        /\ registered' = Append(registered, g) /\ idx \in Nat
    BY <1>3, LimitsAssumption DEF Push, StartupInv, TypeOK
  <2>2. \A i \in 1..idx : slots[i] = slots'[i]
    BY <2>1 DEF StartupInv, TypeOK
  <2>3. slots'[idx + 1] = g
    BY <1>3, <2>1, LimitsAssumption DEF StartupInv, TypeOK
  <2>4. /\ Held(slots, idx, f) \in Nat
        /\ Held(slots', idx + 1, f) = Held(slots, idx, f) + (IF g = f THEN 1 ELSE 0)
    <3> DEFINE n == idx
               a == slots
               b == slots'
    <3>1. n \in Nat /\ (\A i \in 1..n : a[i] = b[i]) /\ b[n + 1] = g
      BY <2>1, <2>2, <2>3
    <3> HIDE DEF n, a, b
    <3>2. /\ Held(a, n, f) \in Nat
          /\ Held(b, n + 1, f) = Held(a, n, f) + (IF b[n + 1] = f THEN 1 ELSE 0)
      BY <3>1, HeldAbove
    <3>3. QED
      BY <3>1, <3>2 DEF n, a, b
  <2>5. /\ Count(registered, f) \in Nat
        /\ Count(registered', f) = Count(registered, f) + (IF g = f THEN 1 ELSE 0)
    BY <2>1, CountAppend DEF StartupInv, TypeOK
  <2>6. Count(called, f) \in Nat
    BY CountAppend DEF StartupInv, TypeOK
  <2>7. Count(registered', f) = Count(called', f) + Held(slots', idx', f)
    BY <1>1, <2>1, <2>4, <2>5, <2>6
  <2>8. QED
    BY <2>7 DEF Count, Held
<1>4. QED
  BY <1>2, <1>3, LimitsAssumption DEF StartupInv, TypeOK

\* A deletion moves one from the array to the calls.
LEMMA DeleteCounts ==
  ASSUME StartupInv, CountInv, Delete
  PROVE  CountInv'
<1> SUFFICES ASSUME NEW f \in Callbacks
             PROVE  (Count(registered, f) = Count(called, f) + Held(slots, idx, f))'
  BY DEF CountInv
<1>1. /\ idx' = idx - 1 /\ slots' = slots /\ registered' = registered
      /\ called' = Append(called, slots[idx])
  BY DEF Delete
<1>2. idx \in 1..MaxCallbacks /\ slots[idx] \in Callbacks
  BY LimitsAssumption DEF Delete, StartupInv, TypeOK, Bookkeeping
<1>3. idx' \in Nat /\ idx' + 1 = idx
  BY <1>1, <1>2, LimitsAssumption
<1>4. /\ Held(slots, idx', f) \in Nat
      /\ Held(slots, idx, f) = Held(slots, idx', f) + (IF slots[idx] = f THEN 1 ELSE 0)
  BY <1>3, HeldAbove
<1>5. /\ Count(called, f) \in Nat
      /\ Count(called', f) = Count(called, f) + (IF slots[idx] = f THEN 1 ELSE 0)
  BY <1>1, <1>2, CountAppend DEF StartupInv, TypeOK
<1>6. Count(registered, f) = Count(called, f) + Held(slots, idx, f)
  BY DEF CountInv
<1>7. Count(registered', f) = Count(called', f) + Held(slots', idx', f)
  BY <1>1, <1>4, <1>5, <1>6
<1>8. QED
  BY <1>7 DEF Count, Held

LEMMA CountStep == StartupInv /\ CountInv /\ [Next]_vars => CountInv'
<1> SUFFICES ASSUME StartupInv, CountInv, [Next]_vars PROVE CountInv'
  OBVIOUS
<1>1. ASSUME NEW f \in Callbacks, Register(f) \/ RegisterNested(f) PROVE CountInv'
  BY <1>1, PushCounts DEF Register, RegisterNested
<1>2. CASE Delete
  BY <1>2, DeleteCounts
<1>3. CASE UNCHANGED <<registered, called, slots, idx>>
  BY <1>3 DEF CountInv, Count, Held
<1>4. QED
  BY <1>1, <1>2, <1>3
  DEF Next, Main, Application, Query, InitPlain, InitThread, FinalizeBegin, CallbackReturns,
      FinalizeEnd, FuncThrows, ReadInitialized, ReadFinalized, handlers, vars

\* If MPI_Finalize also deletes the attributes that are set meanwhile, every
\* function registered has been called as often as it was registered when
\* MPI_Finalize completes.
THEOREM EveryCallback == Spec => []EveryCallbackRunsIfDeleted
<1>1. StartupInv /\ CountInv => EveryCallbackRunsIfDeleted
  <2> SUFFICES ASSUME StartupInv, CountInv, ~snapshot, finalized, NEW f \in Callbacks
               PROVE  Count(called, f) = Count(registered, f)
    BY DEF EveryCallbackRunsIfDeleted, EveryCallbackRuns
  <2>1. idx = 0
    BY DEF StartupInv, Bookkeeping
  <2>2. {i \in 1..idx : slots[i] = f} = {}
    BY <2>1
  <2>3. Held(slots, idx, f) = 0
    BY <2>2, FS_EmptySet DEF Held
  <2>4. Count(called, f) \in Nat
    BY CountAppend DEF StartupInv, TypeOK
  <2>5. QED
    BY <2>3, <2>4 DEF CountInv
<1>2. QED
  BY <1>1, Invariance, InitCount, CountStep, PTL DEF Spec

=============================================================================
