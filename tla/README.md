# A TLA+ model of mpicxx

mpicxx (`src/include/mpicxx`) is a header-only C++ layer over MPI. Its own logic
is small but stateful: who frees an MPI info object, how a `std::map`-like
container is built on a library that numbers keys as it likes, what an iterator
refers to after its object was modified or moved, which callbacks run when the
environment is torn down, and how spawners keep their parallel lists consistent.
The MPI library is modelled from how these headers use it and is marked external in `PROJECT.json`.

## 1. Inventory

| Part | State | Operations | Modelled by |
| --- | --- | --- | --- |
| `info`: ownership (`info/info.hpp`) | `info_`, `is_freeable_` per object; handles inside MPI | 4 kinds of constructors, wrapping constructor, 3 assignments, `swap`, destructor | `InfoLifecycle`, `InfoValue`, `InfoLifecycleRefinement` |
| `info`: container | values and numbering of the keys inside MPI | insert, insert_or_assign, clear, erase, erase_if, extract, merge, find, contains, count, equal_range, at, operator[], proxy, operator==, keys, values | `InfoContainer`, `InfoMap` |
| `info`: iterators | `info_` (a pointer to the member), `pos_` per iterator | begin/end, copy, ++ -- += -=, operator[], operator*, comparison, difference | `InfoIterators` |
| environment (`startup/init.hpp`, `finalize.hpp`, `mpicxx_main.hpp`) | MPI's two flags; `atfinalize_lookup_callbacks`, `atfinalize_idx`; attributes of `MPI_COMM_SELF` | initialized, finalized, active, init, finalize, atfinalize, `mpicxx::main` | `Startup` |
| `single_spawner` | command, argv, info, maxprocs, root, communicator | setters that assert, spawn | `SingleSpawner` |
| `multiple_spawner` | the same as parallel vectors, and their length at construction | constructors from lists and from spawners, setters for all commands and for one, access by index, spawn | `MultipleSpawner`, `CommandList` |
| `spawn_result` | intercommunicator, error codes | counts, error lists | `SingleSpawner` (not `parent_process`, a stateless query) |
| assertions, exceptions | the assertion level of the build | check, print, abort | `Precondition`, `Sanity`, `Continue` of `SingleSpawner`, guards of the other modules' actions; output not modelled |
| `runtime_info`, `version`, `clock` | none | stateless MPI queries | not modelled |
| conversion, concepts, utility | none | compile-time and formatting | not modelled |

How the parts interact. Iterators and proxies hold a raw pointer to the `info_`
member (or a copy of the handle) of an `info` object and are never told what
happens to it. Spawners copy `info` objects. A multiple spawner is made from
lists or takes over what single and multiple spawners hold. `atfinalize` goes through MPI: the
library calls `atfinalize_delete_fn` back from inside `MPI_Finalize`, once per
attribute. `mpicxx::main` wraps the application's code between `init` and
`finalize`. `active()` may be called by any thread at any time.

What is hard. There is no locking and no persistence; the difficulty is

- **long legal sequences**: copies, moves, views and assignments must never give
  one MPI object two owners or none, while MPI recycles handles;
- **stale state**: copy assignment frees before it reads its argument, iterators
  outlive what they were made for, a proxy reads by inserting;
- **order inside loops**: `clear`, `erase_if`, `merge` enumerate by number keys
  that each modification may renumber;
- **checks one by one**: a spawner's setters test each argument alone, against
  whatever the others are at the time; a multiple spawner's vectors are kept in
  step by assertions alone, and an index is compared with the size they once had;
- **partial failure**: a predicate or an input iterator throws in mid-loop,
  `init` throws with the environment initialized, the application throws;
- **callbacks**: a finalize callback registers another one while the library
  walks the attributes, sharing one stack of slots;
- **interleaving**: `active()` is two reads, and another thread may initialize or
  finalize between them.

What makes each part correct is listed with its runs below; `PROJECT.json` lists
the hazards line by line with the properties that answer them.

## 2. Plan

| Step | Modules | State |
| --- | --- | --- |
| 1 | `InfoLifecycle`, with `OwnershipInv` proved | done |
| 2 | `InfoValue`, the abstract value type, and `InfoLifecycleRefinement`; refinement proved | done |
| 3 | `InfoMap` (what a `std::map` does) and `InfoContainer` implementing it; the refinement proved | done |
| 4 | `InfoIterators`; `Startup` with `StartupInv` proved | done |
| 5 | `SingleSpawner`: setters checked one by one against a `spawn` that checks them together; `set_maxprocs`, which asserts the old value; root against communicator; the counts of `spawn_result`; proved | done |
| 6 | `MultipleSpawner`, composed with `SingleSpawner`: the parallel vectors, `total_maxprocs` on a fixed-width int, the argv buffer handed to MPI; `CommandList`, the list of commands it implements; the setters and the refinement proved | done |
| 7 | Comparison of iterators; `InfoIterators` and the safety properties of `Startup` proved | done |
| 8 | proofs of what was model-checked only: the loops of `InfoContainer` and its refinement of `InfoMap`, the refinement of `CommandList`, the results of `MultipleSpawner`'s `spawn` | done |
| 9 | Overlapping calls of `atfinalize`; info objects that outlive `finalize` | if a promise about them is ever documented |

Every module meant for proofs is free of RECURSIVE operators, takes its
parameters as CONSTANTS with named assumptions and has one action per operation.

## 3. The modules

### InfoLifecycle

`store` is the library (contents of each handle or `Freed`), `info` and
`freeable` the two members of the object at each address (`Raw` when there is
none), `user` the raw handles the client must free itself. A fresh handle is any
freed one, so handles are recycled at once. Contents are opaque; all modifiers
and the proxy collapse to `Modify`. The delegating constructors are one action
`Construct(o, c)`: the object is not visible before its pairs are inserted.
`erroneous` records MPI calls on a handle naming no MPI object; the assertions in
front of them are not assumed to be compiled in.

The client is restricted in two ways, as the docs require of it: an object that is
a view is read only while its target exists (`Usable`), and, when
`AliasedAssign` is FALSE, an object is not assigned to from another object with
the same handle whose release would take the argument away (`Aliased`). The run
`aliased` lifts the second restriction.

### InfoValue and InfoLifecycleRefinement

What a client sees who never looks at handles: each object holds contents, is
empty after a move, is a reference, or does not exist. No operation changes the
value of an object it is not applied to; only writing through a reference may
change at most one other value. `ValueOf` is the refinement mapping.

### InfoContainer and InfoMap

`value` and `order` are the library's pairs and their numbering. `SetKey` and
`DeleteKey` choose a new numbering: any at all, or, if `stable`, the one that
appends and closes gaps (`ClosedUp`). Which kind of library it is, is chosen in `Init`, so
that every run covers both. A member function without a loop is one action. One
that loops over library calls (`insert` of a range, `clear`, `erase` of a range,
`erase_if`, `merge`) has an activation record `call` and takes a step per
iteration, in the order of the code, its second loop included; the iterator of
an inserted range and the predicate of `erase_if` may throw before an iteration.
The record holds the request, the loop's variables and, as history, what the
objects held when the call began. `last` records the last request that ended and its answer.

`InfoMap` states in one step what each request does to a map from keys to values
and what it answers; an exception of a callback may leave a prefix of the range
(insert) or nothing at all (`erase_if`). While a call runs, the map of the
refinement mapping is the one before it; the call takes effect when it returns or
throws. Copies, moves and wrapping are the business of `InfoLifecycle`; here
every object refers to an MPI object of its own. Lengths of keys and values
(asserted against `MPI_MAX_INFO_KEY` and `MPI_MAX_INFO_VAL`) are not modelled.

### InfoIterators

An iterator is `target` (the address of the object, standing for the pointer to
its `info_` member) and `pos`. The guards are the assertions of the code
(categories SANITY and PRECONDITION on): a call whose assertion fails ends the
program. The info objects are created, modified with any renumbering, copied,
moved, swapped and destroyed meanwhile. `stale` is history: it marks iterators
into an object that was changed since they were obtained. Movement is allowed
for stale iterators, `operator*` too; `operator[]` only for fresh ones, because
its assertion (`info.hpp:733`) does not compare negative offsets with the size:
without that restriction on the client, a stale iterator can go beyond the end
of an object that has shrunk and ask MPI for a number no key has. Comparison and
difference change nothing; they are operators, and `ComparisonsAgree` says in
every state what they would answer. The conversion of an iterator to a
const_iterator is a copy; reverse iterators are the standard library's.

### Startup

`pc` is the main thread inside `mpicxx::main`: `start`, `func` (the
application's code), `unsupported` (the handler), `finalize` (inside
`MPI_Finalize`), `callback`, `returned`, or `left` by an exception nobody handles.
`overload` is the overload called, with or without a thread support level; the
ones with and without `argc`/`argv` differ in nothing modelled. `slots` and
`idx` are the array of `atfinalize` and its index. MPI deletes the attributes of
`MPI_COMM_SELF` in the reverse order in which they were set (MPI 3.1, 8.7.1) and
calls `atfinalize_delete_fn` for each (`Delete`). What the library does with an attribute
that a callback sets while it walks them is not laid down: `snapshot`, chosen in
`Init`, covers both kinds. Other threads run `active()` as two steps.
The precondition assertion of `atfinalize` at the limit is taken to be off, so
that `Push` shows the early return as well. `registered`, `called`, `nested` (how
many of the registered functions were registered by callbacks, the last ones) and
the `seen` of a query are history.

### SingleSpawner

`spawner` holds the six members; `level` is the assertion level the program is
built with, `universe` the answer of `universe_size()`. A setter is one action,
in the code's order: the constructor and `set_command` assign and then test, the
others test and then assign, `add_argv` tests and appends one argument after the
other. A failing assertion ends the program (`pc` is `aborted`). An assertion
may itself call MPI (`legal_root` asks for the size of the communicator);
`erroneous` records those calls and `MPI_Comm_spawn` when an argument is illegal.
`Spawn` leaves a `result` with or without error codes. What MPI does is external:
it starts any number of processes up to `maxprocs` (a soft spawn), writes one
code per process, and on failure may write none (`Written`). Texts of
`error_list` are not modelled, the number it begins with is (`FailedSpawns`).
The arguments of an assertion's message are evaluated before the assertion is
tested; so `set_root` asks for the size of the communicator whatever the root.

### MultipleSpawner and CommandList

`multi` holds the members: four sequences, `size` (`size_`, the number of
commands at construction), root and communicator. `MultipleSpawner` extends
`SingleSpawner` and is its client: `Convert`, `Combine` and `Extend` make a
multiple spawner of the single spawner, of it and a fresh one, and of a multiple
spawner and a fresh one, in either order. The parts of a setter follow the code:
the overloads for ranges, initializer lists and packs are one action per setter,
with the outcomes of `legal_number_of_values` as `Counts`. They differ where
overload resolution takes the assertion elsewhere. For two C strings it picks the
overload for iterators, and the assertion compares the distance of two literals:
any outcome (`CountsOfNames`). For a pack of one vector of arguments it picks the
overload for lists of values, and the assertion compares the number of arguments
with the number of commands (`CountsOfRows`): one argument list may pass for two
commands, of which it then changes the first, and a legal one may fail. Not
modelled is `add_argv` with two C-style arrays, which calls the overload for an
iterator range (line 454) with pointers into different arrays.

`Entry` is what all functions with an index share: `size()` asserts that all
vectors are equally long, `InRange` is the range check, which throws, and then
the vector is accessed without a further check. An index past its end is undefined
behaviour: the program crashes (`mpc` is `subscript`) or nothing visible happens
(`Stray`). In the same way a write past the array of pointers made in
`spawn_impl` crashes (`argvs`) or does no harm. The third such access is in the
assertions about the numbers. Their message, which is made whether they hold or
not, is given the entry at the index of the first illegal number, and when all are
legal that is one past the end: `set_maxprocs`, `set_maxprocs_at` and `spawn` do so
in every legal call, at the assertion level that compiles the assertion in. The
reference is not read; a hardened standard library ends the program (`message`,
`StrayMessage`), and otherwise the call goes on. A call that throws
`std::out_of_range` changes nothing and is no step. A failing assertion ends the
program, and the members are dropped from the state.

`CommandList` is what a client means by a multiple spawner: a list of entries,
of which an operation changes one field, in all entries or in one, or to which it adds one
at either end. `Zipped` is the refinement mapping; with all assertions on it is
defined as long as the vectors are in step.

## 4. The runs

| Run | What it checks | Bounds and why they are enough |
| --- | --- | --- |
| `lifecycle` | types, `OwnedIsLive`, `SoleOwner`, `NoLeak`, `NoErroneousCall`; `ImplementsValue`; `AssignedIsValid` | 3 objects, so that two owners and a view on the same handle meet; 4 handles, so that each object and the client may own one; 2 contents, to tell a copy from its source |
| `aliased` (violation) | `AssignedIsValid` with aliased assignment | the same |
| `containers` | `ImplementsMap`, `NoErroneousCall`, `MergeLosesNothing`, `EraseReturnsFollower`, types | 2 objects, 3 keys, up to 2 keys each and 3 together: keys present in either, both or none, and an object whose two keys are renumbered while the third is inserted or merged; inserts of up to 2 pairs, equal keys included; predicates on the value, on key and value, and always |
| `past_the_end` (violation) | `EraseAssertsPosition` | 1 object, 2 keys |
| `iterators` | `FreshInRange`, `ComparisonsAgree`, `NoErroneousCall`, types | 2 objects, 2 iterators, 3 keys; offsets from -3 to 3, so that every way past either end occurs |
| `transfers` (violation) | `TransfersKeepIterators` | 2 objects, 1 iterator, 2 keys |
| `spawners` | `SettersKeepLegal`, `MSettersKeepLegal`, `NoErroneousCall`, `EntriesInBounds`, `ErrorsAddUp`, types; `ImplementsList` | assertion levels 1 and 2 (at level 0 the properties promise nothing); numbers -1..2 and a universe of 1 or unknown, so that each is too small, legal or too large; communicators of 2 and 1 processes, so that root 1 is legal in one of them; up to 2 arguments, so that an illegal one comes first or second; 2 commands, the fewest that can be out of step or out of order, and lists of 1 and 2 entries, so that a list fits, is too long or too short, and one list of 0 to 2 arguments, so that the number of arguments fits although that of lists does not, and the other way round; an int of 3 bits, of which two legal numbers overflow |
| `argv_buffer` (violation) | `ArgvFits`: spawning stays within the array of argument pointers | the same |
| `set_maxprocs` (violation) | `SettersSuffice`: with all assertions, what the setters let pass can be spawned | the same |
| `startup` | all safety properties of `Startup` and `TornDown` | 3 slots and 4 registrations: the array fills up, empties partly and is filled again by callbacks; 2 functions; thread support 0..2, so that it is exceeded, met and missed; 1 thread with two reads (queries of different threads do not interact) |
| `throwing_main` (violation) | `LeavesFinalized` | the same |
| `nested_callbacks` (violation) | `EarlierCallbacksRun`: no function registered before `MPI_Finalize` is left out, on any library | the same, without exceptions |

Named bounds: `MaxPairs` (pairs of one insert), `MaxHeld` (pairs held by all
info objects together), `MaxCalls` (calls of `atfinalize`), `MaxArgs` (arguments of
a command), `MaxCommands` (commands of a multiple spawner) and `IntMax` (the
largest int). From three commands on, a sum of legal numbers may wrap around to a
legal total, which no assertion notices: `NoErroneousCall` is a statement about
two commands there, and its theorem has a hypothesis (`NoFalseTotals`, section 6).
All other sets are finite by nature of the constants.

The container runs use a VIEW that leaves `last` out: no action reads it, it is
only written, and the properties that mention it are action properties, which TLC
evaluates on every step it generates. Symmetry is used only in runs that check
safety, on sets no definition distinguishes the members of: objects, handles,
keys, iterators. The run with the liveness property, `startup`, uses none.
Deadlock is checked in every run but those of the spawners, where a failed
assertion ends the program.

**Fairness.** Only `TornDown` needs it: weak fairness of the main thread's own
steps (`Main`). It says that the operating system goes on running the main
thread, that the application's function and the callbacks return or throw, and
that `MPI_Finalize` completes. No fairness is assumed of other threads, and none of
the throwing of exceptions, which is why `TornDown` has to except it.

## 5. What the runs found

- `aliased`: `operator=(const info&)` recognises self-assignment by address. If
  the argument is a view on the target's own handle, the target is freed and the
  freed handle duplicated.
- `past_the_end`: `erase(end())` passes the assertion that the doc and a death
  test rely on, since `info_iterator_valid` accepts `pos == size()`.
- `transfers`: the docs of `swap` and of the moves promise that iterators follow the
  MPI object; they hold the address of the member and stay with the C++ object.
- `set_maxprocs`: the setter tests the number it is about to replace. An illegal
  number is accepted, against the doc and a death test; the next call, a legal
  one, aborts, unless `spawn` does.
- `argv_buffer`: the array of pointers for the arguments is as long as there are
  arguments, while a null pointer is stored behind those of every command; the
  comment above it counts them in. Every spawn of several commands with any
  argument writes out of bounds.
- `throwing_main`: an exception of the application's function leaves
  `mpicxx::main` without `MPI_Finalize`, against the header's introduction.
- `nested_callbacks`: the delete callback calls whatever slot is topmost. A
  function that a callback registers takes the slot just freed; if the library
  does not delete the new attribute, the next deletion calls it in place of the
  function below. In the run `f` and `g` are registered, `g` is called first and
  registers itself again, the second deletion calls `g`, and `f` never runs. It
  takes two functions registered before `MPI_Finalize`: with one, the function
  left out is the nested one.

## 6. The proofs

All theorems hold for every value of the constants that satisfies the named
assumptions: sentinels differ from ordinary values, `EnvContents` is some
contents, limits are naturals, a predicate is a set of pairs, the numbers that
clients pass are ints. Every safety property and every refinement that a passing
run checks is stated by a theorem; the hypotheses a theorem has beyond that are
named below, each with the reason why it is needed.

- **InfoLifecycleProofs.** `Ownership`: `OwnershipInv`, that is `TypeOK`,
  `OwnedIsLive`, `SoleOwner` and `NoErroneousCall`, is invariant. None is
  inductive alone: freeing keeps the other owners' handles alive only because they own
  different ones, and a fresh handle has no second owner only because owned
  handles are live.
  `Typed`, `OwnersAreLive`, `OwnersAreAlone` and `NoErroneousCalls` state its
  parts, and `NothingLeaks` proves `NoLeak` on top of it. `AssignmentsAreValid`
  (`AssignedIsValid`): the target of a copy assignment is valid afterwards exactly if
  the argument was, because the release of the target leaves it alone.
  All theorems of this module and of InfoValueProofs have the hypothesis
  `~AliasedAssign`: with an aliased assignment a freed handle is duplicated, as
  the run `aliased` shows.
- **InfoValueProofs.** `Implementation`: initial states map to initial states and
  every step maps to a step of `InfoValue` or a stutter, one lemma per kind of operation, each
  with the invariant as a hypothesis. The invariant is what makes the mapping
  work: writing to a handle changes the value of its owner and of nobody else.
- **StartupProofs.** `Invariance` of `StartupInv`: the attributes are as many as
  the slots in use (`Bookkeeping`), and without nested registration the slots
  hold exactly what was registered and not yet called (`SlotsHoldRest`). From it
  follow `ReverseOrder` (`CallbacksInReverse`) and `EnoughSlots`
  (`SlotsSuffice`), for any capacity of the array; the latter also with nested
  registration and on either kind of library. `EnvironmentInv` (the environment is
  there from `init` to the end of `finalize`) gives `CallbacksActive` and
  `Supported`. `QueriesInv` says what a thread between the two reads of `active()`
  has seen; since the environment is initialized once and finalized once, the
  answer was true at some moment (`Linearizable`). `EveryCallback`
  (`EveryCallbackRunsIfDeleted`) rests on a count, `CountInv`: of each function,
  as many copies were registered as have been called and are in the array
  together. Every deletion calls one slot, so when no attribute is left none is in use.
- **InfoContainerProofs.** `Invariant` of `ContainerInv`, on a library that
  renumbers the keys on every modification. `Numbered`: the numbering of an
  object lists each of its keys once. `Progress`: how far the running call has
  got. `clear` has deleted as many keys as it has made iterations, which is why
  asking for number 0 is right every time. `erase` of a range, `erase_if` and
  `merge` collect keys first and delete them later, and share one invariant: the
  keys still to delete (`Left`) are among those that the request says are to go
  (`Doomed`). In the first loop nothing is deleted, the numbering stands, and `Left`
  is the part of `Doomed` numbered so far (`Collecting`); in the second the object
  is as it was but for the part of `Doomed` no longer in `Left` (`Deleting`). For
  `merge`, `Copied` says what the target has received. From it follow
  `TypeCorrect`, `NothingLost` (`MergeLosesNothing`) and `NoError`
  (`NoErroneousCall`). The last has the hypothesis `PastTheEnd = FALSE`: a client
  that erases at `end()` does make an erroneous call, as the run `past_the_end` shows.
  `ReturnsFollower` (`EraseReturnsFollower`) needs one thing more, `InPlace`: on a
  stable library the erased range closes up around its first position. The
  part about `erase` of one position is a single deletion (`ClosedUpFacts`).
- **InfoMapProofs.** `Implementation` of `ImplementsMap`, under `PastTheEnd =
  FALSE`: initial states map to initial states, every step of a loop but its last
  maps to a stutter, and a step that ends a call to the one step of `InfoMap`
  that its request asks for, with its answer. `Follows` is the invariant this takes beside
  `ContainerInv`: a call changes no object but its own, and after n pairs of an
  insertion the object is what the first n pairs make of it. `InfoMap` says what
  pairs with equal keys do by the first or the last position of a key; what one pair more changes
  is shown by `FirstFacts` and `LastFacts`, which rest on the least element of a
  set of naturals.
- **InfoIteratorsProofs.** `Invariance` of `IteratorInv`: types, `FreshInRange`
  and `NoErroneousCall`. Each assertion compares a new position with one end of
  the range; that the old position is within the other is the invariant.
  `ComparePairs` follows because a list of keys has no duplicates.
- **SingleSpawnerProofs.** `Invariance` of `SpawnerInv`: types, `CommChecked`
  (at either assertion level no setter lets the null communicator pass),
  `SettersKeepLegal` and `NoErroneousCall`. `CommChecked` is what makes it
  harmless that `spawn` asks for the size of the communicator before it tests it
  for null. On the types rests `AddsUp` (`ErrorsAddUp`), by counting the codes,
  for any number of processes; it trusts `Written`, the external part. The counting
  is in lemmas of its own, `CodesAddUp` and `NextAddsUp`, which the multiple spawner uses too.
  `NextKeeps` states the part about the members, `MembersInv`, by itself, for
  the client that also makes multiple spawners.
- **MultipleSpawnerProofs.** `MultiInvariance` of `MultiInv`, for lists of any
  length and any ints: `MembersInv`, `MTypeOK`, `MSettersKeepLegal` and
  `EntriesInBounds`. The vectors may get out of step even with all assertions
  (`commands_` from two C strings), so "all equally long" is not inductive. What is:
  `argvs_` always has `size_` rows, and so do the vectors whose new values are
  counted. `SizedLengths` concludes that if `size()` finds no difference all have
  `size_` entries, and `EntryInv` that an index below `size_` is then one of the
  vector; the other half of an entry's setter is a new value of a legal vector.
  `SubscriptsInBounds` (`EntriesInBounds`) is about the indices that clients pass
  and constructors count up to. It does not say that no legal call ends the
  program: the subscript in the assertion message does leave the vector, and the
  step that ends the program there is a case of every proof of this module.
  The constructors that join spawners are proved on parts (`PartOK`: legal but for
  the total, which `Joinable` tests). This part never expands `TotalMaxprocs`: it
  does not depend on how the sum overflows.

  `OneList` (`ImplementsList`): while all vectors have `size_` entries (`Even`)
  the members are one list (`Zip`), an operation on one vector is one on a field
  of the list, and two spawners joined vector by vector are the two lists one behind the
  other (`ZipJoin`). With all assertions on, `size()` or the joining
  constructor aborts before vectors out of step are used.

  The results of `spawn`. `ResultsTyped` (`TypeOK`) and `SingleLegalThroughout`
  (`SettersKeepLegal`) hold throughout the composition at any assertion level. For
  `MNoErroneousCalls` and `MAddsUp` the total counts. `SumOf` is a recursive
  function on sequences; that it exists and obeys its definition
  (`SumOfDef`) is proved from the least length at which it would not, and
  `SumOfBounds` bounds it by the number of its summands. `WrapOnce` is what an int makes
  of a sum of at most twice its maximum: the sum itself or a negative number. The
  invariant is `PassingInv`: the numbers are those clients pass, and at either
  assertion level there is a communicator and at least one command. Both
  theorems have the hypothesis `NoFalseTotals`: at most two commands, or numbers
  so small that their sum fits an int. Without it three legal numbers may
  wrap around to a total that `legal_maxprocs` accepts and that is not their sum.
  `MAddsUp` (`ErrorsAddUp`) also excludes assertion level 0, at which vectors
  longer than `size_` and negative numbers may be spawned, for which the counts
  of `spawn_result` promise nothing.

Only model-checked: `TornDown`, the liveness property of `Startup`, since fairness and
`ENABLED` are beyond the provers used here. The properties of the
violation runs are false of the code and shown so by TLC.

## 7. What is not modelled

`parent_process`; getters without state; `init` and `finalize`
called outside `mpicxx::main`; `abort`, which ends the program; concurrent calls
of `atfinalize`, which is not documented to be thread safe; info objects used after
`finalize`, which its doc forbids; output of assertions and exceptions; string conversions;
stateless queries; compile-time constraints; the build system.
