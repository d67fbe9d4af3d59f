# A verification project for the Smalltalk/A virtual machine

The virtual machine compiles Smalltalk to byte code and runs it in actors, each
with a heap of its own, on a pool of worker threads. Lock-free queues connect
the actors, asks are answered through reference-counted futures, a supervision
tree restarts what crashes, and an image file carries the whole object graph
from one run to the next. These modules specify those parts in TLA+, check them
with TLC on small instances, and prove the safety of the mailbox, the deque, the
scheduler, the futures, the supervision and the method dictionaries for every
instance with TLAPS. `PROJECT.json` maps every definition to the lines it models
and lists the runs, mutants, hazards, findings and theorems.

## The system, and which module models what

| Part | Source (under `src/src/`) | Modules |
|---|---|---|
| Mailbox (multi-producer queue) | `actor/mailbox.c` | `Mailbox`, abstract `MessageQueue`; proofs `MailboxStepProofs`, `MailboxProofs` |
| Work-stealing deque | `scheduler/deque.c` | `WorkDeque`, abstract `DoubleEndedQueue`; proofs `WorkDequeProofs` |
| Scheduler, sending, termination | `scheduler/scheduler.c`, `actor/actor.c` | `Scheduler`; proofs `SchedulerProofs`, `SchedulerCountProofs` |
| Asks, futures, `Future>>wait` | `actor/future.c`, `actor/actor.c`, `vm/primitive_table.c`, `vm/interpreter.c` | `Futures`; proofs `FuturesProofs` |
| Supervision | `actor/supervisor.c`, `actor/actor.c` | `Supervisor`; proofs `SupervisorProofs` |
| Actor registry, future table | `actor/registry.c`, `actor/future_table.c` | `Registry`, `FutureTable`, with `LinearProbing`, abstract `IdMap` |
| Address tables of collector, deep copy and image | `gc/gc.c`, `actor/deep_copy.c`, `image/image.c` | `AddressTables` |
| Symbol table and immutable space | `vm/symbol_table.c`, `vm/immutable_space.c` | `SymbolTable` |
| Method dictionaries | `vm/method_dict.c` | `MethodDict`; proofs `MethodDictProofs` |
| Scanner, parser, code generator | `compiler/*.c` | `Scanner`, `Parser`, `Compiler`; inverse `Printer` |
| Interpreter, primitives, handlers, message dispatch | `vm/interpreter.c`, `vm/frame.c`, `vm/primitive_table.c`, `vm/handler.c`, `vm/eval.c`, `actor/actor.c` | `Interpreter`, `Kernel` (what bootstrap installs); reference `Evaluator`; composed with the compiler in `Language` |
| Heaps, collector, deep copy, sending arguments | `gc/gc.c`, `vm/heap.c`, `vm/frame.c`, `actor/deep_copy.c`, `actor/actor.c` | `ActorHeap` |
| Image, creation of the VM | `image/image.c`, `vm/vm.c` | `Image` |

How they meet: `Scheduler` and `Futures` use a mailbox as the queue that
`Mailbox` is shown to implement; `Scheduler` uses deques as the sequences that
`WorkDeque` is shown to implement; `Futures` uses the table as the map that
`FutureTable` is shown to implement; `ActorHeap` and `Image` use their side
tables as the maps that `AddressTables` is about. `Supervisor` works on top of
message sends. `Language` composes scanner, parser, compiler and interpreter.

### State and actions

* **Mailbox.** `chain` is the linked list from the sentinel to `tail`; a node
  whose predecessor has not linked it is in `chain` but out of reach. Producers
  go through reserve (count), swing (exchange of `tail`) and link; the consumer
  dequeues in two steps (take, retire), walks or destroys. Nodes are addresses
  that `malloc` may hand out again.
* **WorkDeque.** `top`, `bottom` and the ring, indices modulo `IndexMod` for the
  code's 2^32. Each load, store and CAS of push, pop and steal is a step.
* **Scheduler.** Per actor: state, mailbox, reference count; per worker: its
  deque and where it is in `worker_thread_main`; senders in
  `send_msg_internal`; killers in `sta_actor_terminate`; the overflow list under
  the mutex. `Outcomes` says how running a message may end.
* **Futures.** Per future: state, result, transfer heap, reference count, waiter,
  membership in the table. The asker, the replying or crashing target and the
  waiters take one shared access per step. An ask enters the mailbox in two
  steps, and before the second (`Link`) neither it nor what is behind it can be
  reached. `takes` counts who has taken a future out of the table: a waiter and
  the crash handler may both do so. A waiter that its waker and its worker have
  both queued is in two workers' hands ("twice"), and is not followed further.
* **Supervisor.** Actors are numbered as they are made; each slot has
  `current_actor` and `current_actor_id`; a supervisor handles one failure at a
  time, step by step, so that its parent can terminate it in between. The pointer
  to the actor to be terminated is loaded in one step (`Take`, `Pick`) and used
  in a later one. A restart may find no memory for the new actor, which leaves
  the slot empty.
* **Registry, FutureTable, AddressTables.** The open-addressed arrays with the
  code's hash, probing, tombstones (registry) or reinsertion (futures), growth
  and failed growth. Each operation is one action: the first two hold a mutex,
  the address tables belong to one thread.
* **SymbolTable, MethodDict.** No lock: each access of a thread that interns, of
  the writer that installs a method, and of a reader that looks one up is a step
  of its own. Arrays that growth replaces stay readable, as they do in the code.
  A growing dictionary fills its new array, which nobody else can see yet, one
  entry a step, and then publishes it.
* **Scanner, Parser, Compiler** are functions: characters to tokens, tokens to
  trees, trees to a method record with byte codes and literals. **Interpreter**
  is a function from a machine to the machine one instruction later. A machine
  has frames, handler chain, objects, C-level activations (primitives that call
  back into the interpreter) and the reductions left. **Language** starts from a
  program text, parses it, generates code, builds the method dictionaries,
  starts the machine, and then steps it, preempts and resumes it.
* **ActorHeap.** Per actor a machine with objects in a heap of a given capacity,
  frames, contexts, handler chain and mailbox. Every operation is run twice: on
  this machine, which collects, grows and moves, and on an ideal one whose heap
  never fills. What an actor does to its own heap is one step. A send is many:
  the sender estimates, grows the target's heap, reads `base` and `used` and
  stores each copy in it, and posts the message, all without a lock and with
  steps of the target in between. The copies are in nobody's root set until the
  message is linked. `fault` records that the behaviour has passed through one of
  the windows listed under *Further counterexamples*, among them every overlap
  of the two threads in one heap that loses something (issue #343 of
  `docs/PROJECT_STATUS.md:129`); the run stops vouching there.
* **Image.** Objects with typed words, symbol, special object and class tables,
  and a file that is a sequence of records. A save is a sequence of writes that
  may fail or be cut off; a load is the code's passes, in order, the last of
  which registers symbols until it is done or out of memory. Besides the file it
  saves, a VM may load an image that another VM has written.

## Runs

| Run | Shows |
|---|---|
| `mailbox` | implements a bounded queue; no use after free; an empty count is truthful; walk, order and destruction are right; an accepted message is taken |
| `deque` | implements a double-ended queue, also while the indices wrap; what is pushed is taken, unless `bottom` has wrapped to 0 above it |
| `sched_lifecycle` | an actor is run by one worker or in one queue, once, exact reference counts, no use after free, no stranded mail, with crashes, termination and stop |
| `sched_live` | mail is handled when messages end; none is lost while the deque has room for all |
| `tables` | registry and future table are maps through collisions, growth, removal and failed growth; addresses met again are found; interning alone is canonical and returns; a lookup racing an installation finds a method bound meanwhile |
| `futures` | no future freed while held, unless two have taken it out of the table; no half-written result read; what can be reached in the mailbox at a crash is failed before the drain; asks are answered and waiters run again, unless the target drops the ask |
| `futures_crash` | counterexample: an ask that is not linked at the crash, or sent after the walk, is drained with its future pending (quoted in `PROJECT.json`) |
| `supervisor` | children are not doubled; a failure is charged to the actor that failed; fewer than twice the restart limit in any window length; every crash is dealt with |
| `language` | printed programs are read back as the same tree; compiled and interpreted with preemption at any instruction they do what the evaluator says; handlers are only entered while their C frame lives; every compiled program ends |
| `heap` | outside the windows below, collecting, growing and copying are invisible to the program; arguments arrive with their shape; garbage alone never makes a heap grow |
| `image` | a complete image reads back as the graph saved; any other file is rejected; symbols stay the interned ones; a failed load leaves the tables alone, unless the file is good and memory for its symbols ran out |
| `tables_race` | counterexample: two threads that intern at once get one object for two names (quoted in `PROJECT.json`) |

### Further counterexamples

These variations are not runs of `PROJECT.json`. Each takes the configuration of
a run, changes the constants named, drops the symmetry, and checks the one
property named instead of the run's, which TLC then finds violated.
`FutureTableWrap.cfg` is a configuration of its own for module `FutureTable`.

| Variation | Of run | Changed | Property | Shows |
|---|---|---|---|---|
| mailbox-walk | `mailbox` | - | `WalkVisitsEnqueued` | the walk stops at a producer that has not linked yet and misses completed enqueues behind it; `mailbox.h:76` says "Visitor called for each." |
| mailbox-unbounded | `mailbox` | `Capacity = 0` | `EmptyIsTruthful` | with capacity 0 the mailbox always looks empty; `mailbox.h:52` offers "0 = unbounded" |
| sched-resurrect | `sched_lifecycle` | - | `TerminatedIsFinal` | a worker's plain store overwrites TERMINATED; `PROJECT_HISTORY.md:674` says the check "prevents overwriting TERMINATED with READY/SUSPENDED" |
| sched-wait | `sched_lifecycle` | `Outcomes <- Waits` | `SingleRunner` | an actor that suspends itself in `Future>>wait` can be run by two workers; `test_scheduler_mt.c:158` names "actor exclusivity (never two threads on same actor)" |
| sched-starve | `sched_live` | `Workers = {w1}`, `Outcomes <- Runs` | `ReadyIsRun` | an actor preempted again and again keeps a READY one waiting; `bytecode-spec.md:2239` says "no actor can starve the scheduler" |
| tables-wrap | `FutureTableWrap.cfg` |  | `IdsAreFutures` | future ids wrap to 0; `future_table.c:69` says "0 = no future" |
| futures-leak | `futures_crash` | - | `NoLeak` | an ask refused by a full mailbox leaks its future; `test_ask_mailbox_full.c:76` says "and not leak the future." |
| futures-release | `futures` | `Outcomes = {"reply", "crash"}` | `ConsumedOnce` | waiter and crash handler both take the future out of the table and release the table's reference; `PROJECT_STATUS.md:130` has a use after free in a crash under asks as an open issue |
| futures-wait | `futures` | `Outcomes = {"reply"}` | `WaitAnswers` | a wait suspended in OP_SEND resumes without a result; `interpreter.c:589` says "on resume, the primitive is retried" |
| futures-gone | `futures` | `Outcomes = {"crash"}`, `Retried = {v, w}` | `WaitAnswers` | a wait after the crash answers the Future instead of the failure |
| supervisor-full | `supervisor` | `MailCap = 1` | `FailureHandled` | a failure notification is lost to a full mailbox |
| supervisor-twice | `supervisor` | - | `TerminatedOnce` | a supervisor and the parent that terminates it terminate the same child, the second through a pointer loaded before the first released it |
| supervisor-orphan | `supervisor` | - | `NoOrphan` | a child restarted while its supervisor is being terminated survives |
| tables-lost | `tables` | `Which = {"addresses"}` | `AddressesFoundAlways` | the collector flags an object as forwarded although its side table could not grow |
| language-tail | `language` | `Programs <- TailReturn` | `MeansWhatItSays` | a tail call replaces the home frame of a block that returns; `bytecode-spec.md:1100` excludes such methods from tail position |
| language-wait | `language` | `Programs <- WaitsForAnswer`, `InitialFuture <- Pending`, `SPECIFICATION SpecPending` | `MeansWhatItSays` | a suspended OP_SEND is resumed behind itself |
| language-actor | `language` | `Programs <- ActorExceptions` | `MeansWhatItSays` | the blocks of `on:do:` and `ensure:` run on the root actor, where a signal does not find the handlers of the actor |
| language-ensure | `language` | `Programs <- ReturnThroughEnsure` | `MeansWhatItSays` | a return out of `ensure:` skips the ensure block and does not leave the method: the program ends in BlockCannotReturn |
| language-recursion | `language` | `Programs <- BlockRecursion` | `MeansWhatItSays` | the activations of a recursive block share one set of arguments, in the context of the home method |
| language-sums | `language` | `Programs <- LargeSums`, `SmallBits = 10` | `MeansWhatItSays` | a sum beyond SmallInteger wraps instead of failing the primitive |
| language-minus | `language` | `Programs <- TouchingMinus` | `ReadsBack` | a minus directly before a digit is always part of a literal |
| language-cut | `language` | `Programs <- NewLines` | `ReadsBack` | an expression whose last period is not followed by a blank loses its last character, the wrapper's buffer is one short; `compiler.c:117` says "copy up to and including last '.', then ^rest" |
| language-prim | `language` | `Programs <- PrimitiveMessage` | `MeansWhatItSays` | a message to an actor whose method is a primitive goes on into the fallback body and answers that |
| heap-nested | `heap` | `Scenarios <- Nested` | `GrowthKeepsRoots` | growth fixes up the expression stack of the innermost frame only; `PROJECT_HISTORY.md:586` says "with full pointer fixup" |
| heap-unlinked | `heap` | `Scenarios <- Unlinked` | `UnlinkedIsSafe` | a message copied but not yet linked is out of the collector's sight |
| heap-context | `heap` | `Scenarios <- InContext` | `SlotsStayValid` | the interpreter's slots pointer is stale after a primitive that collects |
| heap-race | `heap` | `Scenarios <- Racing` | `SameAsUnlimited` | a sender and its target allocate in the target's heap at once and get the same place; `PROJECT_STATUS.md:129` has it as an open issue, "Data race — deep copy allocates on receiver's heap from sender's thread" |
| heap-crowded | `heap` | `Scenarios <- Crowded` | `SameAsUnlimited` | a sender grows its target's heap and leaves the target's roots behind |
| heap-twice | `heap` | `Scenarios <- Twice` | `SameAsUnlimited` | the room for shared arguments is underestimated, so the sender collects the target's heap and loses the copies that no message refers to yet |
| heap-copying | `heap` | `Scenarios <- Copying` | `SameAsUnlimited` | `shallowCopy` copies from where the object was |
| heap-body | `heap` | `Scenarios <- InBody` | `SameAsUnlimited` | the handler block of `on:do:` is a C local the collector does not see |
| heap-full | `heap` | `Scenarios <- Full` | `SameAsUnlimited` | a closure is not made in a heap full of garbage |
| heap-rooted | `heap` | `Scenarios <- Rooted` | `SameAsUnlimited` | what only a class refers to is not a root |
| image-close | `image` | - | `SavedIsComplete` | a save whose last write fails in `fclose` is reported as done |
| image-crash | `image` | - | `ImageSurvives` | a crash during a save destroys the previous image |
| image-merge | `image` | `HeapCap = 16`, `ImmCap = 16` | `SymbolsUnique` | an image loaded over a running VM brings a second symbol of a name |
| image-race | `image` | - | `SnapshotReadsBack` | a program that runs on during the save gets a mixed image |
| image-half | `image` | - | `FailedLoadChangesNothing` | a load that runs out of memory for symbols (`image.c:817`) fails with the special objects and the classes replaced |
| image-grown | `image` | `HeapCap = 8` | `GrownReadsBack` | the image of a heap that has grown does not load |

### Bounds, and why they are enough

* Mailbox: two producers, two sends each, capacity 2, four nodes. Enough for a
  gap with a completed message behind it, an overshooting count, and the reuse
  of a freed node. The proofs remove the bounds for all but liveness.
* Deque: two slots, indices modulo 8, two thieves, four pushes, starting at 0 or
  just below the wrap. Full, empty and last-element races and the wrap all
  occur. The proofs remove the bounds for all but liveness, except that fewer
  items are pushed than there are indices.
* Scheduler: one actor with three senders in `sched_lifecycle`, two actors with
  two senders in `sched_live`, two workers, one message per sender. Two workers
  suffice for every race on one actor, and two actors for every queue order.
  The proofs remove the bounds for all but liveness.
* Tables: seven actor ids that collide across the end of an eight-slot table,
  which grows once; eleven futures; seven addresses in four slots that grow to
  eight and then cannot; four names in two slots that grow twice; four
  installations of four selectors against one lookup. Every table reaches the
  load at which it grows, and probes wrap around its end. The proofs remove the
  bounds for the method dictionary.
* Futures: two asks with a waiter each, one of which retries its wait, every
  outcome of an ask, mailbox of two; three asks and no waiters in
  `futures_crash`, so that a mailbox can be full. The proofs remove these bounds
  for all but liveness.
* Supervisor: two supervisors, four slots, a limit of two restarts in one second,
  four crashes over three instants: enough to fill one window and the next, and
  to exceed the limit. The mailboxes have room for every notification. The
  proofs allow any slots, limits, times and number of crashes, and full
  mailboxes.
* Language: some 130 programs, each as a method, as a message to an actor and as
  an expression of `sta_eval`, printed with three layouts: every construct of
  the grammar, every inlined selector, captures up to three levels deep, more
  than 255 literals, nested handlers and ensure blocks, returns from blocks. A
  quota of three reductions puts a preemption at every instruction that counts.
  SmallIntegers have 20 bits.
* Heap: four to nine units of 16 bytes, frames two deep, argument graphs with a
  shared object, a cycle and raw bytes, one sender and one target, up to seven
  operations, of which a send with its steps counts as one: a heap fills, is
  collected, fills again and grows, at every point of a send.
* Image: a kernel of nine objects whose words imitate references, room for five
  more, five operations: save, crash, restart, intern, save again, load. The
  image from elsewhere has a symbol that the kernel has not.

`CHECK_DEADLOCK FALSE` is used where the system may really stop: when all sends,
asks, crashes or operations of the instance have happened, or the scheduler was
stopped.

### Fairness

Weak fairness only: a thread that has begun an operation continues it (the
operating system schedules threads), a worker keeps taking work while the
scheduler runs, a supervisor with mail is run, a preempted actor is resumed (its
worker puts it back into a queue), a compiled program is started and executed.
Nothing is assumed about whether messages are sent, actors crash or anyone
terminates.

## Proofs

`MailboxProofs` proves the safety properties of `Mailbox` for any producers,
nodes, number of sends and capacity (a positive one for `EmptyIsTruthful`). The
properties are not inductive: that a producer may write through `prev` after
others have consumed depends on where its node sits in the chain. `IInv` says
that `chain` runs without repetition from the sentinel to `tail`, that each
producer about to link owns a node of the chain whose predecessor is its `prev`,
that allocated nodes are exactly those of the chain, of producers and of the
consumer, that `count` is the number of queued messages plus reservations,
refusals and a retirement under way, and that what a sender has sent lies in
order in what was taken and what is queued. The proof has one lemma per action
that `IInv` is preserved. `MailboxStepProofs` has those that leave the producers
with a reserved place as they are (failed allocation, link, take, retire, walk,
destruction); `MailboxProofs` adds those that count such producers (initial
state, reservation, refusal, exchange of `tail`) and combines the lemmas in
`MailboxInvariant`.
The other theorems follow from it, and `MailboxImplementsQueue` maps each step
to a step of `MessageQueue` or a stutter.

`WorkDequeProofs` proves that `WorkDeque` implements `DoubleEndedQueue`
(`DequeImplementsQueue`) for any thieves, any size and any width of the indices,
from `DequeAssumption`: the size divides half the number of indices, as a power
of two does, and fewer items are pushed than there are indices. Without the
latter a thief that sleeps while `top` comes round could take an old element; with
the code's 2^32 indices that needs as many pushes between two of its accesses.
The refinement needs `IInv`: the contents run from `top` to the bottom that an
operation under way has settled on, and fit in the ring; an element being pushed
has a slot of its own; the owner's locals tell how a race for the last element
stands; and a thief that finds `top` where it loaded it has read the element
that is there still. That rests on an inequality of the distance `top` has moved
since the load, the number of elements, and the number pushed.

The futures are proved for any number of asks and waiters, any capacity of the
target's mailbox and any set of outcomes, from `FuturesAssumption`, in
`FuturesProofs`.

* Settling. The invariant `SInv` says that only the target settles, one
  future at a time: a future in RESOLVING or FAILING is the one at hand, one in
  a final state has its value, only asks that were sent are known to the target
  or a waiter, and a waiter that copies does so from a final state.
  `SettleInvariant` proves it, and `FuturesSettleOnce` that no step changes a
  settled future's state or value; `FuturesReadSettled` adds that a transfer heap is
  only taken by the waiter of its future and concludes `ReadsSettled`. It assumes
  `OneWaiter`: no two actors wait for one future.
* Crashing. `CrashFailsAllPending` proves `CrashFailsPending`, with any waiters
  and without `OneWaiter`. Every ask that is due is settled, at hand, or still
  ahead of the walk's index in the mailbox, where no message before it is
  unlinked, and what has left the table was settled before. Asks out of reach at
  the crash are not due, and may stay pending (`futures_crash`).
* Reference counts. `FuturesRefsCover` proves `RefsCover` for any waiters and
  outcomes, several waiters for one future and crashes included. `RefsCover`
  itself speaks of the futures that have been taken out of the table once at most
  (`TakenOnce`): the second to take one out releases the table's reference again
  (variation futures-release). The strengthening ties `takes` to the table: a
  future sent and not taken is in the table, and nobody is releasing its table
  reference; of one taken once, either the target or a waiter is, not both.

The scheduler is proved for any number of actors, workers, senders and
messages, any capacities and any set of actors that may be terminated, stopping
included, from `SchedulerAssumption`. `SchedulerProofs` has the argument about
mail and, action by action, that about places; `SchedulerCountProofs` adds what
counts, the room in the deques and the references.

* Mail. `MailIsSeen` proves `NoStrandedMail`. The invariant `MailOK`
  says who has seen the mail of a sleeping actor: a sender that has yet to wake
  it or the worker that put it to sleep and has yet to look again; for an actor
  never run before, a sender. It assumes that no actor suspends itself in
  `Future>>wait`, which leaves an actor with mail asleep on purpose.
* Places. The invariant `PlaceOK` (lemmas in `SchedulerProofs`) says that an actor has one
  place at most: with one sender that is about to queue it, in one deque or the
  overflow list, once, or with one worker from the claim to the push; an actor
  that may be woken has none. `ActorsQueuedOnce` concludes that it is queued or
  run once (`QueuedOnce`, `SingleRunner`), also when deques are full. It makes the
  same assumption, without which both are false (variation sched-wait).
  `ReadyQueuedExactlyOnce` proves `RunnableOnce`, for which the deques need room
  for all actors: the code ignores a push that fails.
  That a push then never fails is part of the proof, since a deque has no
  actor twice and not the one being pushed.
* References. `CountsExact` proves `RefsExact` and `FreedUntouched`
  proves `NoUseAfterFree`, both without any further assumption: with full
  deques, with termination at any moment, and with actors that suspend
  themselves, where an actor may be queued twice. The count is a sum of
  cardinalities, one for each kind of reference; each step moves one element of
  one or two of these sets (`CountMove`). A freed actor has count 0, and
  so all the sets are empty.

`SupervisorProofs` is about the tree of the module, a root and one supervisor
below it, for any slots, strategies, limits, mailbox capacities, times and
number of crashes, from `SupervisorAssumption`.

* `SlotsHaveOneActor` and `FailuresAreTheirOwn` prove `OneLivePerSlot` and
  `HandlesOwnFailure` from `TreeOK`: a live actor is the one its slot names or
  the one its supervisor is about to publish there (`LiveOK`); while a child is
  being replaced its slot names no live actor (`JobOK`); a slot's pointer and id
  agree unless the pointer was cleared by the termination of its supervisor; the
  pointer loaded for a termination is that of the slot's id still, when it is
  used; and a supervisor only works on slots of its own list (`ListOK`).
* `RestartsAreLimited` proves `IntensityBound` from `WindowOK`: the restarts of
  the current window are the last `count` ones, of which the first is its start,
  and any restart `MaxRestarts` or more before that is out of the reach of the
  window. A count beyond the limit means that the supervisor has given up.

`MethodDictProofs` is about one thread that installs methods while any number
look them up, for any selectors, hash values, first capacity and number of
growths, from `Constants` (a selector is not the null pointer, a hash is a
natural number). `DictionaryCurrent` proves `MethodsCurrent`. A lookup works
with the array it loaded first, so the invariant `IInv` (`DictionaryInvariant`)
speaks of every array there ever was:

* in each, the search for a selector it holds reaches it (the slots before are
  taken), and an empty slot has no method (`ArraysOK`);
* the dictionary's array gives what is bound; while raw_insert has stored the
  key and not the method, it gives nil for that selector (`BoundOK`, `WriterOK`);
* the array being filled has exactly the entries already moved (`RehashOK`), so
  that its publication changes no answer;
* the tally counts the taken slots, and the load limit leaves one free, so that
  every search ends (`TallyOK`);
* what the array of a lookup gives for its selector was bound at some moment
  since the lookup began, the slots it has passed are taken by others, and its
  array is not the one being filled (`ReadersOK`).

That an empty slot exists from the count, and that a search has a first slot
where it ends, are the lemmas `Room`, `AtCovers` and `Least`. The registry and
the address tables probe the same way, but hold a lock or belong to one thread,
and so rehash within one action: what that fold computes takes induction.

Only model-checked: liveness (no fairness or ENABLED in the prover); what
recursive definitions compute (future table, scanner, parser, compiler,
interpreter, collector, image); and the registry, the address tables and the
symbol table.

## Not modelled

* Memory orders weaker than sequential consistency. Where the code relies on
  release and acquire only, as `Future>>wait` does between its store of
  `waiter_actor_id` and its recheck, further outcomes are possible.
* String, character and reflection primitives, class definition, and file-in
  beyond the installation of a method: sequential conversions of data.
* Bootstrap: a fixed sequence that runs once, before any thread does. `Kernel`
  states what it installs as far as programs of the runs use it.
* The event table, handles and the teardown order of the virtual machine.
* Failing allocations, except where the code has a path for them that changes
  shared state.
* Compositions of `Supervisor` with `Scheduler` (the store of CREATED in
  `restart_child`) and of `Futures` with `Scheduler` (waking while stopped).
* The spikes, superseded by the production code.
