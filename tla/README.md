# TLA+ models of the concurrent containers, the thread pools and the lessons

The repository is a course on concurrent programming in C++. It has three
layers:

| layer | where | what it is |
|---|---|---|
| containers | `src/threadsafe_containers/` | fourteen headers with a test each: the finished forms of the stacks, queues and rings |
| thread pool | `src/thread_pool.h`, `src/test.cpp` | a fixed pool of workers with a draining shutdown |
| course days | `src/concurrent/day01-*` … `day24-*` | one directory per lesson: earlier forms of the containers, pools, actors, channels, parallel algorithms, interruptible threads, broken programs to debug |

The containers and the pool are modelled one by one. Of the course days, those
with a protocol of their own (the pools, the sorter, the cash machine, the lists, a ring)
have a module each; the others are programs of a few threads, and are written
down as such for one of two machines that run them.

## Inventory

State, operations and what is hard about each modelled component. The
containers are called directly by any thread and share nothing with each other;
how the parts of a pool, of the actors and of a lesson interact is said in their
rows.

| component | state | operations | what is hard | what makes it correct |
|---|---|---|---|---|
| `stack/lock_free_stack.h` | `head_`, hazard records, `reclaim_list_` | push, pop, delete_without_hazards | a pop dereferences a node another pop deletes; addresses come back (ABA); two threads reclaim at once; records run out | no use after free, every node in one place, linearizable stack |
| `stack/ref_count_stack.h`, `single_ref_stack.h` | `head` = {external count, pointer}, internal count per node | push, pop | the last of several pops deletes the node, whoever won | counts come out exact, no use after free, linearizable |
| `stack/lock_free_stack_threadcount.h` | `head_`, `to_be_deleted_`, `threads_in_pop_` | push, pop, try_reclaim | a thread enters pop between the test of the count and the deletion; lists are chained back concurrently | as above |
| `stack/waitable_stack.h`, `queue/mutex_queue.h` | a std container, one mutex, one condition variable | push, try_pop, wait_and_pop | who gets a wakeup, and a wakeup spent on a call that throws | nobody sleeps next to a value |
| `queue/mpmc_lockfree_queue.h` | `head_`, `tail_`, hazard records, `reclaim_list_` | push, pop | helping with a lagging `tail_`; pointers read at different times | no use after free, no null read, FIFO |
| `queue/mpmc_refcount_queue.h` | `head`, `tail` with external counts; per node an internal count and the number of external counters | push with helpers, pop | two external counters fold into one internal count in any order; helpers finish each other's pushes | exact counts, no value lost, linearizable |
| `queue/spsc_linked_queue.h` | linked list with a dummy node | push, pop | publication order of node and `tail_` | no shared node, none lost, linearizable |
| `queue/threadsafe_queue_ht.h` | linked list, head mutex, tail mutex, condition variable | push, try_pop, wait_and_pop | the two sides hold different mutexes; the notification is sent under neither | a pop takes a filled node, FIFO, waiters wake |
| `ring_queue/spsc_lockfree_queue.h` | array, `head_`, `tail_` | push, pop | stale indices, one slot left empty | no data race, FIFO, full/empty exact |
| `ring_queue/mpmc_ring_queue.h` | array with a sequence number per slot, two positions | push, pop | a claimed slot is not published for a while | one thread per slot, capacity kept, FIFO by claims |
| `ring_queue/spinlock_circular_queue.h`, `circular_queue.h` | raw storage, `head`, `tail`, a lock | push, pop | lifetime of the objects in the slots | objects live exactly between head and tail, FIFO |
| `thread_pool.h` | `tasks`, `stop`, workers | submit, work_loop, shutdown | lost wakeups; the destructor while tasks run and submit | no wakeup lost, drained on return, every accepted task runs |
| `day16-threadsafelist` | a mutex and a `next` per node; the second list a pointer to its last node with a mutex | push_front, push_back, for_each, find_first_if, remove_if, remove_first, insert_if | walks overtake nothing but pushes go on around them; the mutex of the last node is chosen before it is held | no node used after its removal, none lost, a walk sees all that stays |
| `day12-circularque` `CircularQueLight.h`, `CircularQueSync.h` | array, `_head`, `_tail`, `_tail_update` | push, pop | a slot is claimed before it is written and read before it is given up; indices wrap | no two pushes on a slot, values in the order of the claims |
| pools of days 7 and 22 | a queue per pool or per worker, `bstop`, workers; the stacks of calls of their tasks | commit, the worker loops (waiting, polling, stealing), Exit, destructors; sorts and loops on top of them | tasks that wait for tasks of the same pool; a stop between a worker's test and its sleep | results right, nothing waits for ever but for these two reasons |
| `day19-parallensort/sorter.h` | a stack of chunks with a promise each, a vector of threads, `end_of_data` | do_sort, try_sort_chunk, sort_thread, the destructor | a sorter that waits for its chunk sorts others on top of its own calls; the vector has no mutex | the list sorted, no circle of waits, nobody in do_sort when the sorter goes |
| `day08-actor/Actor` | a queue per actor, the state of the cash machine, PIN, balance | keys and cards of a user, the handlers of each state | a cancellation crosses the answer of the bank | no money lost, no PIN accepted, but by such a cancellation; close ends all |
| the lessons | variables, mutexes, condition variables, threads, futures; atomics with their memory orders | the programs of the lessons, the channel of day 8, the actors of day 20, the parallel algorithms of day 21, the interruptible threads of day 23 | who waits for whom, what outlives what, which order makes what visible | only the programs that show an error run into it |

`PROJECT.json` lists all components with what is left out of each, and under `hazards` every place in the code where a test would hardly
reach the failure.

## Modules

| module | code | role |
|---|---|---|
| `Lifo`, `Fifo` | — | abstract specifications: what a stack, a queue promises its callers. Each call takes effect in one instant between call and return; a pop returns the top, the oldest value; "empty" and "full" only when true. A `Fifo` that is not `Exact` may report these two too early |
| `HazardStack` | `lock_free_stack.h` | implements `Lifo` |
| `RefCountStack` | `ref_count_stack.h`, `single_ref_stack.h` | implements `Lifo` |
| `ThreadCountStack` | `lock_free_stack_threadcount.h` | implements `Lifo` |
| `MsQueueHp` | `mpmc_lockfree_queue.h` | the threads that call it are a team, one of the constant `Teams` |
| `MsQueueRc` | `mpmc_refcount_queue.h` | a team calls it too; implements `Fifo` where only one thread pushes, or none pops |
| `SpscLinked`, `SpscRing` | `spsc_linked_queue.h`, `spsc_lockfree_queue.h` | implement `Fifo` |
| `MpmcRing` | `mpmc_ring_queue.h` | implements `Fifo`, not `Exact` |
| `SpinlockRing` | `spinlock_circular_queue.h`, `circular_queue.h` | implements `Fifo` |
| `TwoLockQueue` | `threadsafe_queue_ht.h` | implements `Fifo` |
| `MutexQueue` | `mutex_queue.h`, `waitable_stack.h` | |
| `ThreadPool` | `thread_pool.h` | |
| `LockedList` | the two lists of day 16 | |
| `CasRing` | `CircularQueLight.h`, `CircularQueSync.h` of day 12 | implements `Fifo`, not `Exact`, until an index has gone round |
| `Pools` | the queue, the pools, the sorts and the loops of day 22, the sorts of day 7 | one machine of threads with stacks of calls |
| `Sorter` | the sorter of day 19 | the same for a sort that helps while it waits; a behaviour ends when two threads are at the vector of threads at once |
| `Atm` | the cash machine, bank and interface of day 8 | three actors, their queues, a user |
| `ThreadTests`, `MessageTests` | the programs of days 1 to 6, 8, 9, 20, 23 and 24 | as sequences of instructions |
| `ClientTests` | the programs that use the containers: the task queue in C of day 1, the mutexes with levels of day 2, the tests of days 14 to 18, the parallel algorithms of day 21 | as sequences of instructions; a container is the number of its elements |
| `ThreadMachine` | the standard library as these use it: mutexes, condition variables, threads | runs them |
| `LitmusTests` | the programs of days 4, 10, 11, 13 and 17 on memory orders | as sequences of loads, stores and fences |
| `MemoryModel` | the memory orders of C++ as these use them | runs them |
| `LinkedLists` | | the list that a `next` field makes, for the stacks and lists |
| `ReclaimProofs`, `StacksProofs`, `LockedListProofs`, `FifosProofs`, `MpmcRingProofs`, `MonitorsProofs`, `AtmProofs` | | theorems about the modules named, or about all modules of the run named |
| `LinkedListTheorems` | | lemmas for these |
| `MC…` | | instances for TLC |

How state and actions correspond to the code:

* **One step is one access to shared memory** in the lock-free components: an
  atomic load, store, exchange or compare-exchange, or an access to a field of
  a shared node. Code between two such accesses touches only locals and belongs
  to the step before it. A compare-exchange loop that only recomputes its new
  value from what it found is one step, the one in which it succeeds.
  Where the code takes a mutex and every access to the data is under it, the
  whole critical section is one step; the wait on a condition variable gives
  up the mutex and falls asleep in one step, and may return spuriously.
* **Control** is `pc[t]`, the locals of a call are functions of the thread and
  are reset when the call is done with them, so equal situations are equal
  states. Field, local and method names are the code's where they can be.
* **A node is an address.** `free` is the heap: `new` takes any free address,
  `delete` gives it back, so an address comes back as soon as the code deletes
  it. Reading a node in `free` is the use after free the properties exclude.
* **History variables** (`pushed`, `popped`, `called`, `before`, `submitted`,
  `done`) record what properties compare; no guard but a named bound reads them.
* **Programs of the lessons** are sequences of instructions, one per thread,
  with the variables they share; each instruction is a call of the standard
  library or one access to a shared variable, and a place to go to is relative to
  the instruction. `ThreadMachine` gives each call its meaning: a step that the
  standard leaves undefined, that terminates, or that nobody can take any more is
  an error and ends the program. A loop without an end runs `Rounds` times.
* **`MemoryModel`** keeps for each location the sequence of its stores and for each
  thread the newest store that happens before its next step. A load may return any
  store that is not older; a release store carries what its thread has seen, an
  acquire load takes it over, through read-modify-writes too; fences do so for
  the relaxed accesses around them. A plain access that does not know the newest
  store of its location is a data race. Consume is treated as acquire.
* **Tasks of the pools** are calls of a sort or a loop; a thread has a stack of
  them, because a sort calls itself and a worker that waits for a future may not
  run anything else. `missed` records the notifications that fell between a
  worker's test and its sleep.
* **Memory order** elsewhere: the models interleave atomic accesses. Of the orders that
  the code weakens, acquire and release pairs give what interleaving gives on
  these access patterns; relaxed operations that carry more weight than that are
  beyond the models. `SpscRing!NoDataRace`, `MpmcRing!SlotsUnshared` and
  `SpscLinked!NodesUnshared` state that the non-atomic data are never accessed
  by two threads at once.

Linearizability is checked as a refinement. `Abstract == INSTANCE Lifo WITH …`
(or `Fifo`) maps the container's state to a sequence of values, and each thread's
control point to what its call has obtained so far: the step at which the
mapping changes is the linearization point. For the hazard-pointer stack it is
the compare-exchange; for the split-count queue it is the move of `tail` (a
push), of `head` (a pop), or the comparison with `tail` (an empty pop).

## Runs

A run of a suite (`Stacks`, `Fifos`, `Monitors`, `Lessons`) picks one component,
or one program, in its first state and runs that one; the others keep their
initial states. The state graphs are disjoint, so the suite's states are the
sum of its parts, and a property guarded by `which` is the component's own
property. The runs of the two Michael-Scott queues pick a *team* of threads in
the same way, and `Pools` a sort or a loop, on a pool or with a sorter. `MCReclaim`
has three components that find out when a popped node can be deleted side by side,
two with hazard pointers and the queue with split reference counts; each of its three
runs has threads for one of them only.

| run | instance | shows |
|---|---|---|
| `HazardStack` | 3 threads, 3 addresses, 2 values, 2 records | `NoUseAfterFree`, `NodesAccounted`, `ImplementsLifo`; `IInv`, the subject of the proofs. The third thread to pop finds no record and throws |
| `Stacks` | `RefCountStack`: 3 threads, 2 addresses, 2 values, external count up to 4; `ThreadCountStack`: 3 threads, 3 addresses, 2 values; `LockedList` as either list: 3 threads, 3 addresses | `StacksNoUseAfterFree`, `StacksNodesAccounted`, `StacksImplementLifo`, and `WalksSeeAll` for the lists |
| `Fifos` | `SpscRing`: capacity 3, 2 values; `SpscLinked`: 4 addresses; `MpmcRing`: 3 threads that push and pop, 2 slots, 4 positions, and 1 producer with 3 consumers, 5 positions; `CasRing`: 2 threads that push and pop, capacity 2; `SpinlockRing`: 3 threads, capacity 2; `TwoLockQueue`: 2 producers, 3 consumers, up to 3 values | `NodesUnshared` (exclusive access to slots and nodes, lifetime of objects), `CapacityKept`, `OneProducerEmptyMeansEmpty`, `FifosImplementFifo`; with them `NoDataRace` and the inductive invariants the proofs use |
| `MsQueueHp` | teams {p1,c1,c2}, {p1,p2}, {c1,c2,c3}; 3 addresses, 5 records, 3 pushes | `QueueNoUseAfterFree` on either side, `QueueFifoUntilNull`; `QueueIInv`, the subject of the proofs; with three consumers the last gets one record instead of two and throws |
| `MsQueueRc` | teams {p1,c1,c2}, {p1,p2}, {p1,p2,c3}; 4 addresses, 2 values, head count up to 3 | `RcNoUseAfterFree` and `RcNothingLeaked` in all teams, the latter with `IInv` and, in the first two, `ValuesInv`, the subjects of the proofs; `RcOneSidedImplementsFifo` in the first two |
| `Monitors` | `ThreadPool`: 3 workers, 4 tasks; the two containers: 4 threads, up to 3 values | no lost wakeup, drained destructor, and under fairness `EveryTaskRuns`, `ShutdownReturns`, `QueueWaiterWakes` |
| `Pools` | 14 sorts and loops of the tests, each on its pool of 2 workers, with 2 or 3 elements, or 2 threads of `std::async`; `Sorter`: 3 elements, 0 to 2 threads | `ResultsRight`; `StuckExplained`, `EnoughWorkers`, `PoolsEnd`: what can make a program of day 22 hang, and that nothing else does |
| `Atm` | one digit, three cards, money for one withdrawal and a bit less than two, keys at any time | `MoneyLostOnlyByCancel`, `ActionNeedsPin`, `OnlyPinGoesAstray`, `QuitEnds` |
| `Lessons` | the programs as they are, loops cut to 2 rounds | `OnlyDangerousGoWrong`, `PostconditionsHold`, `TestsEnd` for those of threads; `AssertionsHold`, `NoDataRace`, `OneInstance` for those of memory orders |
| `MsQueueRcLost`, `TwoLockQueueWait`, `ListPushBack` | the smallest that show it | the findings below |

Why the bounds are enough for what they are meant to show. Three threads give
each lock-free stack a reader that is stopped, a thread that removes what it
reads, and a third that puts the address back or reclaims. Two or three
addresses force reuse, which makes ABA possible. Rings run at least two laps
(`MaxPos` is twice the slots; the single-producer ring has no bound at all, its
indices wrap). Nodes, values and queue lengths are bounded by the constants
`Nodes`, `MaxPush`, `MaxPos`, `MaxLen` and `Tasks` only. `MaxCount` bounds the
external counts, which in the code grow with every pop of an empty container;
in `Stacks` it is the number of threads plus one, so that all threads can hold a
reference to the same node, and in `MsQueueRc` both consumers of a team can
hold the head at once.

`CasRing` follows a behaviour until an exchange has taken an index for the one it
was although it had moved in between, all the way round (`late`); what comes then
is not followed. In `Pools` two workers are enough for a task that waits for the
other worker's, and three elements for a sort with more waits than workers.
`LessonsFairness` is per thread, so no program has more than five threads: where the
code starts ten that do the same, the model starts as many as show it.

Symmetry is used for safety only: threads, addresses and values that play the
same part are interchangeable (no module compares them otherwise). `Monitors`,
`Lessons`, `Pools` and `Atm`, which check liveness, use none.

Deadlock is checked in all passing runs but `MsQueueHp`, which stops after
`MaxPush` pushes or after a crash, and `Atm`, which stops after `MaxCards` cards.
The pool's end (`PoolEnded`), the end of a team that only pushes (`OnlyPushed`)
and the end of a program of the lessons (`Terminating`) are explicit steps; in
the lessons and in `Pools` that nothing can go on is a state the properties speak of
(`Deadlock`, `Stuck`).

## Fairness

`ThreadPool`: weak fairness of the owner's pending notification, of the rest of
a shutdown once begun, and of each worker's next step. This is a scheduler that
runs every thread and a mutex that is not withheld for ever, and it assumes
that a task returns. Nothing forces the owner to submit or to shut down, a
wait to return spuriously, or a task to submit. `MutexQueue`: weak fairness of a
thread that is about to have the mutex. `TwoLockQueue` (in `TwoLockQueueWait`):
weak fairness of a push under way, strong fairness of a pop, whose mutex is free
again and again. `Pools` and `Lessons`: strong fairness of each thread's next step,
for the same reason: a thread that polls, or wakes for nothing, takes and gives
up the mutex again and again, and a standard library that lets a thread starve on
it for ever is not what these programs are written for. In `Lessons` also: a store
becomes visible to loads in a finite time (the standard asks for it), that is, the
fair step of a loading thread is the one that reads the newest store. `Atm`: weak
fairness of each actor and of main once q has been pressed; nobody has to press
it.

## What is proved

TLAPS checks the following for every value of the constants, under the named
assumptions of the modules, which TLC evaluates on the runs. They ask no more than that
threads and nodes are finitely many where they are counted or followed (and threads
fewer than the 2^30 that `internal_count` of `mpmc_refcount_queue.h` can tell apart), that a null is
not a node and a marker not a value, that a pool has a worker, and, for the Vyukov ring,
that it has not just one slot (`TwoSlots`; the static assertion lets one slot pass, and
there the statements are false). The bounds of the runs (`MaxPush`, `MaxPos`,
`MaxCount`, `MaxQueue`, …) stay in the guards but may be any number.

Each invariant was first given to TLC as an invariant of the run of its module, then
proved: `Init` establishes it, every action preserves it, one step of the proof per
action, and it implies the property. The modules that put several components into one
run have a theorem of their own, `BehavesAsEach`: whichever component a behaviour
picks, it is a behaviour of every component, the others stuttering. From it follow
the properties in the form in which the run checks them.

**`ReclaimProofs`** (`lock_free_stack.h`, `mpmc_lockfree_queue.h`,
`mpmc_refcount_queue.h`).
* `MemorySafety`: `Spec => []NoUseAfterFree`, for any number
  of threads, addresses and records. `NoUseAfterFree` is not inductive: that a
  validated node is not in `free` depends on who might be deleting it. `IInv`
  adds: free, retired and owned nodes are different (`Ownership`); the stack is
  closed under `next` and no node is linked to twice (`Shape`), so a popped node is
  really out; no record has two owners (`RecordsUnshared`); a thread past its
  validation has its node in its record (`RecordSet`); and (`Protected`) the
  node is allocated, its link has not changed, and **a thread that scans the
  records for that node has not reached the reader's record yet** — the clause
  that carries the argument: the reader published its pointer before it saw the
  node still on top, so before anybody could have retired it. The proof shows
  for each action that moves nodes what it leaves in place (`…Moves`).
* `ListKept`: every node is in the list, retired, in the hands of one thread or free,
  and in one place (`NodesAccounted`). `Linearizable`: `Spec => ImplementsLifo`. Both
  take one thing more: there is a sequence of all nodes of the stack, each linked to
  the next and the last to null (`Links`), which push and pop lengthen and shorten in front.
* `QueueMemorySafe`, `QueueKeepsOrder`, `QueueInductive` (`mpmc_lockfree_queue.h`): under
  `QueueOneSided`, that is, in every team with a consumer one thread pushes at most, for any
  number of consumers, of producers where nobody pops, of nodes and records. Without it the
  first is false: push reads `tail_` and goes to that node with no record on it, so that
  with a second producer and a consumer it may be gone (see the findings). A pop is safe
  as in the stack: what it has checked against `head_` is in its record, `head_` or
  popped since, and whoever scans for it has not come to that record (`Protected`).
  That its `next` is safe as well takes the second check: **`head_` is still `head`, which
  is in a record and so the same node all the time, after `next` was published**, and
  behind `head_` nothing is deleted. A push is safe because it is alone (`PushAlone`): `tail_` has not moved
  since it was read, and no pop takes the node `tail_` is at: the exchange of `head_`
  comes after a test that `head` is not `tail_`, and `tail_` never goes back. `Shape` and
  `AllLinked` make one line of the nodes that nobody has to himself (`Live`); that a push
  lengthens it at its end and a pop shortens it in front, until one stores null, is the
  order of the values.
* `RcMemorySafe`, `RcCountsExact` (`mpmc_refcount_queue.h`), for every team: also with
  several producers and consumers, where a value may be lost (see the findings), no node
  is. `Counts` says of a node that is or has been in the queue what its two fields are.
  `external_counters` is the number of external counters that stand for it: tail's from
  the moment the node is linked until the push that moved tail on has folded it, head's
  until the pop that won the exchange has (`TailOpen`, `HeadOpen`). `internal_count` is
  **the references calls hold on the node, less those that a counter has counted and
  nobody has folded yet** (`TailOwed`, `HeadOwed`), modulo 2^30: below zero until the
  counters are folded in, and exact afterwards. So both are zero when the last counter
  is folded and the last reference gone, in whatever order, and only then; that fewer
  threads than 2^30 hold references is what makes zero mean none. It rests on `Folding`,
  that no two calls are to fold the same counter and the node has left tail, or head, by
  then; on `Shape`, that the links lead from head past tail and nobody has seen the node
  behind tail; and on `Apart`, that a node that was not linked is as it was made.
* `RcOneSidedLinearizable`: where one thread pushes, or nobody pops, the same queue
  implements `Fifo`. `IInv` says nothing of the values; `ValuesInv` is inductive with it.
  The nodes from head to the one before tail (`Front`) are filled and those behind tail
  empty (`Filled`), so the values of `Front` are the abstract queue. **The node of tail
  is empty, or holds the value of the one push that has stored there and not yet seen
  tail move** (`TailOK`), so that the move of tail, whether by that push or by a helper,
  is the step at which the push takes effect, with its own value. A pop that wins
  the exchange takes the first node of `Front`, and while it has compared only, its
  node is the first one or has left the queue (`PopsOK`). With two producers and a
  consumer `TailOK` is what fails: a push that comes late finds its node popped and
  empty, and fills it behind head. With producers only, a late push finds the node
  still filled; with one producer, no push is late.

**`StacksProofs`** (`ref_count_stack.h`, `single_ref_stack.h`,
`lock_free_stack_threadcount.h`, and the run `Stacks`).
* `MemorySafety`, `AllDeleted`, `Linearizable` for the stack with split counts, from the
  invariant `Counts`. The external count of a node is in `head` or in the `next` of a
  node of the stack, then with the pop that took the node off, and in the end part
  of the internal one; **wherever it is, it and the internal count add up to the
  pops that still look at the node**, and a node that is nowhere else has somebody
  who looks at it and will delete it. So the count reaches zero once, when the last
  one leaves, and a node in use keeps its address: the exchange cannot mistake
  another one for it.
* `TcMemorySafety`, `TcAccounted`, `TcLinearizable` for the stack that counts the
  threads in pop. `Watched`: a thread that looks at a node entered pop before it was
  popped, hence **nobody who was alone in pop after it had taken a node, or alone in
  leaving when it took the pending list, has that node**; while somebody looks at a node of
  the stack, its `next` is the one that was read. That the nodes on the pending
  lists, chained back by several threads, are never in two of them is `TcPlaced`.
* `StacksMemorySafety`, `StacksAccounted`, `WalksComplete`, `StacksLinearizable`: the
  run's own four properties, for both stacks and both lists of day 16.

**`LockedListProofs`** (the lists of day 16). `MemorySafety`, `Accounted`, `WalksComplete`: a
walk has the mutex of the place it is at, that place is in the list, and what it has not
seen is behind it (`WalkOK`); nobody else can unlink that place, or the one after it,
without the mutex. Hence a walk sees every node that was there all the time.

**`FifosProofs`** (the queues and rings of the run `Fifos`). The theorems of a queue
other than the first have the prefix of its instance.
* `RaceFreedom`, `Linearizable` (`spsc_lockfree_queue.h`), for every capacity. What each
  side learned in its own test (there is room, there is a value) still holds when it acts
  on it, although its copy of the other index is old.
  The values of the mapping are rewritten without the modulus
  (`PlainView`); then a store to `tail_` appends and a store to `head_` takes.
* `SpinLifetimesKept`, `SpinLinearizable` (`spinlock_circular_queue.h`), for every
  capacity and any number of threads: one thread at most is past the exchange of
  the lock, its test is `StillSo`, and `SlotsLive` says slot by slot where an object
  lives while the index lags behind.
* `TwoTakenNodesReal`, `TwoLinearizable` (`threadsafe_queue_ht.h`): one
  consumer at most is between lock and unlock of `head_mutex_`, and one that has
  seen a node still has one, as pushes under the other mutex only lengthen the list.
* `LinkedDeleteAtOnce`, `LinkedNothingLost`, `LinkedLinearizable`
  (`spsc_linked_queue.h`): there is a sequence of different nodes from `head_` to
  `tail_`, linked in that order (`Consistent`), and the node the producer has in hand and
  the one pop deletes are not in it and are not the same.
* `CasSlotsClaimedOnce`, `CasLinearizableUntilLate` (`CircularQueLight.h`,
  `CircularQueSync.h`): until an exchange takes an index that has gone round. `StillTrue`
  is what a thread has found out and holds as long as its index has not moved;
  an exchange that succeeds and is not late finds it unmoved.
* `NeverShared`, `RingNeverOverfull`, `EmptyWhenAllTaken`, `AllLinearizable`: the run's
  own properties, for all six at once, with at least two slots in the Vyukov ring.

**`MpmcRingProofs`** (`mpmc_ring_queue.h`). `SlotOwnership`: no two threads on one slot and
the capacity kept. `Window`, `Owned` and `SeqStillTrue` say of each position between the
two counters in which state its slot is, and that a thread whose test of the sequence
number has succeeded would succeed again, unless its position has been claimed
meanwhile, in which case its exchange fails. `Linearizable`. `EmptyIsEmpty`: with
one producer, pop answers "empty" only when everything pushed before the call has been
taken, because the published positions are then the oldest claimed ones.

**`MonitorsProofs`** (`thread_pool.h`, `mutex_queue.h`, `waitable_stack.h`).
* `Drained`: `Spec => []DrainedWhenGone`. An accepted task is queued, in the hands of a
  worker or done, and a worker leaves only a stopped pool with an empty queue,
  which stays empty because submit refuses. It needs one worker: a pool of zero
  workers, which `hardware_concurrency() == 0` can produce, drops its queue.
* `NoLostWakeup`: `Spec => []SleepersNotNeeded`, which is inductive
  once the types are known: the workers in the loop and in a notification are counted
  as one finite set, and every step changes the two sides by the same amount, or
  leaves nobody asleep, or needs an empty queue.
* `ContainerOnlyThrows`: only a `wait_and_pop` that throws after its wait can leave a
  thread asleep next to a value, with any number of callers, and `ContainerNoLostWakeup`:
  nothing does where nothing throws. The same balance of values and threads on their way to
  the mutex. `OnlyThrows` and `NobodySleepsInVain` say so of the run.

**`AtmProofs`** (the cash machine of day 8), for every PIN, amount, number of cards and
length of the queues. `MoneySafe`, `RightPin`, `AnswersInStep` follow from
`InStepUntilCancelled`: `Spec => []IInv`. The bank answers in the order of the
questions, so sessions never fall along the two queues (`InOrder`). **Until a
question is cancelled, one is on its way exactly when the atm waits for its answer**, of
those about a PIN (`PinInStep`) and of withdrawals (`MoneyInStep`), where the money is in
the balance, granted, or out. Until a stale answer about a PIN is taken, all that
is asked while the atm acts is about the card in it, whose PIN was right (`InStep`,
`AboutPin`). A cancelled question can only be answered later than its card was taken
out, and that is where each of the three properties lets go.

**`LinkedListTheorems`** has the lemmas on linked lists that these share. `Reached` follows
`next` a number of times; that it finds the list there is, whatever its length, is an
induction over numbers, written as one over the set of those for which it holds
(`SetInduction`, from the well-foundedness of `<`).

### Only model-checked

* `ResultsRight`, `StuckExplained`, `EnoughWorkers` of `Pools` and `Sorter`: sorts are recursive,
  and what they compute is an induction over data.
* `OnlyDangerousGoWrong`, `PostconditionsHold`, `AssertionsHold`, `NoDataRace`,
  `OneInstance` of the lessons: fixed programs with nothing to generalise over, where TLC's
  search is complete.
* Everything under fairness: `EveryTaskRuns`, `ShutdownReturns`, `QueueWaiterWakes`,
  `TestsEnd`, `QuitEnds` and the liveness in the findings. Liveness and `ENABLED` are beyond
  the prover.

## Findings

With a run each:

* **`mpmc_refcount_queue.h`, push** (`MsQueueRcLost`): pop empties the node it wins
  (`data.exchange(nullptr)`), and a delayed push takes the empty field for a
  slot nobody has filled. The value it stores is never popped. With one producer
  it cannot happen: `RcOneSidedImplementsFifo`, which is proved.
* **`threadsafe_queue_ht.h`, push** (`TwoLockQueueWait`): the notification can
  fall between a waiter's test and its sleep.
* **`tailpushlist.h`, push_back** (`ListPushBack`): the mutex of the last node is
  chosen before it is locked and adopted after; the last node may be another one
  by then, or deleted.

Met while modelling; the properties of the passing runs are stated around them:

* `mpmc_lockfree_queue.h`, pop: `next` is read before `tail_`. If the queue was
  empty then and a push moves `tail_` before it is read, the test for "empty"
  fails, the compare-exchange stores `nullptr` into `head_`, and the value is read
  through `nullptr` (`FifoUntilNull` holds until then).
* `mpmc_lockfree_queue.h`, push follows `tail_` without a hazard pointer. With a
  second producer and a consumer the node may be deleted; no team of `MsQueueHp`
  has both.
* `mpmc_ring_queue.h`: one slot passes the static assertion and overwrites values
  (`CapacityKept` is checked from two slots on). "Empty" is also the answer when an
  earlier claim is unpublished; with one producer it is exact.
* `waitable_stack.h`, wait_and_pop: `make_shared` after the wait may throw, and
  the wakeup the call has used up is passed on to nobody.
  `StackOnlyThrowsLoseWakeups` shows that nothing else loses one.
* `CircularQueLight.h`, `CircularQueSync.h`: an index that has gone round the ring
  satisfies the exchange (`late`), "full" and "empty" may be answered from an old
  index, and pop reads a slot that is being written, which it then discards.
* `day22-ThreadPool`: the sorts starve when they have more waits than workers; the
  destructors set their flag between a worker's test and its sleep (`missed`).
* `day08-actor`, atm: a cancellation that crosses the bank's answer loses the money,
  or lets the answer of the next card's question be taken for this one's.
* `day19`, sorter: `threads` is tested, and pushed to, by all sorting threads without
  a mutex, the first of which runs before the push that stores it has ended. The
  model stops at two that are there at once (`raced`), but lets two tests come before
  the two pushes, so that there may be more threads than `max_thread_count`.
* `day14`, `TestThreadSafeQue`: the consumers have no way to end, and main waits for
  them for ever.
* `day03`, `use_own_defer` and `day24`, `TestProducerConsumer` deadlock, which their
  text does not mention; the other programs of `Danger` are there to go wrong.

## Not modelled

Destructors of the lock-free containers (they run when no other thread is left);
the release of hazard records at thread exit (the code has none); construction
and copying of elements that throw, except where it is named above; wrap-around
of the 64-bit positions of `MpmcRing` and of the 32-bit external counts, which
takes more steps than a run has; allocation failure, except in `MutexQueue`.
Of the lessons: those that only show syntax in one thread, the network examples
of day 24 (sockets), and the components the notes in `PROJECT.json` name.

## Plan

What is left: **days 17 and 18**, the earlier forms of the stacks and queues where they
differ from the finished ones (a hazard record that its thread gives back).
