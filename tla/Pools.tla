-------------------------------- MODULE Pools --------------------------------
(***************************************************************************)
(* The thread pools of src/concurrent/day22-ThreadPool, the queue they use *)
(* and the sorts and loops that run on them, with the sorts of day 7 that  *)
(* run on std::async.                                                      *)
(*                                                                         *)
(* A thread has a stack of calls.  A call of a sort or a loop submits a    *)
(* part of its data as a task, goes on with the rest, and waits for the    *)
(* task's future.  The main thread makes one such call and then leaves     *)
(* main: the pools, which are static, are destroyed.                       *)
(*                                                                         *)
(* The data of a sort is a set: std::partition leaves open which element   *)
(* of a part comes first, and so is the next pivot.  The data of a loop    *)
(* are its blocks of 25 elements.                                          *)
(***************************************************************************)
EXTENDS Integers, SequencesExt

CONSTANTS
    Clients,        \* what main may call: records of a function and its data
    Workers,        \* threads of a pool
    Tasks           \* threads for std::async: one for each task a client starts

ASSUME PoolsAssumption == Workers \in Nat \ {0} /\ Tasks \in Nat

-----------------------------------------------------------------------------
(* What runs on the pools.  A function splits its data, gives one part to a  *)
(* pool, where the function lower treats it, and calls higher for the rest.  *)

Sort(pool, lower, higher) ==
    [pool |-> pool, lower |-> lower, higher |-> higher, sorts |-> TRUE, waits |-> TRUE]
Loop(pool, higher, waits) ==
    [pool |-> pool, lower |-> "for_each", higher |-> higher, sorts |-> FALSE, waits |-> waits]

do_sort == Sort("notify", "do_sort", "do_sort")
do_sort_parallen_pool == Sort("parallen", "do_sort_parallen_pool", "do_sort_parallen_pool")
pool_thread_quick_sort == Sort("ThreadPool", "pool_thread_quick_sort", "pool_thread_quick_sort")
\* The rest is sorted on another pool.
steal_thread_quick_sort == Sort("steal", "steal_thread_quick_sort", "pool_thread_quick_sort")
parallel_quick_sort == Sort("async", "parallel_quick_sort", "parallel_quick_sort")
thread_pool_quick_sort == Sort("ThreadPool", "parallel_quick_sort", "parallel_quick_sort")

\* These submit all blocks but the last; recursion_for_each calls itself for the
\* second half.
parallel_for_each == Loop("ThreadPool", "parallel_for_each", TRUE)
recursion_for_each == Loop("ThreadPool", "recursion_for_each", TRUE)
future_for_each == Loop("future", "future_for_each", TRUE)
\* The bug of a loop that does not wait.
notify_for_each_NoGet == Loop("notify", "notify_for_each", FALSE)
notify_for_each == Loop("notify", "notify_for_each", TRUE)
\* Sleeps two seconds instead of waiting.
simple_for_each == Loop("simple", "simple_for_each", FALSE)

Function ==
    [do_sort |-> do_sort, do_sort_parallen_pool |-> do_sort_parallen_pool,
     pool_thread_quick_sort |-> pool_thread_quick_sort,
     steal_thread_quick_sort |-> steal_thread_quick_sort,
     parallel_quick_sort |-> parallel_quick_sort,
     thread_pool_quick_sort |-> thread_pool_quick_sort,
     parallel_for_each |-> parallel_for_each, recursion_for_each |-> recursion_for_each,
     future_for_each |-> future_for_each, notify_for_each |-> notify_for_each,
     simple_for_each |-> simple_for_each,
     for_each |-> [pool |-> "none", sorts |-> FALSE, waits |-> FALSE]]

\* What the tests call.  (Their lists have 7 elements, their vectors 2 blocks.)
TestParallenForEach(n) == [fn |-> "parallel_for_each", data |-> 1 .. n]
TestRecursiveForEach(n) == [fn |-> "recursion_for_each", data |-> 1 .. n]
TestSimpleThread(n) == [fn |-> "simple_for_each", data |-> 1 .. n]
TestFutureThread(n) == [fn |-> "future_for_each", data |-> 1 .. n]
TestNotifyThread(n) == [fn |-> "notify_for_each", data |-> 1 .. n]
TestQuickSort(n) == [fn |-> "do_sort", data |-> 1 .. n]
TestParrallenThreadPool(n) == [fn |-> "do_sort_parallen_pool", data |-> 1 .. n]
TestThreadPoolSort(n) == [fn |-> "pool_thread_quick_sort", data |-> 1 .. n]
TestStealPoolSort(n) == [fn |-> "steal_thread_quick_sort", data |-> 1 .. n]
test_parallen_sort(n) == [fn |-> "parallel_quick_sort", data |-> 1 .. n]
test_thread_pool_sort(n) == [fn |-> "thread_pool_quick_sort", data |-> 1 .. n]

\* The pools.  sleeps: the workers wait on a condition variable, else they poll.
\* own: each worker has a queue of its own.  exits: the destructor calls Exit.
\* lock: commit takes the mutex the workers test under.
Pool(sleeps, own, exits, lock) ==
    [sleeps |-> sleeps, own |-> own, exits |-> exits, lock |-> lock]
ThreadPool == Pool(TRUE, FALSE, FALSE, TRUE)
simple_thread_pool == Pool(FALSE, FALSE, FALSE, FALSE)
future_thread_pool == Pool(FALSE, FALSE, FALSE, FALSE)
notify_thread_pool == Pool(TRUE, FALSE, TRUE, FALSE)
parrallen_thread_pool == Pool(TRUE, TRUE, TRUE, FALSE)
steal_thread_pool == Pool(FALSE, TRUE, TRUE, FALSE)

PoolNamed ==
    [ThreadPool |-> ThreadPool, simple |-> simple_thread_pool, future |-> future_thread_pool,
     notify |-> notify_thread_pool, parallen |-> parrallen_thread_pool,
     steal |-> steal_thread_pool, async |-> Pool(FALSE, FALSE, FALSE, FALSE)]

\* The pools a function uses, the last one constructed first.
PoolsOf(fn) ==
    IF fn = "steal_thread_quick_sort" THEN <<"ThreadPool", "steal">>
    ELSE IF fn = "thread_pool_quick_sort" THEN <<"ThreadPool", "async">>
    ELSE <<Function[fn].pool>>

\* Data that is not split any more.
IsSmall(fn, data) ==
    \/ fn = "for_each"
    \/ IF Function[fn].sorts THEN data = {} ELSE Cardinality(data) = 1

\* How data is split: the pivot, if any, the part to submit, the rest.
Splits(fn, data) ==
    IF Function[fn].sorts
    THEN { [pivot |-> <<p>>, lower |-> {x \in data : x < p}, higher |-> {x \in data : x > p}]
             : p \in data }
    ELSE { [pivot |-> <<>>, lower |-> b, higher |-> data \ b] : b \in
             {s \in SUBSET data :
                 /\ Cardinality(s) =
                      IF fn = "recursion_for_each" THEN Cardinality(data) \div 2 ELSE 1
                 /\ \A x \in s, y \in data \ s : x < y} }

-----------------------------------------------------------------------------
VARIABLES
    client,         \* what main calls
    stack,          \* the calls of each thread
    phase,          \* where the loop of a worker is, where main is
    scan,           \* the queue a worker of the stealing pool looks at
    queue,          \* the tasks of each queue
    future,         \* per future: <<>>, or a sequence with the value
    done,           \* the pools whose flag done (stop_) is set
    bstop,          \* the queues whose flag bstop is set
    atm_index,      \* the queue a pool submitted to last
    applied,        \* how often the loop's function was applied to each block
    missed,         \* the queues of which a worker missed a notification
    dying           \* the pool of Uses that main destroys, or will first

vars == <<client, stack, phase, scan, queue, future, done, bstop, atm_index, applied, missed, dying>>

Main == <<"main", 0>>
Uses == PoolsOf(client.fn)
Used == {Uses[i] : i \in DOMAIN Uses}

\* The bug of a pool with a thread less.
Size_OneLess(p) == IF p = "async" THEN Tasks ELSE Workers - 1
Size(p) == IF p = "async" THEN Tasks ELSE Workers
WorkersOf(p) == {p} \X (1 .. Size(p))
AllWorkers == UNION {WorkersOf(p) : p \in Used}
Threads == AllWorkers \cup {Main}

QueuesOf(p) == {p} \X (IF PoolNamed[p].own THEN 1 .. Workers ELSE {1})
QueueOf(w) == IF PoolNamed[w[1]].own THEN w ELSE <<w[1], 1>>
AllQueues == UNION {QueuesOf(p) : p \in Used}
Sleeps(w) == PoolNamed[w[1]].sleeps

Call(fn, data, fut) ==
    [fn |-> fn, data |-> data, at |-> "enter", rest |-> {}, acc |-> <<>>, index |-> 0,
     futs |-> <<>>, fut |-> fut]

Top(t) == Last(stack[t])
SetTop(t, call) == stack' = [stack EXCEPT ![t] = Append(Front(@), call)]

\* bstop of a queue in a vector is not initialised (before C++20): any value.  That
\* of a pool's own queue is zero like all static storage.
Init ==
    /\ client \in Clients
    /\ stack = [t \in Threads |-> IF t = Main THEN <<Call(client.fn, client.data, 0)>> ELSE <<>>]
    /\ phase = [t \in Threads |-> IF t = Main THEN "run" ELSE "test"]
    /\ scan = [w \in AllWorkers |-> 0]
    /\ queue = [q \in AllQueues |-> <<>>]
    /\ future = <<>>
    /\ done = {}
    /\ bstop \in SUBSET {q \in AllQueues : q[1] = "parallen"}
    /\ atm_index = [p \in Used |-> 1]
    /\ applied = [x \in client.data |-> 0]
    /\ missed = {}
    /\ dying = 1

-----------------------------------------------------------------------------
(* Submitting *)

\* A worker that has found its predicate false holds the mutex (head_mutex) until
\* it sleeps.
Held(q) == \E w \in AllWorkers : QueueOf(w) = q /\ phase[w] = "presleep"

\* notify_one: wakes one of those that sleep; one that is about to does not hear.
Notify(q, ph) ==
    LET sleeping == {w \in AllWorkers : QueueOf(w) = q /\ phase[w] = "asleep"} IN
    /\ IF sleeping = {} THEN phase' = ph
       ELSE \E w \in sleeping : phase' = [ph EXCEPT ![w] = "take"]
    /\ missed' = missed \cup (IF sleeping = {} /\ Held(q) THEN {q} ELSE {})

\* The bug of a push that wakes nobody.
Push_NoNotify(q, task) ==
    /\ PoolNamed[q[1]].lock => ~Held(q)
    /\ queue' = [queue EXCEPT ![q] = Append(@, task)]
    /\ UNCHANGED <<phase, missed>>

\* The queue has a mutex for its tail alone; ThreadPool has one mutex.
Push(q, task) ==
    /\ PoolNamed[q[1]].lock => ~Held(q)
    /\ queue' = [queue EXCEPT ![q] = Append(@, task)]
    /\ Notify(q, phase)

\* The rest that goes to the pool, once the index of its queue has been read.
submit(t, call) ==
    LET p == Function[call.fn].pool
        q == <<p, IF PoolNamed[p].own THEN call.index ELSE 1>>
        f == Len(future) + 1
        \* for_each loops submit block by block in one call
        again == ~Function[call.fn].sorts /\ call.fn # "recursion_for_each"
    IN \E s \in Splits(call.fn, call.data) :
        /\ future' = Append(future, <<>>)
        /\ atm_index' = [atm_index EXCEPT ![p] = q[2]]
        /\ Push(q, [fn |-> Function[call.fn].lower, data |-> s.lower, fut |-> f])
        /\ SetTop(t, [call EXCEPT
                !.at = IF again THEN "enter" ELSE "call", !.rest = s.higher,
                !.data = IF again THEN s.higher ELSE @, !.acc = s.pivot, !.index = 0,
                !.futs = IF Function[call.fn].waits THEN Append(@, f) ELSE @])

-----------------------------------------------------------------------------
(* The calls of a thread *)

EnterIndex(t) ==
    LET call == Top(t) IN
    /\ call.at = "enter" /\ ~IsSmall(call.fn, call.data) /\ call.index = 0
    /\ SetTop(t, [call EXCEPT !.index = IF PoolNamed[Function[call.fn].pool].own
                    THEN (atm_index[Function[call.fn].pool] % Workers) + 1 ELSE 1])
    /\ UNCHANGED <<client, phase, scan, queue, future, done, bstop, atm_index, applied, missed, dying>>

EnterSubmit(t) ==
    /\ Top(t).at = "enter" /\ Top(t).index # 0
    /\ submit(t, Top(t))
    /\ UNCHANGED <<client, scan, done, bstop, applied, dying>>

\* The rest, in the same thread.
CallHigher(t) ==
    LET call == Top(t) IN
    /\ call.at = "call"
    /\ stack' = [stack EXCEPT ![t] =
            Append([@ EXCEPT ![Len(@)].at = "wait"], Call(Function[call.fn].higher, call.rest, 0))]
    /\ UNCHANGED <<client, phase, scan, queue, future, done, bstop, atm_index, applied, missed, dying>>

\* Nothing to split: a loop applies its function; a loop that has submitted then
\* waits.
Small(t) ==
    LET call == Top(t) IN
    /\ call.at = "enter" /\ IsSmall(call.fn, call.data)
    /\ applied' = [x \in DOMAIN applied |-> applied[x] +
                    (IF ~Function[call.fn].sorts /\ x \in call.data THEN 1 ELSE 0)]
    /\ SetTop(t, [call EXCEPT !.at = "wait"])
    /\ UNCHANGED <<client, phase, scan, queue, future, done, bstop, atm_index, missed, dying>>

IsReady(f) == future[f] # <<>>

\* new_lower.get() goes in front of what there is.
Get(t) ==
    LET call == Top(t) IN
    /\ call.at = "wait" /\ call.futs # <<>> /\ IsReady(Head(call.futs))
    /\ SetTop(t, [call EXCEPT !.futs = Tail(@), !.acc = future[Head(call.futs)][1] \o @])
    /\ UNCHANGED <<client, phase, scan, queue, future, done, bstop, atm_index, applied, missed, dying>>

\* The result goes to the caller, behind its pivot, or to the task's future.
Return(t) ==
    LET call == Top(t)
        n == Len(stack[t])
    IN
    /\ call.at = "wait" /\ call.futs = <<>>
    /\ stack' = [stack EXCEPT ![t] =
            IF n = 1 /\ t # Main THEN <<>>
            ELSE IF n = 1 THEN [@ EXCEPT ![1].at = "returned"]
            ELSE [SubSeq(@, 1, n - 1) EXCEPT ![n - 1].acc = @ \o call.acc]]
    /\ future' = IF call.fut = 0 THEN future ELSE [future EXCEPT ![call.fut] = <<call.acc>>]
    /\ phase' = [phase EXCEPT ![t] = IF n > 1 THEN @ ELSE IF t = Main THEN "stop" ELSE "test"]
    /\ UNCHANGED <<client, scan, queue, done, bstop, atm_index, applied, missed, dying>>

Run(t) ==
    /\ phase[t] = "run"
    /\ EnterIndex(t) \/ EnterSubmit(t) \/ CallHigher(t) \/ Small(t) \/ Get(t) \/ Return(t)

-----------------------------------------------------------------------------
(* The loop of a worker *)

\* The bug of a loop that does not look at done.
Test_NotDone(w) ==
    /\ phase[w] = "test"
    /\ phase' = [phase EXCEPT ![w] = "take"]
    /\ UNCHANGED <<client, stack, scan, queue, future, done, bstop, atm_index, applied, missed, dying>>

\* while (!done)
Test(w) ==
    /\ phase[w] = "test"
    /\ phase' = [phase EXCEPT ![w] = IF w[1] \in done THEN "gone" ELSE "take"]
    /\ UNCHANGED <<client, stack, scan, queue, future, done, bstop, atm_index, applied, missed, dying>>

RunTask(w, task) ==
    /\ stack' = [stack EXCEPT ![w] = <<Call(task.fn, task.data, task.fut)>>]
    /\ phase' = [phase EXCEPT ![w] = "run"]

\* The front of the queue, under its mutex.  A stopped queue gives nothing.
TakeFront(w) ==
    LET q == QueueOf(w) IN
    /\ phase[w] = "take" /\ ~Held(q)
    /\ queue[q] # <<>>
    /\ ~(Sleeps(w) /\ q \in bstop)
    /\ RunTask(w, Head(queue[q]))
    /\ queue' = [queue EXCEPT ![q] = Tail(@)]
    /\ UNCHANGED <<client, scan, future, done, bstop, atm_index, applied, missed, dying>>

\* The first queue from the i-th on that is not w's own.
NextOther(w, i) == IF i = w[2] THEN i + 1 ELSE i

\* Nothing to take: a worker that polls yields, or tries the other queues; one
\* that waits ends (ThreadPool), tests done again, or is going to sleep.
FindNone(w) ==
    LET q == QueueOf(w) IN
    /\ phase[w] = "take" /\ ~Held(q)
    /\ queue[q] = <<>> \/ (Sleeps(w) /\ q \in bstop)
    /\ phase' = [phase EXCEPT ![w] =
            IF w[1] = "steal" /\ NextOther(w, 1) <= Workers THEN "steal"
            ELSE IF ~Sleeps(w) THEN "test"
            ELSE IF w[1] = "ThreadPool" /\ w[1] \in done THEN "gone"
            ELSE IF q \in bstop THEN "test" ELSE "presleep"]
    /\ scan' = [scan EXCEPT ![w] = IF w[1] = "steal" THEN NextOther(w, 1) ELSE 0]
    /\ UNCHANGED <<client, stack, queue, future, done, bstop, atm_index, applied, missed, dying>>

Sleep(w) ==
    /\ phase[w] = "presleep"
    /\ phase' = [phase EXCEPT ![w] = "asleep"]
    /\ UNCHANGED <<client, stack, scan, queue, future, done, bstop, atm_index, applied, missed, dying>>

\* condition_variable::wait may return without a notification.
SpuriousWakeup(w) ==
    /\ phase[w] = "asleep"
    /\ phase' = [phase EXCEPT ![w] = "take"]
    /\ UNCHANGED <<client, stack, scan, queue, future, done, bstop, atm_index, applied, missed, dying>>

\* One by one the other queues, of which the last task is taken (try_steal).
Steal(w) ==
    LET q == <<w[1], scan[w]>>
        next == NextOther(w, scan[w] + 1)
    IN
    /\ phase[w] = "steal"
    /\ \/ /\ queue[q] = <<>>
          /\ scan' = [scan EXCEPT ![w] = next]
          /\ phase' = [phase EXCEPT ![w] = IF next > Workers THEN "test" ELSE @]
          /\ UNCHANGED <<stack, queue>>
       \/ /\ queue[q] # <<>>
          /\ RunTask(w, Last(queue[q]))
          /\ queue' = [queue EXCEPT ![q] = Front(@)]
          /\ UNCHANGED scan
    /\ UNCHANGED <<client, future, done, bstop, atm_index, applied, missed, dying>>

Work(w) == Test(w) \/ TakeFront(w) \/ FindNone(w) \/ Sleep(w) \/ Steal(w) \/ Run(w)

-----------------------------------------------------------------------------
(* The destructors, after main *)

Dying == Uses[dying]

\* stop, Exit: without the mutex the flags are set and the sleepers woken.
Stop ==
    /\ phase[Main] = "stop" /\ Dying # "async"
    /\ done' = done \cup {Dying}
    /\ phase' = [phase EXCEPT ![Main] = "exit"]
    /\ UNCHANGED <<client, stack, scan, queue, future, bstop, atm_index, applied, missed, dying>>

Exit ==
    /\ phase[Main] = "exit"
    /\ bstop' = bstop \cup (IF PoolNamed[Dying].exits THEN QueuesOf(Dying) ELSE {})
    /\ phase' = [phase EXCEPT ![Main] = "notify"]
    /\ UNCHANGED <<client, stack, scan, queue, future, done, atm_index, applied, missed, dying>>

NotifyAll ==
    LET qs == QueuesOf(Dying) IN
    /\ phase[Main] = "notify"
    /\ phase' = [t \in Threads |->
            IF t = Main THEN "join"
            ELSE IF QueueOf(t) \in qs /\ phase[t] = "asleep" THEN "take" ELSE phase[t]]
    /\ missed' = missed \cup {q \in qs : Held(q)}
    /\ UNCHANGED <<client, stack, scan, queue, future, done, bstop, atm_index, applied, dying>>

\* Join the workers, and go on with the next pool.
Join ==
    /\ phase[Main] = "join" \/ (phase[Main] = "stop" /\ Dying = "async")
    /\ Dying # "async" => \A w \in WorkersOf(Dying) : phase[w] = "gone"
    /\ phase' = [phase EXCEPT ![Main] = IF dying = Len(Uses) THEN "ended" ELSE "stop"]
    /\ dying' = IF dying = Len(Uses) THEN dying ELSE dying + 1
    /\ UNCHANGED <<client, stack, scan, queue, future, done, bstop, atm_index, applied, missed>>

Destroy == Stop \/ Exit \/ NotifyAll \/ Join

Ended == phase[Main] = "ended" /\ UNCHANGED vars

-----------------------------------------------------------------------------
\* A thread that cannot go on by itself.
Waits(t) == phase[t] = "run" /\ Top(t).at = "wait" /\ Top(t).futs # <<>> /\ ~IsReady(Head(Top(t).futs))
Blocked(w) == phase[w] \in {"asleep", "gone"} \/ Waits(w)
\* A worker that polls, with nothing to find.
Idle(w) ==
    /\ ~Sleeps(w) /\ phase[w] \in {"test", "take", "steal"}
    /\ \A q \in QueuesOf(w[1]) : queue[q] = <<>>
Stuck ==
    \/ Waits(Main) /\ \A w \in AllWorkers : Blocked(w) \/ Idle(w)
    \/ /\ phase[Main] = "join" /\ Dying # "async"
       /\ \A w \in WorkersOf(Dying) : Blocked(w)
       /\ \E w \in WorkersOf(Dying) : phase[w] # "gone"

StuckForEver == Stuck /\ UNCHANGED vars

Next == (\E w \in AllWorkers : Work(w) \/ SpuriousWakeup(w)) \/ Run(Main) \/ Destroy \/ Ended \/ StuckForEver

Spec == Init /\ [][Next]_vars

\* The i-th worker of the k-th pool in use.
WorkOf(k, i) == k \in DOMAIN Uses /\ <<Uses[k], i>> \in AllWorkers /\ Work(<<Uses[k], i>>)
=============================================================================
