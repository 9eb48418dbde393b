------------------------------- MODULE MCPools -------------------------------
(***************************************************************************)
(* The sorts and loops of Pools on two workers: enough for a task that     *)
(* waits for another one, and for a sort that waits for a task nobody can  *)
(* run.  Or the sorter of day 19, with the threads it starts itself: a     *)
(* behaviour has the one or the other.                                     *)
(***************************************************************************)
EXTENDS Pools

\* The sorts on two pools, or on std::async, get two elements only.
AllClients ==
    {TestParallenForEach(4), TestRecursiveForEach(4), TestSimpleThread(4),
     TestFutureThread(4), TestNotifyThread(4), TestQuickSort(2), TestQuickSort(3),
     TestParrallenThreadPool(2), TestParrallenThreadPool(3), TestThreadPoolSort(2),
     TestThreadPoolSort(3), TestStealPoolSort(2), test_parallen_sort(2),
     test_thread_pool_sort(2)}

VARIABLES
    which,      \* "pools" or "sorter"
    s_max_thread_count, s_chunks, s_promise, s_size, s_started, s_calls, s_end_of_data,
    s_phase, s_raced

s_vars == <<s_max_thread_count, s_chunks, s_promise, s_size, s_started, s_calls, s_end_of_data,
            s_phase, s_raced>>

S == INSTANCE Sorter WITH
        Elements <- 3, MaxThreads <- 2, max_thread_count <- s_max_thread_count,
        chunks <- s_chunks, promise <- s_promise, size <- s_size, started <- s_started,
        calls <- s_calls, end_of_data <- s_end_of_data, phase <- s_phase, raced <- s_raced

PoolsInit ==
    \/ which = "pools" /\ Init /\ s_max_thread_count = 0 /\ S!Init
    \/ which = "sorter" /\ S!Init /\ client = TestQuickSort(2) /\ Init

PoolsNext ==
    \/ which = "pools" /\ Next /\ UNCHANGED <<which, s_vars>>
    \/ which = "sorter" /\ S!Next /\ UNCHANGED <<which, vars>>

\* A step of main, and of another thread, in the machine that runs.
MainStep ==
    \/ which = "pools" /\ (Run(Main) \/ Destroy) /\ UNCHANGED <<which, s_vars>>
    \/ which = "sorter" /\ S!Step(S!Main) /\ UNCHANGED <<which, vars>>
ThreadStep(k, i) ==
    \/ which = "pools" /\ WorkOf(k, i) /\ UNCHANGED <<which, s_vars>>
    \/ which = "sorter" /\ 2 * k + i - 2 \in S!Helpers /\ S!Step(2 * k + i - 2)
       /\ UNCHANGED <<which, vars>>

\* Threads run, and mutexes are handed on.
PoolsFairness ==
    /\ SF_<<vars, s_vars>>(MainStep)
    /\ \A k \in 1 .. 2, i \in 1 .. 2 : SF_<<vars, s_vars>>(ThreadStep(k, i))

PoolsSpec == PoolsInit /\ [][PoolsNext]_<<which, vars, s_vars>> /\ PoolsFairness

-----------------------------------------------------------------------------
\* What main gets is sorted, and a loop has applied its function to each
\* block once when it returns, but for simple_for_each, which only sleeps; to none
\* twice ever.  When the sorter is destroyed none of its threads is in do_sort.
ResultsRight ==
    /\ S!SortedWhenGone
    /\ \A x \in client.data : applied[x] <= 1
    /\ phase[Main] # "run" =>
        IF Function[client.fn].sorts
        THEN stack[Main][1].acc = [i \in 1 .. Cardinality(client.data) |-> i]
        ELSE client.fn # "simple_for_each" => \A x \in client.data : applied[x] = 1

\* The workers of a queue wait in tasks for a task that is behind them in it.
Starved ==
    \E q \in AllQueues : queue[q] # <<>> /\ \A w \in AllWorkers : QueueOf(w) = q => Waits(w)

\* Nothing goes on only when a task waits behind workers that wait for it, or
\* when a notification fell between a worker's test and its sleep.  A pool whose
\* commit takes the workers' mutex misses none while main runs; nor can a pool
\* of workers that poll.
StuckExplained ==
    Stuck => \/ Starved
             \/ \E q \in missed : q[1] = "ThreadPool" => phase[Main] = "join"

\* A sort starves only when it has more elements than the pool has workers.
EnoughWorkers == Starved /\ Stuck => Cardinality(client.data) > Workers

\* Else every call returns and every destructor too.  (Not if the flag of a queue
\* starts as true: its workers spin, and its tasks are never run.)  The sorts of
\* the sorter wait for each other in no circle.
PoolsEnd ==
    bstop = {} ~> IF which = "pools" THEN Stuck \/ phase[Main] = "ended"
                  ELSE s_raced \/ s_phase = "ended"
=============================================================================
