----------------------------- MODULE ThreadTests -----------------------------
(***************************************************************************)
(* The programs of days 1 to 3, 5, 6, 9 and 24 of src/concurrent about     *)
(* threads, locks, condition variables, futures and the lifetime of what   *)
(* they use, run by ThreadMachine.                                         *)
(*                                                                         *)
(* A test has the initial values of its variables, a sequence of threads,  *)
(* the first of which is the function itself and starts the others, and    *)
(* the values its variables must have when all threads have ended.  A      *)
(* std::thread is a variable that holds the number of its thread, or 0; a  *)
(* thing with a lifetime holds 1 while it lives, a future 1 once it is     *)
(* ready, a container the number of its elements.  Sleeps and printing are *)
(* left out, and a loop without an end runs Rounds times.                   *)
(***************************************************************************)
EXTENDS Integers, Sequences

Rounds == 2

\* Instructions.  Places to go to are relative to the instruction.
Lock(m) == [op |-> "lock", mutexes |-> {m}]
LockBoth(m, n) == [op |-> "lock", mutexes |-> {m, n}]       \* std::lock
LockShared(m) == [op |-> "lock_shared", mutexes |-> {m}]
LockRecursive(m) == [op |-> "lock_recursive", mutexes |-> {m}]
Unlock(m) == [op |-> "unlock", mutexes |-> {m}]
\* cv.wait(lock, predicate), with lock on m.  The predicate: one of the variables
\* of the record any has one of the values given for it there.
Wait(cv, m, any) == [op |-> "wait", cv |-> cv, mutexes |-> {m}, any |-> any]
NotifyOne(cv) == [op |-> "notify", cv |-> cv]
NotifyAll(cv) == [op |-> "notify_all", cv |-> cv]
\* cv.wait and cv.wait_for without a predicate, with the mutexes ms unlocked.
Sleep(cv, ms) == [op |-> "sleep", cv |-> cv, mutexes |-> ms]
SleepFor(cv, ms) == [op |-> "sleep_for", cv |-> cv, mutexes |-> ms]
\* Load x into the register, and store the register plus d.
Get(x) == [op |-> "get", var |-> x]
Put(x, d) == [op |-> "put", var |-> x, val |-> d]
Set(x, v) == [op |-> "set", var |-> x, val |-> v]
\* Go on if x is in S, else n instructions further.
If(x, S, n) == [op |-> "if", var |-> x, vals |-> S, skip |-> n]
Goto(n) == [op |-> "goto", skip |-> n]
\* Wait for a future to be ready.
Await(x) == [op |-> "await", var |-> x]
\* A thread object: constructed, joined, detached, destroyed, moved from p to o.
Start(o, t) == [op |-> "start", var |-> o, val |-> t]
JoinThread(o) == [op |-> "join", var |-> o]
Detach(o) == Set(o, 0)
Destroy(o) == [op |-> "destroy", var |-> o]
Move(o, p) == [op |-> "move", var |-> o, from |-> p]
\* Something with a lifetime, or an element of a container: used, and ended.
Use(x) == [op |-> "use", var |-> x]
Free(x) == [op |-> "free", var |-> x]
\* Add x to the register.
Plus(x) == [op |-> "plus", var |-> x]
\* Push to a container, and pop from it; if it is empty go on n further.
Push(x) == [op |-> "push", var |-> x]
TryPop(x, n) == [op |-> "try_pop", var |-> x, skip |-> n]
\* promise::set_value; if x has one already, throw, and go on n further.
SetValue(x, v, n) == [op |-> "set_value", var |-> x, val |-> v, skip |-> n]
\* assert, and an exception that leaves its thread.
Expect(x, S) == [op |-> "expect", var |-> x, vals |-> S]
Throw == [op |-> "throw"]

Repeat(program) == program \o program

Incr(x) == <<Get(x), Put(x, 1)>>
Decr(x) == <<Get(x), Put(x, -1)>>
Locked(m, program) == <<Lock(m)>> \o program \o <<Unlock(m)>>

\* The function: start t1 and t2, join both.
JoinBoth == <<Start("t1", 2), Start("t2", 3), JoinThread("t1"), JoinThread("t2")>>
\* A function that starts one thread and joins it.
JoinOne == <<Start("t1", 2), JoinThread("t1")>>

Test(vars, threads, post) == [vars |-> vars, threads |-> threads, post |-> post]
Nothing == [x \in {} |-> {}]

-----------------------------------------------------------------------------
(* Day 1: what a thread refers to must live as long as the thread. *)

\* func::operator(), with a reference to the local variable of its creator
func == <<Use("state"), Use("state")>>

oops == Test([t1 |-> {0}, state |-> {1}],
    << <<Start("t1", 2), Detach("t1"), Destroy("t1"), Free("state")>>, func >>, Nothing)

use_join == Test([t1 |-> {0}, state |-> {1}],
    << JoinOne \o <<Destroy("t1"), Free("state")>>, func >>, [state |-> {0}])

\* throws: what the function does in between throws; both paths join.
catch_exception == Test([t1 |-> {0}, state |-> {1}, throws |-> {0, 1}],
    << << Start("t1", 2), If("throws", {1}, 3), JoinThread("t1"), Goto(2),
          JoinThread("t1"), Destroy("t1"), Free("state") >>, func >>, [state |-> {0}])

\* ~thread_guard
guard == <<If("t1", {1, 2}, 2), JoinThread("t1")>>

auto_guard == Test([t1 |-> {0}, state |-> {1}],
    << <<Start("t1", 2)>> \o guard \o <<Destroy("t1"), Free("state")>>, func >>,
    [state |-> {0}])

\* The new thread makes the std::string, from a pointer into the buffer.
danger_oops == Test([t1 |-> {0}, buffer |-> {1}],
    << <<Start("t1", 2), Detach("t1"), Free("buffer")>>, <<Use("buffer")>> >>, Nothing)

\* The function makes the string, which moves into the new thread.
safe_oops == Test([t1 |-> {0}, buffer |-> {1}, string |-> {1}],
    << <<Use("buffer"), Start("t1", 2), Detach("t1"), Free("buffer")>>,
       <<Use("string"), Free("string")>> >>, Nothing)

ref_oops == Test([t1 |-> {0}, param |-> {0}], << JoinOne, Incr("param") >>, [param |-> {1}])

bind_class_oops == Test([t1 |-> {0}, my_x |-> {1}],
    << JoinOne \o <<Free("my_x")>>, <<Use("my_x")>> >>, Nothing)

\* The pointer moves into the thread, which deletes what it points to.
move_oops == Test([t1 |-> {0}, p |-> {1}],
    << JoinOne, <<Use("p"), Free("p")>> >>, [p |-> {0}])

\* Endless threads; the last move is onto a t1 that is joinable.
dangerous_use == Test([t1 |-> {0}, t2 |-> {0}, t3 |-> {0}],
    << << Start("t1", 2), Move("t2", "t1"), Start("t1", 3), Move("t3", "t2"),
          Move("t1", "t3") >>, <<Goto(0)>>, <<Goto(0)>> >>, Nothing)

\* joining_thread: operator= joins what it overwrites, the destructor what it has.
joining_assign(j, k) == <<If(j, {2, 3, 4}, 2), JoinThread(j), Move(j, k)>>
joining_destroy(j) == <<If(j, {2, 3, 4}, 2), JoinThread(j), Destroy(j)>>

use_jointhread == Test([j1 |-> {0}, j2 |-> {0}, j3 |-> {0}],
    << <<Start("j1", 2), Start("j2", 3), Start("j3", 4)>> \o joining_assign("j1", "j3")
         \o joining_destroy("j3") \o joining_destroy("j2") \o joining_destroy("j1"),
       <<Goto(1)>>, <<Goto(1)>>, <<Goto(1)>> >>, [j1 |-> {0}])

-----------------------------------------------------------------------------
(* Day 2: locks *)

use_lock == Repeat(Locked("mtx1", Incr("shared_data")))

test_lock == Test([t1 |-> {0}, t2 |-> {0}, shared_data |-> {0}],
    << JoinBoth, use_lock, Repeat(Locked("mtx1", Decr("shared_data"))) >>,
    [shared_data |-> {0}])

\* empty() and pop() lock one after the other: in between the stack may become
\* empty.
test_threadsafe_stack1 ==
    LET popper == << Lock("m"), If("data", {0}, 3), Unlock("m"), Goto(7),
                     Unlock("m"), Lock("m"), Use("data") >>
                  \o Decr("data") \o <<Unlock("m")>>
    IN Test([t1 |-> {0}, t2 |-> {0}, data |-> {1}], << JoinBoth, popper, popper >>, Nothing)

\* threadsafe_stack: pop itself looks, and throws empty_stack, which the
\* callers catch.
threadsafe_stack ==
    LET popper == << Lock("m"), If("data", {0}, 2), Goto(4), Use("data") >>
                  \o Decr("data") \o <<Unlock("m")>>
    IN Test([t1 |-> {0}, t2 |-> {0}, data |-> {1}], << JoinBoth, popper, popper >>,
            [data |-> {0}])

dead_lock(m, n) == Repeat(<<Lock(m), Lock(n), Unlock(n), Unlock(m)>>)

test_dead_lock == Test([t1 |-> {0}, t2 |-> {0}],
    << JoinBoth, dead_lock("t_lock1", "t_lock2"), dead_lock("t_lock2", "t_lock1") >>, Nothing)

\* atomic_lock1 and atomic_lock2: one lock at a time
test_safe_lock ==
    LET atomic_lock1 == Locked("t_lock1", Incr("m_1"))
        atomic_lock2 == Locked("t_lock2", Incr("m_2"))
    IN Test([t1 |-> {0}, t2 |-> {0}, m_1 |-> {0}, m_2 |-> {0}],
        << JoinBoth, Repeat(atomic_lock1 \o atomic_lock2),
           Repeat(atomic_lock2 \o atomic_lock1) >>,
        [m_1 |-> {2 * Rounds}, m_2 |-> {2 * Rounds}])

\* temp = b1, b1 = b2, b2 = temp
swap(a, b) == <<Get(a), [op |-> "copy", var |-> a, from |-> b], Put(b, 0)>>

test_danger_swap ==
    LET danger_swap(a, b) == <<Lock(a), Lock(b)>> \o swap(a, b) \o <<Unlock(b), Unlock(a)>>
    IN Test([t1 |-> {0}, t2 |-> {0}, objm1 |-> {5}, objm2 |-> {7}],
        << JoinBoth, danger_swap("objm1", "objm2"), danger_swap("objm2", "objm1") >>, Nothing)

\* The bug of a swap that takes one lock only.
safe_swap_OneLock(a, b) == <<Lock(a)>> \o swap(a, b) \o <<Unlock(a)>>

safe_swap(a, b) == <<LockBoth(a, b)>> \o swap(a, b) \o <<Unlock(b), Unlock(a)>>

test_safe_swap == Test([t1 |-> {0}, t2 |-> {0}, objm1 |-> {5}, objm2 |-> {7}],
    << JoinBoth, safe_swap("objm1", "objm2"), safe_swap("objm2", "objm1") >>,
    [objm1 |-> {5}, objm2 |-> {7}])

\* std::scoped_lock
safe_swap_scope ==
    LET scoped(a, b) == <<LockBoth(a, b)>> \o swap(a, b) \o <<Unlock(a), Unlock(b)>>
    IN Test([t1 |-> {0}, t2 |-> {0}, objm1 |-> {5}, objm2 |-> {7}],
        << JoinBoth, scoped("objm1", "objm2"), scoped("objm2", "objm1") >>,
        [objm1 |-> {5}, objm2 |-> {7}])

-----------------------------------------------------------------------------
(* Day 3: unique_lock and its relatives *)

\* Main and a thread of their own each run f.
Alone(f) == << JoinOne \o f, f >>

\* use_unique and defer_lock; owns_lock asks the unique_lock, which owns the
\* mutex from its constructor to its unlock.
use_unique == Test([t1 |-> {0}, shared_data |-> {0}],
    Alone(Locked("mtx", Incr("shared_data"))), [shared_data |-> {2}])

\* main joins a thread that wants the mutex main holds.
use_own_defer == Test([t1 |-> {0}],
    << <<Lock("mtx")>> \o JoinOne \o <<Unlock("mtx")>>, <<Lock("mtx"), Unlock("mtx")>> >>,
    Nothing)

\* The unique_lock adopts a mutex that is locked.
use_own_adopt == Test([t1 |-> {0}], Alone(<<Lock("mtx"), Unlock("mtx")>>), Nothing)

\* safe_swap and safe_swap2: std::lock on two mutexes, or on two unique_locks
\* that do not own theirs yet.
safe_swap2 == Test([t1 |-> {0}, t2 |-> {0}, a |-> {5}, b |-> {7}],
    LET f(m, n) == <<LockBoth(m, n)>> \o swap("a", "b") \o <<Unlock(n), Unlock(m)>>
    IN << JoinBoth, f("mtx1", "mtx2"), f("mtx2", "mtx1") >>, [a |-> {5}, b |-> {7}])

\* get_lock returns the unique_lock: the mutex stays locked in between.
use_return ==
    LET get_lock == <<Lock("mtx")>> \o Incr("shared_data")
        caller == get_lock \o Incr("shared_data") \o <<Unlock("mtx")>>
    IN Test([t1 |-> {0}, t2 |-> {0}, shared_data |-> {0}],
            << JoinBoth, caller, caller >>, [shared_data |-> {4}])

precision_lock ==
    LET f == Locked("mtx", Incr("shared_data")) \o Locked("mtx", Incr("shared_data"))
    IN Test([t1 |-> {0}, t2 |-> {0}, shared_data |-> {0}],
            << JoinBoth, f, f >>, [shared_data |-> {4}])

\* The map is a container that a writer takes apart (0) and puts together (1).
DNService ==
    LET QueryDNS == <<LockShared("_shared_mtx"), Use("_dns_info"), Use("_dns_info"),
                      Unlock("_shared_mtx")>>
        AddDNSInfo == Locked("_shared_mtx", <<Set("_dns_info", 0), Set("_dns_info", 1)>>)
    IN Test([t1 |-> {0}, t2 |-> {0}, _dns_info |-> {1}],
            << JoinBoth \o QueryDNS, QueryDNS, AddDNSInfo >>, Nothing)

\* AddScore locks, and QueryStudent, which it calls, locks again.
RecursiveDemo ==
    LET QueryStudent == <<LockRecursive("_recursive_mtx"), Unlock("_recursive_mtx")>>
        AddScore == <<LockRecursive("_recursive_mtx")>> \o QueryStudent \o Incr("score")
                      \o <<Unlock("_recursive_mtx")>>
        AddScoreAtomic == <<LockRecursive("_recursive_mtx")>> \o Incr("score")
                            \o <<Unlock("_recursive_mtx")>>
    IN Test([t1 |-> {0}, t2 |-> {0}, score |-> {0}],
            << JoinBoth, AddScore, AddScoreAtomic >>, [score |-> {2}])

-----------------------------------------------------------------------------
(* Day 5: two threads that take turns; num is 1 in A's turn, 2 in B's. *)

\* Each tests num under the mutex until it finds its own turn.
turn(mine, d) == << Lock("mtx_num"), If("num", {mine}, 4), Get("num"), Put("num", d),
                    Goto(3), Unlock("mtx_num"), Goto(-6), Unlock("mtx_num") >>

\* The bug of a turn that is not passed on.
PoorImplemention_KeepsTurn == Test([t1 |-> {0}, t2 |-> {0}, num |-> {1}],
    << JoinBoth, Repeat(turn(1, 0)), Repeat(turn(2, -1)) >>, [num |-> {1}])

PoorImplemention == Test([t1 |-> {0}, t2 |-> {0}, num |-> {1}],
    << JoinBoth, Repeat(turn(1, 1)), Repeat(turn(2, -1)) >>, [num |-> {1}])

\* The bug of a turn that wakes the wrong condition variable.
alternate_WakesItself(mine, d, cv, other) ==
    << Lock("mtx_num"), Wait(cv, "mtx_num", [num |-> {mine}]), Get("num"), Put("num", d),
       NotifyOne(cv), Unlock("mtx_num") >>

alternate(mine, d, cv, other) ==
    << Lock("mtx_num"), Wait(cv, "mtx_num", [num |-> {mine}]), Get("num"), Put("num", d),
       NotifyOne(other), Unlock("mtx_num") >>

ResonableImplemention == Test([t1 |-> {0}, t2 |-> {0}, num |-> {1}],
    << JoinBoth, Repeat(alternate(1, 1, "cvA", "cvB")),
       Repeat(alternate(2, -1, "cvB", "cvA")) >>, [num |-> {1}])

\* consumer1 waits for values and consumer2 tries.  The producer pushes as many
\* as consumer1 takes, and one more.
test_safe_que ==
    LET push == Locked("mut", Incr("data_queue") \o <<NotifyOne("data_cond")>>)
        wait_and_pop == << Lock("mut"), Wait("data_cond", "mut", [data_queue |-> 1 .. 3]),
                           Use("data_queue") >> \o Decr("data_queue") \o <<Unlock("mut")>>
        try_pop == << Lock("mut"), If("data_queue", 1 .. 3, 4), Use("data_queue") >>
                   \o Decr("data_queue") \o <<Unlock("mut")>>
    IN Test([t1 |-> {0}, t2 |-> {0}, t3 |-> {0}, data_queue |-> {0}],
            << << Start("t1", 2), Start("t2", 3), Start("t3", 4), JoinThread("t1"),
                  JoinThread("t2"), JoinThread("t3") >>,
               push \o push \o push, wait_and_pop \o wait_and_pop, try_pop >>,
            [data_queue |-> {0, 1}])

-----------------------------------------------------------------------------
(* Day 6: futures.  A future is 0, or ready: 1 with a value, 2 with an      *)
(* exception, which get() throws and the function catches.                  *)

use_async == Test([f |-> {0}, t1 |-> {0}],
    << <<Start("t1", 2), Await("f"), JoinThread("t1")>>, <<Set("f", 1)>> >>, [f |-> {1}])

\* The thread of a packaged_task is detached; get() waits for the task.
use_package == Test([f |-> {0}, t1 |-> {0}],
    << <<Start("t1", 2), Detach("t1"), Destroy("t1"), Await("f")>>, <<Set("f", 1)>> >>,
    [f |-> {1}])

\* Every copy of a shared_future gets the value.  (A copy that has been moved
\* from has no state: get() throws what the thread catches.)
use_shared_future(third) ==
    Test([f |-> {0}, t1 |-> {0}, t2 |-> {0}, t3 |-> {0}, got |-> {0}],
        << << Start("t1", 2), Start("t2", 3), Start("t3", 4), JoinThread("t1"),
              JoinThread("t2"), JoinThread("t3") >>,
           <<Set("f", 1)>>, <<Await("f"), Use("f")>>, third >>, [f |-> {1}])

use_shared_future_copied == use_shared_future(<<Await("f"), Use("f")>>)
use_shared_future_error == use_shared_future(<<>>)

use_promise == Test([f |-> {0}, t1 |-> {0}],
    << <<Start("t1", 2), Await("f"), Use("f"), JoinThread("t1")>>, <<Set("f", 1)>> >>,
    [f |-> {1}])

use_promise_exception == Test([f |-> {0}, t1 |-> {0}],
    << <<Start("t1", 2), Await("f"), If("f", {1}, 2), Use("f"), JoinThread("t1")>>,
       <<Set("f", 2)>> >>, [f |-> {2}])

\* The promise that goes out of scope has been moved from: the thread's one
\* sets the value.
use_promise_destruct == Test([f |-> {0}, prom |-> {0}, t1 |-> {0}],
    << << Start("t1", 2), If("prom", {1}, 2), Set("f", 2), Await("f"), Use("f"),
          JoinThread("t1") >>, <<Set("f", 1)>> >>, [f |-> {1}])

use_future_exception == Test([f |-> {0}, t1 |-> {0}],
    << <<Start("t1", 2), Await("f"), JoinThread("t1")>>, <<Set("f", 2)>> >>, [f |-> {2}])

-----------------------------------------------------------------------------
(* Day 9.  The future of a std::async waits in its destructor. *)

ReturnThread == Test([t |-> {0}, t1 |-> {0}],
    << <<Start("t", 2), Move("t1", "t"), Destroy("t"), JoinThread("t1")>>, <<Goto(1)>> >>,
    Nothing)

\* t1 is joinable when it is assigned to.
ThreadOp == Test([t1 |-> {0}, t2 |-> {0}],
    << <<Start("t1", 2), Start("t2", 3), Move("t1", "t2"), JoinThread("t1"), JoinThread("t2")>>,
       <<Goto(1)>>, <<Goto(1)>> >>, Nothing)

BlockAsync == Test([t1 |-> {0}, f |-> {0}],
    << <<Start("t1", 2), Await("f")>>, <<Set("f", 1)>> >>, [f |-> {1}])

\* The scope that locks also waits for a thread that locks.
DeadLock == Test([t1 |-> {0}, f |-> {0}],
    << <<Lock("mtx"), Start("t1", 2), Await("f"), Unlock("mtx")>>,
       Locked("mtx", <<Set("f", 1)>>) >>, Nothing)

first_method == Test([t1 |-> {0}, f |-> {0}],
    LET func1 == <<Start("t1", 2)>>  func2 == <<Await("f"), Use("f")>>
    IN << func1 \o func2 \o <<JoinThread("t1")>>, <<Set("f", 1)>> >>, [f |-> {1}])

\* ParallenExe: a packaged_task on a detached thread, whose future does not wait
\* in its destructor.
ParallenExe == <<Start("t1", 2), Detach("t1"), Destroy("t1")>>
TestParallen1 == Test([t1 |-> {0}, f |-> {0}], << ParallenExe, <<Set("f", 1)>> >>, [f |-> {1}])
TestParallen2 == Test([t1 |-> {0}, f |-> {0}],
    << ParallenExe \o <<Await("f")>>, <<Set("f", 1)>> >>, [f |-> {1}])

-----------------------------------------------------------------------------
(* Day 24.  std::async without a policy starts a thread.                    *)

\* The temporary future waits in its destructor, with the mutex locked.
deadlockdemo == Test([t1 |-> {0}, t2 |-> {0}, f |-> {0}],
    << JoinOne, <<Lock("mtx"), Start("t2", 3), Await("f"), Unlock("mtx")>>,
       <<Lock("mtx"), Unlock("mtx"), Set("f", 1)>> >>, Nothing)

\* The future outlives the thread that locks: it waits when lockdemo returns,
\* before the mutex is destroyed.
lockdemo == Test([t1 |-> {0}, t2 |-> {0}, f |-> {0}, mtx |-> {1}],
    << JoinOne \o <<Await("f"), Free("mtx")>>,
       <<Lock("mtx"), Start("t2", 3), Unlock("mtx")>>,
       <<Use("mtx"), Lock("mtx"), Unlock("mtx"), Set("f", 1)>> >>, [f |-> {1}])

\* The tasks refer to data that is gone when the loop body ends.
reference_invalid == Test([t1 |-> {0}, d1 |-> {1}, d2 |-> {1}],
    << <<Free("d1"), Free("d2")>> \o JoinOne, <<Use("d1"), Use("d2")>> >>, Nothing)

\* The tasks share it: it goes with the task that is popped.
reference_sharedptr == Test([t1 |-> {0}, d1 |-> {1}, d2 |-> {1}],
    << JoinOne, <<Use("d1"), Free("d1"), Use("d2"), Free("d2")>> >>, [d1 |-> {0}, d2 |-> {0}])

\* Two objects with one _data.
shallow_copy == Test([_data |-> {1}], << <<Free("_data"), Free("_data")>> >>, Nothing)

\* So too when the compiler does not elide the copy of what a function returns.
shallow_copy2 == Test([_data |-> {1}, elided |-> {0, 1}],
    << <<Free("_data"), If("elided", {0}, 2), Free("_data")>> >>, Nothing)

normal_copy == Test([data1 |-> {1}, data2 |-> {1}, elided |-> {0, 1}],
    << <<Free("data1"), If("elided", {0}, 2), Free("data2")>> >>, Nothing)

\* More than QueueLimit values in the queue: the producer waits.
QueueLimit == 1

\* The two threads of ProductConsumerMgr, which differ in what they wait for.
loop(cv, any, d, other) ==
    << If("b_stop", {0}, 10), Lock("_mtx"), Wait(cv, "_mtx", any), If("b_stop", {0}, 6),
       Get("que"), Put("que", d), Unlock("_mtx"), NotifyOne(other), Goto(-8), Unlock("_mtx") >>

\* The handler sets b_stop at any time; the function, which has waited for that,
\* destroys the manager.  Neither holds the mutex.
TestProducerConsumer == Test([t1 |-> {0}, t2 |-> {0}, b_stop |-> {0}, que |-> {0}],
    << << Start("t1", 2), Start("t2", 3), Set("b_stop", 1), NotifyOne("_consume_cv"),
          NotifyOne("_producer_cv"), JoinThread("t2"), JoinThread("t1") >>,
       loop("_consume_cv", [b_stop |-> {1}, que |-> 1 .. QueueLimit + 1], -1, "_producer_cv"),
       loop("_producer_cv", [b_stop |-> {1}, que |-> 0 .. QueueLimit], 1, "_consume_cv") >>,
    Nothing)
=============================================================================
