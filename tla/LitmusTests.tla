----------------------------- MODULE LitmusTests -----------------------------
(***************************************************************************)
(* The small programs of days 4, 10, 11, 13 and 17 of src/concurrent that  *)
(* are about memory orders: one sequence of instructions per thread, run by    *)
(* MemoryModel.  A test is a sequence of threads; a thread whose first     *)
(* instruction is Join starts when the threads before it have ended, as    *)
(* the function does that joins them and then asserts.                     *)
(*                                                                         *)
(* Every location starts at 0 (false, nullptr).  An instruction that loads *)
(* leaves the value in the thread's one register, which If and Assert test. *)
(***************************************************************************)
EXTENDS Integers, Sequences

Store(x, v, o) == [op |-> "store", loc |-> x, val |-> v, order |-> o]
Load(x, o) == [op |-> "load", loc |-> x, order |-> o]
\* while (x.load(o) is not in S);
Spin(x, S, o) == [op |-> "spin", loc |-> x, val |-> S, order |-> o]
\* while (!x.compare_exchange_strong(v, w, o));
Cas(x, v, w, o) == [op |-> "cas", loc |-> x, val |-> v, new |-> w, order |-> o]
\* fetch_add; the register gets the old value.
FetchAdd(x, d, o) == [op |-> "add", loc |-> x, val |-> d, order |-> o]
Incr(x) == FetchAdd(x, 1, "seq_cst")
Fence(o) == [op |-> "fence", order |-> o]
\* Accesses to a variable that is not atomic.
Read(x) == [op |-> "read", loc |-> x, order |-> "plain"]
Write(x, v) == [op |-> "write", loc |-> x, val |-> v, order |-> "plain"]
\* Go on if the register is in S, else at instruction n.
If(S, n) == [op |-> "if", val |-> S, to |-> n]
Assert(S) == [op |-> "assert", val |-> S]
Join == [op |-> "join"]
Lock(m) == Cas(m, 0, 1, "acquire")
Unlock(m) == Store(m, 0, "release")
\* std::call_once, and the guard of a static local variable: the first to come
\* runs what follows, up to OnceDone; the others wait for it and go on at n.
Once(f, n) == [op |-> "once", loc |-> f, to |-> n, order |-> "acquire"]
OnceDone(f) == Store(f, 2, "release")

-----------------------------------------------------------------------------
(* Day 10 *)

\* SpinLock: a test_and_set that finds the flag set writes back what is there.
lock == Cas("flag", 0, 1, "acquire")

\* The bug of a clear that publishes nothing.
unlock_Relaxed == Store("flag", 0, "relaxed")
unlock == Store("flag", 0, "release")

\* Two threads that print their line while they hold the lock.
TestSpinLock ==
    LET line == <<lock, Write("cout", 1), unlock>> IN <<line, line>>

\* read_y_then_x of days 10, 11 and 13 differ in their orders only.
write_then(o1, o2) == <<Store("x", 1, o1), Store("y", 1, o2)>>
await_then(a, b, o1, o2) == <<Spin(a, {1}, o1), Load(b, o2), If({1}, 5), Incr("z")>>

\* main: joins, then assert(z.load() != 0)
assert_z == <<Join, Load("z", "seq_cst"), Assert({1, 2})>>

TestOrderRelaxed10 ==
    << write_then("relaxed", "relaxed"),
       await_then("y", "x", "relaxed", "relaxed"), assert_z >>

-----------------------------------------------------------------------------
(* Day 11 *)

TestOrderSeqCst ==
    << write_then("seq_cst", "seq_cst"),
       await_then("y", "x", "seq_cst", "seq_cst"), assert_z >>

\* Its atomics are locals, see Uninitialised.
TestOrderRelaxed11 ==
    << write_then("relaxed", "relaxed"),
       <<Spin("y", {1}, "relaxed"), Load("x", "relaxed"), Assert({1})>> >>

TestReleaseAcquire ==
    << write_then("relaxed", "release"),
       <<Spin("y", {1}, "acquire"), Load("x", "relaxed"), Assert({1})>> >>

ReleasAcquireDanger ==
    << <<Store("x", 1, "release"), Store("y", 1, "release")>>,
       <<Store("y", 2, "release")>>,
       <<Spin("y", {1, 2}, "acquire"), Load("x", "acquire"), Assert({1})>> >>

\* t3 synchronises with t1's store through t2's relaxed exchange.
ReleaseSequence ==
    << <<Write("data", 42), Store("flag", 1, "release")>>,
       <<Cas("flag", 1, 2, "relaxed")>>,
       <<Spin("flag", {2}, "acquire"), Read("data"), Assert({42})>> >>

\* Compilers give memory_order_consume the meaning of acquire.
ConsumeDependency ==
    << <<Write("string", 1), Write("data", 42), Store("ptr", 1, "release")>>,
       <<Spin("ptr", {1}, "acquire"), Read("string"), Assert({1}),
         Read("data"), Assert({42})>> >>

\* The atomics that are locals without an initialiser: before C++20 they hold
\* anything at first.
Uninitialised ==
    [TestOrderRelaxed11 |-> {"x", "y"}, TestReleaseAcquire |-> {"x", "y"},
     ConsumeDependency |-> {"ptr"}]

-----------------------------------------------------------------------------
(* Day 13 *)

TestAR ==
    << <<Store("x", 1, "release")>>, <<Store("y", 1, "release")>>,
       await_then("x", "y", "acquire", "acquire"),
       await_then("y", "x", "acquire", "acquire"), assert_z >>

TestRelaxed ==
    << write_then("relaxed", "relaxed"),
       await_then("y", "x", "relaxed", "relaxed"), assert_z >>

\* write_x_then_y3 and read_y_then_x3, run together.
ReleaseAcquire3 ==
    << write_then("relaxed", "release"),
       await_then("y", "x", "acquire", "relaxed"), assert_z >>

\* The bug of a writer without its fence.
write_x_then_y_fence_Missing == write_then("relaxed", "relaxed")

write_x_then_y_fence ==
    <<Store("x", 1, "relaxed"), Fence("release"), Store("y", 1, "relaxed")>>

read_y_then_x_fence ==
    <<Spin("y", {1}, "relaxed"), Fence("acquire"), Load("x", "relaxed"),
      If({1}, 6), Incr("z")>>

TestFence == <<write_x_then_y_fence, read_y_then_x_fence, assert_z>>

-----------------------------------------------------------------------------
(* Day 17 *)

TestReleaseSeq ==
    << <<Write("data", 42), Store("flag", 1, "release")>>,
       <<Spin("flag", {1}, "acquire"), Read("data"), Assert({42})>> >>

\* populate_queue fills queue_data with two items here; count is how many are left.
\* A relaxed store may become visible before a store that comes first in its
\* thread: the two stores enter the modification orders either way.
populate_queue(countFirst) ==
    <<Write("queue_data", 1)>>
        \o IF countFirst THEN <<Store("count", 2, "release"), Store("store_finish", 1, "relaxed")>>
           ELSE <<Store("store_finish", 1, "relaxed"), Store("count", 2, "release")>>

\* The bug of taking an index with a relaxed fetch_sub.
consume_queue_items_Relaxed ==
    <<Spin("store_finish", {1}, "relaxed"), FetchAdd("count", -1, "relaxed"),
      If({1, 2}, 7), Read("queue_data"), Assert({1}), If({}, 1)>>

\* The second consumer to take an index does not read the release store, but the
\* fetch_sub of the first.
consume_queue_items ==
    <<Spin("store_finish", {1}, "relaxed"), FetchAdd("count", -1, "acquire"),
      If({1, 2}, 7), Read("queue_data"), Assert({1}), If({}, 1)>>

TestReleaseSeq2(countFirst) ==
    <<populate_queue(countFirst), consume_queue_items, consume_queue_items>>

-----------------------------------------------------------------------------
(* Singletons of days 4 and 11.  "obj" is what the constructor writes, the  *)
(* control block of the shared_ptr included.                                *)

\* What a caller does with the instance: it has one, and it is constructed.
useInstance == <<Read("single"), Assert({1}), Read("obj"), Assert({1})>>

\* The bug of a GetInst that does not test again under the mutex.
doubleChecked_Once ==
    << Read("single"), If({0}, 7), Lock("s_mutex"),
       Write("obj", 1), Write("single", 1), Unlock("s_mutex") >> \o useInstance

\* single is tested without the mutex, and again with it.
doubleChecked ==
    << Read("single"), If({0}, 9), Lock("s_mutex"), Read("single"), If({0}, 8),
       Write("obj", 1), Write("single", 1), Unlock("s_mutex") >> \o useInstance

SinglePointer == LET GetInst == doubleChecked IN <<GetInst, GetInst>>
SingleAuto == LET GetInst == doubleChecked IN <<GetInst, GetInst>>
SingleAutoSafe == LET GetInst == doubleChecked IN <<GetInst, GetInst, GetInst>>
SingleAuto11 == LET GetInst == doubleChecked IN <<GetInst, GetInst>>

\* The pointer is read only after an atomic flag says it is there.
SingleMemoryModel ==
    LET GetInst ==
        << Load("_b_init", "acquire"), If({0}, 10), Lock("s_mutex"),
           Load("_b_init", "relaxed"), If({0}, 9),
           Write("obj", 1), Write("single", 1), Store("_b_init", 1, "release"),
           Unlock("s_mutex") >> \o useInstance
    IN <<GetInst, GetInst>>

SingletonOnce ==
    LET GetInstance ==
        << Once("s_flag", 5), Write("obj", 1), Write("single", 1),
           OnceDone("s_flag") >> \o useInstance
    IN <<GetInstance, GetInstance>>

\* Singleton<T>, which LogicSystem inherits: the same with T's constructor.
Singleton == LET GetInstance == SingletonOnce[1] IN <<GetInstance, GetInstance, GetInstance>>

\* Single2: a static local, which is the object itself.
Single2 ==
    LET GetInst == << Once("guard", 4), Write("obj", 1), OnceDone("guard"),
                      Read("obj"), Assert({1}) >>
    IN <<GetInst, GetInst>>

\* Single2Hungry: GetInst runs once before main, which then starts one thread at
\* a time and joins it before the next.
Single2Hungry ==
    LET GetInst(n) == <<Read("single"), If({0}, n), Write("obj", 1), Write("single", 1)>>
        thread == <<Join>> \o GetInst(6) \o useInstance
    IN <<GetInst(5), thread, thread>>
=============================================================================
