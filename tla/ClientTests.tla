----------------------------- MODULE ClientTests -----------------------------
(***************************************************************************)
(* Programs for ThreadMachine about the containers: the task queue in C of *)
(* day 1, the mutexes with levels of day 2, the tests of the containers of *)
(* days 14 to 18, and the parallel algorithms of day 21.                   *)
(*                                                                         *)
(* A container is the number of its elements, or one variable for each key *)
(* it may have.  Loops over hundreds of elements have two, a block of      *)
(* elements that one thread treats alike is one or two variables.          *)
(***************************************************************************)
EXTENDS ThreadTests

-----------------------------------------------------------------------------
(* Day 1: the task queue in C. *)

enqueue == <<Lock("mtx"), Push("queue"), NotifyOne("cond"), Unlock("mtx")>>

worker_thread ==
    << Lock("mtx"), Wait("cond", "mtx", [queue |-> 1 .. 2, stop |-> {1}]),
       TryPop("queue", 4), Unlock("mtx"), Push("executed"), Goto(-5), Unlock("mtx") >>

task_queue == Test([worker |-> {0}, queue |-> {0}, stop |-> {0}, executed |-> {0}],
    << <<Start("worker", 2)>> \o enqueue \o enqueue
         \o Locked("mtx", <<Set("stop", 1), NotifyOne("cond")>>) \o <<JoinThread("worker")>>,
       worker_thread >>, [executed |-> {2}, queue |-> {0}])

-----------------------------------------------------------------------------
(* Day 2: mutexes with levels.  The level of a thread is 3 at first (ULONG_MAX), *)
(* that of hmtx1 is 2 (1000), that of hmtx2 is 1 (500).                          *)

Copy(x, y) == [op |-> "copy", var |-> x, from |-> y]

lock(level, m, value, previous) ==
    << If(level, value + 1 .. 3, 2), Goto(2), Throw, Lock(m), Copy(previous, level),
       Set(level, value) >>

unlock(level, m, value, previous) ==
    <<If(level, {value}, 2), Goto(2), Throw, Copy(level, previous), Unlock(m)>>

\* The second thread takes them in the wrong order: it is ended before it can wait.
test_hierarchy_lock ==
    Test([t1 |-> {0}, t2 |-> {0}, level1 |-> {3}, level2 |-> {3}, previous1 |-> {0},
          previous2 |-> {0}],
    << JoinBoth,
       lock("level1", "hmtx1", 2, "previous1") \o lock("level1", "hmtx2", 1, "previous2")
         \o unlock("level1", "hmtx2", 1, "previous2")
         \o unlock("level1", "hmtx1", 2, "previous1"),
       lock("level2", "hmtx2", 1, "previous2") \o lock("level2", "hmtx1", 2, "previous1")
         \o unlock("level2", "hmtx1", 2, "previous1")
         \o unlock("level2", "hmtx2", 1, "previous2") >>, Nothing)

-----------------------------------------------------------------------------
(* Days 14 to 18: threads that fill a container and threads that empty it. *)

JoinThree == <<Start("t1", 2), Start("t2", 3), Start("t3", 4),
               JoinThread("t1"), JoinThread("t2"), JoinThread("t3")>>

\* Day 14: the consumers never end, and so main waits for them for ever.
consumer == << Lock("m"), Wait("data_cond", "m", [data_queue |-> 1 .. 2]),
               TryPop("data_queue", 0), Unlock("m"), Lock("mtx_cout"), Unlock("mtx_cout"),
               Goto(-6) >>

TestThreadSafeQue == Test([t1 |-> {0}, t2 |-> {0}, t3 |-> {0}, data_queue |-> {0}],
    << JoinThree, consumer, consumer,
       Repeat(Locked("m", <<Push("data_queue"), NotifyOne("data_cond")>>)) >>, Nothing)

\* Day 15: keys 0 and 2 are in the same bucket.
add_or_update_mapping(bucket, key) == Locked(bucket, <<Set(key, 1)>>)

\* Until value_for finds the key; then remove_mapping.
remove_when_there(bucket, key) ==
    <<LockShared(bucket), If(key, {1}, 3), Unlock(bucket), Goto(3), Unlock(bucket), Goto(-5)>>
        \o Locked(bucket, <<Set(key, 0)>>)

TestThreadSafeHash ==
    Test([t1 |-> {0}, t2 |-> {0}, t3 |-> {0}, key0 |-> {0}, key1 |-> {0}, key2 |-> {0}],
    << JoinThree \o <<Lock("bucket0"), Lock("bucket1"), Expect("key2", {1}),
                      Expect("key0", {0}), Expect("key1", {0}), Unlock("bucket0"),
                      Unlock("bucket1")>>,
       add_or_update_mapping("bucket0", "key0") \o add_or_update_mapping("bucket1", "key1"),
       remove_when_there("bucket0", "key0") \o remove_when_there("bucket1", "key1"),
       add_or_update_mapping("bucket0", "key2") >>, [key2 |-> {1}])

\* Day 16: the values are looked for in the order in which they are pushed.
TestThreadSafeList == Test([t1 |-> {0}, t2 |-> {0}, node0 |-> {0}, node1 |-> {0}],
    << JoinBoth, <<Set("node0", 1), Set("node1", 1)>>,
       <<If("node0", {1}, 0), If("node1", {1}, 0)>> >>, [node1 |-> {1}])

\* Pop until there have been n values, here one or two.
pop_one(q) == <<TryPop(q, 0)>>

\* Day 17: what the poppers took goes into a set.
TestLockFreeStack ==
    LET popper == pop_one("stack") \o Locked("set_mtx", Incr("rmv_set")) IN
    Test([t1 |-> {0}, t2 |-> {0}, t3 |-> {0}, stack |-> {0}, rmv_set |-> {0}],
    << JoinThree \o <<Expect("rmv_set", {2})>>, Repeat(<<Push("stack")>>), popper, popper >>,
    [stack |-> {0}])

\* Day 18: here a pop of the empty queue counts as a round.
TestSinglePopPush == Test([t1 |-> {0}, t2 |-> {0}, que |-> {0}],
    << JoinBoth, Repeat(<<Push("que")>>), Repeat(<<TryPop("que", 1)>>) >>, [que |-> 0 .. 2])

TestLockFreeQue == Test([t1 |-> {0}, t2 |-> {0}, que |-> {0}],
    << JoinBoth, Repeat(<<Push("que")>>), Repeat(pop_one("que")) >>, [que |-> {0}])

TestLockFreeQueMultiPop == Test([t1 |-> {0}, t2 |-> {0}, t3 |-> {0}, que |-> {0}],
    << JoinThree, Repeat(<<Push("que")>>), pop_one("que"), pop_one("que") >>, [que |-> {0}])

TestLockFreeQueMultiPushPop ==
    Test([t1 |-> {0}, t2 |-> {0}, t3 |-> {0}, t4 |-> {0}, que |-> {0}],
    << <<Start("t1", 2), Start("t4", 3), Start("t2", 4), Start("t3", 5), JoinThread("t1"),
         JoinThread("t2"), JoinThread("t3"), JoinThread("t4")>>,
       <<Push("que")>>, <<Push("que")>>, pop_one("que"), pop_one("que") >>, [que |-> {0}])

-----------------------------------------------------------------------------
(* Day 21: parallel algorithms, with a block for each thread. *)

\* The futures are waited for, then the joiner joins.
parallel_for_each == Test([t1 |-> {0}, f |-> {0}, block1 |-> {0}, block2 |-> {0}],
    << <<Start("t1", 2)>> \o Incr("block2") \o <<Await("f"), Expect("block1", {1})>>
         \o <<JoinThread("t1")>>,
       Incr("block1") \o <<Set("f", 1)>> >>, [block1 |-> {1}, block2 |-> {1}])

\* block: whether the block has the value.
find_element(block, i) ==
    << If("done_flag", {0}, 4), If(block, {1}, 3), SetValue("result", i, 2),
       Set("done_flag", 1) >>

\* The bug of testing the flag before the threads are joined.
parallel_find_EarlyTest ==
    Test([t1 |-> {0}, t2 |-> {0}, done_flag |-> {0}, result |-> {0}, block1 |-> {0, 1},
          block2 |-> {0, 1}, block3 |-> {0, 1}],
    << <<Start("t1", 2), Start("t2", 3)>> \o find_element("block3", 3)
         \o << If("done_flag", {0}, 5), Expect("block1", {0}), Expect("block2", {0}),
               Expect("block3", {0}), Goto(8),
               Await("result"), If("result", {1}, 2), Expect("block1", {1}),
               If("result", {2}, 2), Expect("block2", {1}), If("result", {3}, 2),
               Expect("block3", {1}) >> \o <<JoinThread("t1"), JoinThread("t2")>>,
       find_element("block1", 1), find_element("block2", 2) >>, Nothing)

\* The caller gets the place of a match, and none only if there is none.
parallel_find ==
    Test([t1 |-> {0}, t2 |-> {0}, done_flag |-> {0}, result |-> {0}, block1 |-> {0, 1},
          block2 |-> {0, 1}, block3 |-> {0, 1}],
    << <<Start("t1", 2), Start("t2", 3)>> \o find_element("block3", 3)
         \o << JoinThread("t1"), JoinThread("t2"),
               If("done_flag", {0}, 5), Expect("block1", {0}), Expect("block2", {0}),
               Expect("block3", {0}), Goto(8),
               Await("result"), If("result", {1}, 2), Expect("block1", {1}),
               If("result", {2}, 2), Expect("block2", {1}), If("result", {3}, 2),
               Expect("block3", {1}) >>,
       find_element("block1", 1), find_element("block2", 2) >>, Nothing)

\* Each half stops when the other has found it; the first half is asked first.
parallel_find_impl(block, found) ==
    <<If("done", {0}, 4), If(block, {1}, 3), Set("done", 1), Set(found, 1)>>

parallel_find_async ==
    Test([t1 |-> {0}, done |-> {0}, direct_result |-> {0}, async_result |-> {0}, f |-> {0},
          block1 |-> {0, 1}, block2 |-> {0, 1}],
    << <<Start("t1", 2)>> \o parallel_find_impl("block1", "direct_result")
         \o << If("direct_result", {1}, 3), Expect("block1", {1}), Goto(7),
               Await("f"), If("async_result", {1}, 3), Expect("block2", {1}), Goto(3),
               Expect("block1", {0}), Expect("block2", {0}), JoinThread("t1") >>,
       parallel_find_impl("block2", "async_result") \o <<Set("f", 1)>> >>, Nothing)

\* Each thread sums up its two elements; then it waits for the sum of what is before
\* them, and hands on the sum up to its last one before it adds that to the
\* others.
process_chunk(first, last, previous, end_value) ==
    <<Get(first), Plus(last), Put(last, 0)>>
        \o (IF previous = "" THEN <<>>
            ELSE <<Await(previous), Get(previous), Plus(last), Put(last, 0)>>)
        \o (IF end_value = "" THEN <<>> ELSE <<Copy(end_value, last)>>)
        \o (IF previous = "" THEN <<>> ELSE <<Get(previous), Plus(first), Put(first, 0)>>)

parallel_partial_sum ==
    Test([t1 |-> {0}, t2 |-> {0}, end1 |-> {0}, end2 |-> {0}, a1 |-> {1}, a2 |-> {1},
          a3 |-> {1}, a4 |-> {1}, a5 |-> {1}, a6 |-> {1}],
    << <<Start("t1", 2), Start("t2", 3)>> \o process_chunk("a5", "a6", "end2", "")
         \o <<JoinThread("t1"), JoinThread("t2")>>,
       process_chunk("a1", "a2", "", "end1"), process_chunk("a3", "a4", "end1", "end2") >>,
    [a1 |-> {1}, a2 |-> {2}, a3 |-> {3}, a4 |-> {4}, a5 |-> {5}, a6 |-> {6}])
=============================================================================
