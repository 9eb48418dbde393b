---------------------------- MODULE MessageTests ----------------------------
(***************************************************************************)
(* More programs for ThreadMachine: the channel of day 8, the actors of    *)
(* day 20 and the interruptible threads of day 23, in the same form as     *)
(* ThreadTests.                                                            *)
(***************************************************************************)
EXTENDS ThreadTests, TLC

-----------------------------------------------------------------------------
(* Day 8: a channel in the style of CSP.  queue_ is its number of values.    *)

\* There is room, or without capacity nothing waits to be received; or it is closed.
send(capacity, value) ==
    << Lock("mtx_"),
       Wait("cv_producer_", "mtx_",
            [queue_ |-> IF capacity = 0 THEN {0} ELSE 0 .. capacity - 1, closed_ |-> {1}]),
       If("closed_", {0}, 4), Get("queue_"), Put("queue_", 1), NotifyOne("cv_consumer_"),
       Unlock("mtx_") >>

\* A closed channel is received from until it is empty.  Nothing there: go on at
\* n.
receive(n) ==
    << Lock("mtx_"), Wait("cv_consumer_", "mtx_", [queue_ |-> 1 .. 7, closed_ |-> {1}]),
       If("queue_", {0}, 3), Unlock("mtx_"), Goto(n - 4), Get("queue_"), Put("queue_", -1),
       NotifyOne("cv_producer_"), Unlock("mtx_") >>

close == Locked("mtx_", <<Set("closed_", 1), NotifyAll("cv_producer_"),
                          NotifyAll("cv_consumer_")>>)

\* main: a producer that sends three values and closes, a consumer that receives
\* until there is nothing more.
channel(capacity) ==
    Test([t1 |-> {0}, t2 |-> {0}, queue_ |-> {0}, closed_ |-> {0}, received |-> {0}],
        << JoinBoth,
           send(capacity, 0) \o send(capacity, 1) \o send(capacity, 2) \o close,
           receive(12) \o Incr("received") \o <<Goto(-11)>> >>,
        [received |-> {3}, queue_ |-> {0}])

-----------------------------------------------------------------------------
(* Day 20: three actors, each with a thread and a queue.  que_x is the       *)
(* number of messages for actor x, and x is 1 while the object lives.        *)

\* push takes the mutex of the tail, the waiting thread has that of the head.
push(q, cv) == <<Get(q), Put(q, 1), NotifyOne(cv)>>

\* Wait for a message, or for the end: then there is none, go on at n.
WaitAndPop(q, stop, cv, m, n) ==
    << Lock(m), Wait(cv, m, (q :> 1 .. 2) @@ (stop :> {1})), If(stop, {0}, 5), Get(q),
       Put(q, -1), Unlock(m), Goto(3), Unlock(m), Goto(n - 8) >>

\* while (_bstop == false) { wait for a message; deal with it; }
actor(q, stop, cv, m, DealMsg) ==
    <<If(stop, {0}, 11 + Len(DealMsg))>> \o WaitAndPop(q, stop, cv, m, -1)
    \o DealMsg \o <<Goto(-(10 + Len(DealMsg)))>>

\* _bstop without the mutex, and notify_one.
destroy(x, t, stop, cv) ==
    <<Set(stop, 1), NotifyOne(cv), JoinThread(t), Free(x)>>

\* Each actor makes the next one when it first posts to it.  main sleeps two
\* seconds: let us say until all three exist.  They are destroyed in the reverse
\* order.
ClassA == <<Start("tB", 3), Use("B")>> \o push("queB", "cvB")
ClassB == <<Start("tC", 4), Use("C")>> \o push("queC", "cvC")
ClassC == Incr("dealt")

ActorMain == Test(
    [tA |-> {0}, tB |-> {0}, tC |-> {0}, A |-> {1}, B |-> {1}, C |-> {1}, queA |-> {0},
     queB |-> {0}, queC |-> {0}, stopA |-> {0}, stopB |-> {0}, stopC |-> {0}, dealt |-> {0}],
    << <<Start("tA", 2)>> \o push("queA", "cvA") \o <<Await("tC")>>
         \o destroy("C", "tC", "stopC", "cvC") \o destroy("B", "tB", "stopB", "cvB")
         \o destroy("A", "tA", "stopA", "cvA"),
       actor("queA", "stopA", "cvA", "headA", ClassA),
       actor("queB", "stopB", "cvB", "headB", ClassB),
       actor("queC", "stopC", "cvC", "headC", ClassC) >>,
    [dealt |-> {0, 1}])

-----------------------------------------------------------------------------
(* Day 23: flag_t is 1 while the thread-local interrupt_flag of thread t     *)
(* lives, set_t its atomic, cond_t tells whether it points to a condition    *)
(* variable.  A thread that throws thread_interrupted ends.                  *)

\* interrupt: the atomic first, then the condition variable under set_clear_mutex.
set(f, s, cond, cv, m) ==
    << Use(f), Set(s, 1), Use(f), Lock(m), If(cond, {1}, 2), NotifyAll(cv), Use(f), Unlock(m) >>

\* interruptible_wait for a condition_variable: at most a millisecond.
interruptible_wait ==
    << If("set1", {0}, 10), Lock("sc1"), Set("cond1", 1), Unlock("sc1"),
       If("set1", {0}, 3), SleepFor("cv1", {"mtx1"}), If("set1", {0}, 1),
       Lock("sc1"), Set("cond1", 0), Unlock("sc1") >>

\* wait for a condition_variable_any: custom_lock holds set_clear_mutex until it
\* sleeps, and again when it wakes.
wait_any ==
    << Lock("sc2"), Set("cond2", 1), If("set2", {0}, 2), Sleep("cv2", {"mtx2", "sc2"}),
       Set("cond2", 0), Unlock("sc2") >>

InterruptMain ==
    Test([t1 |-> {0}, t2 |-> {0}, flag1 |-> {1}, flag2 |-> {1}, set1 |-> {0}, set2 |-> {0},
          cond1 |-> {0}, cond2 |-> {0}],
        << <<Start("t1", 2), Start("t2", 3)>> \o set("flag1", "set1", "cond1", "cv1", "sc1")
             \o set("flag2", "set2", "cond2", "cv2", "sc2")
             \o <<JoinThread("t1"), JoinThread("t2")>>,
           Locked("mtx1", interruptible_wait) \o <<Free("flag1")>>,
           Locked("mtx2", wait_any) \o <<Free("flag2")>> >>, Nothing)

\* The same for flags that outlive the threads: what is left is that nobody
\* sleeps through an interrupt.
InterruptLasting == [InterruptMain EXCEPT !.threads =
    << @[1], Locked("mtx1", interruptible_wait), Locked("mtx2", wait_any) >>]
=============================================================================
