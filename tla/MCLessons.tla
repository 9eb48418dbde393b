------------------------------ MODULE MCLessons ------------------------------
(***************************************************************************)
(* All the programs of the lessons in one instance: those that             *)
(* ThreadMachine runs, and those that MemoryModel runs.  A behaviour picks *)
(* a machine and a program for it; the other machine stands still.         *)
(***************************************************************************)
EXTENDS ThreadMachine, MessageTests, ClientTests

L == INSTANCE LitmusTests

LitmusSuite ==
    [TestSpinLock |-> L!TestSpinLock, TestOrderRelaxed10 |-> L!TestOrderRelaxed10,
     TestOrderSeqCst |-> L!TestOrderSeqCst, TestOrderRelaxed11 |-> L!TestOrderRelaxed11,
     TestReleaseAcquire |-> L!TestReleaseAcquire,
     ReleasAcquireDanger |-> L!ReleasAcquireDanger,
     ReleaseSequence |-> L!ReleaseSequence, ConsumeDependency |-> L!ConsumeDependency,
     TestReleaseSeq |-> L!TestReleaseSeq, TestReleaseSeq2 |-> L!TestReleaseSeq2(TRUE),
     TestReleaseSeq2Early |-> L!TestReleaseSeq2(FALSE),
     TestAR |-> L!TestAR, TestRelaxed |-> L!TestRelaxed,
     ReleaseAcquire3 |-> L!ReleaseAcquire3, TestFence |-> L!TestFence,
     SinglePointer |-> L!SinglePointer, SingleAuto |-> L!SingleAuto,
     SingleAutoSafe |-> L!SingleAutoSafe, SingleAuto11 |-> L!SingleAuto11,
     SingleMemoryModel |-> L!SingleMemoryModel, SingletonOnce |-> L!SingletonOnce,
     Singleton |-> L!Singleton, Single2 |-> L!Single2, Single2Hungry |-> L!Single2Hungry]

VARIABLES
    which,      \* "threads" or "memory"
    m_test, m_mem, m_sc, m_view, m_seen, m_fenced, m_reg, m_pc, m_failed, m_race

m_vars == <<m_test, m_mem, m_sc, m_view, m_seen, m_fenced, m_reg, m_pc, m_failed, m_race>>

Memory ==
    INSTANCE MemoryModel WITH
        Tests <- LitmusSuite, test <- m_test, mem <- m_mem, sc <- m_sc, view <- m_view,
        seen <- m_seen, fenced <- m_fenced, reg <- m_reg, pc <- m_pc,
        failed <- m_failed, race <- m_race

Day1 ==
    [oops |-> oops, use_join |-> use_join, catch_exception |-> catch_exception,
     auto_guard |-> auto_guard, danger_oops |-> danger_oops, safe_oops |-> safe_oops,
     ref_oops |-> ref_oops, bind_class_oops |-> bind_class_oops, move_oops |-> move_oops,
     dangerous_use |-> dangerous_use, use_jointhread |-> use_jointhread]

Day2 ==
    [test_lock |-> test_lock, test_threadsafe_stack1 |-> test_threadsafe_stack1,
     threadsafe_stack |-> threadsafe_stack, test_dead_lock |-> test_dead_lock,
     test_safe_lock |-> test_safe_lock, test_danger_swap |-> test_danger_swap,
     test_safe_swap |-> test_safe_swap, safe_swap_scope |-> safe_swap_scope]

Day3and5 ==
    [use_unique |-> use_unique, use_own_defer |-> use_own_defer,
     use_own_adopt |-> use_own_adopt, safe_swap2 |-> safe_swap2,
     use_return |-> use_return, precision_lock |-> precision_lock, DNService |-> DNService,
     RecursiveDemo |-> RecursiveDemo, PoorImplemention |-> PoorImplemention,
     ResonableImplemention |-> ResonableImplemention, test_safe_que |-> test_safe_que]

Day6 ==
    [use_async |-> use_async, use_package |-> use_package,
     use_shared_future |-> use_shared_future_copied,
     use_shared_future_error |-> use_shared_future_error, use_promise |-> use_promise,
     use_promise_exception |-> use_promise_exception,
     use_promise_destruct |-> use_promise_destruct,
     use_future_exception |-> use_future_exception]

Day9and24 ==
    [ReturnThread |-> ReturnThread, ThreadOp |-> ThreadOp, BlockAsync |-> BlockAsync,
     DeadLock |-> DeadLock, first_method |-> first_method, TestParallen1 |-> TestParallen1,
     TestParallen2 |-> TestParallen2, deadlockdemo |-> deadlockdemo, lockdemo |-> lockdemo,
     reference_invalid |-> reference_invalid, reference_sharedptr |-> reference_sharedptr,
     shallow_copy |-> shallow_copy, shallow_copy2 |-> shallow_copy2,
     normal_copy |-> normal_copy, TestProducerConsumer |-> TestProducerConsumer]

Messages ==
    [channel0 |-> channel(0), channel1 |-> channel(1), channel2 |-> channel(2),
     ActorMain |-> ActorMain, InterruptMain |-> InterruptMain,
     InterruptLasting |-> InterruptLasting]

Clients ==
    [task_queue |-> task_queue, test_hierarchy_lock |-> test_hierarchy_lock,
     TestThreadSafeQue |-> TestThreadSafeQue, TestThreadSafeHash |-> TestThreadSafeHash,
     TestThreadSafeList |-> TestThreadSafeList, TestLockFreeStack |-> TestLockFreeStack,
     TestSinglePopPush |-> TestSinglePopPush, TestLockFreeQue |-> TestLockFreeQue,
     TestLockFreeQueMultiPop |-> TestLockFreeQueMultiPop,
     TestLockFreeQueMultiPushPop |-> TestLockFreeQueMultiPushPop,
     parallel_for_each |-> parallel_for_each, parallel_find |-> parallel_find,
     parallel_find_async |-> parallel_find_async,
     parallel_partial_sum |-> parallel_partial_sum]

ThreadSuite == Clients @@ Messages @@ Day1 @@ Day2 @@ Day3and5 @@ Day6 @@ Day9and24

\* A name of its own for the cfg: TLC then evaluates the suite only once.
AllTests == ThreadSuite

LessonsInit ==
    \/ which = "threads" /\ m_test = "TestSpinLock" /\ Memory!Init /\ Init
    \/ which = "memory" /\ test = "oops" /\ Init /\ Memory!Init

LessonsNext ==
    \/ which = "threads" /\ Next /\ UNCHANGED <<which, m_vars>>
    \/ which = "memory" /\ Memory!Next /\ UNCHANGED <<which, vars>>

\* The step of thread t of the machine that runs.
ThreadStep(t) ==
    \/ /\ which = "threads" /\ t \in Threads
       /\ Step(t) \/ Fail(t)
       /\ UNCHANGED <<which, m_vars>>
    \/ /\ which = "memory" /\ t \in Memory!Threads
       /\ Memory!Step(t, Memory!Newest(t))
       /\ UNCHANGED <<which, vars>>

\* Threads run, and a mutex that is free again and again goes to each of those
\* that want it.  Stores become visible to loads in a finite time.
LessonsFairness ==
    /\ \A t \in 1 .. 5 : SF_<<vars, m_vars>>(ThreadStep(t))
    /\ WF_vars(which = "threads" /\ Deadlock)

LessonsSpec == LessonsInit /\ [][LessonsNext]_<<which, vars, m_vars>> /\ LessonsFairness

\* The tests that go wrong, and how.  All but use_own_defer, TestProducerConsumer
\* and TestThreadSafeQue, whose consumers never end, are there to show it.
Danger ==
    [oops |-> {"undefined"}, danger_oops |-> {"undefined"}, dangerous_use |-> {"terminate"},
     test_threadsafe_stack1 |-> {"undefined"}, test_dead_lock |-> {"deadlock"},
     test_danger_swap |-> {"deadlock"}, use_own_defer |-> {"deadlock"},
     ThreadOp |-> {"terminate"}, DeadLock |-> {"deadlock"}, deadlockdemo |-> {"deadlock"},
     reference_invalid |-> {"undefined"}, shallow_copy |-> {"undefined"},
     shallow_copy2 |-> {"undefined"}, TestProducerConsumer |-> {"deadlock"},
     ActorMain |-> {"deadlock", "undefined"}, InterruptMain |-> {"undefined"},
     test_hierarchy_lock |-> {"terminate"}, TestThreadSafeQue |-> {"deadlock"}]

\* The programs whose orders are too weak for what they assert, and the three that
\* load an atomic nobody has initialised.
TooWeak ==
    {"TestOrderRelaxed10", "TestOrderRelaxed11", "ReleasAcquireDanger", "TestAR",
     "TestRelaxed"} \cup DOMAIN L!Uninitialised

\* The singletons that test a plain pointer without the mutex.
PlainTest == {"SinglePointer", "SingleAuto", "SingleAutoSafe", "SingleAuto11"}

-----------------------------------------------------------------------------
\* Threads use nothing whose lifetime has ended, pop from no empty stack, destroy
\* no joinable std::thread, wait for each other in no circle and find nothing that
\* an assertion rules out, but for the tests of Danger, which go wrong in one way
\* only.
OnlyDangerousGoWrong ==
    error # None => test \in DOMAIN Danger /\ error \in Danger[test]

\* When all threads have ended the variables have their values: no increment is
\* lost, a swap is whole, a move or a destructor has joined its thread, and what
\* was shared has been freed.
PostconditionsHold ==
    error = None /\ AllEnded =>
        \A x \in DOMAIN Tests[test].post : val[x] \in Tests[test].post[x]

\* No assertion fails, and every GetInst returns an instance whose constructor
\* has run before: seq_cst order, an acquire load of a release store or of its
\* release sequence, a fence on either side of relaxed accesses, call_once.
AssertionsHold == m_test \notin TooWeak \cup PlainTest => ~m_failed

\* The plain variables (the vectors of ReleaseSequence and TestReleaseSeq2, what
\* two threads print under the spin lock, the singletons behind an atomic flag or
\* call_once) are never accessed by two threads at once.
NoDataRace == m_test \notin DOMAIN L!Uninitialised \cup PlainTest => ~m_race

\* At most one instance is ever constructed, by the double-checked singletons
\* that race on the pointer too.
OneInstance == Len(m_mem["obj"]) <= 2

\* Every test ends: turns are handed over, futures become ready, consumers wake;
\* no loop waits for a store that nobody makes, no thread for a once_flag that
\* nobody leaves.
TestsEnd ==
    <>IF which = "threads" THEN error # None \/ AllEnded
      ELSE \A t \in Memory!Threads : Memory!Done(t)
=============================================================================
