----------------------------- MODULE MutexQueue -----------------------------
(***************************************************************************)
(* src/threadsafe_containers/queue/mutex_queue.h and                       *)
(* src/threadsafe_containers/stack/waitable_stack.h: a std::queue, or a    *)
(* std::stack, with one mutex and one condition variable, notified while   *)
(* the mutex is held.  The two differ in the end the values come from.     *)
(*                                                                         *)
(* What a call does while it holds the mutex is one step.                  *)
(***************************************************************************)
EXTENDS Naturals, Sequences, FiniteSets

CONSTANTS
    Threads,            \* callers
    Values,             \* values pushed
    MaxLen,             \* bound on the number of values
    MayThrow            \* the containers where make_shared can throw in wait_and_pop

ConstantsAssumption == IsFiniteSet(Threads) /\ MaxLen \in Nat

VARIABLES
    container,          \* which of the two it is, all along
    data_,              \* the values, the next to be popped first
    pc                  \* "idle", "lock" (in wait_and_pop, about to have the
                        \* mutex), "waiting" (blocked on cv_)

vars == <<container, data_, pc>>

Containers == {"mutex_queue", "waitable_stack"}

Init ==
    /\ container \in Containers
    /\ data_ = <<>>
    /\ pc = [t \in Threads |-> "idle"]

At(l) == {t \in Threads : pc[t] = l}

-----------------------------------------------------------------------------
\* The bug of a push that does not notify.
NotifyOne_Missing == UNCHANGED pc

\* cv_.notify_one()
NotifyOne ==
    \/ At("waiting") = {} /\ UNCHANGED pc
    \/ \E t \in At("waiting") : pc' = [pc EXCEPT ![t] = "lock"]

Push(t, v) ==
    /\ pc[t] = "idle"
    /\ Len(data_) < MaxLen
    /\ data_' = IF container = "waitable_stack" THEN <<v>> \o data_ ELSE Append(data_, v)
    /\ NotifyOne

TryPop(t) ==
    /\ pc[t] = "idle"
    /\ data_ # <<>>
    /\ data_' = Tail(data_)
    /\ UNCHANGED pc

WaitAndPop(t) ==
    /\ pc[t] = "idle"
    /\ pc' = [pc EXCEPT ![t] = "lock"]
    /\ UNCHANGED data_

\* The predicate of the wait is false: release the mutex and block, as one step.
Wait(t) ==
    /\ pc[t] = "lock"
    /\ data_ = <<>>
    /\ pc' = [pc EXCEPT ![t] = "waiting"]
    /\ UNCHANGED data_

\* The predicate is true.
Pop(t) ==
    /\ pc[t] = "lock"
    /\ data_ # <<>>
    /\ data_' = Tail(data_)
    /\ pc' = [pc EXCEPT ![t] = "idle"]

\* The predicate is true and make_shared throws: the wakeup is used up, the
\* value stays.
PopThrows(t) ==
    /\ container \in MayThrow
    /\ pc[t] = "lock"
    /\ data_ # <<>>
    /\ pc' = [pc EXCEPT ![t] = "idle"]
    /\ UNCHANGED data_

SpuriousWakeup(t) ==
    /\ pc[t] = "waiting"
    /\ pc' = [pc EXCEPT ![t] = "lock"]
    /\ UNCHANGED data_

Next ==
    /\ UNCHANGED container
    /\ \E t \in Threads :
        \/ \E v \in Values : Push(t, v)
        \/ TryPop(t) \/ WaitAndPop(t)
        \/ Wait(t) \/ Pop(t) \/ PopThrows(t) \/ SpuriousWakeup(t)

Spec == Init /\ [][Next]_vars

\* A thread that wants the mutex gets it.  Nothing makes a caller call, or a
\* wait return spuriously.
Fairness == \A t \in Threads : WF_vars(Wait(t) \/ Pop(t) \/ PopThrows(t))

FairSpec == Spec /\ Fairness

-----------------------------------------------------------------------------
\* Waiters are not needed: while some thread waits, every value has a thread of
\* its own that is on its way to it.  notify_one wakes one thread per value, and
\* neither a try_pop nor a newcomer that gets there first breaks this.
SleepersNotNeeded ==
    At("waiting") # {} => Len(data_) <= Cardinality(At("lock"))

\* Only an exception can break it: the wakeup that a throwing wait_and_pop used
\* up (line 64 of mutex_queue.h, 38 of waitable_stack.h) is passed on to nobody.
OnlyThrowsLoseWakeups ==
    [][SleepersNotNeeded /\ ~SleepersNotNeeded' => \E t \in Threads : PopThrows(t)]_vars

\* wait_and_pop blocks while the container is empty and then takes a value
\* (waitable_stack.h lines 9-10): where nothing throws, no thread stays blocked next
\* to a value.
WaiterWakes ==
    \A t \in Threads :
        container \notin MayThrow /\ pc[t] = "waiting" /\ data_ # <<>>
            ~> pc[t] # "waiting" \/ data_ = <<>>
=============================================================================
