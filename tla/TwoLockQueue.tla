---------------------------- MODULE TwoLockQueue ----------------------------
(***************************************************************************)
(* src/threadsafe_containers/queue/threadsafe_queue_ht.h: a linked queue   *)
(* with one mutex for its head, one for its tail, and a condition variable *)
(* that push notifies without holding head_mutex_.                         *)
(*                                                                         *)
(* The list from head_ to the dummy node tail_ is the sequence of its      *)
(* values; head_ == tail_ when it is empty.  What push does under          *)
(* tail_mutex_ is one step, and so is get_tail(), which takes the same     *)
(* mutex: a pop can see the list grow between any two of its own steps.    *)
(***************************************************************************)
EXTENDS Naturals, Sequences, FiniteSets

CONSTANTS
    Producers,      \* threads that call push
    Consumers,      \* threads that call try_pop and wait_and_pop
    Values,         \* values pushed
    MaxLen,         \* bound on the length of the list
    Null            \* no value, no thread

ConstantsAssumption ==
    /\ Producers \cap Consumers = {} /\ IsFiniteSet(Producers)
    /\ Null \notin Values \cup Consumers
    /\ MaxLen \in Nat

VARIABLES
    list,           \* values from head_ to tail_
    head_mutex_,    \* the consumer that holds it, or Null
    pc, val         \* locals; val is the value being pushed or returned

vars == <<list, head_mutex_, pc, val>>

Threads == Producers \cup Consumers

Init ==
    /\ list = <<>>
    /\ head_mutex_ = Null
    /\ pc = [t \in Threads |-> "idle"]
    /\ val = [t \in Threads |-> Null]

Goto(t, from, to) ==
    /\ pc[t] = from
    /\ pc' = [pc EXCEPT ![t] = to]

-----------------------------------------------------------------------------
\* The bound: the pushes under way fit into MaxLen.
Pushing == {p \in Producers : pc[p] = "push"}
RoomForPush == Len(list) + Cardinality(Pushing) < MaxLen

PushStart(p, v) ==
    /\ Goto(p, "idle", "push")
    /\ RoomForPush
    /\ val' = [val EXCEPT ![p] = v]
    /\ UNCHANGED <<list, head_mutex_>>

\* The block under tail_mutex_
PushTail(p) ==
    /\ Goto(p, "push", "notify")
    /\ list' = Append(list, val[p])
    /\ val' = [val EXCEPT ![p] = Null]
    /\ UNCHANGED head_mutex_

\* data_cond_.notify_one(): one of the waiting consumers, if any, goes on to
\* take head_mutex_ again
NotifyOne(p) ==
    /\ pc[p] = "notify"
    /\ LET waiting == {c \in Consumers : pc[c] = "waiting"} IN
       \/ waiting = {} /\ pc' = [pc EXCEPT ![p] = "idle"]
       \/ \E c \in waiting : pc' = [pc EXCEPT ![p] = "idle", ![c] = "wait_lock"]
    /\ UNCHANGED <<list, head_mutex_, val>>

-----------------------------------------------------------------------------
Lock(c, from, to) ==
    /\ Goto(c, from, to)
    /\ head_mutex_ = Null
    /\ head_mutex_' = c

Unlock(c, from, to) ==
    /\ Goto(c, from, to)
    /\ head_mutex_' = Null

TryPopStart(c) ==
    /\ Goto(c, "idle", "try_lock")
    /\ UNCHANGED <<list, head_mutex_, val>>

TryPopLock(c) ==
    /\ Lock(c, "try_lock", "try_test")
    /\ UNCHANGED <<list, val>>

\* head_.get() == get_tail()
TryPopTest(c) ==
    /\ \/ list = <<>> /\ Goto(c, "try_test", "return")
       \/ list # <<>> /\ Goto(c, "try_test", "take")
    /\ UNCHANGED <<list, head_mutex_, val>>

WaitAndPopStart(c) ==
    /\ Goto(c, "idle", "wait_lock")
    /\ UNCHANGED <<list, head_mutex_, val>>

\* entering wait_and_pop, and coming back inside condition_variable::wait
WaitLock(c) ==
    /\ Lock(c, "wait_lock", "wait_test")
    /\ UNCHANGED <<list, val>>

\* the predicate head_.get() != get_tail()
WaitTest(c) ==
    /\ \/ list = <<>> /\ Goto(c, "wait_test", "sleep")
       \/ list # <<>> /\ Goto(c, "wait_test", "take")
    /\ UNCHANGED <<list, head_mutex_, val>>

\* the predicate was false: release head_mutex_ and block, as one step
Sleep(c) ==
    /\ Unlock(c, "sleep", "waiting")
    /\ UNCHANGED <<list, val>>

SpuriousWakeup(c) ==
    /\ Goto(c, "waiting", "wait_lock")
    /\ UNCHANGED <<list, head_mutex_, val>>

\* old = move(head_); head_ = move(old->next)
Take(c) ==
    /\ Goto(c, "take", "return")
    /\ val' = [val EXCEPT ![c] = Head(list)]
    /\ list' = Tail(list)
    /\ UNCHANGED head_mutex_

Return(c) ==
    /\ Unlock(c, "return", "idle")
    /\ val' = [val EXCEPT ![c] = Null]
    /\ UNCHANGED list

PushStep(p) == PushTail(p) \/ NotifyOne(p)

PopStep(c) ==
    \/ TryPopLock(c) \/ TryPopTest(c)
    \/ WaitLock(c) \/ WaitTest(c) \/ Sleep(c)
    \/ Take(c) \/ Return(c)

Next ==
    \/ \E p \in Producers : (\E v \in Values : PushStart(p, v)) \/ PushStep(p)
    \/ \E c \in Consumers :
        TryPopStart(c) \/ WaitAndPopStart(c) \/ SpuriousWakeup(c) \/ PopStep(c)

Spec == Init /\ [][Next]_vars

\* A thread inside a call is run, and gets a mutex that is free again and
\* again.  Nothing makes a caller call, or a wait return spuriously.
Fairness ==
    /\ \A p \in Producers : WF_vars(PushStep(p))
    /\ \A c \in Consumers : SF_vars(PopStep(c))

FairSpec == Spec /\ Fairness

-----------------------------------------------------------------------------
\* What a pop has seen of the tail stays true while it holds head_mutex_
\* although tail_mutex_ is long released: the node it takes is not the dummy
\* node, and no other consumer takes it (lines 61-63 and 70-72).
TakesRealNode ==
    \A c \in Consumers :
        pc[c] = "take" =>
            /\ list # <<>>
            /\ \A d \in Consumers : pc[d] = "take" => d = c

\* The states in which a consumer holds head_mutex_
Holding == {"try_test", "wait_test", "sleep", "take", "return"}

TypeOK ==
    /\ list \in Seq(Values)
    /\ pc \in [Threads -> {"idle", "push", "notify", "try_lock", "wait_lock", "waiting"}
                             \cup Holding]
    /\ val \in [Threads -> Values \cup {Null}]
    /\ \A p \in Producers : pc[p] \in {"idle", "push", "notify"}
    /\ \A c \in Consumers : pc[c] \notin {"push", "notify"}

\* head_mutex_ is held by the consumer that is between its lock and its unlock.
HeadMutexHeld == \A c \in Consumers : pc[c] \in Holding <=> head_mutex_ = c

\* The test of the tail under head_mutex_ still holds when the node is taken.
TakeHasNode == \A c \in Consumers : pc[c] = "take" => list # <<>>

\* A thread carries a value exactly where it is pushing or returning one.
ValuesCarried ==
    /\ \A p \in Pushing : val[p] \in Values
    /\ \A c \in Consumers : pc[c] # "return" => val[c] = Null

ListFits == Len(list) + Cardinality(Pushing) <= MaxLen

\* The inductive invariant, from which TakesRealNode and ImplementsFifo follow.
IInv == TypeOK /\ HeadMutexHeld /\ TakeHasNode /\ ValuesCarried /\ ListFits

\* A consumer blocked in wait_and_pop is not left asleep while a value stays in
\* the queue: "wait until there is data, then take it" (the comment of line 67).
WaiterWakes ==
    \A c \in Consumers :
        pc[c] = "waiting" /\ list # <<>> ~> pc[c] # "waiting" \/ list = <<>>

CallOf(t) ==
    CASE pc[t] = "push" -> <<"push", val[t]>>
      [] pc[t] \in {"try_lock", "try_test", "wait_lock", "wait_test", "sleep",
                    "waiting", "take"} -> <<"pop">>
      [] pc[t] = "return" -> <<"got", val[t]>>
      [] OTHER -> <<"idle">>

Abstract ==
    INSTANCE Fifo WITH
        Capacity <- MaxLen,
        Empty <- Null,
        Exact <- TRUE,
        q <- list,
        call <- [t \in Threads |-> CallOf(t)]

\* With two locks instead of one the queue is still linearizable: an empty
\* try_pop takes effect at get_tail(), any other pop when it moves head_.
ImplementsFifo == Abstract!Spec
=============================================================================
