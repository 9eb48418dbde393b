---------------------------- MODULE SpinlockRing ----------------------------
(***************************************************************************)
(* src/threadsafe_containers/ring_queue/spinlock_circular_queue.h: a ring  *)
(* of Cap + 1 raw slots guarded by a spin lock.  push constructs an object *)
(* in a slot, pop moves from it and destroys it.  circular_queue.h next to *)
(* it keeps the same ring of live objects under a std::mutex.              *)
(*                                                                         *)
(* The steps inside the lock are separate: it is the lock that has to keep *)
(* them apart.                                                             *)
(***************************************************************************)
EXTENDS Naturals, FiniteSets, Sequences

CONSTANTS
    Threads,        \* threads that call push and pop
    Values,         \* values pushed
    Cap,            \* capacity
    Null            \* no value

ConstantsAssumption ==
    /\ Cap \in Nat
    /\ Null \notin Values

cap == Cap + 1
Slots == 0 .. Cap

VARIABLES
    using_,         \* the lock
    head, tail,
    data,           \* the value in each slot; Null where no object lives
    pc, val         \* locals; val is the value being pushed or returned

vars == <<using_, head, tail, data, pc, val>>

Init ==
    /\ using_ = FALSE
    /\ head = 0 /\ tail = 0
    /\ data = [i \in Slots |-> Null]
    /\ pc = [t \in Threads |-> "idle"]
    /\ val = [t \in Threads |-> Null]

Goto(t, from, to) ==
    /\ pc[t] = from
    /\ pc' = [pc EXCEPT ![t] = to]

After(i) == (i + 1) % cap

-----------------------------------------------------------------------------
\* using_.exchange(true) until it returns false
Lock(t, from, to) ==
    /\ Goto(t, from, to)
    /\ ~using_
    /\ using_' = TRUE

Unlock(t, from, to) ==
    /\ Goto(t, from, to)
    /\ using_' = FALSE

PushStart(t, v) ==
    /\ Goto(t, "idle", "push_lock")
    /\ val' = [val EXCEPT ![t] = v]
    /\ UNCHANGED <<using_, head, tail, data>>

PushLock(t) ==
    /\ Lock(t, "push_lock", "push_test")
    /\ UNCHANGED <<head, tail, data, val>>

PushTest(t) ==
    /\ \/ After(tail) = head /\ Goto(t, "push_test", "full")
       \/ After(tail) # head /\ Goto(t, "push_test", "construct")
    /\ UNCHANGED <<using_, head, tail, data, val>>

ReturnFull(t) ==
    /\ Unlock(t, "full", "idle")
    /\ val' = [val EXCEPT ![t] = Null]
    /\ UNCHANGED <<head, tail, data>>

\* std::construct_at(data + tail, val)
Construct(t) ==
    /\ Goto(t, "construct", "move_tail")
    /\ data' = [data EXCEPT ![tail] = val[t]]
    /\ val' = [val EXCEPT ![t] = Null]
    /\ UNCHANGED <<using_, head, tail>>

MoveTail(t) ==
    /\ Goto(t, "move_tail", "push_unlock")
    /\ tail' = After(tail)
    /\ UNCHANGED <<using_, head, data, val>>

PushUnlock(t) ==
    /\ Unlock(t, "push_unlock", "idle")
    /\ UNCHANGED <<head, tail, data, val>>

-----------------------------------------------------------------------------
PopStart(t) ==
    /\ Goto(t, "idle", "pop_lock")
    /\ UNCHANGED <<using_, head, tail, data, val>>

PopLock(t) ==
    /\ Lock(t, "pop_lock", "pop_test")
    /\ UNCHANGED <<head, tail, data, val>>

PopTest(t) ==
    /\ \/ head = tail /\ Goto(t, "pop_test", "pop_unlock")
       \/ head # tail /\ Goto(t, "pop_test", "move")
    /\ UNCHANGED <<using_, head, tail, data, val>>

\* val = std::move(data[head])
MoveOut(t) ==
    /\ Goto(t, "move", "destroy")
    /\ val' = [val EXCEPT ![t] = data[head]]
    /\ UNCHANGED <<using_, head, tail, data>>

\* std::destroy_at(data + head)
Destroy(t) ==
    /\ Goto(t, "destroy", "move_head")
    /\ data' = [data EXCEPT ![head] = Null]
    /\ UNCHANGED <<using_, head, tail, val>>

MoveHead(t) ==
    /\ Goto(t, "move_head", "pop_unlock")
    /\ head' = After(head)
    /\ UNCHANGED <<using_, tail, data, val>>

PopUnlock(t) ==
    /\ Unlock(t, "pop_unlock", "idle")
    /\ val' = [val EXCEPT ![t] = Null]
    /\ UNCHANGED <<head, tail, data>>

Push(t) ==
    \/ \E v \in Values : PushStart(t, v)
    \/ PushLock(t) \/ PushTest(t) \/ ReturnFull(t)
    \/ Construct(t) \/ MoveTail(t) \/ PushUnlock(t)

Pop(t) ==
    \/ PopStart(t) \/ PopLock(t) \/ PopTest(t)
    \/ MoveOut(t) \/ Destroy(t) \/ MoveHead(t) \/ PopUnlock(t)

Next == \E t \in Threads : Push(t) \/ Pop(t)

Spec == Init /\ [][Next]_vars

-----------------------------------------------------------------------------
\* Objects live exactly in the slots from head to tail, give or take the slot
\* the holder of the lock is working on: none is constructed over another,
\* destroyed twice or read before it lives, and the destructor, which destroys
\* the slots from head to tail (lines 17-22), ends them all.
ObjectsInRing ==
    LET length == (tail + cap - head) % cap
        ring == {(head + k) % cap : k \in 0 .. length - 1}
        born == {tail : t \in {u \in Threads : pc[u] = "move_tail"}}
        dead == {head : t \in {u \in Threads : pc[u] = "move_head"}}
    IN  {i \in Slots : data[i] # Null} = (ring \cup born) \ dead

TypeOK ==
    /\ using_ \in BOOLEAN
    /\ head \in Slots /\ tail \in Slots
    /\ data \in [Slots -> Values \cup {Null}]
    /\ pc \in [Threads -> {"idle", "push_lock", "push_test", "full", "construct",
                          "move_tail", "push_unlock", "pop_lock", "pop_test",
                          "move", "destroy", "move_head", "pop_unlock"}]
    /\ val \in [Threads -> Values \cup {Null}]

Outside == {"idle", "push_lock", "pop_lock"}

\* One thread at most is between its exchange and its store of using_.
LockHeld ==
    \A t \in Threads : pc[t] \notin Outside =>
        /\ using_
        /\ \A u \in Threads \ {t} : pc[u] \in Outside

\* What the holder of the lock found in its test is still so, and what it carries
\* is the value of its call.
StillSo ==
    \A t \in Threads :
        /\ pc[t] \in {"push_lock", "push_test", "construct", "full"} => val[t] \in Values
        /\ pc[t] \in {"idle", "move_tail", "push_unlock", "pop_lock", "pop_test", "move"}
                => val[t] = Null
        /\ pc[t] \in {"construct", "move_tail"} => After(tail) # head
        /\ pc[t] \in {"move", "destroy", "move_head"} => head # tail
        /\ pc[t] = "destroy" => val[t] = data[head]

\* ObjectsInRing slot by slot, without the modulus.
InRing(i) ==
    IF head <= tail THEN head <= i /\ i < tail ELSE head <= i \/ i < tail

Lives(i) ==
    /\ InRing(i) \/ (i = tail /\ \E t \in Threads : pc[t] = "move_tail")
    /\ ~(i = head /\ \E t \in Threads : pc[t] = "move_head")

SlotsLive == \A i \in Slots : data[i] # Null <=> Lives(i)

\* The inductive invariant, from which ObjectsInRing follows.
IInv == TypeOK /\ LockHeld /\ StillSo /\ SlotsLive

CallOf(t) ==
    CASE pc[t] \in {"push_lock", "push_test", "construct"} -> <<"push", val[t]>>
      [] pc[t] = "full" -> <<"full">>
      [] pc[t] \in {"pop_lock", "pop_test", "move"} -> <<"pop">>
      [] pc[t] \in {"destroy", "move_head", "pop_unlock"} -> <<"got", val[t]>>
      [] OTHER -> <<"idle">>

\* The values of the queue, with the step in progress taken into account.
Queued ==
    LET now(S) == \E t \in Threads : pc[t] \in S
        first == IF now({"destroy", "move_head"}) THEN After(head) ELSE head
        last == IF now({"move_tail"}) THEN After(tail) ELSE tail
    IN  [k \in 1 .. (last + cap - first) % cap |-> data[(first + k - 1) % cap]]

Abstract ==
    INSTANCE Fifo WITH
        Capacity <- Cap,
        Empty <- Null,
        Exact <- TRUE,
        q <- Queued,
        call <- [t \in Threads |-> CallOf(t)]

\* Under the spin lock the ring is a linearizable queue of capacity Cap.
ImplementsFifo == Abstract!Spec
=============================================================================
