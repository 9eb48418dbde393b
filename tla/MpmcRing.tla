------------------------------ MODULE MpmcRing ------------------------------
(***************************************************************************)
(* src/threadsafe_containers/ring_queue/mpmc_ring_queue.h: Vyukov's        *)
(* bounded queue.  Every slot carries a sequence number; a thread claims a *)
(* position by a CAS on enqueue_pos or dequeue_pos, and then owns the      *)
(* position's slot until it stores the slot's next sequence number.        *)
(*                                                                         *)
(* size_t is modelled by Nat: positions do not wrap within MaxPos steps.   *)
(***************************************************************************)
EXTENDS Integers, Sequences, FiniteSetsExt

CONSTANTS
    Producers,      \* threads that call push
    Consumers,      \* threads that call pop (a thread may call both)
    Values,         \* values pushed
    Cap,            \* number of slots; a power of two, only used by %
    MaxPos,         \* bound on the positions that are claimed for a push
    Null            \* no value

ConstantsAssumption ==
    /\ Null \notin Values
    /\ Cap \in Nat \ {0}
    /\ MaxPos \in Nat

Threads == Producers \cup Consumers
Slots == 0 .. Cap - 1
Slot(p) == p % Cap

VARIABLES
    enqueue_pos, dequeue_pos,
    seq, data,          \* the fields of each slot
    pc, pos, val,       \* locals of push and pop
    before              \* history: the last position whose push had returned
                        \* when the pop of t began, -1 if there was none

vars == <<enqueue_pos, dequeue_pos, seq, data, pc, pos, val, before>>

Init ==
    /\ enqueue_pos = 0
    /\ dequeue_pos = 0
    /\ seq = [i \in Slots |-> i]
    /\ data = [i \in Slots |-> Null]
    /\ pc = [t \in Threads |-> "idle"]
    /\ pos = [t \in Threads |-> 0]
    /\ val = [t \in Threads |-> Null]
    /\ before = [t \in Threads |-> -1]

Goto(t, from, to) ==
    /\ pc[t] = from
    /\ pc' = [pc EXCEPT ![t] = to]

Published(p) == seq[Slot(p)] = p + 1

-----------------------------------------------------------------------------
\* The bound: the pushes under way fit into MaxPos positions.
Pushing == {t \in Threads : pc[t] \in {"push_seq", "push_reload", "push_cas"}}
RoomForPush == enqueue_pos + Cardinality(Pushing) < MaxPos

PushStart(t, v) ==
    /\ Goto(t, "idle", "push_seq")
    /\ RoomForPush
    /\ val' = [val EXCEPT ![t] = v]
    /\ pos' = [pos EXCEPT ![t] = enqueue_pos]
    /\ UNCHANGED <<enqueue_pos, dequeue_pos, seq, data, before>>

\* The bug of taking a slot for free when only its claim is older.
PushSeq_AnySeq(t) ==
    /\ \/ Goto(t, "push_seq", "push_cas")
       \/ seq[Slot(pos[t])] > pos[t] /\ Goto(t, "push_seq", "push_reload")
    /\ UNCHANGED <<enqueue_pos, dequeue_pos, seq, data, pos, val, before>>

PushSeq(t) ==
    /\ LET dif == seq[Slot(pos[t])] - pos[t] IN
       \/ dif = 0 /\ Goto(t, "push_seq", "push_cas")
       \/ dif < 0 /\ Goto(t, "push_seq", "full")
       \/ dif > 0 /\ Goto(t, "push_seq", "push_reload")
    /\ UNCHANGED <<enqueue_pos, dequeue_pos, seq, data, pos, val, before>>

PushReload(t) ==
    /\ Goto(t, "push_reload", "push_seq")
    /\ pos' = [pos EXCEPT ![t] = enqueue_pos]
    /\ UNCHANGED <<enqueue_pos, dequeue_pos, seq, data, val, before>>

\* compare_exchange_weak may fail for no reason; a failure reloads pos.
PushCas(t) ==
    /\ \/ /\ Goto(t, "push_cas", "write")
          /\ enqueue_pos = pos[t]
          /\ enqueue_pos' = pos[t] + 1
          /\ UNCHANGED pos
       \/ /\ Goto(t, "push_cas", "push_seq")
          /\ pos' = [pos EXCEPT ![t] = enqueue_pos]
          /\ UNCHANGED enqueue_pos
    /\ UNCHANGED <<dequeue_pos, seq, data, val, before>>

WriteData(t) ==
    /\ Goto(t, "write", "publish")
    /\ data' = [data EXCEPT ![Slot(pos[t])] = val[t]]
    /\ UNCHANGED <<enqueue_pos, dequeue_pos, seq, pos, val, before>>

Publish(t) ==
    /\ Goto(t, "publish", "idle")
    /\ seq' = [seq EXCEPT ![Slot(pos[t])] = pos[t] + 1]
    /\ val' = [val EXCEPT ![t] = Null]
    /\ pos' = [pos EXCEPT ![t] = 0]
    /\ UNCHANGED <<enqueue_pos, dequeue_pos, data, before>>

ReturnFull(t) ==
    /\ Goto(t, "full", "idle")
    /\ val' = [val EXCEPT ![t] = Null]
    /\ pos' = [pos EXCEPT ![t] = 0]
    /\ UNCHANGED <<enqueue_pos, dequeue_pos, seq, data, before>>

-----------------------------------------------------------------------------
Pending == {p \in dequeue_pos .. enqueue_pos - 1 : Published(p)}

PopStart(t) ==
    /\ Goto(t, "idle", "pop_seq")
    /\ pos' = [pos EXCEPT ![t] = dequeue_pos]
    /\ before' = [before EXCEPT ![t] = IF Pending = {} THEN -1 ELSE Max(Pending)]
    /\ UNCHANGED <<enqueue_pos, dequeue_pos, seq, data, val>>

PopSeq(t) ==
    /\ LET dif == seq[Slot(pos[t])] - (pos[t] + 1) IN
       \/ dif = 0 /\ Goto(t, "pop_seq", "pop_cas")
       \/ dif < 0 /\ Goto(t, "pop_seq", "empty")
       \/ dif > 0 /\ Goto(t, "pop_seq", "pop_reload")
    /\ UNCHANGED <<enqueue_pos, dequeue_pos, seq, data, pos, val, before>>

PopReload(t) ==
    /\ Goto(t, "pop_reload", "pop_seq")
    /\ pos' = [pos EXCEPT ![t] = dequeue_pos]
    /\ UNCHANGED <<enqueue_pos, dequeue_pos, seq, data, val, before>>

PopCas(t) ==
    /\ \/ /\ Goto(t, "pop_cas", "read")
          /\ dequeue_pos = pos[t]
          /\ dequeue_pos' = pos[t] + 1
          /\ before' = [before EXCEPT ![t] = -1]
          /\ UNCHANGED pos
       \/ /\ Goto(t, "pop_cas", "pop_seq")
          /\ pos' = [pos EXCEPT ![t] = dequeue_pos]
          /\ UNCHANGED <<dequeue_pos, before>>
    /\ UNCHANGED <<enqueue_pos, seq, data, val>>

ReadData(t) ==
    /\ Goto(t, "read", "release")
    /\ val' = [val EXCEPT ![t] = data[Slot(pos[t])]]
    /\ UNCHANGED <<enqueue_pos, dequeue_pos, seq, data, pos, before>>

\* seq.store(pos + Cap): free for the push one lap ahead
Release(t) ==
    /\ Goto(t, "release", "idle")
    /\ seq' = [seq EXCEPT ![Slot(pos[t])] = pos[t] + Cap]
    /\ val' = [val EXCEPT ![t] = Null]
    /\ pos' = [pos EXCEPT ![t] = 0]
    /\ UNCHANGED <<enqueue_pos, dequeue_pos, data, before>>

ReturnEmpty(t) ==
    /\ Goto(t, "empty", "idle")
    /\ pos' = [pos EXCEPT ![t] = 0]
    /\ before' = [before EXCEPT ![t] = -1]
    /\ UNCHANGED <<enqueue_pos, dequeue_pos, seq, data, val>>

Push(t) ==
    \/ \E v \in Values : PushStart(t, v)
    \/ PushSeq(t) \/ PushReload(t) \/ PushCas(t)
    \/ WriteData(t) \/ Publish(t) \/ ReturnFull(t)

Pop(t) ==
    \/ PopStart(t) \/ PopSeq(t) \/ PopReload(t) \/ PopCas(t)
    \/ ReadData(t) \/ Release(t) \/ ReturnEmpty(t)

Next ==
    \/ \E t \in Producers : Push(t)
    \/ \E t \in Consumers : Pop(t)

Spec == Init /\ [][Next]_vars

-----------------------------------------------------------------------------
\* data is not atomic: from its claim to its store of seq a thread is alone on
\* its slot, so no two accesses to the same data race (lines 71-72, 94-96).
SlotsUnshared ==
    LET Owners == {t \in Threads : pc[t] \in {"write", "publish", "read", "release"}}
    IN  \A t, u \in Owners : t # u => Slot(pos[t]) # Slot(pos[u])

\* A push that finds no free slot is refused (line 29): at most Cap positions
\* are ever claimed by pushes and not yet by pops.
CapacityKept == enqueue_pos - dequeue_pos \in 0 .. Cap

TypeOK ==
    /\ enqueue_pos \in Nat /\ dequeue_pos \in Nat
    /\ seq \in [Slots -> Nat]
    /\ pc \in [Threads -> {"idle", "push_seq", "push_reload", "push_cas", "write",
                           "publish", "full", "pop_seq", "pop_reload", "pop_cas",
                           "read", "release", "empty"}]
    /\ pos \in [Threads -> Nat]

Writers == {t \in Threads : pc[t] \in {"write", "publish"}}
Readers == {t \in Threads : pc[t] \in {"read", "release"}}

\* Each of the Cap positions from dequeue_pos on has a slot of its own, which says
\* whether the position is published or being written, free or still being read.
Window ==
    /\ CapacityKept
    /\ \A p \in dequeue_pos .. enqueue_pos - 1 : seq[Slot(p)] \in {p, p + 1}
    /\ \A p \in enqueue_pos .. dequeue_pos + Cap - 1 : seq[Slot(p)] \in {p, p + 1 - Cap}

\* A thread between its claim and its store of seq owns a position of its own,
\* and the slot still shows it.
Owned ==
    /\ \A t \in Writers :
        pos[t] \in dequeue_pos .. enqueue_pos - 1 /\ seq[Slot(pos[t])] = pos[t]
    /\ \A t \in Readers :
        pos[t] \in enqueue_pos - Cap .. dequeue_pos - 1 /\ seq[Slot(pos[t])] = pos[t] + 1
    /\ \A t, u \in Writers \cup Readers : pos[t] = pos[u] => t = u

\* The seq a thread has read still holds when its compare_exchange succeeds.
SeqStillTrue ==
    \A t \in Threads :
        /\ pc[t] = "push_cas" /\ pos[t] = enqueue_pos =>
            enqueue_pos < dequeue_pos + Cap /\ seq[Slot(enqueue_pos)] = enqueue_pos
        /\ pc[t] = "pop_cas" /\ pos[t] = dequeue_pos =>
            dequeue_pos < enqueue_pos /\ seq[Slot(dequeue_pos)] = dequeue_pos + 1
        /\ pc[t] \in {"push_seq", "push_cas"} => pos[t] <= enqueue_pos
        /\ pc[t] \in {"pop_seq", "pop_cas"} => pos[t] <= dequeue_pos

IInv == TypeOK /\ Window /\ Owned /\ SeqStillTrue

Cells == Values \cup {Null}
ValuesTyped ==
    /\ data \in [Slots -> Cells] /\ val \in [Threads -> Cells]
    /\ \A t \in Threads :
        pc[t] \in {"push_seq", "push_reload", "push_cas", "write"} => val[t] \in Values

\* The comment of pop (line 21), "seq < pos+1 -> the queue is empty": when pop
\* answers "empty", each value whose push had returned before the pop began has
\* been taken by another pop.  A push that claimed an earlier position and is not
\* done yet hides the values behind it, so this takes a single producer.
EmptyMeansEmpty ==
    \A t \in Threads : pc[t] = "empty" => before[t] < dequeue_pos

\* What that rests on.  A position that is not published is being written, by the
\* producer, and is the last; what had been pushed before a pop began comes before it;
\* and a pop that comes too late to its position finds it published or taken.
OldestFirst ==
    /\ \A p \in dequeue_pos .. enqueue_pos - 1 :
        Published(p) \/ \E t \in Writers : pos[t] = p
    /\ \A t \in Writers : t \in Producers /\ pos[t] = enqueue_pos - 1
    /\ before \in [Threads -> Int]
    /\ \A t \in Threads :
        before[t] < enqueue_pos /\ \A u \in Writers : before[t] < pos[u]
    /\ \A t \in Threads :
        pc[t] = "pop_seq" /\ pos[t] < dequeue_pos => seq[Slot(pos[t])] > pos[t]

\* The values between the two positions, those of slots still being written
\* included: a push takes effect when it claims its position.
ValueAt(p) ==
    IF \E t \in Threads : pc[t] = "write" /\ pos[t] = p
    THEN val[CHOOSE t \in Threads : pc[t] = "write" /\ pos[t] = p]
    ELSE data[Slot(p)]

Queued == [i \in 1 .. enqueue_pos - dequeue_pos |-> ValueAt(dequeue_pos + i - 1)]

CallOf(t) ==
    CASE pc[t] \in {"push_seq", "push_reload", "push_cas"} -> <<"push", val[t]>>
      [] pc[t] = "full" -> <<"full">>
      [] pc[t] \in {"pop_seq", "pop_reload", "pop_cas"} -> <<"pop">>
      [] pc[t] = "empty" -> <<"got", Null>>
      [] pc[t] = "read" -> <<"got", data[Slot(pos[t])]>>
      [] pc[t] = "release" -> <<"got", val[t]>>
      [] OTHER -> <<"idle">>

Abstract ==
    INSTANCE Fifo WITH
        Capacity <- Cap,
        Empty <- Null,
        Exact <- FALSE,
        q <- Queued,
        call <- [t \in Threads |-> CallOf(t)]

\* The values come out in the order in which their pushes claimed positions,
\* each once, and a pop gets the value of the position it claims; only "full"
\* and "empty" may be reported too early.
ImplementsFifo == Abstract!Spec
=============================================================================
