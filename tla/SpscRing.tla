------------------------------ MODULE SpscRing ------------------------------
(***************************************************************************)
(* src/threadsafe_containers/ring_queue/spsc_lockfree_queue.h: a ring of   *)
(* Cap + 1 slots, one of which stays empty, for one producer and one       *)
(* consumer.  head_ is written by the consumer only and tail_ by the       *)
(* producer only.  Each side loads the other's index once per call, tests  *)
(* that snapshot against its own index, and never looks at it again.       *)
(***************************************************************************)
EXTENDS Integers, Sequences

CONSTANTS
    Values,         \* values pushed
    Cap,            \* capacity
    Null            \* no value

ASSUME ConstantsAssumption ==
    /\ Cap \in Nat
    /\ Null \notin Values

Size == Cap + 1
Slots == 0 .. Cap

VARIABLES
    data_, head_, tail_,
    push_pc, val,       \* locals of push
    pop_pc, res         \* locals of pop

push_vars == <<push_pc, val>>
pop_vars == <<pop_pc, res>>
vars == <<data_, head_, tail_, push_vars, pop_vars>>

Init ==
    /\ data_ = [i \in Slots |-> Null]
    /\ head_ = 0 /\ tail_ = 0
    /\ push_pc = "idle" /\ val = Null
    /\ pop_pc = "idle" /\ res = Null

After(i) == (i + 1) % Size

-----------------------------------------------------------------------------
PushStart(v) ==
    /\ push_pc = "idle" /\ push_pc' = "load"
    /\ val' = v
    /\ UNCHANGED <<data_, head_, tail_, pop_vars>>

\* The bug of filling the slot that tells full from empty.
PushLoad_NoGap ==
    /\ push_pc = "load" /\ push_pc' = "write"
    /\ UNCHANGED <<data_, head_, tail_, val, pop_vars>>

\* size_t head = head_.load() and the test of "full": all that the producer
\* knows of head_ until it returns
PushLoad ==
    /\ push_pc = "load"
    /\ push_pc' = IF After(tail_) = head_ THEN "full" ELSE "write"
    /\ UNCHANGED <<data_, head_, tail_, val, pop_vars>>

ReturnFull ==
    /\ push_pc = "full" /\ push_pc' = "idle"
    /\ val' = Null
    /\ UNCHANGED <<data_, head_, tail_, pop_vars>>

WriteData ==
    /\ push_pc = "write" /\ push_pc' = "store"
    /\ data_' = [data_ EXCEPT ![tail_] = val]
    /\ UNCHANGED <<head_, tail_, val, pop_vars>>

StoreTail ==
    /\ push_pc = "store" /\ push_pc' = "idle"
    /\ tail_' = After(tail_)
    /\ val' = Null
    /\ UNCHANGED <<data_, head_, pop_vars>>

-----------------------------------------------------------------------------
PopStart ==
    /\ pop_pc = "idle" /\ pop_pc' = "load"
    /\ UNCHANGED <<data_, head_, tail_, res, push_vars>>

PopLoad ==
    /\ pop_pc = "load"
    /\ pop_pc' = IF head_ = tail_ THEN "empty" ELSE "read"
    /\ UNCHANGED <<data_, head_, tail_, res, push_vars>>

ReturnEmpty ==
    /\ pop_pc = "empty" /\ pop_pc' = "idle"
    /\ UNCHANGED <<data_, head_, tail_, res, push_vars>>

ReadData ==
    /\ pop_pc = "read" /\ pop_pc' = "store"
    /\ res' = data_[head_]
    /\ UNCHANGED <<data_, head_, tail_, push_vars>>

StoreHead ==
    /\ pop_pc = "store" /\ pop_pc' = "done"
    /\ head_' = After(head_)
    /\ UNCHANGED <<data_, tail_, res, push_vars>>

ReturnValue ==
    /\ pop_pc = "done" /\ pop_pc' = "idle"
    /\ res' = Null
    /\ UNCHANGED <<data_, head_, tail_, push_vars>>

Push == (\E v \in Values : PushStart(v)) \/ PushLoad \/ ReturnFull \/ WriteData \/ StoreTail

Pop == PopStart \/ PopLoad \/ ReturnEmpty \/ ReadData \/ StoreHead \/ ReturnValue

Next == Push \/ Pop

Spec == Init /\ [][Next]_vars

-----------------------------------------------------------------------------
TypeOK ==
    /\ data_ \in [Slots -> Values \cup {Null}]
    /\ head_ \in Slots /\ tail_ \in Slots
    /\ push_pc \in {"idle", "load", "full", "write", "store"}
    /\ pop_pc \in {"idle", "load", "empty", "read", "store", "done"}
    /\ val \in Values \cup {Null} /\ res \in Values \cup {Null}
    /\ push_pc # "idle" => val \in Values

\* data_ is not atomic: a slot is never written while it is read (line 26
\* against line 43), although each side only knows an old index of the other.
NoDataRace == push_pc = "write" /\ pop_pc = "read" => tail_ # head_

\* What NoDataRace rests on.  Stale snapshots err on the safe side: once a side
\* has passed its test, the other side's moves only make room.
PushHasRoom == push_pc \in {"write", "store"} => After(tail_) # head_
PopHasValue == pop_pc \in {"read", "store"} => head_ # tail_

\* A side that moves its index has done its part on the slot.
SlotDone ==
    /\ push_pc = "store" => data_[tail_] = val
    /\ pop_pc = "store" => data_[head_] = res

IInv == TypeOK /\ PushHasRoom /\ PopHasValue /\ SlotDone

Queued == [i \in 1 .. (tail_ - head_) % Size |-> data_[(head_ + i - 1) % Size]]

Callers == {"producer", "consumer"}

CallOf(t) ==
    CASE t = "producer" /\ push_pc \in {"load", "write", "store"} -> <<"push", val>>
      [] t = "producer" /\ push_pc = "full" -> <<"full">>
      [] t = "consumer" /\ pop_pc \in {"load", "read", "store"} -> <<"pop">>
      [] t = "consumer" /\ pop_pc = "empty" -> <<"got", Null>>
      [] t = "consumer" /\ pop_pc = "done" -> <<"got", res>>
      [] OTHER -> <<"idle">>

Abstract ==
    INSTANCE Fifo WITH
        Threads <- Callers,
        Capacity <- Cap,
        Empty <- Null,
        Exact <- TRUE,
        q <- Queued,
        call <- [t \in Callers |-> CallOf(t)]

\* The ring is a linearizable queue of capacity Cap: a push takes effect when
\* it stores tail_, a pop when it stores head_, and "full" and "empty" are true
\* at the load that finds them.
ImplementsFifo == Abstract!Spec
=============================================================================
