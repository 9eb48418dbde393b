---------------------------- MODULE FifosProofs ----------------------------
(***************************************************************************)
(* Proofs, for every value of the constants, about the queues of MCFifos.  *)
(*                                                                         *)
(* First the ring for one producer and one consumer (SpscRing), the ring   *)
(* under a spin lock (SpinlockRing, Spin! in MCFifos), the list under two  *)
(* mutexes (TwoLockQueue, Two! there), the list for one producer and one   *)
(* consumer (SpscLinked, Linked!) and the ring of compare-exchanges        *)
(* (CasRing, Cas!); the proofs of the Vyukov ring are in MpmcRingProofs,   *)
(* which MCFifos instantiates.  Then MCFifos itself: its behaviours are    *)
(* behaviours of every queue, so what is proved of the queues holds of     *)
(* them.                                                                   *)
(***************************************************************************)
EXTENDS MCFifos, LinkedListTheorems

-----------------------------------------------------------------------------
(* SpscRing: the two sides never touch the same slot at once, and the ring *)
(* is a linearizable queue of its capacity.                                *)

\* (i + 1) % data_.size() stays on the ring.
LEMMA AfterOnRing ==
    ASSUME NEW i \in Slots
    PROVE  After(i) \in Slots /\ After(i) = IF i = Cap THEN 0 ELSE i + 1
<1>1. Cap \in Nat
    BY ConstantsAssumption
<1>2. CASE i = Cap
    <2>1. (Cap + 1) % (Cap + 1) = 0
        BY <1>1
    <2>2. QED
        BY <1>1, <1>2, <2>1 DEF After, Size, Slots
<1>3. CASE i # Cap
    <2>1. i + 1 \in Nat /\ i + 1 < Cap + 1
        BY <1>1, <1>3 DEF Slots
    <2>2. (i + 1) % (Cap + 1) = i + 1
        BY <1>1, <2>1
    <2>3. QED
        BY <1>1, <1>3, <2>1, <2>2 DEF After, Size, Slots
<1>4. QED
    BY <1>2, <1>3

\* Two different indices are never moved to the same one.
LEMMA AfterInjective ==
    ASSUME NEW i \in Slots, NEW j \in Slots, After(i) = After(j)
    PROVE  i = j
<1>1. Cap \in Nat
    BY ConstantsAssumption
<1>2. i \in Nat /\ j \in Nat
    BY <1>1 DEF Slots
<1>3. PICK k : k = After(i) /\ k = After(j)
    OBVIOUS
<1>4. k = IF i = Cap THEN 0 ELSE i + 1
    BY <1>3, AfterOnRing
<1>5. k = IF j = Cap THEN 0 ELSE j + 1
    BY <1>3, AfterOnRing
<1>6. QED
    BY <1>1, <1>2, <1>4, <1>5

-----------------------------------------------------------------------------
\* The constructor establishes the invariant.
LEMMA InitIInv == Init => IInv
BY ConstantsAssumption DEF Init, IInv, TypeOK, PushHasRoom, PopHasValue, SlotDone, Slots

\* No step of either side breaks it: each side keeps what it found out in its
\* own test, and moves its index only into the room the other side leaves.
LEMMA StepIInv == IInv /\ [Next]_vars => IInv'
<1> SUFFICES ASSUME IInv, [Next]_vars PROVE IInv'
    OBVIOUS
<1> USE DEF IInv, TypeOK, PushHasRoom, PopHasValue, SlotDone, push_vars, pop_vars
<1>1. ASSUME NEW v \in Values, PushStart(v) PROVE IInv'
    BY <1>1 DEF PushStart
<1>2. CASE PushLoad
    BY <1>2 DEF PushLoad
<1>3. CASE ReturnFull
    BY <1>3 DEF ReturnFull
<1>4. CASE WriteData
    BY <1>4 DEF WriteData
<1>5. CASE StoreTail
    <2>1. After(tail_) \in Slots /\ After(tail_) # head_
        BY <1>5, AfterOnRing DEF StoreTail
    <2>2. QED
        BY <1>5, <2>1 DEF StoreTail
<1>6. CASE PopStart
    BY <1>6 DEF PopStart
<1>7. CASE PopLoad
    BY <1>7 DEF PopLoad
<1>8. CASE ReturnEmpty
    BY <1>8 DEF ReturnEmpty
<1>9. CASE ReadData
    BY <1>9 DEF ReadData
<1>10. CASE StoreHead
    <2>1. After(head_) \in Slots /\ After(head_) # After(tail_)
        BY <1>10, AfterOnRing, AfterInjective DEF StoreHead
    <2>2. QED
        BY <1>10, <2>1 DEF StoreHead
<1>11. CASE ReturnValue
    BY <1>11 DEF ReturnValue
<1>12. CASE UNCHANGED vars
    BY <1>12 DEF vars, After
<1>13. QED
    BY <1>1, <1>2, <1>3, <1>4, <1>5, <1>6, <1>7, <1>8, <1>9, <1>10, <1>11, <1>12
    DEF Next, Push, Pop

\* The inductive invariant holds in every state of the queue.
THEOREM Invariance == Spec => []IInv
BY InitIInv, StepIInv, PTL DEF Spec

\* For every capacity, the producer never writes the slot that the consumer
\* is reading.
THEOREM RaceFreedom == Spec => []NoDataRace
<1>1. IInv => NoDataRace
    BY DEF IInv, PopHasValue, NoDataRace
<1>2. QED
    BY Invariance, <1>1, PTL

-----------------------------------------------------------------------------
\* The number of values, and the slot of the i-th, without the modulus.
Length == IF head_ <= tail_ THEN tail_ - head_ ELSE tail_ - head_ + Size
Place(i) == IF head_ + i - 1 < Size THEN head_ + i - 1 ELSE head_ + i - 1 - Size

\* What % gives within one lap of an index.
LEMMA ModOnce ==
    ASSUME NEW n \in Nat \ {0}, NEW k \in 0 .. n - 1
    PROVE  /\ k % n = k
           /\ (k + n) % n = k
           /\ (k - n) % n = k
OBVIOUS

Cells == Values \cup {Null}

\* The values of the ring, written without the modulus.
PlainView ==
    /\ Length \in Slots
    /\ \A i \in 1 .. Length : Place(i) \in Slots
    /\ Queued = [i \in 1 .. Length |-> data_[Place(i)]]
    /\ Queued \in Seq(Cells) /\ Len(Queued) = Length

\* The values of the ring, written without %.
LEMMA QueuedPlain == TypeOK => PlainView
<1> SUFFICES ASSUME TypeOK PROVE PlainView
    OBVIOUS
<1>1. Cap \in Nat /\ head_ \in Nat /\ tail_ \in Nat /\ head_ <= Cap /\ tail_ <= Cap
    BY ConstantsAssumption DEF TypeOK, Slots
<1>2. Size \in Nat \ {0} /\ Size = Cap + 1 /\ Slots = 0 .. Size - 1
    BY <1>1 DEF Size, Slots
<1>3. Length \in Slots /\ Length \in Nat
    BY <1>1, <1>2 DEF Length
<1>4. (tail_ - head_) % Size = Length
    <2>1. CASE head_ <= tail_
        BY <1>1, <1>2, <1>3, <2>1, ModOnce DEF Length
    <2>2. CASE ~(head_ <= tail_)
        <3>1. tail_ - head_ = Length - Size
            BY <1>1, <1>2, <2>2 DEF Length
        <3>2. QED
            BY <1>2, <1>3, <3>1, ModOnce
    <2>3. QED
        BY <2>1, <2>2
<1>5. ASSUME NEW i \in 1 .. Length
      PROVE  Place(i) \in Slots /\ (head_ + i - 1) % Size = Place(i)
    <2>1. i \in Nat /\ i >= 1 /\ i <= Length
        BY <1>3
    <2>2. Place(i) \in Slots
        BY <1>1, <1>2, <1>3, <2>1 DEF Place
    <2>3. CASE head_ + i - 1 < Size
        BY <1>1, <1>2, <2>1, <2>2, <2>3, ModOnce DEF Place
    <2>4. CASE ~(head_ + i - 1 < Size)
        <3>1. head_ + i - 1 = Place(i) + Size
            BY <1>1, <1>2, <2>1, <2>4 DEF Place
        <3>2. QED
            BY <1>2, <2>2, <3>1, ModOnce
    <2>5. QED
        BY <2>2, <2>3, <2>4
<1>6. Queued = [i \in 1 .. Length |-> data_[Place(i)]]
    BY <1>4, <1>5 DEF Queued
<1>7. \A i \in 1 .. Length : data_[Place(i)] \in Cells
    BY <1>5 DEF TypeOK, Cells
<1>8. Queued \in Seq(Cells) /\ Len(Queued) = Length
    BY <1>3, <1>6, <1>7
<1>9. QED
    BY <1>3, <1>5, <1>6, <1>8 DEF PlainView

\* What the mapping needs of the invariant.
LEMMA IInvPlain == IInv => TypeOK /\ PlainView /\ Queued \in Seq(Cells)
BY QueuedPlain DEF IInv, PlainView

\* A step of either side sees the values before and after it without the modulus.
LEMMA BothPlain == IInv /\ [Next]_vars => PlainView /\ PlainView'
<1>1. IInv /\ [Next]_vars => IInv'
    BY StepIInv
<1>2. IInv => PlainView
    BY IInvPlain
<1>3. QED
    BY <1>1, <1>2, PTL

\* The test of push finds the ring full exactly when it holds Cap values.
LEMMA FullMeansFull ==
    ASSUME TypeOK
    PROVE  IF After(tail_) = head_ THEN Length = Cap ELSE Length < Cap
<1>1. Cap \in Nat /\ head_ \in Nat /\ tail_ \in Nat /\ head_ <= Cap /\ tail_ <= Cap
    BY ConstantsAssumption DEF TypeOK, Slots
<1>2. After(tail_) = IF tail_ = Cap THEN 0 ELSE tail_ + 1
    BY AfterOnRing DEF TypeOK
<1>3. QED
    BY <1>1, <1>2 DEF Length, Size

\* Writing the slot at tail_ changes no value of the queue.
LEMMA WriteHidden ==
    ASSUME TypeOK, PlainView, PlainView', UNCHANGED <<head_, tail_>>,
           data_' = [data_ EXCEPT ![tail_] = val]
    PROVE  Queued' = Queued
<1>1. Cap \in Nat /\ head_ \in Nat /\ tail_ \in Nat /\ head_ <= Cap /\ tail_ <= Cap
    BY ConstantsAssumption DEF TypeOK, Slots
<1>2. Length' = Length /\ \A i : Place(i)' = Place(i)
    BY DEF Length, Place
<1>3. \A i \in 1 .. Length : Place(i) # tail_
    BY <1>1 DEF Length, Place, Size
<1>4. \A i \in 1 .. Length : data_'[Place(i)] = data_[Place(i)]
    BY <1>3 DEF TypeOK, PlainView
<1>5. QED
    BY <1>2, <1>4 DEF PlainView

\* Storing tail_ appends the value that was written there.
LEMMA StoreAppends ==
    ASSUME TypeOK, PlainView, PlainView', UNCHANGED <<head_, data_>>,
           After(tail_) # head_, tail_' = After(tail_), data_[tail_] = val
    PROVE  Queued' = Append(Queued, val)
<1>1. Cap \in Nat /\ head_ \in Nat /\ tail_ \in Nat /\ head_ <= Cap /\ tail_ <= Cap
    BY ConstantsAssumption DEF TypeOK, Slots
<1>2. After(tail_) = IF tail_ = Cap THEN 0 ELSE tail_ + 1
    BY AfterOnRing DEF TypeOK
<1>3. Length' = Length + 1 /\ Length \in Nat /\ \A i : Place(i)' = Place(i)
    BY <1>1, <1>2 DEF Length, Place, Size
<1>4. Place(Length + 1) = tail_
    BY <1>1 DEF Length, Place, Size
<1>5. val \in Cells /\ Queued \in Seq(Cells) /\ Len(Queued) = Length
    BY DEF TypeOK, Cells, PlainView
<1>6. /\ Append(Queued, val) \in Seq(Cells)
      /\ Len(Append(Queued, val)) = Length + 1
      /\ \A i \in 1 .. Length : Append(Queued, val)[i] = Queued[i]
      /\ Append(Queued, val)[Length + 1] = val
    BY ONLY <1>5, AppendProperties
<1>7. Queued' \in Seq(Cells) /\ Len(Queued') = Length + 1
    BY <1>3 DEF PlainView
<1>8. ASSUME NEW i \in 1 .. Length + 1 PROVE Queued'[i] = Append(Queued, val)[i]
    <2>1. Queued'[i] = data_[Place(i)]
        BY <1>3 DEF PlainView
    <2>2. CASE i = Length + 1
        BY <1>4, <1>6, <2>1, <2>2
    <2>3. CASE i # Length + 1
        <3>1. i \in 1 .. Length
            BY <1>3, <2>3
        <3>2. QED
            BY <1>6, <2>1, <3>1 DEF PlainView
    <2>4. QED
        BY <2>2, <2>3
<1>9. /\ Len(Queued') = Len(Append(Queued, val))
      /\ \A i \in 1 .. Len(Queued') : Queued'[i] = Append(Queued, val)[i]
    BY <1>6, <1>7, <1>8
<1>10. QED
    BY ONLY <1>6, <1>7, <1>9, SeqEqual

\* Storing head_ takes the oldest value, the one that was read there.
LEMMA StoreTakes ==
    ASSUME TypeOK, PlainView, PlainView', UNCHANGED <<tail_, data_>>,
           head_ # tail_, head_' = After(head_)
    PROVE  /\ Queued # <<>>
           /\ Head(Queued) = data_[head_]
           /\ Queued' = Tail(Queued)
<1>1. Cap \in Nat /\ head_ \in Nat /\ tail_ \in Nat /\ head_ <= Cap /\ tail_ <= Cap
    BY ConstantsAssumption DEF TypeOK, Slots
<1>2. After(head_) = IF head_ = Cap THEN 0 ELSE head_ + 1
    BY AfterOnRing DEF TypeOK
<1>3. Length' = Length - 1 /\ Length \in Nat /\ Length >= 1
    BY <1>1, <1>2 DEF Length, Size
<1>4. ASSUME NEW i \in 1 .. Length - 1 PROVE Place(i)' = Place(i + 1)
    <2>1. i \in Nat /\ i <= Length - 1 /\ Length <= Cap
        BY <1>1, <1>3 DEF Length, Size
    <2>2. QED
        BY <1>1, <1>2, <1>3, <2>1 DEF Place, Size, Length
<1>5. Place(1) = head_
    BY <1>1 DEF Place, Size
<1>6. Queued # <<>>
    BY <1>3 DEF PlainView
<1>7. Head(Queued) = data_[head_]
    <2>1. Head(Queued) = Queued[1]
        BY <1>6 DEF PlainView
    <2>2. QED
        BY <1>3, <1>5, <2>1 DEF PlainView
<1>8. /\ Tail(Queued) \in Seq(Cells)
      /\ Len(Tail(Queued)) = Length - 1
      /\ \A i \in 1 .. Length - 1 : Tail(Queued)[i] = Queued[i + 1]
    BY <1>6, HeadTailProperties DEF PlainView
<1>9. Queued' \in Seq(Cells) /\ Len(Queued') = Length - 1
    BY <1>3 DEF PlainView
<1>10. ASSUME NEW i \in 1 .. Length - 1 PROVE Queued'[i] = Tail(Queued)[i]
    <2>1. Queued'[i] = data_[Place(i + 1)]
        BY <1>3, <1>4 DEF PlainView
    <2>2. i + 1 \in 1 .. Length
        BY <1>3
    <2>3. QED
        BY <1>8, <2>1, <2>2 DEF PlainView
<1>11. /\ Len(Queued') = Len(Tail(Queued))
       /\ \A i \in 1 .. Len(Queued') : Queued'[i] = Tail(Queued)[i]
    BY <1>8, <1>9, <1>10
<1>12. Queued' = Tail(Queued)
    BY ONLY <1>8, <1>9, <1>11, SeqEqual
<1>13. QED
    BY <1>6, <1>7, <1>12

-----------------------------------------------------------------------------
\* A step of one side that takes it from one call to another is a step of its
\* caller.
LEMMA CallStep ==
    ASSUME NEW t \in Callers, NEW from, NEW to,
           CallOf(t) = from, CallOf(t)' = to,
           \A u \in Callers \ {t} : CallOf(u)' = CallOf(u)
    PROVE  Abstract!Step(t, from, to)
BY DEF Abstract!Step

\* What the two callers are doing.
LEMMA CallOfProducer ==
    /\ push_pc = "idle" => CallOf("producer") = <<"idle">>
    /\ push_pc \in {"load", "write", "store"} => CallOf("producer") = <<"push", val>>
    /\ push_pc = "full" => CallOf("producer") = <<"full">>
BY DEF CallOf

\* The result of a pop, by its control point.
LEMMA CallOfConsumer ==
    /\ pop_pc = "idle" => CallOf("consumer") = <<"idle">>
    /\ pop_pc \in {"load", "read", "store"} => CallOf("consumer") = <<"pop">>
    /\ pop_pc = "empty" => CallOf("consumer") = <<"got", Null>>
    /\ pop_pc = "done" => CallOf("consumer") = <<"got", res>>
BY DEF CallOf

\* A side's call is not changed by the steps of the other.
LEMMA OtherCall ==
    /\ UNCHANGED pop_vars => \A u \in Callers \ {"producer"} : CallOf(u)' = CallOf(u)
    /\ UNCHANGED push_vars => \A u \in Callers \ {"consumer"} : CallOf(u)' = CallOf(u)
BY DEF CallOf, Callers, push_vars, pop_vars

\* A step that touches neither indices nor slots keeps the values.
LEMMA QueuedKept ==
    ASSUME UNCHANGED <<data_, head_, tail_>> PROVE Queued' = Queued
BY DEF Queued

-----------------------------------------------------------------------------
\* Each step of a push is a step of Fifo or none,
LEMMA PushRefines ==
    ASSUME IInv, PlainView, PlainView', Push
    PROVE  Abstract!Next \/ UNCHANGED Abstract!vars
<1> TypeOK /\ "producer" \in Callers
    BY DEF IInv, Callers
<1>1. \A u \in Callers \ {"producer"} : CallOf(u)' = CallOf(u)
    BY OtherCall DEF Push, PushStart, PushLoad, ReturnFull, WriteData, StoreTail
<1>2. push_pc # "idle" => val \in Values
    BY DEF TypeOK
<1>3. ASSUME NEW v \in Values, PushStart(v) PROVE Abstract!Next
    <2>1. CallOf("producer") = <<"idle">> /\ CallOf("producer")' = <<"push", v>>
        BY <1>3, CallOfProducer DEF PushStart, CallOf
    <2>2. Abstract!CallPush("producer", v)
        BY <1>1, <1>3, <2>1, CallStep, QueuedKept
        DEF PushStart, Abstract!CallPush, Abstract!Idle, Abstract!Pushing
    <2>3. QED
        BY <2>2 DEF Abstract!Next
<1>4. CASE PushLoad
    <2>1. CallOf("producer") = <<"push", val>>
        BY <1>4, CallOfProducer DEF PushLoad
    <2>2. Queued' = Queued
        BY <1>4, QueuedKept DEF PushLoad
    <2>3. CASE After(tail_) = head_
        <3>1. CallOf("producer")' = <<"full">>
            BY <1>4, <2>3 DEF PushLoad, CallOf
        <3>2. Len(Queued) = Cap
            BY <2>3, FullMeansFull DEF PlainView
        <3>3. Abstract!PushFull("producer", val)
            BY <1>1, <2>1, <2>2, <3>1, <3>2, CallStep
            DEF Abstract!PushFull, Abstract!Pushing, Abstract!Refused
        <3>4. QED
            BY <1>2, <1>4, <3>3 DEF PushLoad, Abstract!Next
    <2>4. CASE After(tail_) # head_
        <3>1. CallOf("producer")' = <<"push", val>>
            BY <1>4, <2>4 DEF PushLoad, CallOf
        <3>2. QED
            BY <1>1, <2>1, <2>2, <3>1 DEF Abstract!vars, Callers
    <2>5. QED
        BY <2>3, <2>4
<1>5. CASE ReturnFull
    <2>1. CallOf("producer") = <<"full">> /\ CallOf("producer")' = <<"idle">>
        BY <1>5, CallOfProducer DEF ReturnFull, CallOf
    <2>2. Abstract!Step("producer", <<"full">>, <<"idle">>)
        BY <1>1, <2>1, CallStep
    <2>3. Abstract!Return("producer")
        BY <1>5, <2>2, QueuedKept
        DEF ReturnFull, Abstract!Return, Abstract!Refused, Abstract!Idle
    <2>4. QED
        BY <2>3 DEF Abstract!Next
<1>6. CASE WriteData
    <2>1. CallOf("producer")' = CallOf("producer")
        BY <1>6 DEF WriteData, CallOf
    <2>2. Queued' = Queued
        BY <1>6, WriteHidden DEF WriteData
    <2>3. QED
        BY <1>1, <2>1, <2>2 DEF Abstract!vars, Callers
<1>7. CASE StoreTail
    <2>1. CallOf("producer") = <<"push", val>> /\ CallOf("producer")' = <<"idle">>
        BY <1>7, CallOfProducer DEF StoreTail, CallOf
    <2>2. After(tail_) # head_ /\ data_[tail_] = val /\ val \in Values
        BY <1>2, <1>7 DEF IInv, PushHasRoom, SlotDone, StoreTail
    <2>3. Queued' = Append(Queued, val)
        BY <1>7, <2>2, StoreAppends DEF StoreTail
    <2>4. Len(Queued) < Cap
        BY <2>2, FullMeansFull DEF PlainView
    <2>5. Abstract!Push("producer", val)
        BY <1>1, <2>1, <2>3, <2>4, CallStep
        DEF Abstract!Push, Abstract!Pushing, Abstract!Idle
    <2>6. QED
        BY <2>2, <2>5 DEF Abstract!Next
<1>8. QED
    BY <1>3, <1>4, <1>5, <1>6, <1>7 DEF Push

\* and each step of a pop.
LEMMA PopRefines ==
    ASSUME IInv, PlainView, PlainView', Pop
    PROVE  Abstract!Next \/ UNCHANGED Abstract!vars
<1> TypeOK /\ "consumer" \in Callers
    BY DEF IInv, Callers
<1>1. \A u \in Callers \ {"consumer"} : CallOf(u)' = CallOf(u)
    BY OtherCall DEF Pop, PopStart, PopLoad, ReturnEmpty, ReadData, StoreHead, ReturnValue
<1>2. CASE PopStart
    <2>1. CallOf("consumer") = <<"idle">> /\ CallOf("consumer")' = <<"pop">>
        BY <1>2, CallOfConsumer DEF PopStart, CallOf
    <2>2. Abstract!CallPop("consumer")
        BY <1>1, <1>2, <2>1, CallStep, QueuedKept
        DEF PopStart, Abstract!CallPop, Abstract!Idle, Abstract!Popping
    <2>3. QED
        BY <2>2 DEF Abstract!Next
<1>3. CASE PopLoad
    <2>1. CallOf("consumer") = <<"pop">>
        BY <1>3, CallOfConsumer DEF PopLoad
    <2>2. Queued' = Queued
        BY <1>3, QueuedKept DEF PopLoad
    <2>3. CASE head_ = tail_
        <3>1. CallOf("consumer")' = <<"got", Null>>
            BY <1>3, <2>3 DEF PopLoad, CallOf
        <3>2. Queued = <<>>
            <4>1. Len(Queued) = 0
                BY <2>3, ConstantsAssumption DEF PlainView, Length, TypeOK, Slots
            <4>2. QED
                BY <4>1, EmptySeq DEF PlainView
        <3>3. Abstract!PopEmpty("consumer")
            BY <1>1, <2>1, <2>2, <3>1, <3>2, CallStep
            DEF Abstract!PopEmpty, Abstract!Popping, Abstract!Got
        <3>4. QED
            BY <3>3 DEF Abstract!Next
    <2>4. CASE head_ # tail_
        <3>1. CallOf("consumer")' = <<"pop">>
            BY <1>3, <2>4 DEF PopLoad, CallOf
        <3>2. QED
            BY <1>1, <2>1, <2>2, <3>1 DEF Abstract!vars, Callers
    <2>5. QED
        BY <2>3, <2>4
<1>4. CASE ReadData
    <2>1. CallOf("consumer") = <<"pop">> /\ CallOf("consumer")' = <<"pop">>
        BY <1>4, CallOfConsumer DEF ReadData, CallOf
    <2>2. QED
        BY <1>1, <1>4, <2>1, QueuedKept DEF ReadData, Abstract!vars, Callers
<1>5. CASE StoreHead
    <2>1. CallOf("consumer") = <<"pop">> /\ CallOf("consumer")' = <<"got", res>>
        BY <1>5, CallOfConsumer DEF StoreHead, CallOf
    <2>2. head_ # tail_ /\ data_[head_] = res
        BY <1>5 DEF IInv, PopHasValue, SlotDone, StoreHead
    <2>3. Queued # <<>> /\ Head(Queued) = res /\ Queued' = Tail(Queued)
        BY <1>5, <2>2, StoreTakes DEF StoreHead
    <2>4. Abstract!Pop("consumer")
        BY <1>1, <2>1, <2>3, CallStep DEF Abstract!Pop, Abstract!Popping, Abstract!Got
    <2>5. QED
        BY <2>4 DEF Abstract!Next
<1>6. CASE ReturnEmpty \/ ReturnValue
    <2>1. PICK r \in Values \cup {Null} :
            CallOf("consumer") = <<"got", r>> /\ CallOf("consumer")' = <<"idle">>
        BY <1>6, CallOfConsumer DEF ReturnEmpty, ReturnValue, CallOf, TypeOK
    <2>2. Abstract!Step("consumer", <<"got", r>>, <<"idle">>)
        BY <1>1, <2>1, CallStep
    <2>3. Abstract!Return("consumer")
        BY <1>6, <2>2, QueuedKept
        DEF ReturnEmpty, ReturnValue, Abstract!Return, Abstract!Got, Abstract!Idle
    <2>4. QED
        BY <2>3 DEF Abstract!Next
<1>7. QED
    BY <1>2, <1>3, <1>4, <1>5, <1>6 DEF Pop

\* Every step of the ring is a step of the queue, or none.
LEMMA StepRefines == IInv /\ [Next]_vars => [Abstract!Next]_(Abstract!vars)
<1> SUFFICES ASSUME IInv, [Next]_vars
             PROVE  Abstract!Next \/ UNCHANGED Abstract!vars
    OBVIOUS
<1>1. PlainView /\ PlainView'
    BY BothPlain
<1>2. CASE UNCHANGED vars
    BY <1>2, QueuedKept DEF vars, push_vars, pop_vars, Abstract!vars, CallOf
<1>3. QED
    BY <1>1, <1>2, PushRefines, PopRefines DEF Next

\* The ring starts empty.
LEMMA StartsEmpty == Init => Abstract!Init
<1> SUFFICES ASSUME Init PROVE Abstract!Init
    OBVIOUS
<1>1. TypeOK /\ PlainView
    BY InitIInv, IInvPlain DEF IInv
<1>2. Queued = <<>>
    <2>1. Len(Queued) = 0
        BY <1>1 DEF PlainView, Length, Init
    <2>2. QED
        BY <1>1, <2>1, EmptySeq DEF PlainView
<1>3. QED
    BY <1>2 DEF Abstract!Init, Abstract!Idle, Init, CallOf, Callers

\* For every capacity the ring is a linearizable queue of that capacity: it says
\* "full" only when it holds Cap values and "empty" only when it holds none.
THEOREM Linearizable == Spec => ImplementsFifo
<1>1. Init => Abstract!Init
    BY StartsEmpty
<1>2. IInv /\ [Next]_vars => [Abstract!Next]_(Abstract!vars)
    BY StepRefines
<1>3. QED
    BY Invariance, <1>1, <1>2, PTL DEF Spec, Abstract!Spec, ImplementsFifo

-----------------------------------------------------------------------------
(* SpinlockRing: the objects live exactly in the slots from head to tail,  *)
(* and the ring is linearizable.                                           *)

\* (i + 1) % cap stays on the ring.
LEMMA SpinAfterOnRing ==
    ASSUME Spin!ConstantsAssumption, NEW i \in Spin!Slots
    PROVE  Spin!After(i) \in Spin!Slots /\ Spin!After(i) = IF i = SlotCount THEN 0 ELSE i + 1
<1>1. SlotCount \in Nat /\ Spin!cap \in Nat \ {0} /\ Spin!cap = SlotCount + 1
          /\ i \in 0 .. SlotCount
    BY DEF Spin!ConstantsAssumption, Spin!cap, Spin!Slots
<1>2. CASE i = SlotCount
    <2>1. (0 + Spin!cap) % Spin!cap = 0
        BY <1>1, ModOnce
    <2>2. QED
        BY <1>1, <1>2, <2>1 DEF Spin!After, Spin!Slots
<1>3. CASE i # SlotCount
    <2>1. (i + 1) % Spin!cap = i + 1
        BY <1>1, <1>3, ModOnce
    <2>2. QED
        BY <1>1, <1>3, <2>1 DEF Spin!After, Spin!Slots
<1>4. QED
    BY <1>2, <1>3

\* head and tail are numbers on the ring, and so are those after them.
LEMMA SpinIndices ==
    ASSUME Spin!ConstantsAssumption, Spin!TypeOK
    PROVE  /\ SlotCount \in Nat /\ Spin!Slots = 0 .. SlotCount
           /\ sr_head \in Nat /\ sr_head <= SlotCount
           /\ sr_tail \in Nat /\ sr_tail <= SlotCount
           /\ Spin!After(sr_head) = IF sr_head = SlotCount THEN 0 ELSE sr_head + 1
           /\ Spin!After(sr_tail) = IF sr_tail = SlotCount THEN 0 ELSE sr_tail + 1
BY SpinAfterOnRing DEF Spin!ConstantsAssumption, Spin!TypeOK, Spin!Slots

-----------------------------------------------------------------------------
\* The constructor establishes the invariant.
LEMMA SpinInitIInv == Spin!ConstantsAssumption /\ Spin!Init => Spin!IInv
<1> SUFFICES ASSUME Spin!ConstantsAssumption, Spin!Init PROVE Spin!IInv
    OBVIOUS
<1>1. SlotCount \in Nat /\ Spin!Slots = 0 .. SlotCount /\ Null \notin Values
    BY DEF Spin!ConstantsAssumption, Spin!Slots
<1>2. 0 \in Spin!Slots
    BY <1>1
<1>3. Spin!TypeOK
    BY <1>2 DEF Spin!Init, Spin!TypeOK
<1>4. Spin!LockHeld /\ Spin!StillSo
    BY DEF Spin!Init, Spin!LockHeld, Spin!StillSo, Spin!Outside
<1>5. \A i \in Spin!Slots : ~Spin!InRing(i)
    BY <1>1 DEF Spin!Init, Spin!InRing
<1>6. Spin!SlotsLive
    BY <1>5 DEF Spin!Init, Spin!SlotsLive, Spin!Lives
<1>7. QED
    BY <1>3, <1>4, <1>6 DEF Spin!IInv

\* Every step keeps the types,
LEMMA SpinStepTypeOK ==
    Spin!ConstantsAssumption /\ Spin!IInv /\ [Spin!Next]_(Spin!vars) => Spin!TypeOK'
<1> SUFFICES ASSUME Spin!ConstantsAssumption, Spin!IInv, [Spin!Next]_(Spin!vars)
             PROVE  Spin!TypeOK'
    OBVIOUS
<1> Spin!TypeOK
    BY DEF Spin!IInv
<1>1. Spin!After(sr_head) \in Spin!Slots /\ Spin!After(sr_tail) \in Spin!Slots
    BY SpinAfterOnRing DEF Spin!TypeOK
<1>2. ASSUME NEW t \in Clients, Spin!Push(t) PROVE Spin!TypeOK'
    BY <1>1, <1>2
    DEF Spin!TypeOK, Spin!Push, Spin!PushStart, Spin!PushLock, Spin!PushTest,
        Spin!ReturnFull, Spin!Construct, Spin!MoveTail, Spin!PushUnlock, Spin!Lock,
        Spin!Unlock, Spin!Goto
<1>3. ASSUME NEW t \in Clients, Spin!Pop(t) PROVE Spin!TypeOK'
    BY <1>1, <1>3
    DEF Spin!TypeOK, Spin!Pop, Spin!PopStart, Spin!PopLock, Spin!PopTest, Spin!MoveOut,
        Spin!Destroy, Spin!MoveHead, Spin!PopUnlock, Spin!Lock, Spin!Unlock, Spin!Goto
<1>4. CASE UNCHANGED Spin!vars
    BY <1>4 DEF Spin!vars, Spin!TypeOK
<1>5. QED
    BY <1>2, <1>3, <1>4 DEF Spin!Next

\* The step of one thread: it holds the lock, or is about to have it, or is not near.
LEMMA SpinStepLockHeld == Spin!IInv /\ [Spin!Next]_(Spin!vars) => Spin!LockHeld'
<1> SUFFICES ASSUME Spin!IInv, [Spin!Next]_(Spin!vars) PROVE Spin!LockHeld'
    OBVIOUS
<1> USE DEF Spin!LockHeld, Spin!Outside, Spin!IInv, Spin!TypeOK
<1>1. ASSUME NEW t \in Clients, Spin!Push(t) PROVE Spin!LockHeld'
    BY <1>1
    DEF Spin!Push, Spin!PushStart, Spin!PushLock, Spin!PushTest, Spin!ReturnFull,
        Spin!Construct, Spin!MoveTail, Spin!PushUnlock, Spin!Lock, Spin!Unlock, Spin!Goto
<1>2. ASSUME NEW t \in Clients, Spin!Pop(t) PROVE Spin!LockHeld'
    BY <1>2
    DEF Spin!Pop, Spin!PopStart, Spin!PopLock, Spin!PopTest, Spin!MoveOut, Spin!Destroy,
        Spin!MoveHead, Spin!PopUnlock, Spin!Lock, Spin!Unlock, Spin!Goto
<1>3. CASE UNCHANGED Spin!vars
    BY <1>3 DEF Spin!vars
<1>4. QED
    BY <1>1, <1>2, <1>3 DEF Spin!Next

\* While one thread holds the lock the others change nothing but their calls.
LEMMA SpinStepStillSo ==
    Spin!ConstantsAssumption /\ Spin!IInv /\ [Spin!Next]_(Spin!vars) => Spin!StillSo'
<1> SUFFICES ASSUME Spin!ConstantsAssumption, Spin!IInv, [Spin!Next]_(Spin!vars)
             PROVE  Spin!StillSo'
    OBVIOUS
<1> USE DEF Spin!IInv, Spin!TypeOK, Spin!LockHeld, Spin!StillSo, Spin!Outside
<1>0. Null \notin Values
    BY DEF Spin!ConstantsAssumption
<1>1. ASSUME NEW t \in Clients, Spin!Push(t) PROVE Spin!StillSo'
    BY <1>0, <1>1
    DEF Spin!Push, Spin!PushStart, Spin!PushLock, Spin!PushTest, Spin!ReturnFull,
        Spin!Construct, Spin!MoveTail, Spin!PushUnlock, Spin!Lock, Spin!Unlock, Spin!Goto
<1>2. ASSUME NEW t \in Clients, Spin!Pop(t) PROVE Spin!StillSo'
    BY <1>0, <1>2
    DEF Spin!Pop, Spin!PopStart, Spin!PopLock, Spin!PopTest, Spin!MoveOut, Spin!Destroy,
        Spin!MoveHead, Spin!PopUnlock, Spin!Lock, Spin!Unlock, Spin!Goto
<1>3. CASE UNCHANGED Spin!vars
    BY <1>3 DEF Spin!vars
<1>4. QED
    BY <1>1, <1>2, <1>3 DEF Spin!Next

\* A step that moves no index, touches no object and neither enters nor leaves the two
\* places where the indices lag behind.
LEMMA SpinSlotsLiveKept ==
    ASSUME Spin!SlotsLive, UNCHANGED <<sr_head, sr_tail, sr_data>>, NEW t \in Clients,
           Spin!TypeOK, NEW to,
           sr_pc' = [sr_pc EXCEPT ![t] = to],
           {sr_pc[t], to} \cap {"move_tail", "move_head"} = {}
    PROVE  Spin!SlotsLive'
<1>1. \A l \in {"move_tail", "move_head"} :
        (\E u \in Clients : sr_pc'[u] = l) <=> (\E u \in Clients : sr_pc[u] = l)
    BY DEF Spin!TypeOK
<1>2. QED
    BY <1>1 DEF Spin!SlotsLive, Spin!Lives, Spin!InRing

\* Constructing at tail makes that slot live, one step before tail moves.
LEMMA SpinConstructLive ==
    ASSUME Spin!ConstantsAssumption, Spin!IInv, NEW t \in Clients, Spin!Construct(t)
    PROVE  Spin!SlotsLive'
<1> USE DEF Spin!IInv
<1>1. /\ sr_val[t] \in Values /\ sr_val[t] # Null /\ sr_tail \in Spin!Slots
      /\ sr_head' = sr_head /\ sr_tail' = sr_tail
      /\ sr_data' = [sr_data EXCEPT ![sr_tail] = sr_val[t]]
    BY DEF Spin!Construct, Spin!Goto, Spin!StillSo, Spin!ConstantsAssumption, Spin!TypeOK
<1>2. /\ sr_pc'[t] = "move_tail"
      /\ \A u \in Clients : sr_pc[u] # "move_tail" /\ sr_pc[u] # "move_head"
             /\ sr_pc'[u] # "move_head"
    BY DEF Spin!Construct, Spin!Goto, Spin!TypeOK, Spin!LockHeld, Spin!Outside
<1>3. \A i : Spin!Lives(i) <=> Spin!InRing(i)
    BY <1>2 DEF Spin!Lives
<1>4. \A i : Spin!Lives(i)' <=> Spin!InRing(i) \/ i = sr_tail
    BY <1>1, <1>2 DEF Spin!Lives, Spin!InRing
<1>5. \A i \in Spin!Slots : sr_data'[i] = IF i = sr_tail THEN sr_val[t] ELSE sr_data[i]
    BY <1>1 DEF Spin!TypeOK
<1>6. QED
    BY <1>1, <1>3, <1>4, <1>5 DEF Spin!SlotsLive

\* Moving tail takes the slot just constructed into the ring.
LEMMA SpinMoveTailLive ==
    ASSUME Spin!ConstantsAssumption, Spin!IInv, NEW t \in Clients, Spin!MoveTail(t)
    PROVE  Spin!SlotsLive'
<1> USE DEF Spin!IInv
<1>1. /\ sr_head' = sr_head /\ sr_tail' = Spin!After(sr_tail) /\ sr_data' = sr_data
      /\ Spin!After(sr_tail) # sr_head
    BY DEF Spin!MoveTail, Spin!Goto, Spin!StillSo
<1>2. /\ sr_pc[t] = "move_tail"
      /\ \A u \in Clients : sr_pc[u] # "move_head" /\ sr_pc'[u] # "move_head"
             /\ sr_pc'[u] # "move_tail"
    BY DEF Spin!MoveTail, Spin!Goto, Spin!TypeOK, Spin!LockHeld, Spin!Outside
<1>3. \A i : Spin!Lives(i) <=> Spin!InRing(i) \/ i = sr_tail
    BY <1>2 DEF Spin!Lives
<1>4. \A i : Spin!Lives(i)' <=> Spin!InRing(i)'
    BY <1>2 DEF Spin!Lives
<1>5. \A i \in Spin!Slots : Spin!InRing(i)' <=> Spin!InRing(i) \/ i = sr_tail
    BY <1>1, SpinIndices DEF Spin!InRing
<1>6. QED
    BY <1>1, <1>3, <1>4, <1>5 DEF Spin!SlotsLive

\* Destroying the object at head ends it, one step before head moves.
LEMMA SpinDestroyLive ==
    ASSUME Spin!ConstantsAssumption, Spin!IInv, NEW t \in Clients, Spin!Destroy(t)
    PROVE  Spin!SlotsLive'
<1> USE DEF Spin!IInv
<1>1. /\ sr_head \in Spin!Slots
      /\ sr_head' = sr_head /\ sr_tail' = sr_tail
      /\ sr_data' = [sr_data EXCEPT ![sr_head] = Null]
    BY DEF Spin!Destroy, Spin!TypeOK
<1>2. /\ sr_pc'[t] = "move_head"
      /\ \A u \in Clients : sr_pc[u] # "move_head" /\ sr_pc[u] # "move_tail"
             /\ sr_pc'[u] # "move_tail"
    BY DEF Spin!Destroy, Spin!Goto, Spin!TypeOK, Spin!LockHeld, Spin!Outside
<1>3. \A i : Spin!Lives(i) <=> Spin!InRing(i)
    BY <1>2 DEF Spin!Lives
<1>4. \A i : Spin!Lives(i)' <=> Spin!InRing(i) /\ i # sr_head
    BY <1>1, <1>2 DEF Spin!Lives, Spin!InRing
<1>5. \A i \in Spin!Slots : sr_data'[i] = IF i = sr_head THEN Null ELSE sr_data[i]
    BY <1>1 DEF Spin!TypeOK
<1>6. QED
    BY <1>1, <1>3, <1>4, <1>5 DEF Spin!SlotsLive

\* Moving head leaves the slot just emptied behind.
LEMMA SpinMoveHeadLive ==
    ASSUME Spin!ConstantsAssumption, Spin!IInv, NEW t \in Clients, Spin!MoveHead(t)
    PROVE  Spin!SlotsLive'
<1> USE DEF Spin!IInv
<1>1. /\ sr_head' = Spin!After(sr_head) /\ sr_tail' = sr_tail /\ sr_data' = sr_data
      /\ sr_head # sr_tail
    BY DEF Spin!MoveHead, Spin!Goto, Spin!StillSo
<1>2. /\ sr_pc[t] = "move_head"
      /\ \A u \in Clients : sr_pc[u] # "move_tail" /\ sr_pc'[u] # "move_head"
             /\ sr_pc'[u] # "move_tail"
    BY DEF Spin!MoveHead, Spin!Goto, Spin!TypeOK, Spin!LockHeld, Spin!Outside
<1>3. \A i : Spin!Lives(i) <=> Spin!InRing(i) /\ i # sr_head
    BY <1>2 DEF Spin!Lives
<1>4. \A i : Spin!Lives(i)' <=> Spin!InRing(i)'
    BY <1>2 DEF Spin!Lives
<1>5. \A i \in Spin!Slots : Spin!InRing(i)' <=> Spin!InRing(i) /\ i # sr_head
    BY <1>1, SpinIndices DEF Spin!InRing
<1>6. QED
    BY <1>1, <1>3, <1>4, <1>5 DEF Spin!SlotsLive

\* the objects in their slots,
LEMMA SpinStepSlotsLive ==
    Spin!ConstantsAssumption /\ Spin!IInv /\ [Spin!Next]_(Spin!vars) => Spin!SlotsLive'
<1> SUFFICES ASSUME Spin!ConstantsAssumption, Spin!IInv, [Spin!Next]_(Spin!vars)
             PROVE  Spin!SlotsLive'
    OBVIOUS
<1> Spin!TypeOK /\ Spin!SlotsLive
    BY DEF Spin!IInv
<1>1. ASSUME NEW t \in Clients,
             \/ \E v \in Values : Spin!PushStart(t, v)
             \/ Spin!PushLock(t) \/ Spin!PushTest(t) \/ Spin!ReturnFull(t) \/ Spin!PushUnlock(t)
      PROVE  Spin!SlotsLive'
    BY <1>1, SpinSlotsLiveKept
    DEF Spin!PushStart, Spin!PushLock, Spin!PushTest, Spin!ReturnFull, Spin!PushUnlock,
        Spin!Lock, Spin!Unlock, Spin!Goto
<1>2. ASSUME NEW t \in Clients,
             Spin!PopStart(t) \/ Spin!PopLock(t) \/ Spin!PopTest(t) \/ Spin!MoveOut(t)
                 \/ Spin!PopUnlock(t)
      PROVE  Spin!SlotsLive'
    BY <1>2, SpinSlotsLiveKept
    DEF Spin!PopStart, Spin!PopLock, Spin!PopTest, Spin!MoveOut, Spin!PopUnlock, Spin!Lock,
        Spin!Unlock, Spin!Goto
<1>3. CASE UNCHANGED Spin!vars
    BY <1>3 DEF Spin!vars, Spin!SlotsLive, Spin!Lives, Spin!InRing
<1>4. QED
    BY <1>1, <1>2, <1>3, SpinConstructLive, SpinMoveTailLive, SpinDestroyLive,
        SpinMoveHeadLive
    DEF Spin!Next, Spin!Push, Spin!Pop

\* and so the invariant.
LEMMA SpinStepIInv ==
    Spin!ConstantsAssumption /\ Spin!IInv /\ [Spin!Next]_(Spin!vars) => Spin!IInv'
BY SpinStepTypeOK, SpinStepLockHeld, SpinStepStillSo, SpinStepSlotsLive DEF Spin!IInv

\* The invariant holds in every state of the ring.
LEMMA SpinInvariant ==
    ASSUME Spin!ConstantsAssumption
    PROVE  Spin!Spec => []Spin!IInv
<1>1. Spin!Init => Spin!IInv
    BY SpinInitIInv
<1>2. Spin!IInv /\ [Spin!Next]_(Spin!vars) => Spin!IInv'
    BY SpinStepIInv
<1>3. QED
    BY <1>1, <1>2, PTL DEF Spin!Spec

-----------------------------------------------------------------------------
\* The slots (head + k) % cap for k below the length are those of InRing.
SpinLength == IF sr_head <= sr_tail THEN sr_tail - sr_head ELSE sr_tail - sr_head + Spin!cap
SpinPlace(k) == IF sr_head + k < Spin!cap THEN sr_head + k ELSE sr_head + k - Spin!cap

\* The length of the ring, written without %.
LEMMA SpinPlainLength ==
    ASSUME Spin!ConstantsAssumption, Spin!TypeOK
    PROVE  /\ SpinLength \in 0 .. SlotCount
           /\ (sr_tail + Spin!cap - sr_head) % Spin!cap = SpinLength
           /\ \A k \in 0 .. SlotCount : SpinPlace(k) \in Spin!Slots
                  /\ (sr_head + k) % Spin!cap = SpinPlace(k)
<1>1. /\ SlotCount \in Nat /\ Spin!cap \in Nat \ {0} /\ Spin!cap = SlotCount + 1
      /\ Spin!Slots = 0 .. Spin!cap - 1
      /\ sr_head \in 0 .. SlotCount /\ sr_tail \in 0 .. SlotCount
    BY DEF Spin!ConstantsAssumption, Spin!TypeOK, Spin!Slots, Spin!cap
<1>2. SpinLength \in 0 .. Spin!cap - 1
    BY <1>1 DEF SpinLength
<1>3. (sr_tail + Spin!cap - sr_head) % Spin!cap = SpinLength
    <2>1. CASE sr_head <= sr_tail
        <3>1. sr_tail + Spin!cap - sr_head = SpinLength + Spin!cap
            BY <1>1, <2>1 DEF SpinLength
        <3>2. QED
            BY <1>1, <1>2, <3>1, ModOnce
    <2>2. CASE ~(sr_head <= sr_tail)
        <3>1. sr_tail + Spin!cap - sr_head = SpinLength
            BY <1>1, <2>2 DEF SpinLength
        <3>2. QED
            BY <1>1, <1>2, <3>1, ModOnce
    <2>3. QED
        BY <2>1, <2>2
<1>4. ASSUME NEW k \in 0 .. SlotCount
      PROVE  SpinPlace(k) \in Spin!Slots /\ (sr_head + k) % Spin!cap = SpinPlace(k)
    <2>1. SpinPlace(k) \in 0 .. Spin!cap - 1
        BY <1>1 DEF SpinPlace
    <2>2. CASE sr_head + k < Spin!cap
        BY <1>1, <2>1, <2>2, ModOnce DEF SpinPlace
    <2>3. CASE ~(sr_head + k < Spin!cap)
        <3>1. sr_head + k = SpinPlace(k) + Spin!cap
            BY <1>1, <2>3 DEF SpinPlace
        <3>2. QED
            BY <1>1, <2>1, <3>1, ModOnce
    <2>4. QED
        BY <1>1, <2>1, <2>2, <2>3
<1>5. QED
    BY <1>1, <1>2, <1>3, <1>4

\* Objects live from head to tail, but for the one being constructed or destroyed.
LEMMA SpinIInvObjects == Spin!ConstantsAssumption /\ Spin!IInv => Spin!ObjectsInRing
<1> SUFFICES ASSUME Spin!ConstantsAssumption, Spin!IInv PROVE Spin!ObjectsInRing
    OBVIOUS
<1> DEFINE length == (sr_tail + Spin!cap - sr_head) % Spin!cap
           ring == {(sr_head + k) % Spin!cap : k \in 0 .. length - 1}
           born == {sr_tail : t \in {u \in Clients : sr_pc[u] = "move_tail"}}
           dead == {sr_head : t \in {u \in Clients : sr_pc[u] = "move_head"}}
<1> Spin!TypeOK
    BY DEF Spin!IInv
<1>1. /\ SlotCount \in Nat /\ Spin!cap = SlotCount + 1 /\ Spin!Slots = 0 .. SlotCount
      /\ sr_head \in 0 .. SlotCount /\ sr_tail \in 0 .. SlotCount
    BY DEF Spin!ConstantsAssumption, Spin!TypeOK, Spin!Slots, Spin!cap
<1>2. length = SpinLength /\ SpinLength \in 0 .. SlotCount
    BY SpinPlainLength
<1>3. ASSUME NEW i \in Spin!Slots PROVE i \in ring <=> Spin!InRing(i)
    <2>1. ASSUME NEW k \in 0 .. length - 1, i = (sr_head + k) % Spin!cap PROVE Spin!InRing(i)
        <3>1. k \in 0 .. SlotCount /\ k < SpinLength
            BY <1>1, <1>2
        <3>2. i = SpinPlace(k)
            BY <2>1, <3>1, SpinPlainLength
        <3>3. QED
            BY <1>1, <3>1, <3>2 DEF Spin!InRing, SpinPlace, SpinLength
    <2>2. ASSUME Spin!InRing(i) PROVE i \in ring
        <3> DEFINE n == IF sr_head <= i THEN i - sr_head ELSE i - sr_head + Spin!cap
        <3> i \in 0 .. SlotCount
            BY <1>1
        <3>0. n \in Int
            BY <1>1
        <3>1. PICK k \in Int : k = n
            BY <3>0
        <3>2. k \in 0 .. SpinLength - 1 /\ i = SpinPlace(k)
            BY <1>1, <1>2, <2>2, <3>1 DEF Spin!InRing, SpinPlace, SpinLength
        <3>3. i = (sr_head + k) % Spin!cap
            BY <1>1, <1>2, <3>2, SpinPlainLength
        <3>4. QED
            BY <1>2, <3>2, <3>3
    <2>3. QED
        BY <2>1, <2>2
<1>4. ring \subseteq Spin!Slots
    <2>1. ASSUME NEW k \in 0 .. length - 1 PROVE (sr_head + k) % Spin!cap \in Spin!Slots
        <3>1. k \in 0 .. SlotCount
            BY <1>1, <1>2
        <3>2. QED
            BY <3>1, SpinPlainLength
    <2>2. QED
        BY <2>1
<1>5. \A i : i \in born <=> i = sr_tail /\ \E t \in Clients : sr_pc[t] = "move_tail"
    OBVIOUS
<1>6. \A i : i \in dead <=> i = sr_head /\ \E t \in Clients : sr_pc[t] = "move_head"
    OBVIOUS
<1>7. \A i \in Spin!Slots : sr_data[i] # Null <=> i \in (ring \cup born) \ dead
    BY <1>3, <1>5, <1>6 DEF Spin!IInv, Spin!SlotsLive, Spin!Lives
<1>8. sr_tail \in Spin!Slots
    BY <1>1
<1>9. {i \in Spin!Slots : sr_data[i] # Null} = (ring \cup born) \ dead
    BY <1>4, <1>5, <1>7, <1>8
<1>10. QED
    BY <1>9 DEF Spin!ObjectsInRing

\* For every capacity and any number of threads: no object is constructed over
\* another, destroyed twice, read before it lives or left behind (lines 24-47).
THEOREM SpinLifetimesKept ==
    ASSUME Spin!ConstantsAssumption
    PROVE  Spin!Spec => []Spin!ObjectsInRing
<1>1. Spin!IInv => Spin!ObjectsInRing
    BY SpinIInvObjects
<1>2. QED
    BY <1>1, SpinInvariant, PTL

-----------------------------------------------------------------------------
\* The values in the slots of d from f up to l, and their number and places
\* without the modulus.
SpinSegment(d, f, l) == [k \in 1 .. (l + Spin!cap - f) % Spin!cap |-> d[(f + k - 1) % Spin!cap]]
SpinDist(f, l) == IF f <= l THEN l - f ELSE l - f + Spin!cap
SpinSpot(f, k) == IF f + k - 1 < Spin!cap THEN f + k - 1 ELSE f + k - 1 - Spin!cap

SpinCells == Values \cup {Null}

SpinPlainSegment(d, f, l) ==
    /\ SpinSegment(d, f, l) \in Seq(SpinCells)
    /\ Len(SpinSegment(d, f, l)) = SpinDist(f, l)
    /\ \A k \in 1 .. SpinDist(f, l) :
        SpinSpot(f, k) \in Spin!Slots /\ SpinSegment(d, f, l)[k] = d[SpinSpot(f, k)]

\* A part of the array, slot by slot.
LEMMA SpinSegmentPlain ==
    ASSUME Spin!ConstantsAssumption, NEW d \in [Spin!Slots -> SpinCells], NEW f \in Spin!Slots,
           NEW l \in Spin!Slots
    PROVE  SpinPlainSegment(d, f, l)
<1>1. /\ SlotCount \in Nat /\ Spin!cap \in Nat \ {0} /\ Spin!cap = SlotCount + 1
      /\ Spin!Slots = 0 .. Spin!cap - 1
      /\ f \in 0 .. SlotCount /\ l \in 0 .. SlotCount
    BY DEF Spin!ConstantsAssumption, Spin!Slots, Spin!cap
<1>2. SpinDist(f, l) \in 0 .. Spin!cap - 1
    BY <1>1 DEF SpinDist
<1>3. (l + Spin!cap - f) % Spin!cap = SpinDist(f, l)
    <2>1. CASE f <= l
        <3>1. l + Spin!cap - f = SpinDist(f, l) + Spin!cap
            BY <1>1, <2>1 DEF SpinDist
        <3>2. QED
            BY <1>1, <1>2, <3>1, ModOnce
    <2>2. CASE ~(f <= l)
        <3>1. l + Spin!cap - f = SpinDist(f, l)
            BY <1>1, <2>2 DEF SpinDist
        <3>2. QED
            BY <1>1, <1>2, <3>1, ModOnce
    <2>3. QED
        BY <2>1, <2>2
<1>4. ASSUME NEW k \in 1 .. SpinDist(f, l)
      PROVE  SpinSpot(f, k) \in Spin!Slots /\ (f + k - 1) % Spin!cap = SpinSpot(f, k)
    <2>1. k \in Nat /\ k >= 1 /\ k <= SlotCount
        BY <1>1, <1>2
    <2>2. SpinSpot(f, k) \in 0 .. Spin!cap - 1
        BY <1>1, <2>1 DEF SpinSpot
    <2>3. CASE f + k - 1 < Spin!cap
        BY <1>1, <2>1, <2>2, <2>3, ModOnce DEF SpinSpot
    <2>4. CASE ~(f + k - 1 < Spin!cap)
        <3>1. f + k - 1 = SpinSpot(f, k) + Spin!cap
            BY <1>1, <2>1, <2>4 DEF SpinSpot
        <3>2. QED
            BY <1>1, <2>2, <3>1, ModOnce
    <2>5. QED
        BY <1>1, <2>2, <2>3, <2>4
<1>5. SpinSegment(d, f, l) = [k \in 1 .. SpinDist(f, l) |-> d[SpinSpot(f, k)]]
    BY <1>3, <1>4 DEF SpinSegment
<1>6. \A k \in 1 .. SpinDist(f, l) : d[SpinSpot(f, k)] \in SpinCells
    BY <1>4
<1>7. SpinSegment(d, f, l) \in Seq(SpinCells) /\ Len(SpinSegment(d, f, l)) = SpinDist(f, l)
    BY <1>1, <1>2, <1>5, <1>6
<1>8. \A k \in 1 .. SpinDist(f, l) : SpinSegment(d, f, l)[k] = d[SpinSpot(f, k)]
    BY <1>5
<1>9. QED
    BY <1>4, <1>7, <1>8 DEF SpinPlainSegment

\* A slot outside the segment may change.
LEMMA SpinSegmentSame ==
    ASSUME Spin!ConstantsAssumption, NEW d \in [Spin!Slots -> SpinCells], NEW f \in Spin!Slots,
           NEW l \in Spin!Slots,
           NEW i \in Spin!Slots, NEW e, e \in [Spin!Slots -> SpinCells],
           \A j \in Spin!Slots : j # i => e[j] = d[j],
           \A k \in 1 .. SpinDist(f, l) : SpinSpot(f, k) # i
    PROVE  SpinSegment(e, f, l) = SpinSegment(d, f, l)
<1>1. SpinPlainSegment(d, f, l) /\ SpinPlainSegment(e, f, l)
    BY SpinSegmentPlain
<1>2. \A k \in 1 .. SpinDist(f, l) : SpinSegment(e, f, l)[k] = SpinSegment(d, f, l)[k]
    BY <1>1 DEF SpinPlainSegment
<1>3. /\ SpinSegment(d, f, l) \in Seq(SpinCells) /\ SpinSegment(e, f, l) \in Seq(SpinCells)
      /\ Len(SpinSegment(e, f, l)) = Len(SpinSegment(d, f, l))
      /\ \A k \in 1 .. Len(SpinSegment(e, f, l)) :
             SpinSegment(e, f, l)[k] = SpinSegment(d, f, l)[k]
    BY <1>1, <1>2 DEF SpinPlainSegment
<1>4. QED
    BY ONLY <1>3, SeqEqual

\* The slot at the end of a segment, or the one before its start, is not of it.
LEMMA SpinEndsOutside ==
    ASSUME Spin!ConstantsAssumption, NEW f \in Spin!Slots, NEW l \in Spin!Slots
    PROVE  /\ \A k \in 1 .. SpinDist(f, l) : SpinSpot(f, k) # l
           /\ f # l => \A k \in 1 .. SpinDist(Spin!After(f), l) : SpinSpot(Spin!After(f), k) # f
<1>1. /\ SlotCount \in Nat /\ Spin!cap = SlotCount + 1 /\ f \in 0 .. SlotCount
      /\ l \in 0 .. SlotCount
      /\ Spin!After(f) = IF f = SlotCount THEN 0 ELSE f + 1
    BY SpinAfterOnRing DEF Spin!ConstantsAssumption, Spin!Slots, Spin!cap
<1>2. \A k \in 1 .. SpinDist(f, l) : SpinSpot(f, k) # l
    BY <1>1 DEF SpinDist, SpinSpot
<1>3. ASSUME f # l, NEW k \in 1 .. SpinDist(Spin!After(f), l)
      PROVE  SpinSpot(Spin!After(f), k) # f
    BY <1>1, <1>3 DEF SpinDist, SpinSpot
<1>4. QED
    BY <1>2, <1>3

\* One slot more at the end appends its value.
LEMMA SpinSegmentAppends ==
    ASSUME Spin!ConstantsAssumption, NEW d \in [Spin!Slots -> SpinCells], NEW f \in Spin!Slots,
           NEW l \in Spin!Slots,
           Spin!After(l) # f
    PROVE  SpinSegment(d, f, Spin!After(l)) = Append(SpinSegment(d, f, l), d[l])
<1> DEFINE old == SpinSegment(d, f, l)
           new == SpinSegment(d, f, Spin!After(l))
<1>1. /\ SlotCount \in Nat /\ Spin!cap = SlotCount + 1 /\ f \in 0 .. SlotCount
      /\ l \in 0 .. SlotCount
      /\ Spin!After(l) \in Spin!Slots /\ Spin!After(l) = IF l = SlotCount THEN 0 ELSE l + 1
    BY SpinAfterOnRing DEF Spin!ConstantsAssumption, Spin!Slots, Spin!cap
<1>2. SpinPlainSegment(d, f, l) /\ SpinPlainSegment(d, f, Spin!After(l))
    BY <1>1, SpinSegmentPlain
<1>3. SpinDist(f, l) \in Nat /\ SpinDist(f, Spin!After(l)) = SpinDist(f, l) + 1
    BY <1>1 DEF SpinDist
<1>4. SpinSpot(f, SpinDist(f, l) + 1) = l
    BY <1>1 DEF SpinDist, SpinSpot
<1>5. d[l] \in SpinCells /\ old \in Seq(SpinCells) /\ Len(old) = SpinDist(f, l)
    BY <1>2 DEF SpinPlainSegment
<1>6. /\ Append(old, d[l]) \in Seq(SpinCells)
      /\ Len(Append(old, d[l])) = SpinDist(f, l) + 1
      /\ \A k \in 1 .. SpinDist(f, l) : Append(old, d[l])[k] = old[k]
      /\ Append(old, d[l])[SpinDist(f, l) + 1] = d[l]
    BY ONLY <1>5, AppendProperties
<1>7. new \in Seq(SpinCells) /\ Len(new) = SpinDist(f, l) + 1
    BY <1>2, <1>3 DEF SpinPlainSegment
<1>8. ASSUME NEW k \in 1 .. SpinDist(f, l) + 1 PROVE new[k] = Append(old, d[l])[k]
    <2>1. new[k] = d[SpinSpot(f, k)]
        BY <1>2, <1>3 DEF SpinPlainSegment
    <2>2. CASE k = SpinDist(f, l) + 1
        BY <1>4, <1>6, <2>1, <2>2
    <2>3. CASE k # SpinDist(f, l) + 1
        <3>1. k \in 1 .. SpinDist(f, l)
            BY <1>3, <2>3
        <3>2. old[k] = d[SpinSpot(f, k)]
            BY <1>2, <3>1 DEF SpinPlainSegment
        <3>3. QED
            BY <1>6, <2>1, <3>1, <3>2
    <2>4. QED
        BY <2>2, <2>3
<1>9. /\ Len(new) = Len(Append(old, d[l]))
      /\ \A k \in 1 .. Len(new) : new[k] = Append(old, d[l])[k]
    BY <1>6, <1>7, <1>8
<1>10. new = Append(old, d[l])
    BY ONLY <1>6, <1>7, <1>9, SeqEqual
<1>11. QED
    BY <1>10

\* One slot less at the start takes its value.
LEMMA SpinSegmentTakes ==
    ASSUME Spin!ConstantsAssumption, NEW d \in [Spin!Slots -> SpinCells], NEW f \in Spin!Slots,
           NEW l \in Spin!Slots,
           f # l
    PROVE  /\ SpinSegment(d, f, l) # <<>>
           /\ Head(SpinSegment(d, f, l)) = d[f]
           /\ SpinSegment(d, Spin!After(f), l) = Tail(SpinSegment(d, f, l))
<1> DEFINE old == SpinSegment(d, f, l)
           new == SpinSegment(d, Spin!After(f), l)
<1>1. /\ SlotCount \in Nat /\ Spin!cap = SlotCount + 1 /\ f \in 0 .. SlotCount
      /\ l \in 0 .. SlotCount
      /\ Spin!After(f) \in Spin!Slots /\ Spin!After(f) = IF f = SlotCount THEN 0 ELSE f + 1
    BY SpinAfterOnRing DEF Spin!ConstantsAssumption, Spin!Slots, Spin!cap
<1>2. SpinPlainSegment(d, f, l) /\ SpinPlainSegment(d, Spin!After(f), l)
    BY <1>1, SpinSegmentPlain
<1>3. SpinDist(f, l) \in Nat /\ SpinDist(f, l) >= 1
          /\ SpinDist(Spin!After(f), l) = SpinDist(f, l) - 1
    BY <1>1 DEF SpinDist
<1>4. SpinSpot(f, 1) = f
    BY <1>1 DEF SpinSpot
<1>5. ASSUME NEW k \in 1 .. SpinDist(f, l) - 1
      PROVE  SpinSpot(Spin!After(f), k) = SpinSpot(f, k + 1)
    BY <1>1, <1>3 DEF SpinSpot, SpinDist
<1>6. old \in Seq(SpinCells) /\ Len(old) = SpinDist(f, l)
    BY <1>2 DEF SpinPlainSegment
<1>7. old # <<>>
    BY <1>3, <1>6
<1>8. Head(old) = d[f]
    <2>1. Head(old) = old[1]
        BY <1>6, <1>7
    <2>2. old[1] = d[SpinSpot(f, 1)]
        BY <1>2, <1>3 DEF SpinPlainSegment
    <2>3. QED
        BY <1>4, <2>1, <2>2
<1>9. /\ Tail(old) \in Seq(SpinCells)
      /\ Len(Tail(old)) = SpinDist(f, l) - 1
      /\ \A k \in 1 .. SpinDist(f, l) - 1 : Tail(old)[k] = old[k + 1]
    BY ONLY <1>3, <1>6, <1>7, HeadTailProperties
<1>10. new \in Seq(SpinCells) /\ Len(new) = SpinDist(f, l) - 1
    BY <1>2, <1>3 DEF SpinPlainSegment
<1>11. ASSUME NEW k \in 1 .. SpinDist(f, l) - 1 PROVE new[k] = Tail(old)[k]
    <2>1. k + 1 \in 1 .. SpinDist(f, l)
        BY <1>3
    <2>2. new[k] = d[SpinSpot(f, k + 1)]
        BY <1>2, <1>3, <1>5 DEF SpinPlainSegment
    <2>3. old[k + 1] = d[SpinSpot(f, k + 1)]
        BY <1>2, <2>1 DEF SpinPlainSegment
    <2>4. QED
        BY <1>9, <2>2, <2>3
<1>12. /\ Len(new) = Len(Tail(old))
       /\ \A k \in 1 .. Len(new) : new[k] = Tail(old)[k]
    BY <1>9, <1>10, <1>11
<1>13. new = Tail(old)
    BY ONLY <1>9, <1>10, <1>12, SeqEqual
<1>14. QED
    BY <1>7, <1>8, <1>13

\* The ring holds Cap values exactly when the slot after its end is its start, and
\* none exactly when the end is the start.
LEMMA SpinFullAndEmpty ==
    ASSUME Spin!ConstantsAssumption, NEW d \in [Spin!Slots -> SpinCells], NEW f \in Spin!Slots,
           NEW l \in Spin!Slots
    PROVE  /\ IF Spin!After(l) = f THEN Len(SpinSegment(d, f, l)) = SlotCount
                                   ELSE Len(SpinSegment(d, f, l)) < SlotCount
           /\ f = l => SpinSegment(d, f, l) = <<>>
<1>1. /\ SlotCount \in Nat /\ Spin!cap = SlotCount + 1 /\ f \in 0 .. SlotCount
      /\ l \in 0 .. SlotCount
      /\ Spin!After(l) = IF l = SlotCount THEN 0 ELSE l + 1
    BY SpinAfterOnRing DEF Spin!ConstantsAssumption, Spin!Slots, Spin!cap
<1>2. SpinSegment(d, f, l) \in Seq(SpinCells) /\ Len(SpinSegment(d, f, l)) = SpinDist(f, l)
    BY SpinSegmentPlain DEF SpinPlainSegment
<1>3. IF Spin!After(l) = f THEN SpinDist(f, l) = SlotCount ELSE SpinDist(f, l) < SlotCount
    BY <1>1 DEF SpinDist
<1>4. ASSUME f = l PROVE SpinSegment(d, f, l) = <<>>
    <2>1. SpinDist(f, l) = 0
        BY <1>1, <1>4 DEF SpinDist
    <2>2. QED
        BY <1>2, <2>1, EmptySeq
<1>5. QED
    BY <1>2, <1>3, <1>4

-----------------------------------------------------------------------------
\* The indices Queued goes by: those the holder of the lock has yet to store.
SpinFirst ==
    IF \E t \in Clients : sr_pc[t] \in {"destroy", "move_head"}
    THEN Spin!After(sr_head) ELSE sr_head
SpinLast == IF \E t \in Clients : sr_pc[t] \in {"move_tail"} THEN Spin!After(sr_tail)
    ELSE sr_tail

\* The values of the abstract queue are such a part.
LEMMA SpinQueuedIsSegment == Spin!Queued = SpinSegment(sr_data, SpinFirst, SpinLast)
BY DEF Spin!Queued, SpinSegment, SpinFirst, SpinLast

\* The holder of the lock knows them: nobody else is at one of these places.
SpinHolderKnows ==
    \A t \in Clients : sr_pc[t] \notin Spin!Outside =>
        /\ SpinFirst =
            IF sr_pc[t] \in {"destroy", "move_head"} THEN Spin!After(sr_head) ELSE sr_head
        /\ SpinLast = IF sr_pc[t] = "move_tail" THEN Spin!After(sr_tail) ELSE sr_tail

\* What the thread with the lock knows,
LEMMA SpinIInvHolder == Spin!IInv => SpinHolderKnows
BY DEF Spin!IInv, Spin!LockHeld, Spin!Outside, SpinHolderKnows, SpinFirst, SpinLast

\* before and after each step.
LEMMA SpinBothHolders ==
    Spin!ConstantsAssumption /\ Spin!IInv /\ [Spin!Next]_(Spin!vars)
        => SpinHolderKnows /\ SpinHolderKnows'
<1>1. Spin!ConstantsAssumption /\ Spin!IInv /\ [Spin!Next]_(Spin!vars) => Spin!IInv'
    BY SpinStepTypeOK, SpinStepLockHeld, SpinStepStillSo, SpinStepSlotsLive DEF Spin!IInv
<1>2. Spin!IInv => SpinHolderKnows
    BY SpinIInvHolder
<1>3. QED
    BY <1>1, <1>2, PTL

\* A step away from those places that leaves the ring alone changes no value.
LEMMA SpinQueuedKept ==
    ASSUME Spin!TypeOK, UNCHANGED <<sr_head, sr_tail, sr_data>>, NEW t \in Clients, NEW to,
           sr_pc' = [sr_pc EXCEPT ![t] = to],
           {sr_pc[t], to} \cap {"move_tail", "destroy", "move_head"} = {}
    PROVE  Spin!Queued' = Spin!Queued
<1>1. /\ (\E u \in Clients : sr_pc'[u] \in {"destroy", "move_head"})
            <=> (\E u \in Clients : sr_pc[u] \in {"destroy", "move_head"})
      /\ (\E u \in Clients : sr_pc'[u] \in {"move_tail"})
            <=> (\E u \in Clients : sr_pc[u] \in {"move_tail"})
    BY DEF Spin!TypeOK
<1>2. SpinFirst' = SpinFirst /\ SpinLast' = SpinLast
    BY <1>1 DEF SpinFirst, SpinLast, Spin!After
<1>3. QED
    BY <1>2, SpinQueuedIsSegment DEF Spin!Queued, SpinFirst, SpinLast

-----------------------------------------------------------------------------
\* What the callers are doing.
SpinCalls == [t \in Clients |-> Spin!CallOf(t)]

\* A step of one thread that takes it from one call to another is a step of its
\* caller.
LEMMA SpinCallStep ==
    ASSUME NEW t \in Clients, NEW from, NEW to,
           Spin!CallOf(t) = from, Spin!CallOf(t)' = to,
           \A u \in Clients \ {t} : Spin!CallOf(u)' = Spin!CallOf(u)
    PROVE  Spin!Abstract!Step(t, from, to)
<1>1. SpinCalls[t] = from
    BY DEF SpinCalls
<1>2. SpinCalls' = [SpinCalls EXCEPT ![t] = to]
    BY DEF SpinCalls
<1>3. QED
    BY <1>1, <1>2 DEF Spin!Abstract!Step, SpinCalls

\* The other threads' calls are not changed by a step of one.
LEMMA SpinOtherCalls ==
    ASSUME NEW t \in Clients,
           \A u \in Clients \ {t} : sr_pc'[u] = sr_pc[u] /\ sr_val'[u] = sr_val[u]
    PROVE  \A u \in Clients \ {t} : Spin!CallOf(u)' = Spin!CallOf(u)
BY DEF Spin!CallOf

\* A step that changes neither the values nor any call is none of the queue.
LEMMA SpinStutter ==
    ASSUME Spin!Queued' = Spin!Queued, \A t \in Clients : Spin!CallOf(t)' = Spin!CallOf(t)
    PROVE  UNCHANGED Spin!Abstract!vars
BY DEF Spin!Abstract!vars

-----------------------------------------------------------------------------
\* push constructs the object: the value joins the queue.
LEMMA SpinConstructRefines ==
    ASSUME Spin!ConstantsAssumption, Spin!IInv, SpinHolderKnows, SpinHolderKnows',
           NEW t \in Clients, Spin!Construct(t)
    PROVE  Spin!Abstract!Next
<1> Spin!TypeOK
    BY DEF Spin!IInv
<1>1. /\ sr_pc[t] = "construct" /\ sr_pc'[t] = "move_tail"
      /\ sr_val[t] \in Values /\ Spin!After(sr_tail) # sr_head
      /\ sr_head' = sr_head /\ sr_tail' = sr_tail
      /\ sr_data' = [sr_data EXCEPT ![sr_tail] = sr_val[t]]
      /\ \A u \in Clients \ {t} : sr_pc'[u] = sr_pc[u] /\ sr_val'[u] = sr_val[u]
    BY DEF Spin!Construct, Spin!Goto, Spin!IInv, Spin!StillSo, Spin!TypeOK
<1>2. SpinFirst = sr_head /\ SpinLast = sr_tail /\ SpinFirst' = sr_head
          /\ SpinLast' = Spin!After(sr_tail)
    BY <1>1 DEF SpinHolderKnows, Spin!Outside, Spin!After
<1>3. /\ sr_data \in [Spin!Slots -> SpinCells] /\ sr_data' \in [Spin!Slots -> SpinCells]
      /\ sr_data'[sr_tail] = sr_val[t]
      /\ sr_head \in Spin!Slots /\ sr_tail \in Spin!Slots
      /\ \A j \in Spin!Slots : j # sr_tail => sr_data'[j] = sr_data[j]
    BY <1>1 DEF Spin!TypeOK, SpinCells
<1>4. SpinSegment(sr_data', sr_head, sr_tail) = SpinSegment(sr_data, sr_head, sr_tail)
    BY <1>3, SpinSegmentSame, SpinEndsOutside
<1>5. SpinSegment(sr_data', sr_head, Spin!After(sr_tail)) =
          Append(SpinSegment(sr_data', sr_head, sr_tail), sr_val[t])
    BY <1>1, <1>3, SpinSegmentAppends
<1>6. Spin!Queued = SpinSegment(sr_data, sr_head, sr_tail)
    BY <1>2, SpinQueuedIsSegment
<1>7. Spin!Queued' = SpinSegment(sr_data', sr_head, Spin!After(sr_tail))
    <2>1. Spin!Queued' = SpinSegment(sr_data', SpinFirst', SpinLast')
        BY DEF Spin!Queued, SpinSegment, SpinFirst, SpinLast
    <2>2. QED
        BY <1>2, <2>1
<1>8. Spin!Queued' = Append(Spin!Queued, sr_val[t])
    BY <1>4, <1>5, <1>6, <1>7, Zenon
<1>9. Len(Spin!Queued) < SlotCount
    BY <1>1, <1>3, <1>6, SpinFullAndEmpty
<1>10. Spin!CallOf(t) = <<"push", sr_val[t]>> /\ Spin!CallOf(t)' = <<"idle">>
    BY <1>1 DEF Spin!CallOf
<1>11. Spin!Abstract!Push(t, sr_val[t])
    BY <1>1, <1>8, <1>9, <1>10, SpinOtherCalls, SpinCallStep
    DEF Spin!Abstract!Push, Spin!Abstract!Pushing, Spin!Abstract!Idle
<1>12. QED
    BY <1>1, <1>11 DEF Spin!Abstract!Next

\* pop moves the value out of its object: it leaves the queue.
LEMMA SpinMoveOutRefines ==
    ASSUME Spin!ConstantsAssumption, Spin!IInv, SpinHolderKnows, SpinHolderKnows',
           NEW t \in Clients, Spin!MoveOut(t)
    PROVE  Spin!Abstract!Next
<1> Spin!TypeOK
    BY DEF Spin!IInv
<1>1. /\ sr_pc[t] = "move" /\ sr_pc'[t] = "destroy" /\ sr_head # sr_tail
      /\ sr_head' = sr_head /\ sr_tail' = sr_tail /\ sr_data' = sr_data
      /\ sr_val'[t] = sr_data[sr_head]
      /\ \A u \in Clients \ {t} : sr_pc'[u] = sr_pc[u] /\ sr_val'[u] = sr_val[u]
    BY DEF Spin!MoveOut, Spin!Goto, Spin!IInv, Spin!StillSo, Spin!TypeOK
<1>2. SpinFirst = sr_head /\ SpinLast = sr_tail /\ SpinFirst' = Spin!After(sr_head)
          /\ SpinLast' = sr_tail
    BY <1>1 DEF SpinHolderKnows, Spin!Outside, Spin!After
<1>3. sr_data \in [Spin!Slots -> SpinCells] /\ sr_head \in Spin!Slots /\ sr_tail \in Spin!Slots
    BY DEF Spin!TypeOK, SpinCells
<1>4. Spin!Queued = SpinSegment(sr_data, sr_head, sr_tail)
    BY <1>2, SpinQueuedIsSegment
<1>5. Spin!Queued' = SpinSegment(sr_data, Spin!After(sr_head), sr_tail)
    <2>1. Spin!Queued' = SpinSegment(sr_data', SpinFirst', SpinLast')
        BY DEF Spin!Queued, SpinSegment, SpinFirst, SpinLast
    <2>2. QED
        BY <1>1, <1>2, <2>1
<1>6. /\ SpinSegment(sr_data, sr_head, sr_tail) # <<>>
      /\ Head(SpinSegment(sr_data, sr_head, sr_tail)) = sr_data[sr_head]
      /\ SpinSegment(sr_data, Spin!After(sr_head), sr_tail) =
             Tail(SpinSegment(sr_data, sr_head, sr_tail))
    BY <1>1, <1>3, SpinSegmentTakes
<1>7. Spin!Queued # <<>> /\ Head(Spin!Queued) = sr_data[sr_head]
          /\ Spin!Queued' = Tail(Spin!Queued)
    BY <1>4, <1>5, <1>6, Zenon
<1>8. Spin!CallOf(t) = <<"pop">> /\ Spin!CallOf(t)' = <<"got", Head(Spin!Queued)>>
    BY <1>1, <1>7 DEF Spin!CallOf
<1>9. Spin!Abstract!Pop(t)
    BY <1>1, <1>7, <1>8, SpinOtherCalls, SpinCallStep
    DEF Spin!Abstract!Pop, Spin!Abstract!Popping, Spin!Abstract!Got
<1>10. QED
    BY <1>9 DEF Spin!Abstract!Next

\* The steps after these, which end the object and store the index, change nothing
\* a caller can see.
LEMMA SpinCleanUpRefines ==
    ASSUME Spin!ConstantsAssumption, Spin!IInv, SpinHolderKnows, SpinHolderKnows',
           NEW t \in Clients, Spin!MoveTail(t) \/ Spin!Destroy(t) \/ Spin!MoveHead(t)
    PROVE  UNCHANGED Spin!Abstract!vars
<1> Spin!TypeOK
    BY DEF Spin!IInv
<1>1. /\ \A u \in Clients \ {t} : sr_pc'[u] = sr_pc[u] /\ sr_val'[u] = sr_val[u]
      /\ sr_val' = sr_val
      /\ \/ sr_pc[t] = "move_tail" /\ sr_pc'[t] = "push_unlock"
         \/ sr_pc[t] = "destroy" /\ sr_pc'[t] = "move_head"
         \/ sr_pc[t] = "move_head" /\ sr_pc'[t] = "pop_unlock"
    BY DEF Spin!MoveTail, Spin!Destroy, Spin!MoveHead, Spin!Goto, Spin!TypeOK
<1>2. Spin!CallOf(t)' = Spin!CallOf(t)
    BY <1>1 DEF Spin!CallOf
<1>3. \A u \in Clients : Spin!CallOf(u)' = Spin!CallOf(u)
    BY <1>1, <1>2, SpinOtherCalls
<1>4. CASE Spin!MoveTail(t) \/ Spin!MoveHead(t)
    <2>1. SpinFirst' = SpinFirst /\ SpinLast' = SpinLast /\ sr_data' = sr_data
        BY <1>1, <1>4
        DEF Spin!MoveTail, Spin!MoveHead, Spin!Goto, SpinHolderKnows, Spin!Outside,
            Spin!After
    <2>2. Spin!Queued' = SpinSegment(sr_data', SpinFirst', SpinLast')
        BY DEF Spin!Queued, SpinSegment, SpinFirst, SpinLast
    <2>3. Spin!Queued' = Spin!Queued
        BY <2>1, <2>2, SpinQueuedIsSegment
    <2>4. QED
        BY <1>3, <2>3, SpinStutter
<1>5. CASE Spin!Destroy(t)
    <2>1. /\ SpinFirst = Spin!After(sr_head) /\ SpinLast = sr_tail
          /\ SpinFirst' = Spin!After(sr_head) /\ SpinLast' = sr_tail
          /\ sr_data' = [sr_data EXCEPT ![sr_head] = Null] /\ sr_head # sr_tail
        BY <1>1, <1>5
        DEF Spin!Destroy, Spin!Goto, SpinHolderKnows, Spin!Outside, Spin!After, Spin!IInv,
            Spin!StillSo
    <2>2. /\ sr_data \in [Spin!Slots -> SpinCells] /\ sr_data' \in [Spin!Slots -> SpinCells]
          /\ sr_head \in Spin!Slots /\ sr_tail \in Spin!Slots
          /\ Spin!After(sr_head) \in Spin!Slots
          /\ \A j \in Spin!Slots : j # sr_head => sr_data'[j] = sr_data[j]
        BY <2>1, SpinAfterOnRing DEF Spin!TypeOK, SpinCells
    <2>3. SpinSegment(sr_data', Spin!After(sr_head), sr_tail) =
              SpinSegment(sr_data, Spin!After(sr_head), sr_tail)
        <3>1. \A k \in 1 .. SpinDist(Spin!After(sr_head), sr_tail) :
                  SpinSpot(Spin!After(sr_head), k) # sr_head
            BY <2>1, <2>2, SpinEndsOutside
        <3>2. QED
            BY <2>2, <3>1, SpinSegmentSame
    <2>4. Spin!Queued' = SpinSegment(sr_data', SpinFirst', SpinLast')
        BY DEF Spin!Queued, SpinSegment, SpinFirst, SpinLast
    <2>5. Spin!Queued' = Spin!Queued
        BY <2>1, <2>3, <2>4, SpinQueuedIsSegment
    <2>6. QED
        BY <1>3, <2>5, SpinStutter
<1>6. QED
    BY <1>4, <1>5

\* A call begins, returns, or finds the ring full or empty.
LEMMA SpinCallsRefine ==
    ASSUME Spin!ConstantsAssumption, Spin!IInv, SpinHolderKnows, NEW t \in Clients,
           \/ \E v \in Values : Spin!PushStart(t, v)
           \/ Spin!PopStart(t) \/ Spin!ReturnFull(t) \/ Spin!PopUnlock(t)
           \/ Spin!PushTest(t) /\ Spin!After(sr_tail) = sr_head
           \/ Spin!PopTest(t) /\ sr_head = sr_tail
    PROVE  Spin!Abstract!Next
<1> Spin!TypeOK
    BY DEF Spin!IInv
<1>1. Spin!Queued' = Spin!Queued /\ \A u \in Clients \ {t} : sr_pc'[u] = sr_pc[u]
          /\ sr_val'[u] = sr_val[u]
    <2>1. \A u \in Clients \ {t} : sr_pc'[u] = sr_pc[u] /\ sr_val'[u] = sr_val[u]
        BY DEF Spin!PushStart, Spin!PopStart, Spin!ReturnFull, Spin!PopUnlock,
            Spin!PushTest, Spin!PopTest, Spin!Unlock, Spin!Goto, Spin!TypeOK
    <2>2. Spin!Queued' = Spin!Queued
        BY SpinQueuedKept
        DEF Spin!PushStart, Spin!PopStart, Spin!ReturnFull, Spin!PopUnlock, Spin!PushTest,
            Spin!PopTest, Spin!Unlock, Spin!Goto
    <2>3. QED
        BY <2>1, <2>2
<1>2. \A u \in Clients \ {t} : Spin!CallOf(u)' = Spin!CallOf(u)
    BY <1>1, SpinOtherCalls
<1>3. sr_data \in [Spin!Slots -> SpinCells] /\ sr_head \in Spin!Slots /\ sr_tail \in Spin!Slots
    BY DEF Spin!TypeOK, SpinCells
<1>4. ASSUME NEW v \in Values, Spin!PushStart(t, v) PROVE Spin!Abstract!Next
    <2>1. Spin!CallOf(t) = <<"idle">> /\ Spin!CallOf(t)' = <<"push", v>>
        BY <1>4 DEF Spin!PushStart, Spin!Goto, Spin!CallOf, Spin!TypeOK
    <2>2. Spin!Abstract!CallPush(t, v)
        BY <1>1, <1>2, <2>1, SpinCallStep
        DEF Spin!Abstract!CallPush, Spin!Abstract!Idle, Spin!Abstract!Pushing
    <2>3. QED
        BY <2>2 DEF Spin!Abstract!Next
<1>5. CASE Spin!PopStart(t)
    <2>1. Spin!CallOf(t) = <<"idle">> /\ Spin!CallOf(t)' = <<"pop">>
        BY <1>5 DEF Spin!PopStart, Spin!Goto, Spin!CallOf, Spin!TypeOK
    <2>2. Spin!Abstract!CallPop(t)
        BY <1>1, <1>2, <2>1, SpinCallStep
        DEF Spin!Abstract!CallPop, Spin!Abstract!Idle, Spin!Abstract!Popping
    <2>3. QED
        BY <2>2 DEF Spin!Abstract!Next
<1>6. CASE Spin!ReturnFull(t) \/ Spin!PopUnlock(t)
    <2>1. /\ Spin!CallOf(t)' = <<"idle">>
          /\ \/ Spin!CallOf(t) = <<"full">>
             \/ Spin!CallOf(t) = <<"got", sr_val[t]>>
        BY <1>6
        DEF Spin!ReturnFull, Spin!PopUnlock, Spin!Unlock, Spin!Goto, Spin!CallOf,
            Spin!TypeOK
    <2>2. sr_val[t] \in Values \cup {Null}
        BY DEF Spin!TypeOK
    <2>3. \/ Spin!Abstract!Step(t, <<"full">>, <<"idle">>)
          \/ Spin!Abstract!Step(t, <<"got", sr_val[t]>>, <<"idle">>)
        BY <1>2, <2>1, SpinCallStep
    <2>4. Spin!Abstract!Return(t)
        BY <1>1, <2>2, <2>3
        DEF Spin!Abstract!Return, Spin!Abstract!Refused, Spin!Abstract!Got,
            Spin!Abstract!Idle
    <2>5. QED
        BY <2>4 DEF Spin!Abstract!Next
<1>7. CASE Spin!PushTest(t) /\ Spin!After(sr_tail) = sr_head
    <2>1. /\ sr_pc[t] = "push_test" /\ sr_val[t] \in Values
          /\ Spin!CallOf(t) = <<"push", sr_val[t]>> /\ Spin!CallOf(t)' = <<"full">>
        BY <1>7
        DEF Spin!PushTest, Spin!Goto, Spin!CallOf, Spin!TypeOK, Spin!IInv, Spin!StillSo
    <2>2. Spin!Queued = SpinSegment(sr_data, sr_head, sr_tail)
        BY <2>1, SpinQueuedIsSegment DEF SpinHolderKnows, Spin!Outside
    <2>3. Len(Spin!Queued) = SlotCount
        BY <1>3, <1>7, <2>2, SpinFullAndEmpty
    <2>4. Spin!Abstract!PushFull(t, sr_val[t])
        BY <1>1, <1>2, <2>1, <2>3, SpinCallStep
        DEF Spin!Abstract!PushFull, Spin!Abstract!Pushing, Spin!Abstract!Refused
    <2>5. QED
        BY <2>1, <2>4 DEF Spin!Abstract!Next
<1>8. CASE Spin!PopTest(t) /\ sr_head = sr_tail
    <2>1. /\ sr_pc[t] = "pop_test"
          /\ Spin!CallOf(t) = <<"pop">> /\ Spin!CallOf(t)' = <<"got", Null>>
        BY <1>8
        DEF Spin!PopTest, Spin!Goto, Spin!CallOf, Spin!TypeOK, Spin!IInv, Spin!StillSo
    <2>2. Spin!Queued = SpinSegment(sr_data, sr_head, sr_tail)
        BY <2>1, SpinQueuedIsSegment DEF SpinHolderKnows, Spin!Outside
    <2>3. Spin!Queued = <<>>
        BY <1>3, <1>8, <2>2, SpinFullAndEmpty
    <2>4. Spin!Abstract!PopEmpty(t)
        BY <1>1, <1>2, <2>1, <2>3, SpinCallStep
        DEF Spin!Abstract!PopEmpty, Spin!Abstract!Popping, Spin!Abstract!Got
    <2>5. QED
        BY <2>4 DEF Spin!Abstract!Next
<1>9. QED
    BY <1>4, <1>5, <1>6, <1>7, <1>8

\* The lock and its release, and the tests that find room or a value.
LEMMA SpinLockRefines ==
    ASSUME Spin!ConstantsAssumption, Spin!IInv, NEW t \in Clients,
           \/ Spin!PushLock(t) \/ Spin!PushUnlock(t) \/ Spin!PopLock(t)
           \/ Spin!PushTest(t) /\ Spin!After(sr_tail) # sr_head
           \/ Spin!PopTest(t) /\ sr_head # sr_tail
    PROVE  UNCHANGED Spin!Abstract!vars
<1> Spin!TypeOK
    BY DEF Spin!IInv
<1>1. Spin!Queued' = Spin!Queued
    BY SpinQueuedKept
    DEF Spin!PushLock, Spin!PushUnlock, Spin!PopLock, Spin!PushTest, Spin!PopTest,
        Spin!Lock, Spin!Unlock, Spin!Goto
<1>2. /\ sr_val' = sr_val /\ \A u \in Clients \ {t} : sr_pc'[u] = sr_pc[u]
      /\ \/ sr_pc[t] = "push_lock" /\ sr_pc'[t] = "push_test"
         \/ sr_pc[t] = "push_test" /\ sr_pc'[t] = "construct"
         \/ sr_pc[t] = "push_unlock" /\ sr_pc'[t] = "idle"
         \/ sr_pc[t] = "pop_lock" /\ sr_pc'[t] = "pop_test"
         \/ sr_pc[t] = "pop_test" /\ sr_pc'[t] = "move"
    BY DEF Spin!PushLock, Spin!PushUnlock, Spin!PopLock, Spin!PushTest, Spin!PopTest,
        Spin!Lock, Spin!Unlock, Spin!Goto, Spin!TypeOK
<1>3. Spin!CallOf(t)' = Spin!CallOf(t)
    BY <1>2 DEF Spin!CallOf
<1>4. \A u \in Clients : Spin!CallOf(u)' = Spin!CallOf(u)
    BY <1>2, <1>3, SpinOtherCalls
<1>5. QED
    BY <1>1, <1>4, SpinStutter

\* Every step under the lock is a step of the queue, or none.
LEMMA SpinStepRefines ==
    Spin!ConstantsAssumption /\ Spin!IInv /\ [Spin!Next]_(Spin!vars)
        => [Spin!Abstract!Next]_(Spin!Abstract!vars)
<1> SUFFICES ASSUME Spin!ConstantsAssumption, Spin!IInv, [Spin!Next]_(Spin!vars)
             PROVE  Spin!Abstract!Next \/ UNCHANGED Spin!Abstract!vars
    OBVIOUS
<1>1. SpinHolderKnows /\ SpinHolderKnows'
    BY SpinBothHolders
<1>2. ASSUME NEW t \in Clients, Spin!Push(t)
      PROVE  Spin!Abstract!Next \/ UNCHANGED Spin!Abstract!vars
    <2>1. CASE Spin!PushTest(t)
        BY <1>1, <2>1, SpinCallsRefine, SpinLockRefines
    <2>2. QED
        BY <1>1, <1>2, <2>1, SpinCallsRefine, SpinLockRefines, SpinConstructRefines,
            SpinCleanUpRefines
        DEF Spin!Push
<1>3. ASSUME NEW t \in Clients, Spin!Pop(t)
      PROVE  Spin!Abstract!Next \/ UNCHANGED Spin!Abstract!vars
    <2>1. CASE Spin!PopTest(t)
        BY <1>1, <2>1, SpinCallsRefine, SpinLockRefines
    <2>2. QED
        BY <1>1, <1>3, <2>1, SpinCallsRefine, SpinLockRefines, SpinMoveOutRefines,
            SpinCleanUpRefines
        DEF Spin!Pop
<1>4. CASE UNCHANGED Spin!vars
    <2>1. Spin!Queued' = Spin!Queued
        BY <1>4 DEF Spin!vars, Spin!Queued, Spin!After
    <2>2. \A t \in Clients : Spin!CallOf(t)' = Spin!CallOf(t)
        BY <1>4 DEF Spin!vars, Spin!CallOf
    <2>3. QED
        BY <2>1, <2>2, SpinStutter
<1>5. QED
    BY <1>2, <1>3, <1>4 DEF Spin!Next

\* The ring starts empty.
LEMMA SpinStartsEmpty == Spin!ConstantsAssumption /\ Spin!Init => Spin!Abstract!Init
<1> SUFFICES ASSUME Spin!ConstantsAssumption, Spin!Init PROVE Spin!Abstract!Init
    OBVIOUS
<1>1. Spin!IInv
    BY SpinInitIInv
<1>2. sr_data \in [Spin!Slots -> SpinCells] /\ sr_head \in Spin!Slots /\ sr_tail \in Spin!Slots
          /\ sr_head = sr_tail
    BY <1>1 DEF Spin!IInv, Spin!TypeOK, SpinCells, Spin!Init
<1>3. SpinFirst = sr_head /\ SpinLast = sr_tail
    BY DEF Spin!Init, SpinFirst, SpinLast
<1>4. Spin!Queued = <<>>
    BY <1>2, <1>3, SpinQueuedIsSegment, SpinFullAndEmpty
<1>5. \A t \in Clients : Spin!CallOf(t) = <<"idle">>
    BY DEF Spin!Init, Spin!CallOf
<1>6. QED
    BY <1>4, <1>5 DEF Spin!Abstract!Init, Spin!Abstract!Idle

\* For every capacity and any number of threads the ring under the spin lock is a
\* linearizable queue: first in, first out, full and empty only when it is.
THEOREM SpinLinearizable ==
    ASSUME Spin!ConstantsAssumption
    PROVE  Spin!Spec => Spin!ImplementsFifo
<1>1. Spin!Init => Spin!Abstract!Init
    BY SpinStartsEmpty
<1>2. Spin!IInv /\ [Spin!Next]_(Spin!vars) => [Spin!Abstract!Next]_(Spin!Abstract!vars)
    BY SpinStepRefines
<1>3. QED
    BY SpinInvariant, <1>1, <1>2, PTL DEF Spin!Spec, Spin!Abstract!Spec, Spin!ImplementsFifo

-----------------------------------------------------------------------------
(* TwoLockQueue: a pop takes a node that no other pop takes, and the queue *)
(* is linearizable.                                                        *)

\* What TwoLockQueue has of FiniteSets is FiniteSets.
LEMMA TwoFiniteSets ==
    /\ \A S : Two!IsFiniteSet(S) <=> IsFiniteSet(S)
    /\ \A S : Two!Cardinality(S) = Cardinality(S)
<1>1. \A S : Two!IsFiniteSet(S) <=> IsFiniteSet(S)
    BY DEF Two!IsFiniteSet, IsFiniteSet
<1>2. \A S : Two!Cardinality(S) = Cardinality(S)
    BY DEF Two!Cardinality, Cardinality
<1>3. QED
    BY <1>1, <1>2

\* The lengths ListFits adds up are natural numbers.
LEMMA TwoPushingFinite ==
    ASSUME Two!ConstantsAssumption
    PROVE  Two!IsFiniteSet(Two!Pushing) /\ Two!Cardinality(Two!Pushing) \in Nat
<1>1. Two!Pushing \subseteq Producers
    BY DEF Two!Pushing
<1>2. Two!IsFiniteSet(Producers)
    BY DEF Two!ConstantsAssumption
<1>3. Two!IsFiniteSet(Two!Pushing)
    BY <1>1, <1>2, FS_Subset, TwoFiniteSets
<1>4. QED
    BY <1>3, FS_CardinalityType, TwoFiniteSets

\* A step that leaves the list alone and starts no push keeps the bound.
LEMMA TwoKeepsListFits ==
    ASSUME Two!ConstantsAssumption, Two!IInv, tq_list' = tq_list, Two!Pushing' = Two!Pushing
    PROVE  Two!ListFits'
BY DEF Two!IInv, Two!ListFits

\* A step of a consumer changes only its own program counter.
LEMMA TwoConsumerKeepsPushing ==
    ASSUME Two!ConstantsAssumption, Two!TypeOK, NEW c \in Clients,
           NEW to, to # "push", tq_pc' = [tq_pc EXCEPT ![c] = to]
    PROVE  Two!Pushing' = Two!Pushing
<1>1. \A p \in Producers : tq_pc'[p] = tq_pc[p]
    BY DEF Two!ConstantsAssumption, Two!TypeOK, Two!Threads
<1>2. QED
    BY <1>1 DEF Two!Pushing

-----------------------------------------------------------------------------
\* The constructor establishes the invariant.
LEMMA TwoInitIInv == Two!ConstantsAssumption /\ Two!Init => Two!IInv
<1> SUFFICES ASSUME Two!ConstantsAssumption, Two!Init PROVE Two!IInv
    OBVIOUS
<1>1. Two!TypeOK
    BY DEF Two!Init, Two!TypeOK, Two!Threads, Two!Holding
<1>2. Two!HeadMutexHeld
    BY DEF Two!Init, Two!HeadMutexHeld, Two!Holding, Two!Threads, Two!ConstantsAssumption
<1>3. Two!TakeHasNode /\ Two!ValuesCarried
    BY DEF Two!Init, Two!TakeHasNode, Two!ValuesCarried, Two!Pushing, Two!Threads
<1>4. Two!ListFits
    <2>1. Two!Pushing = {}
        BY DEF Two!Init, Two!Pushing, Two!Threads
    <2>2. Len(tq_list) = 0
        BY DEF Two!Init
    <2>3. QED
        BY <2>1, <2>2, FS_EmptySet, TwoFiniteSets DEF Two!ListFits, Two!ConstantsAssumption
<1>5. QED
    BY <1>1, <1>2, <1>3, <1>4 DEF Two!IInv

\* A push goes into the bound before it runs.
LEMMA TwoPushStartIInv ==
    ASSUME Two!ConstantsAssumption, Two!IInv, NEW p \in Producers, NEW v \in Values,
           Two!PushStart(p, v)
    PROVE  Two!IInv'
<1> USE DEF Two!PushStart, Two!Goto
<1>1. Two!TypeOK'
    BY DEF Two!IInv, Two!TypeOK, Two!Threads, Two!ConstantsAssumption
<1>2. Two!HeadMutexHeld' /\ Two!TakeHasNode'
    BY DEF Two!IInv, Two!TypeOK, Two!HeadMutexHeld, Two!TakeHasNode, Two!Threads,
        Two!ConstantsAssumption
<1>3. Two!ValuesCarried'
    BY DEF Two!IInv, Two!TypeOK, Two!ValuesCarried, Two!Pushing, Two!Threads,
        Two!ConstantsAssumption
<1>4. Two!ListFits'
    <2>1. Two!Pushing' = Two!Pushing \cup {p}
        BY DEF Two!IInv, Two!TypeOK, Two!Pushing, Two!Threads
    <2>2. p \notin Two!Pushing
        BY DEF Two!Pushing
    <2>3. Two!Cardinality(Two!Pushing') = Two!Cardinality(Two!Pushing) + 1
        BY <2>1, <2>2, TwoPushingFinite, FS_AddElement, TwoFiniteSets
    <2>4. Len(tq_list) \in Nat /\ MaxLen \in Nat
        BY LenProperties DEF Two!IInv, Two!TypeOK, Two!ConstantsAssumption
    <2>5. QED
        BY <2>3, <2>4, TwoPushingFinite DEF Two!ListFits, Two!RoomForPush
<1>5. QED
    BY <1>1, <1>2, <1>3, <1>4 DEF Two!IInv

\* Under tail_mutex_ the list grows by the value pushed.
LEMMA TwoPushTailIInv ==
    ASSUME Two!ConstantsAssumption, Two!IInv, NEW p \in Producers, Two!PushTail(p)
    PROVE  Two!IInv'
<1> USE DEF Two!PushTail, Two!Goto
<1>1. tq_val[p] \in Values
    BY DEF Two!IInv, Two!ValuesCarried, Two!Pushing
<1>2. /\ tq_list' \in Seq(Values) /\ tq_list' # <<>>
      /\ Len(tq_list') = Len(tq_list) + 1
    BY <1>1, AppendProperties DEF Two!IInv, Two!TypeOK
<1>3. Two!TypeOK'
    BY <1>2 DEF Two!IInv, Two!TypeOK, Two!Threads, Two!ConstantsAssumption
<1>4. Two!HeadMutexHeld' /\ Two!TakeHasNode'
    BY <1>2
    DEF Two!IInv, Two!TypeOK, Two!HeadMutexHeld, Two!TakeHasNode, Two!Threads,
        Two!ConstantsAssumption
<1>5. Two!ValuesCarried'
    BY DEF Two!IInv, Two!TypeOK, Two!ValuesCarried, Two!Pushing, Two!Threads,
        Two!ConstantsAssumption
<1>6. Two!ListFits'
    <2>1. Two!Pushing' = Two!Pushing \ {p} /\ p \in Two!Pushing
        BY DEF Two!IInv, Two!TypeOK, Two!Pushing, Two!Threads
    <2>2. Two!Cardinality(Two!Pushing') = Two!Cardinality(Two!Pushing) - 1
        BY <2>1, TwoPushingFinite, FS_RemoveElement, TwoFiniteSets
    <2>3. Len(tq_list) \in Nat /\ MaxLen \in Nat
        BY LenProperties DEF Two!IInv, Two!TypeOK, Two!ConstantsAssumption
    <2>4. QED
        BY <1>2, <2>2, <2>3, TwoPushingFinite DEF Two!IInv, Two!ListFits
<1>7. QED
    BY <1>3, <1>4, <1>5, <1>6 DEF Two!IInv

\* notify_one ends the push and wakes at most one sleeper.
LEMMA TwoNotifyOneIInv ==
    ASSUME Two!ConstantsAssumption, Two!IInv, NEW p \in Producers, Two!NotifyOne(p)
    PROVE  Two!IInv'
<1>1. /\ tq_pc[p] = "notify" /\ tq_list' = tq_list /\ tq_head_mutex' = tq_head_mutex
      /\ tq_val' = tq_val
      /\ \/ tq_pc' = [tq_pc EXCEPT ![p] = "idle"]
         \/ \E c \in Clients :
               tq_pc[c] = "waiting" /\ tq_pc' = [tq_pc EXCEPT ![p] = "idle", ![c] = "wait_lock"]
    BY DEF Two!NotifyOne
<1>2. Two!TypeOK'
    BY <1>1 DEF Two!IInv, Two!TypeOK, Two!Threads, Two!ConstantsAssumption
<1>3. Two!HeadMutexHeld'
    BY <1>1
    DEF Two!IInv, Two!TypeOK, Two!HeadMutexHeld, Two!Holding, Two!Threads,
        Two!ConstantsAssumption
<1>4. Two!TakeHasNode'
    BY <1>1 DEF Two!IInv, Two!TypeOK, Two!TakeHasNode, Two!Threads, Two!ConstantsAssumption
<1>5. Two!Pushing' = Two!Pushing
    BY <1>1 DEF Two!IInv, Two!TypeOK, Two!Pushing, Two!Threads, Two!ConstantsAssumption
<1>6. Two!ValuesCarried'
    BY <1>1, <1>5
    DEF Two!IInv, Two!TypeOK, Two!ValuesCarried, Two!Threads, Two!ConstantsAssumption
<1>7. QED
    BY <1>1, <1>2, <1>3, <1>4, <1>5, <1>6, TwoKeepsListFits DEF Two!IInv

\* The steps of a pop that leave the list and the values alone: only the
\* program counter and the mutex matter.
LEMMA TwoQuietStepIInv ==
    ASSUME Two!ConstantsAssumption, Two!IInv, NEW c \in Clients, NEW from, NEW to,
           Two!Goto(c, from, to), UNCHANGED <<tq_list, tq_val>>,
           to \in {"idle", "try_lock", "wait_lock", "waiting"} \cup Two!Holding,
           from # "return", to = "take" => tq_list # <<>>,
           \/ /\ from \in Two!Holding <=> to \in Two!Holding
              /\ UNCHANGED tq_head_mutex
           \/ /\ from \notin Two!Holding /\ to \in Two!Holding
              /\ tq_head_mutex = Null /\ tq_head_mutex' = c
           \/ /\ from \in Two!Holding /\ to \notin Two!Holding
              /\ tq_head_mutex' = Null
    PROVE  Two!IInv'
<1>1. to # "push" /\ to # "notify"
    BY DEF Two!Holding
<1>2. tq_pc[c] = from /\ tq_pc' = [tq_pc EXCEPT ![c] = to] /\ c \in Two!Threads
    BY DEF Two!Goto, Two!Threads
<1>3. Two!TypeOK'
    BY <1>1, <1>2 DEF Two!IInv, Two!TypeOK, Two!ConstantsAssumption
<1>4. Two!HeadMutexHeld'
    BY <1>2
    DEF Two!IInv, Two!TypeOK, Two!HeadMutexHeld, Two!Threads, Two!ConstantsAssumption
<1>5. Two!TakeHasNode'
    BY <1>2 DEF Two!IInv, Two!TypeOK, Two!TakeHasNode, Two!Threads
<1>6. Two!Pushing' = Two!Pushing
    BY <1>1, <1>2, TwoConsumerKeepsPushing DEF Two!IInv
<1>7. Two!ValuesCarried'
    BY <1>2, <1>6 DEF Two!IInv, Two!TypeOK, Two!ValuesCarried, Two!Threads
<1>8. QED
    BY <1>3, <1>4, <1>5, <1>6, <1>7, TwoKeepsListFits DEF Two!IInv

\* The head moves to the next node; only the holder of head_mutex_ can do so.
LEMMA TwoTakeIInv ==
    ASSUME Two!ConstantsAssumption, Two!IInv, NEW c \in Clients, Two!Take(c)
    PROVE  Two!IInv'
<1> USE DEF Two!Take, Two!Goto
<1>1. tq_list # <<>> /\ tq_list \in Seq(Values)
    BY DEF Two!IInv, Two!TakeHasNode, Two!TypeOK
<1>2. /\ Head(tq_list) \in Values
      /\ tq_list' \in Seq(Values)
      /\ Len(tq_list') = Len(tq_list) - 1
    BY <1>1, HeadTailProperties
<1>3. Two!TypeOK'
    BY <1>2 DEF Two!IInv, Two!TypeOK, Two!Threads, Two!Holding, Two!ConstantsAssumption
<1>4. Two!HeadMutexHeld'
    BY DEF Two!IInv, Two!TypeOK, Two!HeadMutexHeld, Two!Holding, Two!Threads
<1>5. Two!TakeHasNode'
    <2>1. ASSUME NEW d \in Clients, tq_pc'[d] = "take" PROVE FALSE
        <3>1. d # c /\ tq_pc[d] = "take"
            BY <2>1 DEF Two!IInv, Two!TypeOK, Two!Threads
        <3>2. tq_head_mutex = c /\ tq_head_mutex = d
            BY <3>1 DEF Two!IInv, Two!HeadMutexHeld, Two!Holding
        <3>3. QED
            BY <3>1, <3>2
    <2>2. QED
        BY <2>1 DEF Two!TakeHasNode
<1>6. Two!Pushing' = Two!Pushing
    BY TwoConsumerKeepsPushing DEF Two!IInv
<1>7. Two!ValuesCarried'
    BY <1>6
    DEF Two!IInv, Two!TypeOK, Two!ValuesCarried, Two!Pushing, Two!Threads,
        Two!ConstantsAssumption
<1>8. Two!ListFits'
    <2>1. Len(tq_list) \in Nat /\ MaxLen \in Nat
        BY LenProperties DEF Two!IInv, Two!TypeOK, Two!ConstantsAssumption
    <2>2. QED
        BY <1>2, <1>6, <2>1, TwoPushingFinite DEF Two!IInv, Two!ListFits
<1>9. QED
    BY <1>3, <1>4, <1>5, <1>7, <1>8 DEF Two!IInv

\* A return preserves it.
LEMMA TwoReturnIInv ==
    ASSUME Two!ConstantsAssumption, Two!IInv, NEW c \in Clients, Two!Return(c)
    PROVE  Two!IInv'
<1> USE DEF Two!Return, Two!Unlock, Two!Goto
<1>1. Two!TypeOK'
    BY DEF Two!IInv, Two!TypeOK, Two!Threads, Two!ConstantsAssumption
<1>2. Two!HeadMutexHeld'
    BY DEF Two!IInv, Two!TypeOK, Two!HeadMutexHeld, Two!Holding, Two!Threads,
        Two!ConstantsAssumption
<1>3. Two!TakeHasNode'
    BY DEF Two!IInv, Two!TypeOK, Two!TakeHasNode, Two!Threads
<1>4. Two!Pushing' = Two!Pushing
    BY TwoConsumerKeepsPushing DEF Two!IInv
<1>5. Two!ValuesCarried'
    BY <1>4
    DEF Two!IInv, Two!TypeOK, Two!ValuesCarried, Two!Pushing, Two!Threads,
        Two!ConstantsAssumption
<1>6. QED
    BY <1>1, <1>2, <1>3, <1>4, <1>5, TwoKeepsListFits DEF Two!IInv

\* No step breaks the invariant.
LEMMA TwoStepIInv == Two!ConstantsAssumption /\ Two!IInv /\ [Two!Next]_(Two!vars) => Two!IInv'
<1> SUFFICES ASSUME Two!ConstantsAssumption, Two!IInv, [Two!Next]_(Two!vars) PROVE Two!IInv'
    OBVIOUS
<1>1. ASSUME NEW p \in Producers, NEW v \in Values, Two!PushStart(p, v) PROVE Two!IInv'
    BY <1>1, TwoPushStartIInv
<1>2. ASSUME NEW p \in Producers, Two!PushStep(p) PROVE Two!IInv'
    BY <1>2, TwoPushTailIInv, TwoNotifyOneIInv DEF Two!PushStep
<1>3. ASSUME NEW c \in Clients, Two!TryPopStart(c) PROVE Two!IInv'
    BY <1>3, TwoQuietStepIInv DEF Two!TryPopStart, Two!Holding
<1>4. ASSUME NEW c \in Clients, Two!WaitAndPopStart(c) PROVE Two!IInv'
    BY <1>4, TwoQuietStepIInv DEF Two!WaitAndPopStart, Two!Holding
<1>5. ASSUME NEW c \in Clients, Two!SpuriousWakeup(c) PROVE Two!IInv'
    BY <1>5, TwoQuietStepIInv DEF Two!SpuriousWakeup, Two!Holding
<1>6. ASSUME NEW c \in Clients, Two!TryPopLock(c) PROVE Two!IInv'
    BY <1>6, TwoQuietStepIInv DEF Two!TryPopLock, Two!Lock, Two!Holding
<1>7. ASSUME NEW c \in Clients, Two!TryPopTest(c) PROVE Two!IInv'
    BY <1>7, TwoQuietStepIInv DEF Two!TryPopTest, Two!Holding
<1>8. ASSUME NEW c \in Clients, Two!WaitLock(c) PROVE Two!IInv'
    BY <1>8, TwoQuietStepIInv DEF Two!WaitLock, Two!Lock, Two!Holding
<1>9. ASSUME NEW c \in Clients, Two!WaitTest(c) PROVE Two!IInv'
    BY <1>9, TwoQuietStepIInv DEF Two!WaitTest, Two!Holding
<1>10. ASSUME NEW c \in Clients, Two!Sleep(c) PROVE Two!IInv'
    BY <1>10, TwoQuietStepIInv DEF Two!Sleep, Two!Unlock, Two!Holding
<1>11. CASE UNCHANGED Two!vars
    BY <1>11
    DEF Two!vars, Two!IInv, Two!TypeOK, Two!HeadMutexHeld, Two!TakeHasNode,
        Two!ValuesCarried, Two!ListFits, Two!Pushing
<1>12. QED
    BY <1>1, <1>2, <1>3, <1>4, <1>5, <1>6, <1>7, <1>8, <1>9, <1>10, <1>11, TwoTakeIInv,
        TwoReturnIInv
    DEF Two!Next, Two!PopStep

\* The invariant holds in every state of the queue.
THEOREM TwoInvariance ==
    ASSUME Two!ConstantsAssumption PROVE Two!Spec => []Two!IInv
<1>1. Two!Init => Two!IInv
    BY TwoInitIInv
<1>2. Two!IInv /\ [Two!Next]_(Two!vars) => Two!IInv'
    BY TwoStepIInv
<1>3. QED
    BY <1>1, <1>2, PTL DEF Two!Spec

\* A pop that takes has a filled node.
LEMMA TwoIInvTakes == Two!IInv => Two!TakesRealNode
BY DEF Two!IInv, Two!HeadMutexHeld, Two!TakeHasNode, Two!TakesRealNode, Two!Holding

\* For any number of threads, the node a pop takes is not the dummy node, and
\* no two pops take the same one.
THEOREM TwoTakenNodesReal ==
    ASSUME Two!ConstantsAssumption PROVE Two!Spec => []Two!TakesRealNode
<1>1. Two!IInv => Two!TakesRealNode
    BY TwoIInvTakes
<1>2. QED
    BY TwoInvariance, <1>1, PTL

-----------------------------------------------------------------------------
\* What the callers are doing.
TwoCalls == [t \in Two!Threads |-> Two!CallOf(t)]

\* A step of one thread that takes it from one call to another is a step of
\* its caller.
LEMMA TwoCallStep ==
    ASSUME NEW t \in Two!Threads, NEW from, NEW to,
           Two!CallOf(t) = from, Two!CallOf(t)' = to,
           \A u \in Two!Threads \ {t} : Two!CallOf(u)' = Two!CallOf(u)
    PROVE  Two!Abstract!Step(t, from, to)
<1>1. TwoCalls[t] = from
    BY DEF TwoCalls
<1>2. TwoCalls' = [TwoCalls EXCEPT ![t] = to]
    BY DEF TwoCalls
<1>3. QED
    BY <1>1, <1>2 DEF Two!Abstract!Step, TwoCalls

\* A step that changes the locals of one thread only leaves the other calls.
LEMMA TwoOtherCalls ==
    ASSUME Two!TypeOK, NEW t \in Two!Threads, NEW u \in Two!Threads \ {t},
           tq_pc'[u] = tq_pc[u], tq_val'[u] = tq_val[u]
    PROVE  Two!CallOf(u)' = Two!CallOf(u)
BY DEF Two!CallOf

\* A step that changes neither the list nor any call is none of the queue.
LEMMA TwoStutter ==
    ASSUME tq_list' = tq_list, \A t \in Two!Threads : Two!CallOf(t)' = Two!CallOf(t)
    PROVE  UNCHANGED Two!Abstract!vars
BY DEF Two!Abstract!vars

\* push takes effect when it moves tail_.
LEMMA TwoPushRefines ==
    ASSUME Two!ConstantsAssumption, Two!IInv, NEW p \in Producers,
           (\E v \in Values : Two!PushStart(p, v)) \/ Two!PushTail(p)
    PROVE  Two!Abstract!Next
<1> p \in Two!Threads
    BY DEF Two!Threads
<1>1. ASSUME NEW v \in Values, Two!PushStart(p, v) PROVE Two!Abstract!Next
    <2>1. tq_pc[p] = "idle" /\ tq_pc'[p] = "push" /\ tq_val'[p] = v
        BY <1>1 DEF Two!PushStart, Two!Goto, Two!IInv, Two!TypeOK
    <2>2. \A u \in Two!Threads \ {p} : Two!CallOf(u)' = Two!CallOf(u)
        BY <1>1, TwoOtherCalls DEF Two!PushStart, Two!Goto, Two!IInv, Two!TypeOK
    <2>3. Two!CallOf(p) = <<"idle">> /\ Two!CallOf(p)' = <<"push", v>>
        BY <2>1 DEF Two!CallOf
    <2>4. Two!Abstract!CallPush(p, v)
        BY <1>1, <2>2, <2>3, TwoCallStep
        DEF Two!Abstract!CallPush, Two!Abstract!Idle, Two!Abstract!Pushing, Two!PushStart
    <2>5. QED
        BY <2>4 DEF Two!Abstract!Next
<1>2. ASSUME Two!PushTail(p) PROVE Two!Abstract!Next
    <2>1. tq_pc[p] = "push" /\ tq_pc'[p] = "notify" /\ tq_list' = Append(tq_list, tq_val[p])
        BY <1>2 DEF Two!PushTail, Two!Goto, Two!IInv, Two!TypeOK
    <2>2. tq_val[p] \in Values
        BY <2>1 DEF Two!IInv, Two!ValuesCarried, Two!Pushing
    <2>3. \A u \in Two!Threads \ {p} : Two!CallOf(u)' = Two!CallOf(u)
        BY <1>2, TwoOtherCalls DEF Two!PushTail, Two!Goto, Two!IInv, Two!TypeOK
    <2>4. Two!CallOf(p) = <<"push", tq_val[p]>> /\ Two!CallOf(p)' = <<"idle">>
        BY <2>1 DEF Two!CallOf
    <2>5. Len(tq_list) < MaxLen
        <3>1. p \in Two!Pushing
            BY <2>1 DEF Two!Pushing
        <3>2. Two!Cardinality(Two!Pushing \ {p}) = Two!Cardinality(Two!Pushing) - 1
              /\ Two!Cardinality(Two!Pushing \ {p}) \in Nat
            BY <3>1, TwoPushingFinite, FS_RemoveElement, FS_CardinalityType, TwoFiniteSets
        <3>3. Len(tq_list) \in Nat /\ MaxLen \in Nat
            BY LenProperties DEF Two!IInv, Two!TypeOK, Two!ConstantsAssumption
        <3>4. QED
            BY <3>2, <3>3, TwoPushingFinite DEF Two!IInv, Two!ListFits
    <2>6. Two!Abstract!Push(p, tq_val[p])
        BY <2>1, <2>3, <2>4, <2>5, TwoCallStep
        DEF Two!Abstract!Push, Two!Abstract!Idle, Two!Abstract!Pushing
    <2>7. QED
        BY <2>2, <2>6 DEF Two!Abstract!Next
<1>3. QED
    BY <1>1, <1>2

\* The caller of push, and of a wait that is woken, notices nothing.
LEMMA TwoNotifyRefines ==
    ASSUME Two!ConstantsAssumption, Two!IInv, NEW p \in Producers, Two!NotifyOne(p)
    PROVE  UNCHANGED Two!Abstract!vars
<1>1. /\ tq_pc[p] = "notify" /\ tq_list' = tq_list /\ tq_val' = tq_val
      /\ \/ tq_pc' = [tq_pc EXCEPT ![p] = "idle"]
         \/ \E c \in Clients :
               tq_pc[c] = "waiting" /\ tq_pc' = [tq_pc EXCEPT ![p] = "idle", ![c] = "wait_lock"]
    BY DEF Two!NotifyOne
<1>2. ASSUME NEW t \in Two!Threads PROVE Two!CallOf(t)' = Two!CallOf(t)
    <2>1. \/ tq_pc'[t] = tq_pc[t]
          \/ tq_pc[t] = "notify" /\ tq_pc'[t] = "idle"
          \/ tq_pc[t] = "waiting" /\ tq_pc'[t] = "wait_lock"
        BY <1>1 DEF Two!IInv, Two!TypeOK, Two!Threads
    <2>2. QED
        BY <1>1, <2>1 DEF Two!CallOf
<1>3. QED
    BY <1>1, <1>2, TwoStutter

\* A step of a consumer between its call and its answer changes no call.
LEMMA TwoQuietRefines ==
    ASSUME Two!IInv, NEW c \in Clients, NEW from, NEW to,
           Two!Goto(c, from, to), UNCHANGED <<tq_list, tq_val>>,
           from \in {"try_lock", "try_test", "wait_lock", "wait_test", "sleep", "waiting"},
           to \in {"try_test", "wait_lock", "wait_test", "sleep", "waiting", "take"}
    PROVE  UNCHANGED Two!Abstract!vars
<1>1. ASSUME NEW t \in Two!Threads PROVE Two!CallOf(t)' = Two!CallOf(t)
    <2>1. tq_pc'[t] = tq_pc[t] \/ (tq_pc[t] = from /\ tq_pc'[t] = to)
        BY DEF Two!Goto, Two!IInv, Two!TypeOK
    <2>2. QED
        BY <2>1 DEF Two!CallOf
<1>2. QED
    BY <1>1, TwoStutter

\* A consumer calls, finds the queue empty, takes the oldest value, returns.
LEMMA TwoPopRefines ==
    ASSUME Two!ConstantsAssumption, Two!IInv, NEW c \in Clients,
           \/ Two!TryPopStart(c) \/ Two!WaitAndPopStart(c)
           \/ (Two!TryPopTest(c) /\ tq_list = <<>>)
           \/ Two!Take(c) \/ Two!Return(c)
    PROVE  Two!Abstract!Next
<1> c \in Two!Threads
    BY DEF Two!Threads
<1>1. \A u \in Two!Threads \ {c} : Two!CallOf(u)' = Two!CallOf(u)
    BY TwoOtherCalls
    DEF Two!TryPopStart, Two!WaitAndPopStart, Two!TryPopTest, Two!Take, Two!Return,
        Two!Unlock, Two!Goto, Two!IInv, Two!TypeOK
<1>2. CASE Two!TryPopStart(c) \/ Two!WaitAndPopStart(c)
    <2>1. tq_pc[c] = "idle" /\ tq_pc'[c] \in {"try_lock", "wait_lock"} /\ tq_list' = tq_list
        BY <1>2 DEF Two!TryPopStart, Two!WaitAndPopStart, Two!Goto, Two!IInv, Two!TypeOK
    <2>2. Two!CallOf(c) = <<"idle">> /\ Two!CallOf(c)' = <<"pop">>
        BY <2>1 DEF Two!CallOf
    <2>3. Two!Abstract!CallPop(c)
        BY <1>1, <2>1, <2>2, TwoCallStep
        DEF Two!Abstract!CallPop, Two!Abstract!Idle, Two!Abstract!Popping
    <2>4. QED
        BY <2>3 DEF Two!Abstract!Next
<1>3. CASE Two!TryPopTest(c) /\ tq_list = <<>>
    <2>1. tq_pc[c] = "try_test" /\ tq_pc'[c] = "return" /\ tq_list' = tq_list
              /\ tq_val' = tq_val
        BY <1>3 DEF Two!TryPopTest, Two!Goto, Two!IInv, Two!TypeOK
    <2>2. tq_val[c] = Null
        BY <2>1 DEF Two!IInv, Two!ValuesCarried
    <2>3. Two!CallOf(c) = <<"pop">> /\ Two!CallOf(c)' = <<"got", Null>>
        BY <2>1, <2>2 DEF Two!CallOf
    <2>4. Two!Abstract!PopEmpty(c)
        BY <1>1, <1>3, <2>1, <2>3, TwoCallStep
        DEF Two!Abstract!PopEmpty, Two!Abstract!Popping, Two!Abstract!Got
    <2>5. QED
        BY <2>4 DEF Two!Abstract!Next
<1>4. CASE Two!Take(c)
    <2>1. /\ tq_pc[c] = "take" /\ tq_pc'[c] = "return"
          /\ tq_val'[c] = Head(tq_list) /\ tq_list' = Tail(tq_list)
        BY <1>4 DEF Two!Take, Two!Goto, Two!IInv, Two!TypeOK
    <2>2. tq_list # <<>>
        BY <2>1 DEF Two!IInv, Two!TakeHasNode
    <2>3. Two!CallOf(c) = <<"pop">> /\ Two!CallOf(c)' = <<"got", Head(tq_list)>>
        BY <2>1 DEF Two!CallOf
    <2>4. Two!Abstract!Pop(c)
        BY <1>1, <2>1, <2>2, <2>3, TwoCallStep
        DEF Two!Abstract!Pop, Two!Abstract!Popping, Two!Abstract!Got
    <2>5. QED
        BY <2>4 DEF Two!Abstract!Next
<1>5. CASE Two!Return(c)
    <2>1. tq_pc[c] = "return" /\ tq_pc'[c] = "idle" /\ tq_list' = tq_list
        BY <1>5 DEF Two!Return, Two!Unlock, Two!Goto, Two!IInv, Two!TypeOK
    <2>2. Two!CallOf(c) = <<"got", tq_val[c]>> /\ Two!CallOf(c)' = <<"idle">>
        BY <2>1 DEF Two!CallOf
    <2>3. tq_val[c] \in Values \cup {Null}
        BY DEF Two!IInv, Two!TypeOK
    <2>4. Two!Abstract!Step(c, <<"got", tq_val[c]>>, <<"idle">>)
        BY <1>1, <2>2, TwoCallStep
    <2>5. Two!Abstract!Return(c)
        BY <2>1, <2>3, <2>4 DEF Two!Abstract!Return, Two!Abstract!Got, Two!Abstract!Idle
    <2>6. QED
        BY <2>5 DEF Two!Abstract!Next
<1>6. QED
    BY <1>2, <1>3, <1>4, <1>5

\* Every step of the queue with two locks is a step of the queue, or none.
LEMMA TwoStepRefines ==
    Two!ConstantsAssumption /\ Two!IInv /\ [Two!Next]_(Two!vars)
        => [Two!Abstract!Next]_(Two!Abstract!vars)
<1> SUFFICES ASSUME Two!ConstantsAssumption, Two!IInv, [Two!Next]_(Two!vars)
             PROVE  Two!Abstract!Next \/ UNCHANGED Two!Abstract!vars
    OBVIOUS
<1>1. ASSUME NEW p \in Producers, (\E v \in Values : Two!PushStart(p, v)) \/ Two!PushStep(p)
      PROVE  Two!Abstract!Next \/ UNCHANGED Two!Abstract!vars
    BY <1>1, TwoPushRefines, TwoNotifyRefines DEF Two!PushStep
<1>2. ASSUME NEW c \in Clients,
             Two!TryPopLock(c) \/ Two!WaitLock(c) \/ Two!WaitTest(c) \/ Two!Sleep(c)
                 \/ Two!SpuriousWakeup(c)
      PROVE  UNCHANGED Two!Abstract!vars
    BY <1>2, TwoQuietRefines
    DEF Two!TryPopLock, Two!WaitLock, Two!WaitTest, Two!Sleep, Two!SpuriousWakeup, Two!Lock,
        Two!Unlock
<1>3. ASSUME NEW c \in Clients, Two!TryPopTest(c), tq_list # <<>>
      PROVE  UNCHANGED Two!Abstract!vars
    BY <1>3, TwoQuietRefines DEF Two!TryPopTest
<1>4. CASE UNCHANGED Two!vars
    BY <1>4, TwoStutter DEF Two!vars, Two!CallOf
<1>5. ASSUME NEW c \in Clients,
             Two!TryPopStart(c) \/ Two!WaitAndPopStart(c) \/ Two!SpuriousWakeup(c)
                 \/ Two!PopStep(c)
      PROVE  Two!Abstract!Next \/ UNCHANGED Two!Abstract!vars
    <2>1. CASE Two!TryPopStart(c) \/ Two!WaitAndPopStart(c) \/ Two!Take(c) \/ Two!Return(c)
        BY <2>1, TwoPopRefines
    <2>2. CASE Two!TryPopTest(c)
        BY <2>2, <1>3, TwoPopRefines
    <2>3. QED
        BY <1>2, <1>5, <2>1, <2>2 DEF Two!PopStep
<1>6. QED
    BY <1>1, <1>4, <1>5 DEF Two!Next

\* The list starts empty.
LEMMA TwoStartsEmpty == Two!Init => Two!Abstract!Init
BY DEF Two!Init, Two!Abstract!Init, Two!Abstract!Idle, Two!CallOf

\* The queue with two locks is linearizable: its callers see a first-in
\* first-out queue that says "empty" only when it is.
THEOREM TwoLinearizable ==
    ASSUME Two!ConstantsAssumption PROVE Two!Spec => Two!ImplementsFifo
<1>1. Two!Init => Two!Abstract!Init
    BY TwoStartsEmpty
<1>2. Two!IInv /\ [Two!Next]_(Two!vars) => [Two!Abstract!Next]_(Two!Abstract!vars)
    BY TwoStepRefines
<1>3. QED
    BY TwoInvariance, <1>1, <1>2, PTL DEF Two!Spec, Two!Abstract!Spec, Two!ImplementsFifo

-----------------------------------------------------------------------------
(* SpscLinked: a pop may delete its node at once, because the producer no  *)
(* longer touches it, no node is lost, and the queue is linearizable.      *)

\* Every node is free, on the queue or held by a side.
LinkedAccounted(c) ==
    \A n \in Nodes : n \in sl_free \cup {sl_p, sl_old_head} \/ \E i \in 1 .. Len(c) : c[i] = n

LinkedIInv == Linked!TypeOK /\ Linked!LocalsOK /\ \E c \in Seq(Nodes) : Linked!Consistent(c)
    /\ LinkedAccounted(c)

\* The constructor's queue is the dummy node alone.
LEMMA LinkedInitConsistent ==
    ASSUME Linked!ConstantsAssumption, Linked!Init
    PROVE  <<sl_head>> \in Seq(Nodes) /\ Linked!Consistent(<<sl_head>>)
               /\ LinkedAccounted(<<sl_head>>)
<1>1. <<sl_head>> \in Seq(Nodes) /\ Len(<<sl_head>>) = 1 /\ <<sl_head>>[1] = sl_head
    BY DEF Linked!Init
<1>2. Linked!Consistent(<<sl_head>>)
    BY <1>1 DEF Linked!Init, Linked!Consistent
<1>3. LinkedAccounted(<<sl_head>>)
    BY <1>1 DEF Linked!Init, LinkedAccounted
<1>4. QED
    BY <1>1, <1>2, <1>3

\* The constructor establishes the invariant.
LEMMA LinkedInitIInv ==
    ASSUME Linked!ConstantsAssumption, Linked!Init PROVE LinkedIInv
<1>1. Linked!TypeOK /\ Linked!LocalsOK
    BY DEF Linked!Init, Linked!TypeOK, Linked!LocalsOK
<1>2. PICK c \in Seq(Nodes) : c = <<sl_head>>
    BY LinkedInitConsistent
<1>3. QED
    BY <1>1, <1>2, LinkedInitConsistent DEF LinkedIInv

\* Every step keeps the types.
LEMMA LinkedStepTypeOK ==
    ASSUME Linked!ConstantsAssumption, Linked!TypeOK, NEW c \in Seq(Nodes),
           Linked!Consistent(c), Linked!Next
    PROVE  Linked!TypeOK'
<1> USE DEF Linked!TypeOK, Linked!node, Linked!push_vars, Linked!pop_vars, Linked!PushGoto,
            Linked!PopGoto
<1>1. ASSUME NEW v \in Values, Linked!PushStart(v) PROVE Linked!TypeOK'
    BY <1>1 DEF Linked!PushStart
<1>2. CASE Linked!PushData
    BY <1>2 DEF Linked!PushData
<1>3. CASE Linked!PushNext
    BY <1>3 DEF Linked!PushNext
<1>4. CASE Linked!PushTail
    BY <1>4 DEF Linked!PushTail, Linked!Consistent
<1>5. CASE Linked!PopStart \/ Linked!TestTail \/ Linked!ReturnEmpty \/ Linked!LoadNext
    BY <1>5 DEF Linked!PopStart, Linked!TestTail, Linked!ReturnEmpty, Linked!LoadNext
<1>6. CASE Linked!StoreHead
    <2>1. Len(c) \in Nat /\ Len(c) # 0 /\ \A i \in 1 .. Len(c) : c[i] \in Nodes
        BY EmptySeq, ElementOfSeq, LenProperties DEF Linked!Consistent
    <2>2. sl_old_head = c[1] /\ sl_nxt = sl_next[c[1]] /\ c[1] # c[Len(c)]
        BY <1>6 DEF Linked!StoreHead, Linked!Consistent
    <2>3. 1 \in 1 .. Len(c) - 1 /\ 1 + 1 \in 1 .. Len(c)
        BY <2>1, <2>2
    <2>4. sl_nxt \in Nodes
        BY <2>1, <2>2, <2>3 DEF Linked!Consistent
    <2>5. QED
        BY <1>6, <2>4 DEF Linked!StoreHead
<1>7. CASE Linked!ReadData
    <2>1. sl_data[sl_old_head] \in Values \cup {Null}
        BY <1>7 DEF Linked!ReadData, Linked!Consistent
    <2>2. QED
        BY <1>7, <2>1 DEF Linked!ReadData
<1>8. CASE Linked!Delete
    BY <1>8 DEF Linked!Delete, Linked!Consistent
<1>9. QED
    BY <1>1, <1>2, <1>3, <1>4, <1>5, <1>6, <1>7, <1>8
    DEF Linked!Next, Linked!Push, Linked!Pop, Linked!PopHead

\* Every step keeps what is known of the locals.
LEMMA LinkedStepLocalsOK ==
    ASSUME Linked!ConstantsAssumption, Linked!TypeOK, Linked!LocalsOK, NEW c \in Seq(Nodes),
           Linked!Consistent(c), Linked!Next
    PROVE  Linked!LocalsOK'
<1> USE DEF Linked!TypeOK, Linked!LocalsOK, Linked!node, Linked!push_vars, Linked!pop_vars,
            Linked!PushGoto, Linked!PopGoto
<1>1. ASSUME NEW v \in Values, Linked!PushStart(v) PROVE Linked!LocalsOK'
    BY <1>1 DEF Linked!PushStart
<1>2. CASE Linked!PushData
    BY <1>2 DEF Linked!PushData, Linked!Consistent
<1>3. CASE Linked!PushNext \/ Linked!PushTail
    BY <1>3 DEF Linked!PushNext, Linked!PushTail
<1>4. CASE Linked!Pop
    BY <1>4
    DEF Linked!Pop, Linked!PopHead, Linked!PopStart, Linked!TestTail, Linked!ReturnEmpty,
        Linked!LoadNext, Linked!StoreHead, Linked!ReadData, Linked!Delete
<1>5. QED
    BY <1>1, <1>2, <1>3, <1>4 DEF Linked!Next, Linked!Push

\* A step of push up to the store of tail_ leaves the chain.
LEMMA LinkedPushStartKeeps ==
    ASSUME Linked!ConstantsAssumption, Linked!TypeOK, Linked!LocalsOK, NEW c \in Seq(Nodes),
           Linked!Consistent(c),
           NEW v \in Values, Linked!PushStart(v)
    PROVE  Linked!Consistent(c)' /\ (LinkedAccounted(c) => LinkedAccounted(c)')
<1> USE DEF Linked!PushStart, Linked!PushGoto, Linked!pop_vars
<1>1. Len(c) \in Nat /\ Len(c) # 0 /\ \A i \in 1 .. Len(c) : c[i] \in Nodes
    BY EmptySeq, ElementOfSeq, LenProperties DEF Linked!Consistent
<1>2. sl_p = Null
    BY DEF Linked!LocalsOK
<1>3. \A i \in 1 .. Len(c) - 1 : i \in 1 .. Len(c)
    BY <1>1
<1>4. \A i \in 1 .. Len(c) : c[i] # sl_p' /\ sl_next'[c[i]] = sl_next[c[i]]
    BY <1>1 DEF Linked!Consistent, Linked!TypeOK
<1>5. sl_p' \in sl_free /\ sl_p' \in Nodes /\ sl_free' = sl_free \ {sl_p'}
    BY DEF Linked!TypeOK
<1>6. sl_pop_pc \in {"next", "store"} => sl_next'[sl_old_head] = sl_next[sl_old_head]
    <2>1. 1 \in 1 .. Len(c)
        BY <1>1
    <2>2. QED
        BY <1>4, <2>1 DEF Linked!Consistent
<1>7. sl_pop_pc \in {"data", "delete"} => sl_old_head # sl_p'
    BY <1>5 DEF Linked!Consistent
<1>8. Linked!Consistent(c)'
    BY <1>1, <1>3, <1>4, <1>5, <1>6, <1>7 DEF Linked!Consistent
<1>9. LinkedAccounted(c) => LinkedAccounted(c)'
    BY <1>2, <1>5 DEF LinkedAccounted, Linked!ConstantsAssumption
<1>10. QED
    BY <1>8, <1>9

\* The last node of the queue points to the new one, and is still the last.
LEMMA LinkedPushNextKeeps ==
    ASSUME Linked!ConstantsAssumption, Linked!TypeOK, NEW c \in Seq(Nodes),
           Linked!Consistent(c), Linked!PushNext
    PROVE  Linked!Consistent(c)' /\ (LinkedAccounted(c) => LinkedAccounted(c)')
<1> USE DEF Linked!PushNext, Linked!PushGoto, Linked!pop_vars
<1>1. Len(c) \in Nat /\ Len(c) # 0 /\ \A i \in 1 .. Len(c) : c[i] \in Nodes
    BY EmptySeq, ElementOfSeq, LenProperties DEF Linked!Consistent
<1>3. \A i \in 1 .. Len(c) - 1 :
        i \in 1 .. Len(c) /\ Len(c) \in 1 .. Len(c) /\ i # Len(c)
    BY <1>1
<1>4. \A i \in 1 .. Len(c) - 1 : c[i] # sl_tail /\ sl_next'[c[i]] = sl_next[c[i]]
    BY <1>1, <1>3 DEF Linked!Consistent, Linked!TypeOK
<1>5. sl_next'[sl_tail] = sl_p
    BY DEF Linked!Consistent, Linked!TypeOK
<1>6. sl_pop_pc = "store" => sl_next'[sl_old_head] = sl_next[sl_old_head]
    BY DEF Linked!Consistent, Linked!TypeOK
<1>7. Linked!Consistent(c)'
    BY <1>1, <1>4, <1>5, <1>6 DEF Linked!Consistent, Linked!TypeOK
<1>8. LinkedAccounted(c) => LinkedAccounted(c)'
    BY DEF LinkedAccounted, Linked!node
<1>9. QED
    BY <1>7, <1>8

\* The store of tail_ puts the new node at the end of the chain.
LEMMA LinkedPushTailKeeps ==
    ASSUME Linked!ConstantsAssumption, Linked!TypeOK, NEW c \in Seq(Nodes),
           Linked!Consistent(c), Linked!PushTail
    PROVE  \E d \in Seq(Nodes) :
            d = Append(c, sl_p) /\ Linked!Consistent(d)' /\ (LinkedAccounted(c)
                => LinkedAccounted(d)')
<1> USE DEF Linked!PushTail, Linked!PushGoto, Linked!pop_vars, Linked!node
<1>1. Len(c) \in Nat /\ Len(c) # 0 /\ \A i \in 1 .. Len(c) : c[i] \in Nodes
    BY EmptySeq, ElementOfSeq, LenProperties DEF Linked!Consistent
<1>2. sl_p \in Nodes /\ sl_p \notin sl_free /\ sl_next[sl_tail] = sl_p /\ sl_p # sl_tail
    <2>1. Len(c) \in 1 .. Len(c)
        BY <1>1
    <2>2. QED
        BY <2>1 DEF Linked!Consistent
<1>4. PICK d \in Seq(Nodes) :
        /\ d # <<>>
        /\ d = Append(c, sl_p)
        /\ Len(d) = Len(c) + 1
        /\ \A i \in 1 .. Len(c) : d[i] = c[i]
        /\ d[Len(c) + 1] = sl_p
    BY <1>2, AppendProperties
<1>5. d[1] = sl_head /\ d[Len(d)] = sl_tail'
    <2>1. 1 \in 1 .. Len(c)
        BY <1>1
    <2>2. QED
        BY <1>4, <2>1 DEF Linked!Consistent
<1>6. ASSUME NEW i \in 1 .. Len(d) - 1 PROVE sl_next[d[i]] = d[i + 1]
    <2>1. i \in 1 .. Len(c)
        BY <1>1, <1>4
    <2>2. CASE i = Len(c)
        BY <1>2, <1>4, <2>1, <2>2 DEF Linked!Consistent
    <2>3. CASE i # Len(c)
        <3>1. i \in 1 .. Len(c) - 1 /\ i + 1 \in 1 .. Len(c)
            BY <1>1, <2>1, <2>3
        <3>2. QED
            BY <1>4, <2>1, <3>1 DEF Linked!Consistent
    <2>4. QED
        BY <2>2, <2>3
<1>7. ASSUME NEW i \in 1 .. Len(d)
      PROVE  (i \in 1 .. Len(c) /\ d[i] = c[i]) \/ (i = Len(c) + 1 /\ d[i] = sl_p)
    BY <1>1, <1>4
<1>8. \A i \in 1 .. Len(d) :
        d[i] \notin sl_free /\ (sl_pop_pc \in {"data", "delete"} => d[i] # sl_old_head)
    BY <1>2, <1>7 DEF Linked!Consistent
<1>9. \A i, j \in 1 .. Len(d) : d[i] = d[j] => i = j
    BY <1>7 DEF Linked!Consistent
<1>10. sl_pop_pc \in {"next", "store"} => sl_old_head # sl_tail'
    <2>1. 1 \in 1 .. Len(c)
        BY <1>1
    <2>2. QED
        BY <2>1 DEF Linked!Consistent
<1>11. Linked!Consistent(d)'
    BY <1>4, <1>5, <1>6, <1>8, <1>9, <1>10 DEF Linked!Consistent
<1>12. LinkedAccounted(c) => LinkedAccounted(d)'
    <2> SUFFICES ASSUME LinkedAccounted(c), NEW n \in Nodes
                 PROVE  n \in sl_free \cup {sl_p', sl_old_head}
                            \/ \E i \in 1 .. Len(d) : d[i] = n
        BY DEF LinkedAccounted
    <2>1. Len(c) + 1 \in 1 .. Len(d) /\ \A i \in 1 .. Len(c) : i \in 1 .. Len(d)
        BY <1>1, <1>4
    <2>2. CASE n = sl_p
        BY <1>4, <2>1, <2>2
    <2>3. CASE n # sl_p
        BY <1>4, <2>1, <2>3 DEF LinkedAccounted
    <2>4. QED
        BY <2>2, <2>3
<1>13. QED
    BY <1>4, <1>11, <1>12

-----------------------------------------------------------------------------
\* The steps that move no pointer of the queue: they leave the chain, and what
\* a pop has found out holds as long as the producer only appends.
LEMMA LinkedQuietKeeps ==
    ASSUME Linked!ConstantsAssumption, Linked!TypeOK, Linked!LocalsOK, NEW c \in Seq(Nodes),
           Linked!Consistent(c),
           \/ Linked!PushData \/ Linked!PopStart \/ Linked!TestTail
           \/ Linked!ReturnEmpty \/ Linked!LoadNext \/ Linked!ReadData
    PROVE  Linked!Consistent(c)' /\ (LinkedAccounted(c) => LinkedAccounted(c)')
<1>1. CASE Linked!PushData
    BY <1>1
    DEF Linked!PushData, Linked!PushGoto, Linked!pop_vars, Linked!Consistent,
        LinkedAccounted
<1>2. CASE Linked!PopStart \/ Linked!TestTail \/ Linked!ReturnEmpty \/ Linked!LoadNext
    <2>1. Linked!Consistent(c)'
        BY <1>2
        DEF Linked!PopStart, Linked!TestTail, Linked!ReturnEmpty, Linked!LoadNext,
            Linked!PopGoto, Linked!node, Linked!push_vars, Linked!Consistent
    <2>2. /\ sl_free' = sl_free /\ sl_p' = sl_p
          /\ sl_old_head' # sl_old_head => sl_old_head \in {Null, sl_head}
        BY <1>2
        DEF Linked!PopStart, Linked!TestTail, Linked!ReturnEmpty, Linked!LoadNext,
            Linked!PopGoto, Linked!node, Linked!push_vars, Linked!LocalsOK,
            Linked!Consistent
    <2>3. 1 \in 1 .. Len(c) /\ c[1] = sl_head
        BY EmptySeq, LenProperties DEF Linked!Consistent
    <2>4. LinkedAccounted(c) => LinkedAccounted(c)'
        BY <2>2, <2>3 DEF LinkedAccounted, Linked!ConstantsAssumption
    <2>5. QED
        BY <2>1, <2>4
<1>3. CASE Linked!ReadData
    BY <1>3
    DEF Linked!ReadData, Linked!PopGoto, Linked!node, Linked!push_vars, Linked!Consistent,
        LinkedAccounted
<1>4. QED
    BY <1>1, <1>2, <1>3

\* The store of head_ takes the first node off the chain; from then on it is
\* the consumer's alone.
LEMMA LinkedStoreHeadKeeps ==
    ASSUME Linked!ConstantsAssumption, Linked!TypeOK, NEW c \in Seq(Nodes),
           Linked!Consistent(c), Linked!StoreHead
    PROVE  /\ Len(c) >= 2 /\ Tail(c) \in Seq(Nodes) /\ Linked!Consistent(Tail(c))'
           /\ LinkedAccounted(c) => LinkedAccounted(Tail(c))'
<1> USE DEF Linked!StoreHead, Linked!PopGoto, Linked!node, Linked!push_vars
<1>1. Len(c) \in Nat /\ Len(c) # 0 /\ \A i \in 1 .. Len(c) : c[i] \in Nodes
    BY EmptySeq, ElementOfSeq, LenProperties DEF Linked!Consistent
<1>2. sl_old_head = c[1] /\ sl_nxt = sl_next[c[1]] /\ c[1] # c[Len(c)]
    BY DEF Linked!Consistent
<1>3. Len(c) >= 2
    BY <1>1, <1>2
<1>4. sl_nxt = c[2] /\ c[2] \in Nodes
    <2>1. 1 \in 1 .. Len(c) - 1 /\ 1 + 1 = 2 /\ 2 \in 1 .. Len(c)
        BY <1>1, <1>3
    <2>2. sl_next[c[1]] = c[1 + 1]
        BY <2>1 DEF Linked!Consistent
    <2>3. QED
        BY <1>1, <1>2, <2>1, <2>2
<1>5. /\ Tail(c) \in Seq(Nodes)
      /\ Len(Tail(c)) = Len(c) - 1
      /\ \A i \in 1 .. Len(Tail(c)) : Tail(c)[i] = c[i + 1]
    <2>1. c # <<>>
        BY DEF Linked!Consistent
    <2>2. QED
        BY ONLY <2>1, c \in Seq(Nodes), HeadTailProperties
<1> DEFINE d == Tail(c)
<1>6. /\ d \in Seq(Nodes)
      /\ Len(d) = Len(c) - 1
      /\ \A i \in 1 .. Len(d) : d[i] = c[i + 1]
    BY <1>5
<1> HIDE DEF d
<1>7. Len(d) \in Nat /\ Len(d) >= 1 /\ d # <<>>
    BY <1>1, <1>3, <1>6, EmptySeq
<1>8. \A i \in 1 .. Len(d) : i + 1 \in 1 .. Len(c) /\ i + 1 # 1 /\ 1 \in 1 .. Len(c)
    BY <1>1, <1>6
<1>9. d[1] = sl_nxt /\ d[Len(d)] = sl_tail
    <2>1. d[1] = c[1 + 1] /\ d[Len(d)] = c[Len(d) + 1] /\ Len(d) + 1 = Len(c)
        BY <1>1, <1>6, <1>7
    <2>2. QED
        BY <1>4, <2>1 DEF Linked!Consistent
<1>10. ASSUME NEW i \in 1 .. Len(d) - 1 PROVE sl_next[d[i]] = d[i + 1]
    <2>1. /\ i \in 1 .. Len(d) /\ i + 1 \in 1 .. Len(d)
          /\ i + 1 \in 1 .. Len(c) - 1
        BY <1>1, <1>6, <1>7
    <2>2. sl_next[c[i + 1]] = c[i + 1 + 1]
        BY <2>1 DEF Linked!Consistent
    <2>3. QED
        BY <1>6, <2>1, <2>2
<1>11. ASSUME NEW i \in 1 .. Len(d), NEW j \in 1 .. Len(d), d[i] = d[j] PROVE i = j
    <2>1. c[i + 1] = c[j + 1]
        BY <1>6, <1>11
    <2>2. i + 1 = j + 1
        BY <1>8, <2>1 DEF Linked!Consistent
    <2>3. QED
        BY <2>2
<1>12. \A i \in 1 .. Len(d) : d[i] \notin sl_free /\ d[i] # sl_old_head
    BY <1>2, <1>6, <1>8 DEF Linked!Consistent
<1>13. \A i \in 1 .. Len(d) : sl_push_pc # "idle" => d[i] # sl_p
    BY <1>6, <1>8 DEF Linked!Consistent
<1>14. sl_old_head \in Nodes \ sl_free /\ (sl_push_pc # "idle" => sl_old_head # sl_p)
    <2>1. 1 \in 1 .. Len(c)
        BY <1>1
    <2>2. QED
        BY <1>1, <1>2, <2>1 DEF Linked!Consistent
<1>15. Linked!Consistent(d)'
    BY <1>7, <1>9, <1>10, <1>11, <1>12, <1>13, <1>14 DEF Linked!Consistent
<1>16. LinkedAccounted(c) => LinkedAccounted(d)'
    <2> SUFFICES ASSUME LinkedAccounted(c), NEW n \in Nodes
                 PROVE  n \in sl_free \cup {sl_p, sl_old_head}
                            \/ \E i \in 1 .. Len(d) : d[i] = n
        BY DEF LinkedAccounted
    <2>1. ASSUME NEW i \in 1 .. Len(c), c[i] = n, i # 1
          PROVE  i - 1 \in 1 .. Len(d) /\ d[i - 1] = n
        BY <1>1, <1>6, <2>1
    <2>2. QED
        BY <1>2, <2>1 DEF LinkedAccounted
<1>17. QED
    BY <1>3, <1>6, <1>15, <1>16 DEF d

\* The node deleted is on no chain and is not the one a push is adding.
LEMMA LinkedDeleteKeeps ==
    ASSUME Linked!ConstantsAssumption, Linked!TypeOK, NEW c \in Seq(Nodes),
           Linked!Consistent(c), Linked!Delete
    PROVE  Linked!Consistent(c)' /\ (LinkedAccounted(c) => LinkedAccounted(c)')
<1> USE DEF Linked!Delete, Linked!PopGoto, Linked!push_vars
<1>1. Linked!Consistent(c)'
    BY DEF Linked!Consistent
<1>2. LinkedAccounted(c) => LinkedAccounted(c)'
    BY DEF LinkedAccounted
<1>3. QED
    BY <1>1, <1>2

\* A step of the queue: what it makes of the chain of nodes.
LEMMA LinkedStepChain ==
    ASSUME Linked!ConstantsAssumption, Linked!TypeOK, Linked!LocalsOK, NEW c \in Seq(Nodes),
           Linked!Consistent(c),
           LinkedAccounted(c), Linked!Next
    PROVE  \E d \in Seq(Nodes) :
            /\ Linked!Consistent(d)' /\ LinkedAccounted(d)'
            /\ Linked!PushTail => d = Append(c, sl_p)
            /\ Linked!StoreHead => Len(c) >= 2 /\ d = Tail(c)
            /\ ~Linked!PushTail /\ ~Linked!StoreHead => d = c
<1>1. ~(Linked!PushTail /\ Linked!StoreHead)
    BY DEF Linked!PushTail, Linked!StoreHead, Linked!PushGoto, Linked!PopGoto,
        Linked!push_vars, Linked!TypeOK
<1>2. CASE Linked!PushTail
    BY <1>1, <1>2, LinkedPushTailKeeps
<1>3. CASE Linked!StoreHead
    BY <1>1, <1>3, LinkedStoreHeadKeeps
<1>4. CASE ~Linked!PushTail /\ ~Linked!StoreHead
    <2>1. Linked!Consistent(c)' /\ LinkedAccounted(c)'
        BY <1>4, LinkedPushStartKeeps, LinkedQuietKeeps, LinkedPushNextKeeps,
            LinkedDeleteKeeps
        DEF Linked!Next, Linked!Push, Linked!Pop, Linked!PopHead
    <2>2. QED
        BY <1>4, <2>1
<1>5. QED
    BY <1>2, <1>3, <1>4

\* No step breaks the invariant.
LEMMA LinkedStepIInv ==
    ASSUME Linked!ConstantsAssumption
    PROVE  LinkedIInv /\ [Linked!Next]_(Linked!vars) => LinkedIInv'
<1> SUFFICES ASSUME LinkedIInv, [Linked!Next]_(Linked!vars) PROVE LinkedIInv'
    OBVIOUS
<1>1. PICK c \in Seq(Nodes) : Linked!Consistent(c) /\ LinkedAccounted(c)
    BY DEF LinkedIInv
<1>2. Linked!TypeOK /\ Linked!LocalsOK
    BY DEF LinkedIInv
<1>3. CASE Linked!Next
    BY <1>1, <1>2, <1>3, LinkedStepTypeOK, LinkedStepLocalsOK, LinkedStepChain
    DEF LinkedIInv
<1>4. CASE UNCHANGED Linked!vars
    BY <1>1, <1>2, <1>4
    DEF Linked!vars, Linked!node, Linked!push_vars, Linked!pop_vars, LinkedIInv,
        Linked!TypeOK, Linked!LocalsOK, Linked!Consistent, LinkedAccounted
<1>5. QED
    BY <1>3, <1>4

-----------------------------------------------------------------------------
(* The chain of nodes that Linked!Linked finds *)

\* There are no more nodes in a list without repetitions than nodes.
LEMMA LinkedLenBound ==
    ASSUME Linked!ConstantsAssumption, NEW c \in Seq(Nodes),
           \A i, j \in 1 .. Len(c) : c[i] = c[j] => i = j
    PROVE  /\ Linked!Cardinality(Nodes) \in Nat
           /\ Len(c) <= Linked!Cardinality(Nodes)
<1>1. IsFiniteSet(Nodes)
    BY DEF Linked!ConstantsAssumption, Linked!IsFiniteSet, IsFiniteSet
<1>2. Linked!Cardinality(Nodes) = Cardinality(Nodes)
    BY DEF Linked!Cardinality, Cardinality
<1>3. Cardinality(Nodes) \in Nat /\ Len(c) <= Cardinality(Nodes)
    BY <1>1, LenBound
<1>4. QED
    BY <1>2, <1>3

\* What the definition of Chain asks of it at k.
LinkedChainStep(f, k) ==
    IF k = 0 THEN <<sl_head>>
    ELSE LET c == f[k - 1]
         IN  IF c[Len(c)] \in {sl_tail, Null} THEN c ELSE Append(c, sl_next[c[Len(c)]])

\* The first node of the queue and k more, or all of them.
LinkedPrefix(c, k) == SubSeq(c, 1, IF k < Len(c) THEN k + 1 ELSE Len(c))

\* A prefix has the first nodes of the queue, and the next one adds one.
LEMMA LinkedPrefixProperties ==
    ASSUME NEW c \in Seq(Nodes), c # <<>>, NEW k \in Nat
    PROVE  /\ LinkedPrefix(c, 0) = <<c[1]>>
           /\ LinkedPrefix(c, k) \in Seq(Nodes)
           /\ Len(LinkedPrefix(c, k)) = IF k < Len(c) THEN k + 1 ELSE Len(c)
           /\ \A i \in 1 .. Len(LinkedPrefix(c, k)) : LinkedPrefix(c, k)[i] = c[i]
           /\ k + 1 < Len(c) => LinkedPrefix(c, k + 1) = Append(LinkedPrefix(c, k), c[k + 2])
           /\ k + 1 >= Len(c) => LinkedPrefix(c, k) = c
<1>1. Len(c) \in Nat /\ Len(c) # 0
    BY EmptySeq, LenProperties
<1>2. LinkedPrefix(c, 0) = <<c[1]>>
    <2>1. LinkedPrefix(c, 0) = SubSeq(c, 1, 1) /\ c[1] \in Nodes
        BY <1>1 DEF LinkedPrefix
    <2>2. /\ <<c[1]>> \in Seq(Nodes) /\ SubSeq(c, 1, 1) \in Seq(Nodes)
          /\ Len(SubSeq(c, 1, 1)) = Len(<<c[1]>>)
          /\ \A i \in 1 .. Len(SubSeq(c, 1, 1)) : SubSeq(c, 1, 1)[i] = <<c[1]>>[i]
        BY <1>1, <2>1
    <2>3. SubSeq(c, 1, 1) = <<c[1]>>
        BY ONLY <2>2, SeqEqual
    <2>4. QED
        BY <2>1, <2>3
<1>3. /\ LinkedPrefix(c, k) \in Seq(Nodes)
      /\ Len(LinkedPrefix(c, k)) = IF k < Len(c) THEN k + 1 ELSE Len(c)
      /\ \A i \in 1 .. Len(LinkedPrefix(c, k)) : LinkedPrefix(c, k)[i] = c[i]
    BY <1>1 DEF LinkedPrefix
<1>4. k + 1 < Len(c) => LinkedPrefix(c, k + 1) = Append(LinkedPrefix(c, k), c[k + 2])
    BY <1>1, SMTT(30) DEF LinkedPrefix
<1>5. k + 1 >= Len(c) => LinkedPrefix(c, k) = c
    BY <1>1, SMTT(30) DEF LinkedPrefix
<1>6. QED
    BY <1>2, <1>3, <1>4, <1>5

\* Whatever chain leads from head_ to tail_, Chain follows it to its end: Chain exists
\* because the prefixes of the queue satisfy its equation, and is unique by induction
\* on the number of links.
LinkedChainReachesAll == \A c \in Seq(Nodes) : Linked!Consistent(c) => Linked!Linked = c

\* The nodes that the mapping reads one after the other are those of the chain.
LEMMA LinkedLinkedIs ==
    ASSUME Linked!ConstantsAssumption PROVE LinkedChainReachesAll
<1> SUFFICES ASSUME NEW c \in Seq(Nodes), Linked!Consistent(c)
             PROVE  Linked!Linked = c
    BY DEF LinkedChainReachesAll
<1>1. /\ Len(c) \in Nat /\ Len(c) # 0 /\ c # <<>>
      /\ \A i \in 1 .. Len(c) : c[i] \in Nodes /\ c[i] # Null
    BY EmptySeq, ElementOfSeq, LenProperties
    DEF Linked!Consistent, Linked!ConstantsAssumption
<1>2. ASSUME NEW f, NEW k \in Nat, k > 0 => f[k - 1] = LinkedPrefix(c, k - 1)
      PROVE  LinkedChainStep(f, k) = LinkedPrefix(c, k)
    <2>1. CASE k = 0
        BY <1>1, <2>1, LinkedPrefixProperties DEF LinkedChainStep, Linked!Consistent
    <2>2. CASE k > 0
        <3> DEFINE p0 == LinkedPrefix(c, k - 1)
        <3>1. k - 1 \in Nat /\ f[k - 1] = p0 /\ (k - 1) + 1 = k /\ (k - 1) + 2 = k + 1
            BY <1>2, <2>2
        <3>2. /\ p0 \in Seq(Nodes)
              /\ Len(p0) = IF k - 1 < Len(c) THEN k ELSE Len(c)
              /\ \A i \in 1 .. Len(p0) : p0[i] = c[i]
              /\ k < Len(c) => LinkedPrefix(c, k) = Append(p0, c[k + 1])
              /\ k >= Len(c) => p0 = c
            BY <1>1, <3>1, LinkedPrefixProperties
        <3>3. k >= Len(c) => LinkedPrefix(c, k) = c
            BY <1>1, LinkedPrefixProperties
        <3> HIDE DEF p0
        <3>4. LinkedChainStep(f, k) = IF p0[Len(p0)] \in {sl_tail, Null} THEN p0
                                      ELSE Append(p0, sl_next[p0[Len(p0)]])
            BY <2>2, <3>1 DEF LinkedChainStep
        <3>5. CASE k < Len(c)
            <4>1. Len(p0) = k /\ k \in 1 .. Len(c) - 1 /\ k \in 1 .. Len(c)
                  /\ Len(c) \in 1 .. Len(c) /\ p0[k] = c[k]
                BY <1>1, <2>2, <3>1, <3>2, <3>5
            <4>2. c[k] # sl_tail /\ c[k] # Null /\ sl_next[c[k]] = c[k + 1]
                BY <1>1, <3>5, <4>1 DEF Linked!Consistent
            <4> QED
                BY <3>2, <3>4, <3>5, <4>1, <4>2
        <3>6. CASE k >= Len(c)
            BY <1>1, <3>2, <3>3, <3>4, <3>6 DEF Linked!Consistent
        <3> QED
            BY <1>1, <3>5, <3>6
    <2> QED
        BY <2>1, <2>2
<1>3. \A k \in Nat : Linked!Chain[k] = LinkedChainStep(Linked!Chain, k)
    <2> DEFINE f == [k \in Nat |-> LinkedPrefix(c, k)]
    <2>1. f = [k \in Nat |-> LinkedChainStep(f, k)]
        <3>1. ASSUME NEW k \in Nat PROVE f[k] = LinkedChainStep(f, k)
            BY <1>2
        <3> QED
            BY <3>1
    <2>2. Linked!Chain = CHOOSE g : g = [k \in Nat |-> LinkedChainStep(g, k)]
        BY DEF Linked!Chain, LinkedChainStep, Linked!Last
    <2>3. Linked!Chain = [k \in Nat |-> LinkedChainStep(Linked!Chain, k)]
        BY <2>1, <2>2
    <2> QED
        BY <2>3
<1>4. \A k \in Nat : Linked!Chain[k] = LinkedPrefix(c, k)
    <2> DEFINE S == {k \in Nat : Linked!Chain[k] = LinkedPrefix(c, k)}
    <2>1. 0 \in S
        BY <1>2, <1>3
    <2>2. ASSUME NEW k \in Nat, k \in S
          PROVE  k + 1 \in S
        <3>1. LinkedChainStep(Linked!Chain, k + 1) = LinkedPrefix(c, k + 1)
            BY <1>2, <2>2
        <3> QED
            BY <1>3, <3>1
    <2>3. Nat \subseteq S
        <3> HIDE DEF S
        <3> QED
            BY <2>1, <2>2, SetInduction
    <2> QED
        BY <2>3
<1>5. Linked!Cardinality(Nodes) \in Nat /\ Len(c) <= Linked!Cardinality(Nodes)
    BY LinkedLenBound DEF Linked!Consistent
<1>6. LinkedPrefix(c, Linked!Cardinality(Nodes)) = c
    BY <1>1, <1>5, LinkedPrefixProperties
<1> QED
    BY <1>4, <1>5, <1>6 DEF Linked!Linked

\* A chain that leads from head_ to tail_ is the one that Linked finds.
LEMMA LinkedQueueIs ==
    ASSUME Linked!ConstantsAssumption, NEW c \in Seq(Nodes), Linked!Consistent(c)
    PROVE  Linked!Linked = c
BY LinkedLinkedIs DEF LinkedChainReachesAll

\* The same of the state after a step.
LEMMA LinkedQueueIsAfter ==
    ASSUME Linked!ConstantsAssumption, NEW c \in Seq(Nodes), Linked!Consistent(c)'
    PROVE  Linked!Linked' = c
<1>1. LinkedChainReachesAll'
    BY LinkedLinkedIs, PTL
<1>2. QED
    BY <1>1 DEF LinkedChainReachesAll

-----------------------------------------------------------------------------
(* The values queued *)

\* The values of the nodes c but the last, which is the dummy, when f says what each
\* node holds.
LinkedContents(f, c) == [i \in 1 .. Len(c) - 1 |-> f[c[i]]]

\* What the data of a node may be.
LinkedHeld == Values \cup {Null}

\* Contents is a sequence of values, one for each node but the dummy.
LEMMA LinkedContentsType ==
    ASSUME NEW f \in [Nodes -> LinkedHeld], NEW c \in Seq(Nodes), c # <<>>
    PROVE  /\ Len(c) - 1 \in Nat
           /\ LinkedContents(f, c) \in Seq(LinkedHeld)
           /\ Len(LinkedContents(f, c)) = Len(c) - 1
           /\ \A i \in 1 .. Len(c) - 1 : LinkedContents(f, c)[i] = f[c[i]]
<1>1. Len(c) \in Nat /\ Len(c) # 0 /\ \A i \in 1 .. Len(c) : c[i] \in Nodes
    BY EmptySeq, ElementOfSeq, LenProperties
<1>2. Len(c) - 1 \in Nat
    BY <1>1
<1>3. LinkedContents(f, c) \in [1 .. Len(c) - 1 -> LinkedHeld]
    BY <1>1 DEF LinkedContents
<1>4. LinkedContents(f, c) \in Seq(LinkedHeld) /\ Len(LinkedContents(f, c)) = Len(c) - 1
    BY <1>2, <1>3
<1>5. QED
    BY <1>2, <1>4 DEF LinkedContents

\* A node at the end turns the dummy before it into a value.
LEMMA LinkedContentsAppend ==
    ASSUME NEW f \in [Nodes -> LinkedHeld], NEW c \in Seq(Nodes), c # <<>>, NEW n \in Nodes
    PROVE  LinkedContents(f, Append(c, n)) = Append(LinkedContents(f, c), f[c[Len(c)]])
<1> DEFINE d == Append(c, n)
           e == Append(LinkedContents(f, c), f[c[Len(c)]])
<1>1. Len(c) \in Nat /\ Len(c) # 0 /\ \A i \in 1 .. Len(c) : c[i] \in Nodes
    BY EmptySeq, ElementOfSeq, LenProperties
<1>2. /\ d \in Seq(Nodes) /\ d # <<>> /\ Len(d) = Len(c) + 1
      /\ \A i \in 1 .. Len(c) : d[i] = c[i]
    BY AppendProperties
<1>3. /\ LinkedContents(f, c) \in Seq(LinkedHeld) /\ Len(LinkedContents(f, c)) = Len(c) - 1
      /\ \A i \in 1 .. Len(c) - 1 : LinkedContents(f, c)[i] = f[c[i]]
    BY LinkedContentsType
<1>4. f[c[Len(c)]] \in LinkedHeld
    BY <1>1
<1>5. /\ e \in Seq(LinkedHeld) /\ Len(e) = Len(c)
      /\ \A i \in 1 .. Len(c) - 1 : e[i] = LinkedContents(f, c)[i]
      /\ e[Len(c)] = f[c[Len(c)]]
    BY <1>1, <1>3, <1>4, AppendProperties
<1>6. /\ LinkedContents(f, d) \in Seq(LinkedHeld) /\ Len(LinkedContents(f, d)) = Len(d) - 1
      /\ \A i \in 1 .. Len(d) - 1 : LinkedContents(f, d)[i] = f[d[i]]
    BY <1>2, LinkedContentsType
<1> HIDE DEF d, e
<1>7. Len(LinkedContents(f, d)) = Len(e)
    BY <1>1, <1>2, <1>5, <1>6
<1>8. ASSUME NEW i \in 1 .. Len(LinkedContents(f, d)) PROVE LinkedContents(f, d)[i] = e[i]
    <2>1. i \in 1 .. Len(c) /\ LinkedContents(f, d)[i] = f[c[i]]
        BY <1>1, <1>2, <1>6
    <2>2. CASE i = Len(c)
        BY <1>5, <2>1, <2>2
    <2>3. CASE i # Len(c)
        BY <1>1, <1>3, <1>5, <2>1, <2>3
    <2>4. QED
        BY <2>2, <2>3
<1>9. LinkedContents(f, d) = e
    BY ONLY <1>5, <1>6, <1>7, <1>8, SeqEqual
<1>10. QED
    BY <1>9 DEF d, e

\* Without its first node the queue has the values without the first.
LEMMA LinkedContentsTail ==
    ASSUME NEW f \in [Nodes -> LinkedHeld], NEW c \in Seq(Nodes), Len(c) >= 2
    PROVE  /\ LinkedContents(f, c) # <<>>
           /\ Head(LinkedContents(f, c)) = f[c[1]]
           /\ LinkedContents(f, Tail(c)) = Tail(LinkedContents(f, c))
<1> DEFINE v == LinkedContents(f, c)
           d == Tail(c)
<1>1. Len(c) \in Nat /\ c # <<>>
    BY EmptySeq, LenProperties
<1>2. /\ v \in Seq(LinkedHeld) /\ Len(v) = Len(c) - 1
      /\ \A i \in 1 .. Len(c) - 1 : v[i] = f[c[i]]
    BY <1>1, LinkedContentsType
<1>3. /\ d \in Seq(Nodes) /\ Len(d) = Len(c) - 1
      /\ \A i \in 1 .. Len(d) : d[i] = c[i + 1]
    BY ONLY c \in Seq(Nodes), <1>1, HeadTailProperties
<1> HIDE DEF v, d
<1>4. d # <<>>
    BY <1>1, <1>3, EmptySeq
<1>5. /\ LinkedContents(f, d) \in Seq(LinkedHeld) /\ Len(LinkedContents(f, d)) = Len(d) - 1
      /\ \A i \in 1 .. Len(d) - 1 : LinkedContents(f, d)[i] = f[d[i]]
    BY <1>3, <1>4, LinkedContentsType
<1>6. v # <<>> /\ Head(v) = v[1] /\ 1 \in 1 .. Len(c) - 1
    <2>1. 1 \in 1 .. Len(c) - 1 /\ Len(v) # 0
        BY <1>1, <1>2
    <2>2. QED
        BY <1>2, <2>1
<1>7. /\ Tail(v) \in Seq(LinkedHeld) /\ Len(Tail(v)) = Len(v) - 1
      /\ \A i \in 1 .. Len(Tail(v)) : Tail(v)[i] = v[i + 1]
    BY ONLY <1>2, <1>6, HeadTailProperties
<1>8. Len(LinkedContents(f, d)) = Len(Tail(v))
    BY <1>2, <1>3, <1>5, <1>7
<1>9. ASSUME NEW i \in 1 .. Len(LinkedContents(f, d)) PROVE LinkedContents(f, d)[i] = Tail(v)[i]
    <2>1. /\ i \in 1 .. Len(d) - 1 /\ i \in 1 .. Len(d) /\ i \in 1 .. Len(Tail(v))
          /\ i + 1 \in 1 .. Len(c) - 1
        BY <1>1, <1>2, <1>3, <1>5, <1>7
    <2>2. QED
        BY <1>2, <1>3, <1>5, <1>7, <2>1
<1>10. LinkedContents(f, d) = Tail(v)
    BY ONLY <1>5, <1>7, <1>8, <1>9, SeqEqual
<1>11. QED
    BY <1>2, <1>6, <1>10 DEF v, d

\* What Queued is, before and after a step.
LEMMA LinkedQueuedIs ==
    ASSUME Linked!ConstantsAssumption, NEW c \in Seq(Nodes), Linked!Consistent(c)
    PROVE  Linked!Queued = LinkedContents(sl_data, c)
BY LinkedQueueIs DEF Linked!Queued, LinkedContents

\* The same of the state after a step.
LEMMA LinkedQueuedIsAfter ==
    ASSUME Linked!ConstantsAssumption, NEW c \in Seq(Nodes), Linked!Consistent(c)'
    PROVE  Linked!Queued' = LinkedContents(sl_data', c)
BY LinkedQueueIsAfter DEF Linked!Queued, LinkedContents

-----------------------------------------------------------------------------
(* The steps of the queue are steps of Fifo *)

\* A step touches no node that is queued, but the store into the dummy.
LEMMA LinkedDataKept ==
    ASSUME Linked!ConstantsAssumption, Linked!TypeOK, NEW c \in Seq(Nodes),
           Linked!Consistent(c), Linked!Next
    PROVE  \A i \in 1 .. Len(c) - 1 : sl_data'[c[i]] = sl_data[c[i]]
<1>1. ASSUME NEW v \in Values, Linked!PushStart(v), NEW i \in 1 .. Len(c) - 1
      PROVE  sl_data'[c[i]] = sl_data[c[i]]
    <2>1. i \in 1 .. Len(c)
        BY LenProperties
    <2>2. c[i] \notin sl_free /\ c[i] \in Nodes
        BY <2>1, ElementOfSeq DEF Linked!Consistent
    <2>3. QED
        BY <1>1, <2>2 DEF Linked!PushStart, Linked!TypeOK
<1>2. ASSUME Linked!PushData, NEW i \in 1 .. Len(c) - 1
      PROVE  sl_data'[c[i]] = sl_data[c[i]]
    <2>1. i \in 1 .. Len(c) /\ Len(c) \in 1 .. Len(c) /\ i # Len(c)
        BY LenProperties
    <2>2. sl_old_tail = c[Len(c)] /\ c[i] # c[Len(c)]
        BY <1>2, <2>1 DEF Linked!PushData, Linked!PushGoto, Linked!Consistent
    <2>3. QED
        BY <1>2, <2>1, <2>2, ElementOfSeq DEF Linked!PushData, Linked!TypeOK
<1>3. CASE Linked!PushNext \/ Linked!PushTail \/ Linked!Pop
    BY <1>3
    DEF Linked!PushNext, Linked!PushTail, Linked!Pop, Linked!PopHead, Linked!PopStart,
        Linked!TestTail, Linked!ReturnEmpty, Linked!LoadNext, Linked!StoreHead,
        Linked!ReadData, Linked!Delete, Linked!node
<1>4. QED
    BY <1>1, <1>2, <1>3 DEF Linked!Next, Linked!Push

\* A step of one side does not touch the call of the other.
LEMMA LinkedOtherCall ==
    ASSUME Linked!ConstantsAssumption, Linked!TypeOK, NEW c \in Seq(Nodes), Linked!Consistent(c)
    PROVE  /\ Linked!Push => Linked!CallOf("consumer")' = Linked!CallOf("consumer")
           /\ Linked!Pop => Linked!CallOf("producer")' = Linked!CallOf("producer")
<1>1. Linked!Pop => Linked!CallOf("producer")' = Linked!CallOf("producer")
    BY DEF Linked!CallOf, Linked!Pop, Linked!PopHead, Linked!PopStart, Linked!TestTail,
        Linked!ReturnEmpty, Linked!LoadNext, Linked!StoreHead, Linked!ReadData,
        Linked!Delete, Linked!push_vars
<1>2. ASSUME Linked!Push
      PROVE  sl_pop_pc' = sl_pop_pc /\ sl_old_head' = sl_old_head /\ sl_res' = sl_res
    BY <1>2
    DEF Linked!Push, Linked!PushStart, Linked!PushData, Linked!PushNext, Linked!PushTail,
        Linked!pop_vars
<1>3. ASSUME Linked!Push, sl_pop_pc = "data" PROVE sl_data'[sl_old_head] = sl_data[sl_old_head]
    <2>1. Len(c) \in 1 .. Len(c)
        BY EmptySeq, LenProperties DEF Linked!Consistent
    <2>2. sl_old_head \in Nodes \ sl_free /\ sl_old_head # c[Len(c)]
        BY <1>3, <2>1 DEF Linked!Consistent
    <2>3. sl_push_pc # "idle" => sl_old_tail = c[Len(c)]
        BY DEF Linked!Consistent
    <2>4. QED
        BY <1>3, <2>2, <2>3
        DEF Linked!Push, Linked!PushStart, Linked!PushData, Linked!PushNext,
            Linked!PushTail, Linked!PushGoto, Linked!node, Linked!TypeOK
<1>4. QED
    BY <1>1, <1>2, <1>3 DEF Linked!CallOf

\* A step that nobody notices, and the part of it that is about the values.
LinkedSameQueue == Linked!Queued' = Linked!Queued
LinkedStuttering == UNCHANGED Linked!Abstract!vars

\* A step of a call, of the producer or of the consumer.
LEMMA LinkedCallStep ==
    ASSUME NEW t \in Linked!Callers, NEW from, NEW to, Linked!CallOf(t) = from,
           Linked!CallOf(t)' = to,
           \A u \in Linked!Callers : u # t => Linked!CallOf(u)' = Linked!CallOf(u)
    PROVE  Linked!Abstract!Step(t, from, to)
<1>1. [u \in Linked!Callers |-> Linked!CallOf(u)]'
        = [[u \in Linked!Callers |-> Linked!CallOf(u)] EXCEPT ![t] = to]
    OBVIOUS
<1>2. QED
    BY <1>1 DEF Linked!Abstract!Step

\* The steps that move neither end leave the values queued.
LEMMA LinkedQueueStays ==
    ASSUME Linked!ConstantsAssumption, Linked!TypeOK, NEW c \in Seq(Nodes),
           Linked!Consistent(c), Linked!Consistent(c)',
           Linked!Next
    PROVE  LinkedSameQueue
<1>1. Linked!Queued = LinkedContents(sl_data, c) /\ Linked!Queued' = LinkedContents(sl_data', c)
    BY LinkedQueuedIs, LinkedQueuedIsAfter
<1>2. LinkedContents(sl_data', c) = LinkedContents(sl_data, c)
    BY LinkedDataKept DEF LinkedContents
<1>3. QED
    BY <1>1, <1>2 DEF LinkedSameQueue

\* A push is called, writes its value and links its node; only the store of tail_ puts
\* it in the queue.
LEMMA LinkedPushRefines ==
    ASSUME Linked!ConstantsAssumption, Linked!TypeOK, Linked!LocalsOK, NEW c \in Seq(Nodes),
           Linked!Consistent(c),
           LinkedAccounted(c), Linked!Push
    PROVE  Linked!Abstract!Next \/ LinkedStuttering
<1>1. Linked!CallOf("consumer")' = Linked!CallOf("consumer")
    BY LinkedOtherCall
<1>2. PICK d \in Seq(Nodes) : /\ Linked!Consistent(d)'
                              /\ Linked!PushTail => d = Append(c, sl_p)
                              /\ ~Linked!PushTail /\ ~Linked!StoreHead => d = c
    BY LinkedStepChain DEF Linked!Next
<1>3. ~Linked!StoreHead
    BY DEF Linked!Push, Linked!PushStart, Linked!PushData, Linked!PushNext, Linked!PushTail,
        Linked!StoreHead, Linked!PushGoto, Linked!PopGoto, Linked!pop_vars, Linked!TypeOK
<1>4. Linked!Callers = {"producer", "consumer"}
    BY DEF Linked!Callers
<1>5. ASSUME ~Linked!PushTail PROVE LinkedSameQueue
    BY <1>2, <1>3, <1>5, LinkedQueueStays DEF Linked!Next
<1>6. ASSUME NEW v \in Values, Linked!PushStart(v) PROVE Linked!Abstract!Next
    <2>1. LinkedSameQueue
        BY <1>5, <1>6 DEF Linked!PushStart, Linked!PushTail, Linked!PushGoto
    <2>2. Linked!CallOf("producer") = <<"idle">> /\ Linked!CallOf("producer")' = <<"push", v>>
        BY <1>6 DEF Linked!PushStart, Linked!PushGoto, Linked!CallOf
    <2>3. Linked!Abstract!CallPush("producer", v)
        BY <1>1, <1>4, <2>1, <2>2, LinkedCallStep
        DEF Linked!Abstract!CallPush, Linked!Abstract!Idle, Linked!Abstract!Pushing,
            LinkedSameQueue
    <2>4. QED
        BY <1>4, <2>3 DEF Linked!Abstract!Next
<1>7. ASSUME Linked!PushData \/ Linked!PushNext PROVE LinkedStuttering
    <2>1. LinkedSameQueue
        BY <1>5, <1>7 DEF Linked!PushData, Linked!PushNext, Linked!PushTail, Linked!PushGoto
    <2>2. Linked!CallOf("producer")' = Linked!CallOf("producer")
        BY <1>7 DEF Linked!PushData, Linked!PushNext, Linked!PushGoto, Linked!CallOf
    <2>3. QED
        BY <1>1, <1>4, <2>1, <2>2
        DEF LinkedSameQueue, LinkedStuttering, Linked!Abstract!vars
<1>8. ASSUME Linked!PushTail PROVE Linked!Abstract!Next
    <2>1. sl_p \in Nodes /\ c # <<>> /\ c[Len(c)] = sl_old_tail /\ sl_data[sl_old_tail] =
              sl_val /\ sl_val \in Values
        BY <1>8 DEF Linked!PushTail, Linked!PushGoto, Linked!Consistent, Linked!LocalsOK
    <2>2. Linked!Queued = LinkedContents(sl_data, c)
              /\ Linked!Queued' = LinkedContents(sl_data', d)
        BY <1>2, LinkedQueuedIs, LinkedQueuedIsAfter
    <2>3. Linked!Queued' = Append(Linked!Queued, sl_val)
        <3>1. sl_data' = sl_data /\ sl_data \in [Nodes -> LinkedHeld]
            BY <1>8 DEF Linked!PushTail, Linked!node, Linked!TypeOK, LinkedHeld
        <3>2. d = Append(c, sl_p)
            BY <1>2, <1>8
        <3>3. LinkedContents(sl_data, d) =
                  Append(LinkedContents(sl_data, c), sl_data[c[Len(c)]])
            BY <2>1, <3>1, <3>2, LinkedContentsAppend
        <3>4. QED
            BY <2>1, <2>2, <3>1, <3>3
    <2>4. Len(Linked!Queued) < Linked!Cardinality(Nodes)
        <3>1. sl_data \in [Nodes -> LinkedHeld]
            BY DEF Linked!TypeOK, LinkedHeld
        <3>2. Len(Linked!Queued) = Len(c) - 1 /\ Len(c) - 1 \in Nat
            BY <2>1, <2>2, <3>1, LinkedContentsType
        <3>3. Linked!Cardinality(Nodes) \in Nat /\ Len(c) <= Linked!Cardinality(Nodes)
            BY LinkedLenBound DEF Linked!Consistent
        <3>4. QED
            BY <3>2, <3>3, LenProperties
    <2>5. Linked!CallOf("producer") = <<"push", sl_val>>
              /\ Linked!CallOf("producer")' = <<"idle">>
        BY <1>8 DEF Linked!PushTail, Linked!PushGoto, Linked!CallOf
    <2>6. PICK v \in Values : v = sl_val
        BY <2>1
    <2>7. Linked!Abstract!Push("producer", v)
        BY <1>1, <1>4, <2>3, <2>4, <2>5, <2>6, LinkedCallStep
        DEF Linked!Abstract!Push, Linked!Abstract!Idle, Linked!Abstract!Pushing
    <2>8. QED
        BY <1>4, <2>6, <2>7 DEF Linked!Abstract!Next
<1>9. QED
    BY <1>6, <1>7, <1>8 DEF Linked!Push

\* A pop takes effect where it finds the queue empty, or in the store of head_,
\* although it reads the value later.
LEMMA LinkedPopRefines ==
    ASSUME Linked!ConstantsAssumption, Linked!TypeOK, Linked!LocalsOK, NEW c \in Seq(Nodes),
           Linked!Consistent(c),
           LinkedAccounted(c), Linked!Pop
    PROVE  Linked!Abstract!Next \/ LinkedStuttering
<1>1. Linked!CallOf("producer")' = Linked!CallOf("producer")
    BY LinkedOtherCall
<1>2. PICK d \in Seq(Nodes) : /\ Linked!Consistent(d)'
                              /\ Linked!StoreHead => Len(c) >= 2 /\ d = Tail(c)
                              /\ ~Linked!PushTail /\ ~Linked!StoreHead => d = c
    BY LinkedStepChain DEF Linked!Next
<1>3. ~Linked!PushTail
    BY DEF Linked!Pop, Linked!PopHead, Linked!PopStart, Linked!TestTail, Linked!ReturnEmpty,
        Linked!LoadNext, Linked!StoreHead, Linked!ReadData, Linked!Delete, Linked!PushTail,
        Linked!PushGoto, Linked!push_vars, Linked!TypeOK
<1>4. Linked!Callers = {"producer", "consumer"}
    BY DEF Linked!Callers
<1>5. ASSUME ~Linked!StoreHead PROVE LinkedSameQueue
    BY <1>2, <1>3, <1>5, LinkedQueueStays DEF Linked!Next
<1>6. ASSUME Linked!PopStart PROVE Linked!Abstract!Next
    <2>1. LinkedSameQueue
        BY <1>5, <1>6 DEF Linked!PopStart, Linked!StoreHead, Linked!PopGoto
    <2>2. Linked!CallOf("consumer") = <<"idle">> /\ Linked!CallOf("consumer")' = <<"pop">>
        BY <1>6 DEF Linked!PopStart, Linked!PopGoto, Linked!CallOf
    <2>3. Linked!Abstract!CallPop("consumer")
        BY <1>1, <1>4, <2>1, <2>2, LinkedCallStep
        DEF Linked!Abstract!CallPop, Linked!Abstract!Idle, Linked!Abstract!Popping,
            LinkedSameQueue
    <2>4. QED
        BY <1>4, <2>3 DEF Linked!Abstract!Next
<1>7. ASSUME Linked!TestTail, sl_old_head = sl_tail PROVE Linked!Abstract!Next
    <2>1. LinkedSameQueue
        BY <1>5, <1>7 DEF Linked!TestTail, Linked!StoreHead, Linked!PopGoto
    <2>2. Linked!Queued = <<>>
        <3>1. 1 \in 1 .. Len(c) /\ Len(c) \in 1 .. Len(c) /\ Len(c) \in Nat
            BY EmptySeq, LenProperties DEF Linked!Consistent
        <3>2. c[1] = c[Len(c)]
            BY <1>7 DEF Linked!TestTail, Linked!PopGoto, Linked!Consistent
        <3>3. Len(c) = 1
            BY <3>1, <3>2 DEF Linked!Consistent
        <3>4. QED
            BY <3>3, LinkedQueuedIs DEF LinkedContents
    <2>3. Linked!CallOf("consumer") = <<"pop">> /\ Linked!CallOf("consumer")' = <<"got", Null>>
        BY <1>7 DEF Linked!TestTail, Linked!PopGoto, Linked!CallOf
    <2>4. Linked!Abstract!PopEmpty("consumer")
        BY <1>1, <1>4, <2>1, <2>2, <2>3, LinkedCallStep
        DEF Linked!Abstract!PopEmpty, Linked!Abstract!Popping, Linked!Abstract!Got,
            LinkedSameQueue
    <2>5. QED
        BY <1>4, <2>4 DEF Linked!Abstract!Next
<1>8. ASSUME (Linked!TestTail /\ sl_old_head # sl_tail) \/ Linked!LoadNext \/ Linked!ReadData
      PROVE  LinkedStuttering
    <2>1. LinkedSameQueue
        BY <1>5, <1>8
        DEF Linked!TestTail, Linked!LoadNext, Linked!ReadData, Linked!StoreHead,
            Linked!PopGoto
    <2>2. Linked!CallOf("consumer")' = Linked!CallOf("consumer")
        BY <1>8
        DEF Linked!TestTail, Linked!LoadNext, Linked!ReadData, Linked!PopGoto,
            Linked!CallOf, Linked!node
    <2>3. QED
        BY <1>1, <1>4, <2>1, <2>2
        DEF LinkedSameQueue, LinkedStuttering, Linked!Abstract!vars
<1>9. ASSUME Linked!StoreHead PROVE Linked!Abstract!Next
    <2>1. Linked!Queued = LinkedContents(sl_data, c)
              /\ Linked!Queued' = LinkedContents(sl_data', d)
        BY <1>2, LinkedQueuedIs, LinkedQueuedIsAfter
    <2>2. sl_data' = sl_data /\ sl_data \in [Nodes -> LinkedHeld] /\ c[1] = sl_old_head
        BY <1>9
        DEF Linked!StoreHead, Linked!PopGoto, Linked!node, Linked!TypeOK, LinkedHeld,
            Linked!Consistent
    <2>3. /\ LinkedContents(sl_data, c) # <<>>
          /\ Head(LinkedContents(sl_data, c)) = sl_data[sl_old_head]
          /\ LinkedContents(sl_data, Tail(c)) = Tail(LinkedContents(sl_data, c))
        BY <1>2, <1>9, <2>2, LinkedContentsTail
    <2>4. Linked!Queued # <<>> /\ sl_data[sl_old_head] = Head(Linked!Queued)
              /\ Linked!Queued' = Tail(Linked!Queued)
        BY <1>2, <1>9, <2>1, <2>2, <2>3
    <2>5. Linked!CallOf("consumer") = <<"pop">>
              /\ Linked!CallOf("consumer")' = <<"got", sl_data[sl_old_head]>>
        BY <1>9 DEF Linked!StoreHead, Linked!PopGoto, Linked!CallOf, Linked!node
    <2>6. Linked!Abstract!Pop("consumer")
        BY <1>1, <1>4, <2>4, <2>5, LinkedCallStep
        DEF Linked!Abstract!Pop, Linked!Abstract!Popping, Linked!Abstract!Got
    <2>7. QED
        BY <1>4, <2>6 DEF Linked!Abstract!Next
<1>10. ASSUME Linked!ReturnEmpty \/ Linked!Delete PROVE Linked!Abstract!Next
    <2>1. LinkedSameQueue
        BY <1>5, <1>10
        DEF Linked!ReturnEmpty, Linked!Delete, Linked!StoreHead, Linked!PopGoto
    <2>2. PICK r \in Values \cup {Null} :
            Linked!CallOf("consumer") = <<"got", r>> /\ Linked!CallOf("consumer")' = <<"idle">>
        <3>1. CASE Linked!ReturnEmpty
            BY <3>1 DEF Linked!ReturnEmpty, Linked!PopGoto, Linked!CallOf
        <3>2. CASE Linked!Delete
            <4>1. sl_res \in Values \cup {Null}
                BY DEF Linked!TypeOK
            <4>2. Linked!CallOf("consumer") = <<"got", sl_res>>
                      /\ Linked!CallOf("consumer")' = <<"idle">>
                BY <3>2 DEF Linked!Delete, Linked!PopGoto, Linked!CallOf
            <4>3. QED
                BY <4>1, <4>2
        <3>3. QED
            BY <1>10, <3>1, <3>2
    <2>3. Linked!Abstract!Step("consumer", Linked!Abstract!Got(r), Linked!Abstract!Idle)
        BY <1>1, <1>4, <2>2, LinkedCallStep DEF Linked!Abstract!Got, Linked!Abstract!Idle
    <2>4. Linked!Abstract!Return("consumer")
        BY <2>1, <2>3 DEF Linked!Abstract!Return, LinkedSameQueue
    <2>5. QED
        BY <1>4, <2>4 DEF Linked!Abstract!Next
<1>11. QED
    BY <1>6, <1>7, <1>8, <1>9, <1>10 DEF Linked!Pop, Linked!PopHead, Linked!TestTail

-----------------------------------------------------------------------------
(* The theorems about the queue as a whole *)

\* The invariant implies what TLC checks of the chain that Linked finds.
LEMMA LinkedIInvChain ==
    ASSUME Linked!ConstantsAssumption, LinkedIInv
    PROVE  Linked!NodesUnshared /\ Linked!NodesAccounted /\ Linked!Consistent(Linked!Linked)
<1>1. PICK c \in Seq(Nodes) : Linked!Consistent(c) /\ LinkedAccounted(c)
    BY DEF LinkedIInv
<1>2. Linked!Linked = c
    BY <1>1, LinkedQueueIs
<1>3. 1 \in 1 .. Len(c) /\ Len(c) \in 1 .. Len(c)
    BY <1>1, EmptySeq, LenProperties DEF Linked!Consistent
<1>4. Linked!NodesUnshared
    BY <1>1, <1>3 DEF Linked!Consistent, Linked!NodesUnshared
<1>5. Linked!ToSet(c) = {c[i] : i \in 1 .. Len(c)}
    BY DEF Linked!ToSet
<1>6. \A i \in 1 .. Len(c) : c[i] \in Nodes \ sl_free
    BY <1>1, ElementOfSeq DEF Linked!Consistent
<1>7. sl_free \subseteq Nodes /\ {sl_p, sl_old_head} \ {Null} \subseteq Nodes
          /\ Null \notin Nodes
    BY DEF LinkedIInv, Linked!TypeOK, Linked!ConstantsAssumption
<1>8. Linked!NodesAccounted
    <2>1. Linked!ToSet(Linked!Linked) \cap sl_free = {}
        BY <1>2, <1>5, <1>6
    <2>2. ASSUME NEW n \in Nodes
          PROVE  n \in sl_free \cup Linked!ToSet(Linked!Linked) \cup ({sl_p, sl_old_head} \ {Null})
        BY <1>1, <1>2, <1>5, <1>7 DEF LinkedAccounted
    <2>3. sl_free \cup Linked!ToSet(Linked!Linked) \cup ({sl_p, sl_old_head} \ {Null})
            \subseteq Nodes
        BY <1>2, <1>5, <1>6, <1>7
    <2>4. QED
        BY <2>1, <2>2, <2>3 DEF Linked!NodesAccounted
<1>9. QED
    BY <1>1, <1>2, <1>4, <1>8

\* The invariant holds of every state, for every heap and every set of values.
THEOREM LinkedInvariance ==
    ASSUME Linked!ConstantsAssumption PROVE Linked!Spec => []LinkedIInv
<1>1. Linked!Init => LinkedIInv
    BY LinkedInitIInv
<1>2. LinkedIInv /\ [Linked!Next]_(Linked!vars) => LinkedIInv'
    BY LinkedStepIInv
<1>3. QED
    BY <1>1, <1>2, PTL DEF Linked!Spec

\* For every heap, the producer never writes a node that the consumer has
\* deleted or is reading (line 9).
THEOREM LinkedDeleteAtOnce ==
    ASSUME Linked!ConstantsAssumption PROVE Linked!Spec => []Linked!NodesUnshared
<1>1. LinkedIInv => Linked!NodesUnshared
    BY LinkedIInvChain
<1>2. QED
    BY <1>1, LinkedInvariance, PTL

\* For every heap, no node leaks and none is freed while it is on the queue.
THEOREM LinkedNothingLost ==
    ASSUME Linked!ConstantsAssumption PROVE Linked!Spec => []Linked!NodesAccounted
<1>1. LinkedIInv => Linked!NodesAccounted
    BY LinkedIInvChain
<1>2. QED
    BY <1>1, LinkedInvariance, PTL

\* Every step of push and pop is a step of the abstract queue, or none.
LEMMA LinkedStepRefines ==
    ASSUME Linked!ConstantsAssumption
    PROVE  LinkedIInv /\ [Linked!Next]_(Linked!vars)
               => [Linked!Abstract!Next]_(Linked!Abstract!vars)
<1> SUFFICES ASSUME LinkedIInv, [Linked!Next]_(Linked!vars)
             PROVE  Linked!Abstract!Next \/ LinkedStuttering
    BY DEF LinkedStuttering
<1>1. PICK c \in Seq(Nodes) : Linked!Consistent(c) /\ LinkedAccounted(c)
    BY DEF LinkedIInv
<1>2. CASE Linked!Next
    BY <1>1, <1>2, LinkedPushRefines, LinkedPopRefines DEF Linked!Next, LinkedIInv
<1>3. CASE UNCHANGED Linked!vars
    BY <1>3
    DEF Linked!vars, Linked!node, Linked!push_vars, Linked!pop_vars, LinkedStuttering,
        Linked!Abstract!vars, Linked!CallOf, Linked!Queued, Linked!Linked, Linked!Chain
<1>4. QED
    BY <1>2, <1>3

\* The new queue is the empty abstract queue.
LEMMA LinkedStartsEmpty ==
    ASSUME Linked!ConstantsAssumption PROVE Linked!Init => Linked!Abstract!Init
<1> SUFFICES ASSUME Linked!Init PROVE Linked!Abstract!Init
    OBVIOUS
<1>1. PICK c \in Seq(Nodes) : c = <<sl_head>> /\ Linked!Consistent(c)
    BY LinkedInitConsistent
<1>2. Linked!Queued = <<>>
    <2>1. Len(c) = 1
        BY <1>1
    <2>2. Linked!Queued = LinkedContents(sl_data, c)
        BY <1>1, LinkedQueuedIs
    <2>3. QED
        BY <2>1, <2>2 DEF LinkedContents
<1>3. Linked!CallOf("producer") = <<"idle">> /\ Linked!CallOf("consumer") = <<"idle">>
    BY DEF Linked!Init, Linked!CallOf
<1>4. \A t \in Linked!Callers : Linked!CallOf(t) = <<"idle">>
    BY <1>3 DEF Linked!Callers
<1>5. QED
    BY <1>2, <1>4 DEF Linked!Abstract!Init, Linked!Abstract!Idle

\* For every heap and every set of values, the queue is linearizable although it has
\* neither lock nor compare-exchange (push and pop, lines 32-57).
THEOREM LinkedLinearizable ==
    ASSUME Linked!ConstantsAssumption PROVE Linked!Spec => Linked!ImplementsFifo
<1>1. Linked!Init => Linked!Abstract!Init
    BY LinkedStartsEmpty
<1>2. LinkedIInv /\ [Linked!Next]_(Linked!vars) => [Linked!Abstract!Next]_(Linked!Abstract!vars)
    BY LinkedStepRefines
<1>3. QED
    BY <1>1, <1>2, LinkedInvariance, PTL
    DEF Linked!Spec, Linked!Abstract!Spec, Linked!ImplementsFifo

-----------------------------------------------------------------------------
(* CasRing: no two pushes write the same slot, and the ring implements     *)
(* Fifo, until an exchange takes an index for the one it was.              *)

\* The remainder of what is less than one lap away from the ring.
LEMMA CasModOnce ==
    ASSUME NEW n \in Nat \ {0}, NEW k \in 0 .. n - 1
    PROVE  k % n = k /\ (k + n) % n = k /\ (k - n) % n = k
OBVIOUS

\* Where an index goes, and how far it is from another, without the remainder.
LEMMA CasOnRing ==
    ASSUME Cas!ConstantsAssumption, NEW s \in Cas!Slots
    PROVE  /\ SlotCount \in Nat /\ SlotCount # 0 /\ s \in Nat /\ s <= SlotCount
           /\ Cas!After(s) \in Cas!Slots /\ Cas!After(s) = IF s = SlotCount THEN 0 ELSE s + 1
           /\ \A h \in Cas!Slots : (s - h) % Cas!_max_size = IF h <= s THEN s - h
                  ELSE s - h + SlotCount + 1
<1>1. SlotCount \in Nat /\ SlotCount # 0 /\ Cas!_max_size \in Nat \ {0}
          /\ Cas!_max_size = SlotCount + 1
    BY DEF Cas!ConstantsAssumption, Cas!_max_size
<1>2. s \in Nat /\ s <= SlotCount
    BY <1>1 DEF Cas!Slots
<1>3. Cas!After(s) = IF s = SlotCount THEN 0 ELSE s + 1
    <2>1. CASE s = SlotCount
        <3>1. (0 + Cas!_max_size) % Cas!_max_size = 0
            BY <1>1, CasModOnce
        <3>2. QED
            BY <1>1, <2>1, <3>1 DEF Cas!After
    <2>2. CASE s # SlotCount
        <3>1. (s + 1) % Cas!_max_size = s + 1
            BY <1>1, <1>2, <2>2, CasModOnce
        <3>2. QED
            BY <2>2, <3>1 DEF Cas!After
    <2>3. QED
        BY <2>1, <2>2
<1>4. ASSUME NEW h \in Cas!Slots
      PROVE  (s - h) % Cas!_max_size = IF h <= s THEN s - h ELSE s - h + SlotCount + 1
    <2>1. h \in Nat /\ h <= SlotCount
        BY <1>1 DEF Cas!Slots
    <2>2. CASE h <= s
        BY <1>1, <1>2, <2>1, <2>2, CasModOnce
    <2>3. CASE ~(h <= s)
        <3>1. PICK k \in 0 .. Cas!_max_size - 1 : k = s - h + SlotCount + 1
                  /\ s - h = k - Cas!_max_size
            BY <1>1, <1>2, <2>1, <2>3
        <3>2. (k - Cas!_max_size) % Cas!_max_size = k
            BY <1>1, CasModOnce
        <3>3. QED
            BY <2>3, <3>1, <3>2
    <2>4. QED
        BY <2>2, <2>3
<1>5. QED
    BY <1>1, <1>2, <1>3, <1>4 DEF Cas!Slots

-----------------------------------------------------------------------------
(* The invariant *)

\* The constructor establishes the invariant.
LEMMA CasInitIInv ==
    ASSUME Cas!ConstantsAssumption, Cas!Init PROVE Cas!IInv
<1>1. SlotCount \in Nat /\ 0 \in Cas!Slots /\ 0 \in 0 .. Cas!_max_size
    BY DEF Cas!ConstantsAssumption, Cas!Slots, Cas!_max_size
<1>2. Cas!TypeOK
    BY <1>1 DEF Cas!Init, Cas!TypeOK, Cas!Slots, Cas!PushIndex, Cas!PopIndex
<1>3. Cas!StillTrue
    BY DEF Cas!Init, Cas!StillTrue, Cas!PushIndex, Cas!PopIndex
<1>4. Cas!From(cr_tail_update) = 0 /\ Cas!From(cr_tail) = 0
    <2>1. (0 - 0) % Cas!_max_size = 0
        BY <1>1, CasOnRing
    <2>2. QED
        BY <2>1 DEF Cas!Init, Cas!From
<1>5. Cas!Claimed = {}
    BY DEF Cas!Init, Cas!Claimed
<1>6. Cas!InOrder /\ Cas!ClaimsApart
    BY <1>4, <1>5 DEF Cas!InOrder, Cas!ClaimsApart
<1>7. QED
    BY <1>2, <1>3, <1>6 DEF Cas!IInv

\* Every step keeps the types.
LEMMA CasStepTypeOK ==
    ASSUME Cas!ConstantsAssumption, Cas!TypeOK, NEW t \in Producers,
           Cas!Push(t) \/ Cas!Pop(t) \/ Cas!Return(t)
    PROVE  Cas!TypeOK'
<1>1. /\ Cas!After(cr_head) \in Cas!Slots /\ Cas!After(cr_tail) \in Cas!Slots
      /\ Cas!After(cr_tail_update) \in Cas!Slots
      /\ 0 \in Cas!Slots /\ Cas!_max_size \in Nat /\ 0 \in 0 .. Cas!_max_size
    <2>1. cr_head \in Cas!Slots /\ cr_tail \in Cas!Slots /\ cr_tail_update \in Cas!Slots
        BY DEF Cas!TypeOK
    <2>2. /\ Cas!After(cr_head) \in Cas!Slots /\ Cas!After(cr_tail) \in Cas!Slots
          /\ Cas!After(cr_tail_update) \in Cas!Slots
        BY <2>1, CasOnRing
    <2>3. 0 \in Cas!Slots /\ Cas!_max_size \in Nat /\ 0 \in 0 .. Cas!_max_size
        BY DEF Cas!Slots, Cas!_max_size, Cas!ConstantsAssumption
    <2>4. QED
        BY <2>2, <2>3
<1>2. ASSUME NEW places, Cas!Moves(places) PROVE cr_moves' \in [Producers -> 0 .. Cas!_max_size]
    BY <1>1, <1>2 DEF Cas!Moves, Cas!TypeOK
<1> HIDE DEF Cas!Moves
<1> USE <1>1 DEF Cas!TypeOK, Cas!Goto, Cas!PushIndex, Cas!PopIndex
<1>3. ASSUME NEW v \in Values, Cas!PushStart(t, v) PROVE Cas!TypeOK'
    BY <1>3 DEF Cas!PushStart
<1>4. CASE Cas!PushLoad(t)
    BY <1>4 DEF Cas!PushLoad
<1>5. CASE Cas!PushFull(t)
    BY <1>5 DEF Cas!PushFull
<1>6. CASE Cas!PushCas(t)
    <2>1. CASE cr_tail = cr_i[t]
        <3>1. /\ cr_tail' = Cas!After(cr_tail) /\ Cas!Moves(Cas!PushIndex)
              /\ cr_late' \in BOOLEAN
              /\ cr_pc[t] = "push_cas" /\ cr_pc' = [cr_pc EXCEPT ![t] = "push_write"]
              /\ UNCHANGED <<cr_head, cr_tail_update, cr_data, cr_val, cr_i>>
            BY <1>6, <2>1 DEF Cas!PushCas
        <3>2. cr_moves' \in [Producers -> 0 .. Cas!_max_size]
            BY <1>2, <3>1
        <3>3. QED
            BY <3>1, <3>2
    <2>2. CASE cr_tail # cr_i[t]
        BY <1>6, <2>2 DEF Cas!PushCas
    <2>3. QED
        BY <2>1, <2>2
<1>7. CASE Cas!PushWrite(t) \/ Cas!PushUpdate(t)
    BY <1>7 DEF Cas!PushWrite, Cas!PushUpdate
<1>8. CASE Cas!PopStart(t) \/ Cas!PopLoad(t)
    BY <1>8 DEF Cas!PopStart, Cas!PopLoad
<1>9. CASE Cas!PopEmpty(t) \/ Cas!PopUpdate(t)
    BY <1>9 DEF Cas!PopEmpty, Cas!PopUpdate, Cas!PopTest
<1>10. CASE Cas!PopRead(t)
    BY <1>10 DEF Cas!PopRead
<1>11. CASE Cas!PopCas(t)
    <2>1. CASE cr_head = cr_i[t]
        <3>1. /\ cr_head' = Cas!After(cr_head) /\ Cas!Moves(Cas!PopIndex)
              /\ cr_late' \in BOOLEAN
              /\ cr_pc[t] = "pop_cas" /\ cr_pc' = [cr_pc EXCEPT ![t] = "popped"]
              /\ UNCHANGED <<cr_tail, cr_tail_update, cr_data, cr_val, cr_i>>
            BY <1>11, <2>1 DEF Cas!PopCas
        <3>2. cr_moves' \in [Producers -> 0 .. Cas!_max_size]
            BY <1>2, <3>1
        <3>3. QED
            BY <3>1, <3>2
    <2>2. CASE cr_head # cr_i[t]
        BY <1>11, <2>2 DEF Cas!PopCas
    <2>3. QED
        BY <2>1, <2>2
<1>12. CASE Cas!Return(t)
    BY <1>12 DEF Cas!Return
<1>13. QED
    BY <1>3, <1>4, <1>5, <1>6, <1>7, <1>8, <1>9, <1>10, <1>11, <1>12 DEF Cas!Push, Cas!Pop

\* What the indices are, as numbers.
CasNumbers ==
    /\ SlotCount \in Nat /\ SlotCount # 0 /\ Cas!Slots = 0 .. SlotCount
    /\ cr_head \in 0 .. SlotCount /\ cr_tail \in 0 .. SlotCount
    /\ cr_tail_update \in 0 .. SlotCount
    /\ \A s \in Cas!Slots :
        /\ Cas!From(s) \in 0 .. SlotCount
        /\ Cas!From(s) = IF cr_head <= s THEN s - cr_head ELSE s - cr_head + SlotCount + 1
        /\ Cas!After(s) \in Cas!Slots /\ Cas!After(s) = IF s = SlotCount THEN 0 ELSE s + 1

\* Indices and lengths are numbers.
LEMMA CasIndicesAreNumbers ==
    ASSUME Cas!ConstantsAssumption PROVE Cas!TypeOK => CasNumbers
<1> SUFFICES ASSUME Cas!TypeOK PROVE CasNumbers
    OBVIOUS
<1>1. SlotCount \in Nat /\ SlotCount # 0 /\ Cas!Slots = 0 .. SlotCount
    BY DEF Cas!ConstantsAssumption, Cas!Slots
<1>2. cr_head \in Cas!Slots /\ cr_tail \in Cas!Slots /\ cr_tail_update \in Cas!Slots
    BY DEF Cas!TypeOK
<1>3. ASSUME NEW s \in Cas!Slots
      PROVE  /\ Cas!From(s) \in 0 .. SlotCount
             /\ Cas!From(s) = IF cr_head <= s THEN s - cr_head ELSE s - cr_head + SlotCount + 1
             /\ Cas!After(s) \in Cas!Slots /\ Cas!After(s) = IF s = SlotCount THEN 0 ELSE s + 1
    <2>1. Cas!From(s) = IF cr_head <= s THEN s - cr_head ELSE s - cr_head + SlotCount + 1
        BY <1>2, CasOnRing DEF Cas!From
    <2>2. Cas!After(s) \in Cas!Slots /\ Cas!After(s) = IF s = SlotCount THEN 0 ELSE s + 1
        BY CasOnRing
    <2>3. QED
        BY <1>1, <1>2, <2>1, <2>2
<1>4. QED
    BY <1>1, <1>2, <1>3 DEF CasNumbers

\* What an unlate invariant says of the indices and of a claim.
LEMMA CasIndicesApart ==
    ASSUME CasNumbers, Cas!InOrder, Cas!ClaimsApart, ~cr_late, Cas!TypeOK
    PROVE  /\ \A u \in Cas!Claimed : cr_i[u] \in Cas!Slots
           /\ \A u \in Cas!Claimed : Cas!From(cr_tail_update) <= Cas!From(cr_i[u])
                  /\ Cas!From(cr_i[u]) < Cas!From(cr_tail)
           /\ cr_head # cr_tail_update =>
                /\ Cas!From(cr_tail_update) > 0 /\ Cas!From(cr_tail) > 0
                /\ \A u \in Cas!Claimed : Cas!From(cr_i[u]) > 0 /\ cr_i[u] # cr_head
<1>1. \A u \in Cas!Claimed : cr_i[u] \in Cas!Slots
    BY DEF Cas!Claimed, Cas!TypeOK
<1>2. \A u \in Cas!Claimed : Cas!From(cr_tail_update) <= Cas!From(cr_i[u])
          /\ Cas!From(cr_i[u]) < Cas!From(cr_tail)
    BY DEF Cas!InOrder, Cas!ClaimsApart
<1>0. /\ cr_head \in Cas!Slots /\ cr_tail \in Cas!Slots /\ cr_tail_update \in Cas!Slots
      /\ Cas!From(cr_head) = 0
    BY DEF CasNumbers
<1>3. ASSUME cr_head # cr_tail_update
      PROVE  Cas!From(cr_tail_update) > 0 /\ Cas!From(cr_tail) > 0
    <2>1. Cas!From(cr_tail_update) > 0
        <3>1. /\ SlotCount \in Nat /\ cr_head \in 0 .. SlotCount
              /\ cr_tail_update \in 0 .. SlotCount
              /\ Cas!From(cr_tail_update) =
                     IF cr_head <= cr_tail_update THEN cr_tail_update - cr_head
                                            ELSE cr_tail_update - cr_head + SlotCount + 1
            BY <1>0 DEF CasNumbers
        <3>2. QED
            BY <1>3, <3>1
    <2>2. Cas!From(cr_tail_update) <= Cas!From(cr_tail) /\ Cas!From(cr_tail) \in 0 .. SlotCount
        BY <1>0 DEF CasNumbers, Cas!InOrder
    <2>3. QED
        BY <1>0, <2>1, <2>2 DEF CasNumbers
<1>4. ASSUME cr_head # cr_tail_update, NEW u \in Cas!Claimed
      PROVE  Cas!From(cr_i[u]) > 0 /\ cr_i[u] # cr_head
    <2>1. Cas!From(cr_i[u]) \in 0 .. SlotCount /\ Cas!From(cr_tail_update) \in 0 .. SlotCount
              /\ SlotCount \in Nat
        BY <1>0, <1>1, <1>4 DEF CasNumbers
    <2>2. Cas!From(cr_i[u]) > 0
        BY <1>2, <1>3, <1>4, <2>1
    <2>3. QED
        BY <1>0, <2>2
<1>5. QED
    BY <1>1, <1>2, <1>3, <1>4

CasIndexed == Cas!PushIndex \cup Cas!PopIndex

\* Whose index may be taken for the one it was after a move.
LEMMA CasMovesCount ==
    ASSUME Cas!ConstantsAssumption, Cas!TypeOK, NEW places, Cas!Moves(places),
           NEW u \in Producers
    PROVE  /\ cr_pc'[u] \notin CasIndexed => cr_moves'[u] = 0
           /\ cr_pc'[u] \in CasIndexed /\ cr_moves'[u] = 0
                  => cr_moves[u] = 0 /\ cr_pc[u] \notin places
<1>1. cr_moves[u] \in Nat /\ (cr_moves[u] < Cas!_max_size \/ cr_moves[u] # 0)
    BY DEF Cas!TypeOK, Cas!_max_size, Cas!ConstantsAssumption
<1>2. cr_moves'[u] = IF cr_pc'[u] \notin CasIndexed THEN 0
                     ELSE IF cr_pc[u] \in places /\ cr_moves[u] < Cas!_max_size
                          THEN cr_moves[u] + 1 ELSE cr_moves[u]
    BY DEF Cas!Moves, CasIndexed
<1>3. QED
    BY <1>1, <1>2

\* A thread that does not move keeps its locals.
LEMMA CasOthersKeep ==
    ASSUME Cas!TypeOK, NEW t \in Producers, Cas!Push(t) \/ Cas!Pop(t) \/ Cas!Return(t),
           NEW u \in Producers, u # t
    PROVE  cr_pc'[u] = cr_pc[u] /\ cr_i'[u] = cr_i[u] /\ cr_val'[u] = cr_val[u]
<1> USE DEF Cas!TypeOK, Cas!Goto
<1>1. CASE Cas!Push(t)
    BY <1>1
    DEF Cas!Push, Cas!PushStart, Cas!PushLoad, Cas!PushFull, Cas!PushCas, Cas!PushWrite,
        Cas!PushUpdate
<1>2. CASE Cas!Pop(t)
    BY <1>2
    DEF Cas!Pop, Cas!PopStart, Cas!PopLoad, Cas!PopEmpty, Cas!PopUpdate, Cas!PopTest,
        Cas!PopRead, Cas!PopCas
<1>3. CASE Cas!Return(t)
    BY <1>3 DEF Cas!Return
<1>4. QED
    BY <1>1, <1>2, <1>3

\* What StillTrue says of the thread t.
CasStill(t) ==
    /\ cr_pc[t] \notin CasIndexed => cr_moves[t] = 0
    /\ cr_pc[t] \in Cas!PushIndex \cup {"push_load", "push_write"} => cr_val[t] \in Values
    /\ cr_moves[t] = 0 =>
        /\ cr_pc[t] \in Cas!PushIndex => cr_i[t] = cr_tail
        /\ cr_pc[t] = "push_cas" => Cas!After(cr_tail) # cr_head
        /\ cr_pc[t] \in Cas!PopIndex => cr_i[t] = cr_head
        /\ cr_pc[t] \in {"pop_read", "pop_cas"} => cr_head # cr_tail_update
        /\ cr_pc[t] = "pop_cas" => cr_val[t] = cr_data[cr_head]

\* What a thread knows, thread by thread.
LEMMA CasStillTrueIs == Cas!StillTrue <=> \A t \in Producers : CasStill(t)
BY DEF Cas!StillTrue, CasStill, CasIndexed

CasGood == CasNumbers /\ Cas!TypeOK /\ Cas!InOrder /\ Cas!StillTrue /\ Cas!ClaimsApart
    /\ ~cr_late

\* A step that moves no index and writes nothing, of the thread itself.
LEMMA CasQuietStill ==
    ASSUME Cas!ConstantsAssumption, CasGood, NEW t \in Producers,
           \/ \E v \in Values : Cas!PushStart(t, v)
           \/ Cas!PushLoad(t) \/ Cas!PushFull(t) \/ Cas!PopStart(t) \/ Cas!PopLoad(t)
           \/ Cas!PopEmpty(t) \/ Cas!PopUpdate(t) \/ Cas!PopRead(t) \/ Cas!Return(t)
           \/ Cas!PushCas(t) /\ cr_tail # cr_i[t]
           \/ Cas!PopCas(t) /\ cr_head # cr_i[t]
    PROVE  CasStill(t)'
<1> CasStill(t) /\ Cas!TypeOK
    BY CasStillTrueIs DEF CasGood
<1> USE DEF CasStill, Cas!Goto, CasIndexed, Cas!PushIndex, Cas!PopIndex
<1>1. ASSUME NEW v \in Values, Cas!PushStart(t, v) PROVE CasStill(t)'
    BY <1>1 DEF Cas!PushStart, Cas!TypeOK
<1>2. CASE Cas!PushLoad(t) \/ Cas!PopStart(t) \/ Cas!PopLoad(t)
    BY <1>2 DEF Cas!PushLoad, Cas!PopStart, Cas!PopLoad, Cas!TypeOK
<1>3. CASE Cas!PushFull(t)
    BY <1>3 DEF Cas!PushFull, Cas!TypeOK
<1>4. CASE Cas!PopEmpty(t) \/ Cas!PopUpdate(t)
    BY <1>4 DEF Cas!PopEmpty, Cas!PopUpdate, Cas!PopTest, Cas!TypeOK
<1>5. CASE Cas!PopRead(t)
    <2>1. ASSUME cr_moves[t] = 0
          PROVE  cr_i[t] = cr_head /\ cr_head # cr_tail_update
                       /\ ~ \E u \in Producers : cr_pc[u] = "push_write" /\ cr_i[u] = cr_i[t]
        <3>1. cr_i[t] = cr_head /\ cr_head # cr_tail_update
            BY <1>5, <2>1 DEF Cas!PopRead
        <3>2. \A u \in Cas!Claimed : cr_i[u] # cr_head
            BY <3>1, CasIndicesApart DEF CasGood
        <3>3. QED
            BY <3>1, <3>2 DEF Cas!Claimed
    <2>2. /\ cr_pc[t] = "pop_read" /\ cr_pc'[t] = "pop_cas" /\ cr_i'[t] = cr_i[t]
          /\ cr_moves' = cr_moves
          /\ cr_head' = cr_head /\ cr_tail_update' = cr_tail_update /\ cr_tail' = cr_tail
          /\ cr_data' = cr_data
          /\ cr_val'[t] = IF \E u \in Producers : cr_pc[u] = "push_write" /\ cr_i[u] = cr_i[t]
                          THEN Null ELSE cr_data[cr_i[t]]
        BY <1>5 DEF Cas!PopRead, Cas!TypeOK
    <2>3. QED
        BY <2>1, <2>2
<1>6. CASE Cas!Return(t)
    BY <1>6 DEF Cas!Return, Cas!TypeOK
<1>7. CASE Cas!PushCas(t) /\ cr_tail # cr_i[t]
    BY <1>7 DEF Cas!PushCas, Cas!TypeOK
<1>8. CASE Cas!PopCas(t) /\ cr_head # cr_i[t]
    BY <1>8 DEF Cas!PopCas, Cas!TypeOK
<1>9. QED
    BY <1>1, <1>2, <1>3, <1>4, <1>5, <1>6, <1>7, <1>8

\* A step that moves no index, writes nothing and counts no move is nothing to the
\* other threads.
LEMMA CasOthersStill ==
    ASSUME CasGood, NEW t \in Producers, Cas!Push(t) \/ Cas!Pop(t) \/ Cas!Return(t),
           NEW u \in Producers, u # t, cr_moves'[u] = cr_moves[u],
           UNCHANGED <<cr_head, cr_tail, cr_tail_update, cr_data>>
    PROVE  CasStill(u)'
<1>1. cr_pc'[u] = cr_pc[u] /\ cr_i'[u] = cr_i[u] /\ cr_val'[u] = cr_val[u]
    BY CasOthersKeep DEF CasGood
<1>2. CasStill(u)
    BY CasStillTrueIs DEF CasGood
<1>3. QED
    BY <1>1, <1>2 DEF CasStill

\* The claim of a push: the others that have loaded _tail are late from now on.
LEMMA CasPushClaimStill ==
    ASSUME Cas!ConstantsAssumption, CasGood, NEW t \in Producers, Cas!PushCas(t),
           cr_tail = cr_i[t],
           NEW u \in Producers
    PROVE  CasStill(u)'
<1> USE DEF CasGood
<1>1. /\ cr_pc[t] = "push_cas" /\ cr_pc' = [cr_pc EXCEPT ![t] = "push_write"]
      /\ cr_tail' = Cas!After(cr_tail) /\ Cas!Moves(Cas!PushIndex) /\ cr_i' = cr_i
      /\ cr_val' = cr_val
      /\ cr_head' = cr_head /\ cr_tail_update' = cr_tail_update /\ cr_data' = cr_data
    BY DEF Cas!PushCas, Cas!Goto
<1>2. CasStill(u) /\ CasStill(t)
    BY CasStillTrueIs
<1>3. /\ cr_pc'[u] \notin CasIndexed => cr_moves'[u] = 0
      /\ cr_pc'[u] \in CasIndexed /\ cr_moves'[u] = 0
             => cr_moves[u] = 0 /\ cr_pc[u] \notin Cas!PushIndex
    BY <1>1, CasMovesCount
<1>4. cr_pc'[u] = IF u = t THEN "push_write" ELSE cr_pc[u]
    BY <1>1 DEF Cas!TypeOK
<1>5. CASE u = t
    BY <1>1, <1>2, <1>3, <1>4, <1>5 DEF CasStill, CasIndexed, Cas!PushIndex, Cas!PopIndex
<1>6. CASE u # t
    BY <1>1, <1>2, <1>3, <1>4, <1>6 DEF CasStill, CasIndexed, Cas!PushIndex, Cas!PopIndex
<1>7. QED
    BY <1>5, <1>6

\* The write of a push is not to the slot that a pop in time has read.
LEMMA CasPushWriteStill ==
    ASSUME Cas!ConstantsAssumption, CasGood, NEW t \in Producers, Cas!PushWrite(t),
           NEW u \in Producers
    PROVE  CasStill(u)'
<1> USE DEF CasGood
<1>1. /\ cr_pc[t] = "push_write" /\ cr_pc' = [cr_pc EXCEPT ![t] = "push_update"]
      /\ cr_tail' = cr_tail /\ cr_moves' = cr_moves /\ cr_i' = cr_i /\ cr_val' = cr_val
      /\ cr_head' = cr_head /\ cr_tail_update' = cr_tail_update
      /\ cr_data' = [cr_data EXCEPT ![cr_i[t]] = cr_val[t]]
    BY DEF Cas!PushWrite, Cas!Goto
<1>2. CasStill(u)
    BY CasStillTrueIs
<1>3. cr_pc'[u] = IF u = t THEN "push_update" ELSE cr_pc[u]
    BY <1>1 DEF Cas!TypeOK
<1>4. cr_head # cr_tail_update => cr_data'[cr_head] = cr_data[cr_head]
    <2>1. t \in Cas!Claimed
        BY <1>1 DEF Cas!Claimed
    <2>2. cr_head # cr_tail_update => cr_i[t] # cr_head
        BY <2>1, CasIndicesApart
    <2>3. QED
        BY <1>1, <2>2 DEF Cas!TypeOK
<1>5. QED
    BY <1>1, <1>2, <1>3, <1>4 DEF CasStill, CasIndexed, Cas!PushIndex, Cas!PopIndex

\* _tail_update moves on, away from _head.
LEMMA CasPushUpdateStill ==
    ASSUME Cas!ConstantsAssumption, CasGood, NEW t \in Producers, Cas!PushUpdate(t),
           NEW u \in Producers
    PROVE  CasStill(u)' /\ Cas!From(cr_tail_update)' = Cas!From(cr_tail_update) + 1
<1> USE DEF CasGood
<1>1. /\ cr_pc[t] = "push_update" /\ cr_pc' = [cr_pc EXCEPT ![t] = "idle"]
      /\ cr_tail' = cr_tail /\ cr_moves' = cr_moves /\ cr_i' = [cr_i EXCEPT ![t] = 0]
      /\ cr_val' = [cr_val EXCEPT ![t] = Null]
      /\ cr_head' = cr_head /\ cr_tail_update' = Cas!After(cr_tail_update)
      /\ cr_tail_update = cr_i[t]
      /\ cr_data' = cr_data
    BY DEF Cas!PushUpdate, Cas!Goto
<1>2. CasStill(u)
    BY CasStillTrueIs
<1>3. /\ u = t => cr_pc'[u] = "idle"
      /\ u # t => cr_pc'[u] = cr_pc[u] /\ cr_i'[u] = cr_i[u] /\ cr_val'[u] = cr_val[u]
    BY <1>1 DEF Cas!TypeOK
<1>4. /\ cr_tail_update \in Cas!Slots /\ cr_tail \in Cas!Slots /\ cr_head \in 0 .. SlotCount
      /\ Cas!Slots = 0 .. SlotCount
      /\ SlotCount \in Nat
    BY DEF CasNumbers
<1>5. Cas!From(cr_tail_update) < Cas!From(cr_tail) /\ Cas!From(cr_tail) \in 0 .. SlotCount
          /\ Cas!From(cr_tail_update) \in 0 .. SlotCount
    <2>1. t \in Cas!Claimed
        BY <1>1 DEF Cas!Claimed
    <2>2. QED
        BY <1>1, <1>4, <2>1, CasIndicesApart DEF CasNumbers
<1>6. /\ cr_tail_update' \in Cas!Slots
      /\ Cas!From(cr_tail_update') = Cas!From(cr_tail_update) + 1
    <2>1. /\ cr_tail_update' \in Cas!Slots
          /\ cr_tail_update' = IF cr_tail_update = SlotCount THEN 0 ELSE cr_tail_update + 1
        BY <1>1, <1>4 DEF CasNumbers
    <2>2. /\ Cas!From(cr_tail_update') =
                 IF cr_head <= cr_tail_update' THEN cr_tail_update' - cr_head
                                       ELSE cr_tail_update' - cr_head + SlotCount + 1
          /\ Cas!From(cr_tail_update) =
                 IF cr_head <= cr_tail_update THEN cr_tail_update - cr_head
                                       ELSE cr_tail_update - cr_head + SlotCount + 1
        BY <1>4, <2>1 DEF CasNumbers
    <2>3. QED
        BY <1>4, <1>5, <2>1, <2>2
<1>7. Cas!From(cr_tail_update)' = Cas!From(cr_tail_update) + 1
    BY <1>1, <1>6 DEF Cas!From
<1>8. Cas!From(cr_head) = 0
    BY <1>4 DEF CasNumbers
<1>9. cr_head # cr_tail_update'
    BY <1>5, <1>6, <1>8
<1>10. CasStill(u)'
    BY <1>1, <1>2, <1>3, <1>9 DEF CasStill, CasIndexed, Cas!PushIndex, Cas!PopIndex
<1>11. QED
    BY <1>7, <1>10

\* The indices are on the ring, and distances are numbers.
LEMMA CasDistances ==
    ASSUME CasNumbers
    PROVE  /\ cr_head \in Cas!Slots /\ cr_tail \in Cas!Slots /\ cr_tail_update \in Cas!Slots
           /\ \A s \in Cas!Slots : Cas!From(s) \in Nat
           /\ Cas!From(cr_head) = 0
<1>1. /\ cr_head \in Cas!Slots /\ cr_tail \in Cas!Slots /\ cr_tail_update \in Cas!Slots
      /\ SlotCount \in Nat
    BY DEF CasNumbers
<1>2. ASSUME NEW s \in Cas!Slots PROVE Cas!From(s) \in Nat
    <2>1. Cas!From(s) \in 0 .. SlotCount
        BY DEF CasNumbers
    <2>2. QED
        BY <1>1, <2>1
<1>3. Cas!From(cr_head) = 0
    BY <1>1 DEF CasNumbers
<1>4. QED
    BY <1>1, <1>2, <1>3

\* When _head moves on, every other slot is nearer to it.
LEMMA CasHeadMoves ==
    ASSUME Cas!ConstantsAssumption, CasNumbers, cr_head' = Cas!After(cr_head),
           NEW s \in Cas!Slots, s # cr_head
    PROVE  (s - cr_head') % Cas!_max_size = Cas!From(s) - 1
<1>1. /\ cr_head \in Cas!Slots /\ SlotCount \in Nat /\ Cas!Slots = 0 .. SlotCount
      /\ cr_head' \in Cas!Slots /\ cr_head' = IF cr_head = SlotCount THEN 0 ELSE cr_head + 1
    BY DEF CasNumbers
<1>3. (s - cr_head') % Cas!_max_size = IF cr_head' <= s THEN s - cr_head'
          ELSE s - cr_head' + SlotCount + 1
    BY <1>1, CasOnRing
<1>4. Cas!From(s) = IF cr_head <= s THEN s - cr_head ELSE s - cr_head + SlotCount + 1
    BY DEF CasNumbers
<1>5. QED
    BY <1>1, <1>3, <1>4

\* The claim of a pop in time: the value it takes is published, and the others that
\* have loaded _head are late from now on.
LEMMA CasPopClaimStill ==
    ASSUME Cas!ConstantsAssumption, CasGood, NEW t \in Producers, Cas!PopCas(t),
           cr_head = cr_i[t],
           cr_moves[t] = 0, NEW u \in Producers
    PROVE  CasStill(u)'
<1> USE DEF CasGood
<1>1. /\ cr_pc[t] = "pop_cas" /\ cr_pc' = [cr_pc EXCEPT ![t] = "popped"]
      /\ cr_head' = Cas!After(cr_head) /\ Cas!Moves(Cas!PopIndex) /\ cr_i' = cr_i
      /\ cr_val' = cr_val
      /\ cr_tail' = cr_tail /\ cr_tail_update' = cr_tail_update /\ cr_data' = cr_data
    BY DEF Cas!PopCas, Cas!Goto
<1>2. CasStill(u) /\ CasStill(t)
    BY CasStillTrueIs
<1>3. /\ cr_pc'[u] \notin CasIndexed => cr_moves'[u] = 0
      /\ cr_pc'[u] \in CasIndexed /\ cr_moves'[u] = 0
             => cr_moves[u] = 0 /\ cr_pc[u] \notin Cas!PopIndex
    BY <1>1, CasMovesCount
<1>4. cr_pc'[u] = IF u = t THEN "popped" ELSE cr_pc[u]
    BY <1>1 DEF Cas!TypeOK
<1>5. cr_head # cr_tail_update
    BY <1>1, <1>2 DEF CasStill
<1>6. Cas!After(cr_tail) # Cas!After(cr_head)
    <2>1. Cas!From(cr_tail) > 0
        BY <1>5, CasIndicesApart
    <2>2. /\ cr_head \in Cas!Slots /\ cr_tail \in Cas!Slots /\ SlotCount \in Nat
          /\ Cas!Slots = 0 .. SlotCount
          /\ Cas!After(cr_tail) = IF cr_tail = SlotCount THEN 0 ELSE cr_tail + 1
          /\ Cas!After(cr_head) = IF cr_head = SlotCount THEN 0 ELSE cr_head + 1
          /\ Cas!From(cr_tail) = IF cr_head <= cr_tail THEN cr_tail - cr_head
                 ELSE cr_tail - cr_head + SlotCount + 1
        BY DEF CasNumbers
    <2>3. QED
        BY <2>1, <2>2
<1>7. QED
    BY <1>1, <1>2, <1>3, <1>4, <1>6 DEF CasStill, CasIndexed, Cas!PushIndex, Cas!PopIndex

\* A step that moves no index and claims no slot.
LEMMA CasQuietOrder ==
    ASSUME CasGood, UNCHANGED <<cr_head, cr_tail, cr_tail_update>>,
           Cas!Claimed' \subseteq Cas!Claimed, \A u \in Cas!Claimed' : cr_i'[u] = cr_i[u]
    PROVE  Cas!InOrder' /\ Cas!ClaimsApart'
<1>1. \A u \in Cas!Claimed' : Cas!From(cr_i[u])' = Cas!From(cr_i[u])
    BY DEF Cas!From
<1>2. Cas!From(cr_tail)' = Cas!From(cr_tail)
          /\ Cas!From(cr_tail_update)' = Cas!From(cr_tail_update)
    BY DEF Cas!From
<1>3. Cas!InOrder'
    BY <1>1, <1>2 DEF Cas!InOrder, CasGood
<1>4. Cas!ClaimsApart'
    BY <1>1, <1>2 DEF Cas!ClaimsApart, CasGood
<1>5. QED
    BY <1>3, <1>4

\* The slot that a push claims is the first that nobody has claimed.
LEMMA CasPushClaimOrder ==
    ASSUME Cas!ConstantsAssumption, CasGood, NEW t \in Producers, Cas!PushCas(t),
           cr_tail = cr_i[t],
           cr_moves[t] = 0
    PROVE  Cas!InOrder' /\ Cas!ClaimsApart'
<1> USE DEF CasGood
<1>1. /\ cr_pc[t] = "push_cas" /\ cr_pc' = [cr_pc EXCEPT ![t] = "push_write"]
      /\ cr_tail' = Cas!After(cr_tail) /\ cr_i' = cr_i /\ cr_head' = cr_head
      /\ cr_tail_update' = cr_tail_update
    BY DEF Cas!PushCas, Cas!Goto
<1>2. Cas!After(cr_tail) # cr_head
    BY <1>1, CasStillTrueIs DEF CasStill
<1>3. Cas!Claimed' = Cas!Claimed \cup {t} /\ t \notin Cas!Claimed
    BY <1>1 DEF Cas!Claimed, Cas!TypeOK
<1>4. \A u \in Cas!Claimed' : cr_i'[u] = cr_i[u] /\ Cas!From(cr_i[u])' = Cas!From(cr_i[u])
    BY <1>1 DEF Cas!From
<1>5. Cas!From(cr_tail_update)' = Cas!From(cr_tail_update)
    BY <1>1 DEF Cas!From
<1>6. Cas!From(cr_tail)' = Cas!From(cr_tail) + 1 /\ Cas!From(cr_tail) \in Nat
    <2>1. /\ cr_head \in Cas!Slots /\ cr_tail \in Cas!Slots /\ SlotCount \in Nat
          /\ Cas!Slots = 0 .. SlotCount
          /\ Cas!After(cr_tail) \in Cas!Slots
          /\ Cas!After(cr_tail) = IF cr_tail = SlotCount THEN 0 ELSE cr_tail + 1
          /\ Cas!From(cr_tail) = IF cr_head <= cr_tail THEN cr_tail - cr_head
                 ELSE cr_tail - cr_head + SlotCount + 1
        BY DEF CasNumbers
    <2>2. Cas!From(Cas!After(cr_tail)) =
              IF cr_head <= Cas!After(cr_tail) THEN Cas!After(cr_tail) - cr_head
                                         ELSE Cas!After(cr_tail) - cr_head + SlotCount + 1
        BY <2>1 DEF CasNumbers
    <2>3. Cas!From(cr_tail)' = Cas!From(Cas!After(cr_tail))
        BY <1>1 DEF Cas!From
    <2>4. QED
        BY <1>2, <2>1, <2>2, <2>3
<1>7. /\ \A u \in Cas!Claimed : Cas!From(cr_tail_update) <= Cas!From(cr_i[u])
             /\ Cas!From(cr_i[u]) < Cas!From(cr_tail)
      /\ Cas!From(cr_tail_update) <= Cas!From(cr_tail)
    BY CasIndicesApart DEF Cas!InOrder
<1>8. /\ cr_tail_update \in Cas!Slots /\ Cas!From(cr_tail_update) \in Nat
      /\ \A u \in Cas!Claimed : Cas!From(cr_i[u]) \in Nat
    BY CasIndicesApart, CasDistances
<1>9. \A u \in Cas!Claimed : cr_i[u] # cr_i[t]
    BY <1>7, <1>6, <1>8
<1>10. Cas!InOrder'
    BY <1>1, <1>3, <1>4, <1>5, <1>6, <1>7, <1>8 DEF Cas!InOrder
<1>11. \A u, w \in Cas!Claimed' : u # w => cr_i'[u] # cr_i'[w]
    BY <1>1, <1>3, <1>9 DEF Cas!ClaimsApart
<1>12. \A u \in Cas!Claimed' : Cas!From(cr_i[u])' < Cas!From(cr_tail)'
    BY <1>3, <1>4, <1>6, <1>7, <1>8
<1>13. QED
    BY <1>10, <1>11, <1>12 DEF Cas!ClaimsApart

\* The first of the claimed slots is published.
LEMMA CasPushUpdateOrder ==
    ASSUME Cas!ConstantsAssumption, CasGood, NEW t \in Producers, Cas!PushUpdate(t)
    PROVE  Cas!InOrder' /\ Cas!ClaimsApart'
<1> USE DEF CasGood
<1>1. /\ cr_pc[t] = "push_update" /\ cr_pc' = [cr_pc EXCEPT ![t] = "idle"]
      /\ cr_tail' = cr_tail /\ cr_i' = [cr_i EXCEPT ![t] = 0] /\ cr_head' = cr_head
      /\ cr_tail_update = cr_i[t]
    BY DEF Cas!PushUpdate, Cas!Goto
<1>2. Cas!Claimed' = Cas!Claimed \ {t} /\ t \in Cas!Claimed
    BY <1>1 DEF Cas!Claimed, Cas!TypeOK
<1>3. \A u \in Cas!Claimed' : cr_i'[u] = cr_i[u] /\ Cas!From(cr_i[u])' = Cas!From(cr_i[u])
    BY <1>1, <1>2 DEF Cas!From, Cas!TypeOK
<1>4. Cas!From(cr_tail)' = Cas!From(cr_tail)
          /\ Cas!From(cr_tail_update)' = Cas!From(cr_tail_update) + 1
    BY <1>1, CasPushUpdateStill DEF Cas!From
<1>5. /\ \A u \in Cas!Claimed : Cas!From(cr_tail_update) <= Cas!From(cr_i[u])
             /\ Cas!From(cr_i[u]) < Cas!From(cr_tail)
      /\ \A u \in Cas!Claimed : cr_i[u] \in Cas!Slots /\ Cas!From(cr_i[u]) \in Nat
      /\ cr_tail \in Cas!Slots /\ cr_tail_update \in Cas!Slots
      /\ Cas!From(cr_tail) \in Nat /\ Cas!From(cr_tail_update) \in Nat
    BY CasIndicesApart, CasDistances
<1>6. ASSUME NEW u \in Cas!Claimed'
      PROVE  Cas!From(cr_tail_update) + 1 <= Cas!From(cr_i[u])
    <2>1. u \in Cas!Claimed /\ cr_i[u] # cr_tail_update
        BY <1>1, <1>2 DEF Cas!ClaimsApart
    <2>2. Cas!From(cr_i[u]) # Cas!From(cr_tail_update)
        <3>1. /\ cr_i[u] \in 0 .. SlotCount /\ cr_tail_update \in 0 .. SlotCount
              /\ cr_head \in 0 .. SlotCount /\ SlotCount \in Nat
              /\ Cas!From(cr_i[u]) = IF cr_head <= cr_i[u] THEN cr_i[u] - cr_head
                     ELSE cr_i[u] - cr_head + SlotCount + 1
              /\ Cas!From(cr_tail_update) =
                     IF cr_head <= cr_tail_update THEN cr_tail_update - cr_head
                                            ELSE cr_tail_update - cr_head + SlotCount + 1
            BY <1>5, <2>1 DEF CasNumbers
        <3>2. QED
            BY <2>1, <3>1
    <2>3. QED
        BY <1>5, <2>1, <2>2
<1>7. Cas!InOrder'
    <2>1. Cas!From(cr_tail_update) + 1 <= Cas!From(cr_tail)
        BY <1>1, <1>2, <1>5
    <2>2. QED
        BY <1>3, <1>4, <1>6, <2>1 DEF Cas!InOrder
<1>8. Cas!ClaimsApart'
    BY <1>1, <1>2, <1>3, <1>4, <1>5 DEF Cas!ClaimsApart
<1>9. QED
    BY <1>7, <1>8

\* The slot that a pop claims is published.
LEMMA CasPopClaimOrder ==
    ASSUME Cas!ConstantsAssumption, CasGood, NEW t \in Producers, Cas!PopCas(t),
           cr_head = cr_i[t],
           cr_moves[t] = 0
    PROVE  Cas!InOrder' /\ Cas!ClaimsApart'
<1> USE DEF CasGood
<1>1. /\ cr_pc[t] = "pop_cas" /\ cr_pc' = [cr_pc EXCEPT ![t] = "popped"]
      /\ cr_head' = Cas!After(cr_head) /\ cr_i' = cr_i /\ cr_tail' = cr_tail
      /\ cr_tail_update' = cr_tail_update
    BY DEF Cas!PopCas, Cas!Goto
<1>2. cr_head # cr_tail_update
    BY <1>1, CasStillTrueIs DEF CasStill
<1>3. Cas!Claimed' = Cas!Claimed
    BY <1>1 DEF Cas!Claimed, Cas!TypeOK
<1>4. /\ Cas!From(cr_tail_update) > 0 /\ Cas!From(cr_tail) > 0
      /\ \A u \in Cas!Claimed : cr_i[u] \in Cas!Slots /\ Cas!From(cr_i[u]) > 0
             /\ cr_i[u] # cr_head
      /\ \A u \in Cas!Claimed : Cas!From(cr_tail_update) <= Cas!From(cr_i[u])
             /\ Cas!From(cr_i[u]) < Cas!From(cr_tail)
    BY <1>2, CasIndicesApart
<1>5. /\ cr_head \in Cas!Slots /\ cr_tail \in Cas!Slots /\ cr_tail_update \in Cas!Slots
      /\ Cas!From(cr_head) = 0
      /\ \A u \in Cas!Claimed : Cas!From(cr_i[u]) \in Nat
      /\ Cas!From(cr_tail) \in Nat /\ Cas!From(cr_tail_update) \in Nat
    BY <1>4, CasDistances
<1>6. cr_tail # cr_head
    BY <1>4, <1>5
<1>7. \A s \in Cas!Slots : s # cr_head => (s - cr_head') % Cas!_max_size = Cas!From(s) - 1
    BY <1>1, CasHeadMoves
<1>8. /\ Cas!From(cr_tail)' = Cas!From(cr_tail) - 1
      /\ Cas!From(cr_tail_update)' = Cas!From(cr_tail_update) - 1
      /\ \A u \in Cas!Claimed' : Cas!From(cr_i[u])' = Cas!From(cr_i[u]) - 1
    <2>1. Cas!From(cr_tail)' = (cr_tail - cr_head') % Cas!_max_size
        BY <1>1 DEF Cas!From
    <2>2. Cas!From(cr_tail_update)' = (cr_tail_update - cr_head') % Cas!_max_size
        BY <1>1 DEF Cas!From
    <2>3. \A u \in Cas!Claimed' : Cas!From(cr_i[u])' = (cr_i[u] - cr_head') % Cas!_max_size
        BY <1>1 DEF Cas!From
    <2>4. QED
        BY <1>2, <1>3, <1>4, <1>5, <1>6, <1>7, <2>1, <2>2, <2>3
<1>9. Cas!InOrder'
    BY <1>1, <1>3, <1>4, <1>5, <1>8 DEF Cas!InOrder
<1>10. Cas!ClaimsApart'
    BY <1>1, <1>3, <1>4, <1>5, <1>8 DEF Cas!ClaimsApart
<1>11. QED
    BY <1>9, <1>10

\* No step breaks the invariant, as long as no exchange is late.
LEMMA CasStepGood ==
    ASSUME Cas!ConstantsAssumption, CasGood, NEW t \in Producers,
           Cas!Push(t) \/ Cas!Pop(t) \/ Cas!Return(t),
           ~cr_late'
    PROVE  Cas!StillTrue' /\ Cas!InOrder' /\ Cas!ClaimsApart'
<1> USE DEF Cas!Goto
<1>1. CASE Cas!PushCas(t) /\ cr_tail = cr_i[t]
    <2>1. cr_moves[t] = 0
        <3>1. cr_late' = (cr_late \/ cr_moves[t] > 0)
            BY <1>1, Zenon DEF Cas!PushCas
        <3>2. ~(cr_moves[t] > 0)
            BY <3>1, Zenon
        <3>3. cr_moves[t] \in 0 .. Cas!_max_size /\ Cas!_max_size \in Nat
            BY DEF CasGood, Cas!TypeOK, Cas!_max_size, Cas!ConstantsAssumption
        <3>4. QED
            BY <3>2, <3>3
    <2>2. QED
        BY <1>1, <2>1, CasPushClaimStill, CasPushClaimOrder
        DEF Cas!StillTrue, CasStill, CasIndexed
<1>2. CASE Cas!PopCas(t) /\ cr_head = cr_i[t]
    <2>1. cr_moves[t] = 0
        <3>1. cr_late' = (cr_late \/ cr_moves[t] > 0)
            BY <1>2, Zenon DEF Cas!PopCas
        <3>2. ~(cr_moves[t] > 0)
            BY <3>1, Zenon
        <3>3. cr_moves[t] \in 0 .. Cas!_max_size /\ Cas!_max_size \in Nat
            BY DEF CasGood, Cas!TypeOK, Cas!_max_size, Cas!ConstantsAssumption
        <3>4. QED
            BY <3>2, <3>3
    <2>2. QED
        BY <1>2, <2>1, CasPopClaimStill, CasPopClaimOrder
        DEF Cas!StillTrue, CasStill, CasIndexed
<1>3. CASE Cas!PushWrite(t)
    <2>1. \A u \in Producers : CasStill(u)'
        BY <1>3, CasPushWriteStill
    <2>2. UNCHANGED <<cr_head, cr_tail, cr_tail_update>> /\ cr_i' = cr_i
              /\ Cas!Claimed' = Cas!Claimed
        BY <1>3 DEF Cas!PushWrite, Cas!Claimed, CasGood, Cas!TypeOK
    <2>3. QED
        BY <2>1, <2>2, CasQuietOrder DEF Cas!StillTrue, CasStill, CasIndexed
<1>4. CASE Cas!PushUpdate(t)
    BY <1>4, CasPushUpdateStill, CasPushUpdateOrder DEF Cas!StillTrue, CasStill, CasIndexed
<1>5. CASE \/ \E v \in Values : Cas!PushStart(t, v)
           \/ Cas!PushLoad(t) \/ Cas!PushFull(t) \/ Cas!PopStart(t) \/ Cas!PopLoad(t)
           \/ Cas!PopEmpty(t) \/ Cas!PopUpdate(t) \/ Cas!PopRead(t) \/ Cas!Return(t)
           \/ Cas!PushCas(t) /\ cr_tail # cr_i[t]
           \/ Cas!PopCas(t) /\ cr_head # cr_i[t]
    <2>1. /\ UNCHANGED <<cr_head, cr_tail, cr_tail_update, cr_data>>
          /\ \A u \in Producers : u # t => cr_moves'[u] = cr_moves[u]
          /\ cr_pc[t] \notin {"push_write", "push_update"}
          /\ cr_pc'[t] \notin {"push_write", "push_update"}
        BY <1>5
        DEF Cas!PushStart, Cas!PushLoad, Cas!PushFull, Cas!PushCas, Cas!PopStart,
            Cas!PopLoad, Cas!PopEmpty, Cas!PopUpdate, Cas!PopTest, Cas!PopRead, Cas!PopCas,
            Cas!Return, CasGood, Cas!TypeOK
    <2>2. \A u \in Producers : u # t => CasStill(u)'
        BY <2>1, CasOthersStill
    <2>3. CasStill(t)'
        BY <1>5, CasQuietStill
    <2>4. \A u \in Producers : u # t => cr_pc'[u] = cr_pc[u] /\ cr_i'[u] = cr_i[u]
        BY CasOthersKeep DEF CasGood
    <2>5. Cas!Claimed' = Cas!Claimed /\ \A u \in Cas!Claimed' : cr_i'[u] = cr_i[u]
        BY <2>1, <2>4 DEF Cas!Claimed
    <2>6. Cas!InOrder' /\ Cas!ClaimsApart'
        BY <2>1, <2>5, CasQuietOrder
    <2>7. QED
        BY <2>2, <2>3, <2>6 DEF Cas!StillTrue, CasStill, CasIndexed
<1>6. QED
    BY <1>1, <1>2, <1>3, <1>4, <1>5 DEF Cas!Push, Cas!Pop

\* No step breaks the invariant.
LEMMA CasStepIInv ==
    ASSUME Cas!ConstantsAssumption PROVE Cas!IInv /\ [Cas!Next]_(Cas!vars) => Cas!IInv'
<1> SUFFICES ASSUME Cas!IInv, [Cas!Next]_(Cas!vars) PROVE Cas!IInv'
    OBVIOUS
<1>1. CASE UNCHANGED Cas!vars
    BY <1>1
    DEF Cas!vars, Cas!IInv, Cas!TypeOK, Cas!InOrder, Cas!StillTrue, Cas!ClaimsApart,
        Cas!Claimed, Cas!From
<1>2. ASSUME ~cr_late, NEW t \in Producers, Cas!Push(t) \/ Cas!Pop(t) \/ Cas!Return(t)
      PROVE  Cas!IInv'
    <2>1. CasGood
        BY <1>2, CasIndicesAreNumbers DEF Cas!IInv, CasGood
    <2>2. Cas!TypeOK'
        BY <1>2, <2>1, CasStepTypeOK DEF CasGood
    <2>3. ~cr_late' => Cas!StillTrue' /\ Cas!InOrder' /\ Cas!ClaimsApart'
        BY <1>2, <2>1, CasStepGood
    <2>4. QED
        BY <2>2, <2>3 DEF Cas!IInv
<1>3. QED
    BY <1>1, <1>2 DEF Cas!Next

\* For every capacity and any number of threads, until an exchange is late.
THEOREM CasInvariance ==
    ASSUME Cas!ConstantsAssumption PROVE Cas!Spec => []Cas!IInv
<1>1. Cas!Init => Cas!IInv
    BY CasInitIInv
<1>2. Cas!IInv /\ [Cas!Next]_(Cas!vars) => Cas!IInv'
    BY CasStepIInv
<1>3. QED
    BY <1>1, <1>2, PTL DEF Cas!Spec

\* No two pushes write the same slot, and none is given up while it is written.
THEOREM CasSlotsClaimedOnce ==
    ASSUME Cas!ConstantsAssumption PROVE Cas!Spec => []Cas!ClaimsApart
<1>1. Cas!IInv => Cas!ClaimsApart
    BY DEF Cas!IInv, Cas!ClaimsApart
<1>2. QED
    BY <1>1, CasInvariance, PTL

-----------------------------------------------------------------------------
(* The values queued *)

CasCells == Values \cup {Null}

\* The k-th slot from _head on.
CasNth(k) == (cr_head + k - 1) % Cas!_max_size

\* It is on the ring, k - 1 from _head.
LEMMA CasNthOnRing ==
    ASSUME Cas!ConstantsAssumption, NEW h \in Cas!Slots, NEW k \in 1 .. SlotCount + 1
    PROVE  /\ (h + k - 1) % Cas!_max_size = IF h + k - 1 <= SlotCount THEN h + k - 1
                  ELSE h + k - SlotCount - 2
           /\ (h + k - 1) % Cas!_max_size \in Cas!Slots
<1>1. SlotCount \in Nat /\ Cas!_max_size \in Nat \ {0} /\ Cas!_max_size = SlotCount + 1
          /\ Cas!Slots = 0 .. SlotCount
    BY DEF Cas!ConstantsAssumption, Cas!_max_size, Cas!Slots
<1>2. h \in Nat /\ h <= SlotCount /\ k \in Nat /\ 1 <= k /\ k <= SlotCount + 1
    BY <1>1
<1>3. CASE h + k - 1 <= SlotCount
    <2>1. PICK r \in 0 .. Cas!_max_size - 1 : r = h + k - 1
        BY <1>1, <1>2, <1>3
    <2>2. r % Cas!_max_size = r
        BY <1>1, CasModOnce
    <2>3. QED
        BY <1>1, <1>3, <2>1, <2>2
<1>4. CASE ~(h + k - 1 <= SlotCount)
    <2>1. PICK r \in 0 .. Cas!_max_size - 1 : r = h + k - SlotCount - 2
              /\ h + k - 1 = r + Cas!_max_size
        BY <1>1, <1>2, <1>4
    <2>2. (r + Cas!_max_size) % Cas!_max_size = r
        BY <1>1, CasModOnce
    <2>3. QED
        BY <1>1, <1>4, <2>1, <2>2
<1>5. QED
    BY <1>3, <1>4

\* What the value of a slot is.
CasValueView ==
    /\ \A t \in Producers, s \in Cas!Slots : cr_pc[t] = "push_write" /\ cr_i[t] = s
           => Cas!ValueAt(s) = cr_val[t]
    /\ \A s \in Cas!Slots :
        (\A t \in Producers : ~(cr_pc[t] = "push_write" /\ cr_i[t] = s))
            => Cas!ValueAt(s) = cr_data[s]

\* What the queue is.
CasQueuedView ==
    /\ Cas!Queued \in Seq(CasCells)
    /\ Len(Cas!Queued) = Cas!From(cr_tail)
    /\ \A k \in 1 .. Cas!From(cr_tail), s \in Cas!Slots : CasNth(k) = s
           => Cas!Queued[k] = Cas!ValueAt(s)

\* The values of the ring, written without %.
LEMMA CasViews ==
    ASSUME Cas!ConstantsAssumption PROVE Cas!IInv /\ ~cr_late => CasValueView /\ CasQueuedView
<1> SUFFICES ASSUME Cas!IInv, ~cr_late PROVE CasValueView /\ CasQueuedView
    OBVIOUS
<1> Cas!TypeOK /\ Cas!ClaimsApart
    BY DEF Cas!IInv
<1>1. ASSUME NEW t \in Producers, cr_pc[t] = "push_write" PROVE Cas!ValueAt(cr_i[t]) = cr_val[t]
    <2>1. \A u \in Cas!Writers(cr_i[t]) : u = t
        BY <1>1 DEF Cas!Writers, Cas!ClaimsApart, Cas!Claimed
    <2>2. t \in Cas!Writers(cr_i[t])
        BY <1>1 DEF Cas!Writers
    <2>3. (CHOOSE u \in Cas!Writers(cr_i[t]) : TRUE) = t
        BY <2>1, <2>2
    <2>4. QED
        BY <2>2, <2>3 DEF Cas!ValueAt
<1>2. ASSUME NEW s \in Cas!Slots, \A t \in Producers : ~(cr_pc[t] = "push_write" /\ cr_i[t] = s)
      PROVE  Cas!ValueAt(s) = cr_data[s]
    BY <1>2 DEF Cas!ValueAt, Cas!Writers
<1>3. CasValueView
    BY <1>1, <1>2 DEF CasValueView
<1>4. \A s \in Cas!Slots : Cas!ValueAt(s) \in CasCells
    BY <1>3 DEF CasValueView, Cas!TypeOK, CasCells
<1>5. CasNumbers
    BY CasIndicesAreNumbers
<1>6. Cas!From(cr_tail) \in Nat /\ Cas!From(cr_tail) <= SlotCount /\ SlotCount \in Nat
          /\ cr_head \in Cas!Slots
    <2>1. Cas!From(cr_tail) \in 0 .. SlotCount /\ SlotCount \in Nat
        BY <1>5, CasDistances DEF CasNumbers
    <2>2. QED
        BY <1>5, <2>1, CasDistances
<1>7. \A k \in 1 .. Cas!From(cr_tail) : CasNth(k) \in Cas!Slots
    BY <1>6, CasNthOnRing DEF CasNth
<1>8. Cas!Queued = [k \in 1 .. Cas!From(cr_tail) |-> Cas!ValueAt(CasNth(k))]
    BY DEF Cas!Queued, CasNth
<1>9. Cas!Queued \in [1 .. Cas!From(cr_tail) -> CasCells]
    BY <1>4, <1>7, <1>8
<1>10. Cas!Queued \in Seq(CasCells) /\ Len(Cas!Queued) = Cas!From(cr_tail)
    BY <1>6, <1>9
<1>11. QED
    BY <1>3, <1>8, <1>10 DEF CasQueuedView

\* Both hold before and after a step that is not late.
LEMMA CasBothViews ==
    ASSUME Cas!ConstantsAssumption
    PROVE  Cas!IInv /\ ~cr_late /\ Cas!IInv' /\ ~cr_late'
               => CasValueView /\ CasQueuedView /\ CasValueView' /\ CasQueuedView'
<1>1. Cas!IInv /\ ~cr_late => CasValueView /\ CasQueuedView
    BY CasViews
<1>2. QED
    BY <1>1, PTL

-----------------------------------------------------------------------------
(* The steps of the ring are steps of Fifo *)

\* A step of a call of t.
LEMMA CasCallStep ==
    ASSUME NEW t \in Producers, NEW from, NEW to, Cas!CallOf(t) = from, Cas!CallOf(t)' = to,
           \A u \in Producers : u # t => Cas!CallOf(u)' = Cas!CallOf(u)
    PROVE  Cas!Abstract!Step(t, from, to)
<1>1. [u \in Producers |-> Cas!CallOf(u)]' = [[u \in Producers |-> Cas!CallOf(u)] EXCEPT ![t] =
          to]
    OBVIOUS
<1>2. QED
    BY <1>1 DEF Cas!Abstract!Step

\* The calls of the others are not touched.
LEMMA CasOtherCalls ==
    ASSUME Cas!TypeOK, NEW t \in Producers, Cas!Push(t) \/ Cas!Pop(t) \/ Cas!Return(t)
    PROVE  \A u \in Producers : u # t => Cas!CallOf(u)' = Cas!CallOf(u)
BY CasOthersKeep DEF Cas!CallOf

\* What two steps in a row have to agree on.
CasInTime ==
    /\ CasGood /\ Cas!IInv /\ Cas!IInv' /\ ~cr_late'
    /\ CasValueView /\ CasQueuedView /\ CasValueView' /\ CasQueuedView'
CasSameQueue == Cas!Queued' = Cas!Queued

\* A step that moves neither end and leaves the values of the slots leaves the queue.
LEMMA CasQueueStays ==
    ASSUME Cas!ConstantsAssumption, CasInTime, UNCHANGED <<cr_head, cr_tail>>,
           \A s \in Cas!Slots : Cas!ValueAt(s)' = Cas!ValueAt(s)
    PROVE  CasSameQueue
<1>1. Cas!From(cr_tail)' = Cas!From(cr_tail) /\ \A k : CasNth(k)' = CasNth(k)
    BY DEF Cas!From, CasNth
<1>2. cr_head \in Cas!Slots /\ Cas!From(cr_tail) \in 0 .. SlotCount /\ SlotCount \in Nat
    BY CasDistances DEF CasInTime, CasGood, CasNumbers
<1>3. \A k \in 1 .. Cas!From(cr_tail) : CasNth(k) \in Cas!Slots
    BY <1>2, CasNthOnRing DEF CasNth
<1>4. Cas!Queued' = [k \in 1 .. Cas!From(cr_tail) |-> Cas!ValueAt(CasNth(k))']
    BY <1>1 DEF Cas!Queued, CasNth
<1>5. Cas!Queued = [k \in 1 .. Cas!From(cr_tail) |-> Cas!ValueAt(CasNth(k))]
    BY DEF Cas!Queued, CasNth
<1>6. \A k \in 1 .. Cas!From(cr_tail) : Cas!ValueAt(CasNth(k))' = Cas!ValueAt(CasNth(k))
    BY <1>1, <1>3 DEF Cas!ValueAt, Cas!Writers
<1>7. QED
    BY <1>4, <1>5, <1>6 DEF CasSameQueue

\* The steps of a call up to its effect, and its return.
LEMMA CasQuietRefines ==
    ASSUME Cas!ConstantsAssumption, CasInTime, NEW t \in Producers,
           \/ \E v \in Values : Cas!PushStart(t, v)
           \/ Cas!PushLoad(t) \/ Cas!PushFull(t) \/ Cas!PushUpdate(t)
           \/ Cas!PopStart(t) \/ Cas!PopLoad(t)
           \/ Cas!PopEmpty(t) \/ Cas!PopUpdate(t) \/ Cas!PopRead(t) \/ Cas!Return(t)
           \/ Cas!PushCas(t) /\ cr_tail # cr_i[t]
           \/ Cas!PopCas(t) /\ cr_head # cr_i[t]
    PROVE  CasSameQueue
<1>1. /\ cr_head' = cr_head /\ cr_tail' = cr_tail /\ cr_data' = cr_data
      /\ cr_pc[t] # "push_write" /\ cr_pc'[t] # "push_write"
    BY DEF Cas!PushStart, Cas!PushLoad, Cas!PushFull, Cas!PushCas, Cas!PushUpdate,
        Cas!PopStart, Cas!PopLoad, Cas!PopEmpty, Cas!PopUpdate, Cas!PopTest, Cas!PopRead,
        Cas!PopCas, Cas!Return, Cas!Goto, CasInTime, CasGood, Cas!TypeOK
<1>2. \A u \in Producers : cr_pc[u] = "push_write" \/ cr_pc'[u] = "push_write" =>
        cr_pc'[u] = cr_pc[u] /\ cr_i'[u] = cr_i[u] /\ cr_val'[u] = cr_val[u]
    BY <1>1, CasOthersKeep DEF CasInTime, CasGood, Cas!Push, Cas!Pop
<1>3. ASSUME NEW s \in Cas!Slots PROVE Cas!ValueAt(s)' = Cas!ValueAt(s)
    <2>1. Cas!Writers(s)' = Cas!Writers(s)
        BY <1>2 DEF Cas!Writers
    <2>2. \A u \in Cas!Writers(s) : cr_val'[u] = cr_val[u]
        BY <1>2 DEF Cas!Writers
    <2>3. QED
        BY <1>1, <2>1, <2>2 DEF Cas!ValueAt
<1>4. QED
    BY <1>1, <1>3, CasQueueStays

\* The write of a push that has claimed its slot changes no value.
LEMMA CasWriteRefines ==
    ASSUME Cas!ConstantsAssumption, CasInTime, NEW t \in Producers, Cas!PushWrite(t)
    PROVE  CasSameQueue
<1>1. /\ cr_head' = cr_head /\ cr_tail' = cr_tail
      /\ cr_data' = [cr_data EXCEPT ![cr_i[t]] = cr_val[t]]
      /\ cr_pc[t] = "push_write" /\ cr_pc' = [cr_pc EXCEPT ![t] = "push_update"]
      /\ cr_i' = cr_i /\ cr_val' = cr_val
    BY DEF Cas!PushWrite, Cas!Goto
<1>2. Cas!TypeOK /\ Cas!ClaimsApart /\ ~cr_late
    BY DEF CasInTime, CasGood
<1>3. \A u \in Producers : cr_pc'[u] = IF u = t THEN "push_update" ELSE cr_pc[u]
    BY <1>1, <1>2 DEF Cas!TypeOK
<1>4. ASSUME NEW s \in Cas!Slots PROVE Cas!ValueAt(s)' = Cas!ValueAt(s)
    <2>1. CASE s = cr_i[t]
        <3>1. Cas!ValueAt(s) = cr_val[t]
            BY <1>1, <2>1 DEF CasInTime, CasValueView
        <3>2. \A u \in Producers : ~(cr_pc'[u] = "push_write" /\ cr_i'[u] = s)
            BY <1>1, <1>2, <1>3, <2>1 DEF Cas!ClaimsApart, Cas!Claimed
        <3>3. Cas!ValueAt(s)' = cr_data'[s]
            BY <3>2 DEF Cas!ValueAt, Cas!Writers
        <3>4. cr_data'[s] = cr_val[t]
            BY <1>1, <1>2, <2>1 DEF Cas!TypeOK
        <3>5. QED
            BY <3>1, <3>3, <3>4
    <2>2. CASE s # cr_i[t]
        <3>1. Cas!Writers(s)' = Cas!Writers(s)
            BY <1>1, <1>3, <2>2 DEF Cas!Writers
        <3>2. cr_data'[s] = cr_data[s]
            BY <1>1, <1>2, <2>2 DEF Cas!TypeOK
        <3>3. QED
            BY <1>1, <3>1, <3>2 DEF Cas!ValueAt
    <2>3. QED
        BY <2>1, <2>2
<1>5. QED
    BY <1>1, <1>4, CasQueueStays

\* A push takes effect when it claims its slot.
LEMMA CasPushClaimRefines ==
    ASSUME Cas!ConstantsAssumption, CasInTime, NEW t \in Producers, Cas!PushCas(t),
           cr_tail = cr_i[t],
           cr_moves[t] = 0
    PROVE  Cas!Queued' = Append(Cas!Queued, cr_val[t]) /\ Len(Cas!Queued) < SlotCount
<1>1. /\ cr_pc[t] = "push_cas" /\ cr_pc' = [cr_pc EXCEPT ![t] = "push_write"]
      /\ cr_tail' = Cas!After(cr_tail) /\ cr_i' = cr_i /\ cr_val' = cr_val
      /\ cr_head' = cr_head /\ cr_data' = cr_data
    BY DEF Cas!PushCas, Cas!Goto
<1>2. Cas!TypeOK /\ Cas!ClaimsApart /\ ~cr_late /\ CasNumbers /\ Cas!InOrder /\ CasGood
    BY DEF CasInTime, CasGood
<1>3. \A u \in Producers : cr_pc'[u] = IF u = t THEN "push_write" ELSE cr_pc[u]
    BY <1>1, <1>2 DEF Cas!TypeOK
<1>4. Cas!After(cr_tail) # cr_head
    BY <1>1, <1>2, CasStillTrueIs DEF CasStill, CasGood
<1>5. /\ Cas!From(cr_tail)' = Cas!From(cr_tail) + 1 /\ Cas!From(cr_tail) < SlotCount
      /\ Cas!From(cr_tail) \in Nat /\ SlotCount \in Nat
    <2>1. /\ cr_head \in Cas!Slots /\ cr_tail \in Cas!Slots /\ SlotCount \in Nat
          /\ Cas!Slots = 0 .. SlotCount
          /\ Cas!After(cr_tail) \in Cas!Slots
          /\ Cas!After(cr_tail) = IF cr_tail = SlotCount THEN 0 ELSE cr_tail + 1
          /\ Cas!From(cr_tail) = IF cr_head <= cr_tail THEN cr_tail - cr_head
                 ELSE cr_tail - cr_head + SlotCount + 1
        BY <1>2 DEF CasNumbers
    <2>2. Cas!From(Cas!After(cr_tail)) =
              IF cr_head <= Cas!After(cr_tail) THEN Cas!After(cr_tail) - cr_head
                                         ELSE Cas!After(cr_tail) - cr_head + SlotCount + 1
        BY <1>2, <2>1 DEF CasNumbers
    <2>3. Cas!From(cr_tail)' = Cas!From(Cas!After(cr_tail))
        BY <1>1 DEF Cas!From
    <2>4. QED
        BY <1>4, <2>1, <2>2, <2>3
<1>6. PICK n \in Nat : n = Cas!From(cr_tail)
    BY <1>5
<1>7. CasNth(n + 1) = cr_tail
    <2>1. /\ cr_head \in Cas!Slots /\ cr_tail \in Cas!Slots /\ Cas!Slots = 0 .. SlotCount
          /\ n = IF cr_head <= cr_tail THEN cr_tail - cr_head
                 ELSE cr_tail - cr_head + SlotCount + 1
        BY <1>2, <1>6 DEF CasNumbers
    <2>2. n + 1 \in 1 .. SlotCount + 1
        BY <1>5, <1>6
    <2>3. CasNth(n + 1) = IF cr_head + (n + 1) - 1 <= SlotCount THEN cr_head + (n + 1) - 1
                          ELSE cr_head + (n + 1) - SlotCount - 2
        BY <2>1, <2>2, CasNthOnRing DEF CasNth
    <2>4. /\ cr_head \in 0 .. SlotCount /\ cr_tail \in 0 .. SlotCount /\ SlotCount \in Nat
        BY <1>5, <2>1
    <2>5. cr_head <= cr_tail => CasNth(n + 1) = cr_tail
        BY <1>6, <2>1, <2>3, <2>4
    <2>6. ~(cr_head <= cr_tail) => CasNth(n + 1) = cr_tail
        <3>1. ~(cr_head <= cr_tail) => n = cr_tail - cr_head + SlotCount + 1
            BY <2>1
        <3>2. ~(cr_head <= cr_tail) => cr_head + (n + 1) - 1 = cr_tail + SlotCount + 1
            BY <2>4, <3>1
        <3>3. QED
            BY <1>6, <2>3, <2>4, <3>1, <3>2
    <2>7. QED
        BY <2>5, <2>6
<1>8. ASSUME NEW k \in 1 .. n PROVE CasNth(k) \in Cas!Slots /\ CasNth(k) # cr_tail
    <2>1. /\ cr_head \in Cas!Slots /\ cr_tail \in Cas!Slots /\ Cas!Slots = 0 .. SlotCount
          /\ n = IF cr_head <= cr_tail THEN cr_tail - cr_head
                 ELSE cr_tail - cr_head + SlotCount + 1
        BY <1>2, <1>6 DEF CasNumbers
    <2>2. k \in 1 .. SlotCount + 1
        BY <1>5, <1>6
    <2>3. CasNth(k) = IF cr_head + k - 1 <= SlotCount THEN cr_head + k - 1
              ELSE cr_head + k - SlotCount - 2
        BY <2>1, <2>2, CasNthOnRing DEF CasNth
    <2>4. CasNth(k) \in Cas!Slots
        BY <2>1, <2>2, CasNthOnRing DEF CasNth
    <2>5. QED
        BY <1>5, <2>1, <2>3, <2>4
<1>9. ASSUME NEW s \in Cas!Slots, s # cr_tail PROVE Cas!ValueAt(s)' = Cas!ValueAt(s)
    <2>1. Cas!Writers(s)' = Cas!Writers(s)
        BY <1>1, <1>3, <1>9 DEF Cas!Writers
    <2>2. QED
        BY <1>1, <2>1 DEF Cas!ValueAt
<1>10. \A s \in Cas!Slots : s = cr_tail => Cas!ValueAt(s)' = cr_val[t]
    BY <1>1, <1>3 DEF CasInTime, CasValueView
<1>11. \A k : CasNth(k)' = CasNth(k)
    BY <1>1 DEF CasNth
<1>12. /\ Cas!Queued \in Seq(CasCells) /\ Len(Cas!Queued) = n
       /\ \A k \in 1 .. n, s \in Cas!Slots : CasNth(k) = s => Cas!Queued[k] = Cas!ValueAt(s)
    BY <1>6 DEF CasInTime, CasQueuedView
<1>13. /\ Cas!Queued' \in Seq(CasCells) /\ Len(Cas!Queued') = n + 1
       /\ \A k \in 1 .. n + 1, s \in Cas!Slots : CasNth(k) = s
              => Cas!Queued'[k] = Cas!ValueAt(s)'
    BY <1>5, <1>6, <1>11 DEF CasInTime, CasQueuedView, CasCells
<1>14. cr_val[t] \in CasCells
    BY <1>2 DEF Cas!TypeOK, CasCells
<1> DEFINE e == Append(Cas!Queued, cr_val[t])
<1>15. /\ e \in Seq(CasCells) /\ Len(e) = n + 1
       /\ \A k \in 1 .. n : e[k] = Cas!Queued[k]
       /\ e[n + 1] = cr_val[t]
    BY <1>12, <1>14, AppendProperties
<1> HIDE DEF e
<1>16. ASSUME NEW k \in 1 .. n PROVE Cas!Queued'[k] = e[k]
    <2>1. k \in 1 .. n + 1
        OBVIOUS
    <2>2. PICK s \in Cas!Slots : s = CasNth(k) /\ s # cr_tail
        BY <1>8
    <2>3. Cas!Queued'[k] = Cas!ValueAt(s)' /\ e[k] = Cas!ValueAt(s)
        BY <1>12, <1>13, <1>15, <2>1, <2>2
    <2>4. QED
        BY <1>9, <2>2, <2>3
<1>17. Cas!Queued'[n + 1] = e[n + 1]
    <2>1. PICK s \in Cas!Slots : s = cr_tail
        BY <1>2 DEF Cas!TypeOK
    <2>2. n + 1 \in 1 .. n + 1
        OBVIOUS
    <2>3. Cas!Queued'[n + 1] = Cas!ValueAt(s)'
        BY <1>7, <1>13, <2>1, <2>2
    <2>4. QED
        BY <1>10, <1>15, <2>1, <2>3
<1>18. \A k \in 1 .. Len(Cas!Queued') : Cas!Queued'[k] = e[k]
    BY <1>13, <1>16, <1>17
<1>19. Len(Cas!Queued') = Len(e)
    BY <1>13, <1>15
<1>20. Cas!Queued' = e
    BY ONLY <1>13, <1>15, <1>18, <1>19, SeqEqual
<1>21. QED
    BY <1>5, <1>6, <1>12, <1>20 DEF e

\* A pop in time takes the oldest value.
LEMMA CasPopClaimRefines ==
    ASSUME Cas!ConstantsAssumption, CasInTime, NEW t \in Producers, Cas!PopCas(t),
           cr_head = cr_i[t],
           cr_moves[t] = 0
    PROVE  Cas!Queued # <<>> /\ cr_val[t] = Head(Cas!Queued) /\ Cas!Queued' = Tail(Cas!Queued)
<1>1. /\ cr_pc[t] = "pop_cas" /\ cr_pc' = [cr_pc EXCEPT ![t] = "popped"]
      /\ cr_tail' = cr_tail /\ cr_i' = cr_i /\ cr_val' = cr_val
      /\ cr_head' = Cas!After(cr_head) /\ cr_data' = cr_data
    BY DEF Cas!PopCas, Cas!Goto
<1>2. Cas!TypeOK /\ Cas!ClaimsApart /\ ~cr_late /\ CasNumbers /\ Cas!InOrder /\ CasGood
    BY DEF CasInTime, CasGood
<1>3. \A u \in Producers : cr_pc'[u] = IF u = t THEN "popped" ELSE cr_pc[u]
    BY <1>1, <1>2 DEF Cas!TypeOK
<1>4. cr_head # cr_tail_update /\ cr_val[t] = cr_data[cr_head]
    BY <1>1, <1>2, CasStillTrueIs DEF CasStill, CasGood
<1>5. /\ Cas!From(cr_tail) > 0
      /\ \A u \in Cas!Claimed : cr_i[u] # cr_head
    BY <1>2, <1>4, CasIndicesApart
<1>6. Cas!From(cr_tail)' = Cas!From(cr_tail) - 1
    <2>1. cr_tail \in Cas!Slots /\ cr_tail # cr_head
        BY <1>2, <1>5, CasDistances
    <2>2. (cr_tail - cr_head') % Cas!_max_size = Cas!From(cr_tail) - 1
        BY <1>1, <1>2, <2>1, CasHeadMoves
    <2>3. QED
        BY <1>1, <2>2 DEF Cas!From
<1>7. /\ Cas!From(cr_tail) \in 0 .. SlotCount /\ SlotCount \in Nat
      /\ cr_head \in 0 .. SlotCount /\ Cas!Slots = 0 .. SlotCount /\ cr_head \in Cas!Slots
    BY <1>2, CasDistances DEF CasNumbers
<1>8. PICK n \in Nat : Cas!From(cr_tail) = n + 1
    <2>1. PICK d : d = Cas!From(cr_tail)
        OBVIOUS
    <2>2. d \in 0 .. SlotCount /\ SlotCount \in Nat /\ d > 0
        BY <1>5, <1>7, <2>1
    <2>3. d - 1 \in Nat /\ d = (d - 1) + 1
        BY <2>2
    <2>4. QED
        BY <2>1, <2>3
<1>9. Cas!Writers(cr_head) = {}
    BY <1>5 DEF Cas!Writers, Cas!Claimed
<1>10. Cas!ValueAt(cr_head) = cr_val[t]
    BY <1>4, <1>9 DEF Cas!ValueAt
<1>11. /\ Cas!Queued \in Seq(CasCells) /\ Len(Cas!Queued) = n + 1
       /\ \A k \in 1 .. n + 1, s \in Cas!Slots : CasNth(k) = s => Cas!Queued[k] = Cas!ValueAt(s)
    BY <1>8 DEF CasInTime, CasQueuedView
<1>12. CasNth(1) = cr_head
    <2>1. 1 \in 1 .. SlotCount + 1
        BY <1>7
    <2>2. CasNth(1) = IF cr_head + 1 - 1 <= SlotCount THEN cr_head + 1 - 1
              ELSE cr_head + 1 - SlotCount - 2
        BY <1>7, <2>1, CasNthOnRing DEF CasNth
    <2>3. QED
        BY <1>7, <2>2
<1>13. Cas!Queued[1] = cr_val[t]
    <2>1. 1 \in 1 .. n + 1
        OBVIOUS
    <2>2. PICK s \in Cas!Slots : s = cr_head
        BY <1>7
    <2>3. Cas!Queued[1] = Cas!ValueAt(s)
        BY <1>11, <1>12, <2>1, <2>2
    <2>4. QED
        BY <1>10, <2>2, <2>3
<1>14. Cas!Queued # <<>>
    <2>1. Len(Cas!Queued) > 0
        BY <1>11
    <2>2. QED
        BY <2>1
<1>15. Head(Cas!Queued) = cr_val[t]
    BY <1>11, <1>13, <1>14, HeadTailProperties
<1>16. ASSUME NEW k \in 1 .. n PROVE CasNth(k)' = CasNth(k + 1) /\ CasNth(k + 1) \in Cas!Slots
    <2>1. k \in 1 .. SlotCount + 1 /\ k + 1 \in 1 .. SlotCount + 1
        BY <1>7, <1>8
    <2>2. PICK h \in Cas!Slots : h = cr_head'
        BY <1>1, <1>2, <1>7 DEF CasNumbers
    <2>3. h = IF cr_head = SlotCount THEN 0 ELSE cr_head + 1
        BY <1>1, <1>2, <1>7, <2>2 DEF CasNumbers
    <2>4. CasNth(k + 1) = IF cr_head + (k + 1) - 1 <= SlotCount THEN cr_head + (k + 1) - 1
                          ELSE cr_head + (k + 1) - SlotCount - 2
        BY <1>7, <2>1, CasNthOnRing DEF CasNth
    <2>5. CasNth(k + 1) \in Cas!Slots
        BY <1>7, <2>1, CasNthOnRing DEF CasNth
    <2>6. (h + k - 1) % Cas!_max_size = IF h + k - 1 <= SlotCount THEN h + k - 1
              ELSE h + k - SlotCount - 2
        BY <2>1, CasNthOnRing
    <2>7. CasNth(k)' = (h + k - 1) % Cas!_max_size
        BY <2>2 DEF CasNth, Cas!_max_size
    <2>8. (h + k - 1) % Cas!_max_size = CasNth(k + 1)
        <3>1. cr_head = SlotCount => (h + k - 1) % Cas!_max_size = CasNth(k + 1)
            <4>1. cr_head = SlotCount => h + k - 1 = k - 1
                BY <1>7, <2>3
            <4>2. cr_head = SlotCount => (h + k - 1) % Cas!_max_size = k - 1
                BY <1>7, <1>8, <2>6, <4>1
            <4>3. cr_head = SlotCount => CasNth(k + 1) = k - 1
                BY <1>7, <2>4
            <4>4. QED
                BY <4>2, <4>3
        <3>2. cr_head # SlotCount => (h + k - 1) % Cas!_max_size = CasNth(k + 1)
            <4>1. cr_head # SlotCount => h + k - 1 = cr_head + (k + 1) - 1
                BY <1>7, <2>3
            <4>2. cr_head # SlotCount => h + k - SlotCount - 2 =
                      cr_head + (k + 1) - SlotCount - 2
                BY <1>7, <2>3
            <4>3. QED
                BY <2>4, <2>6, <4>1, <4>2
        <3>3. QED
            BY <3>1, <3>2
    <2>9. QED
        BY <2>5, <2>7, <2>8
<1>17. ASSUME NEW s \in Cas!Slots PROVE Cas!ValueAt(s)' = Cas!ValueAt(s)
    <2>1. Cas!Writers(s)' = Cas!Writers(s)
        BY <1>1, <1>3 DEF Cas!Writers
    <2>2. QED
        BY <1>1, <2>1 DEF Cas!ValueAt
<1>18. /\ Cas!Queued' \in Seq(CasCells) /\ Len(Cas!Queued') = n
       /\ \A k \in 1 .. n, s \in Cas!Slots : CasNth(k)' = s => Cas!Queued'[k] = Cas!ValueAt(s)'
    <2>1. Cas!From(cr_tail)' = n
        BY <1>6, <1>8
    <2>2. /\ Cas!Queued' \in Seq(CasCells) /\ Len(Cas!Queued') = Cas!From(cr_tail)'
          /\ \A k \in 1 .. Cas!From(cr_tail)', s \in Cas!Slots : CasNth(k)' = s
                 => Cas!Queued'[k] = Cas!ValueAt(s)'
        BY DEF CasInTime, CasQueuedView, Cas!Slots, CasCells
    <2>3. QED
        BY <2>1, <2>2
<1> DEFINE e == Tail(Cas!Queued)
<1>19. e \in Seq(CasCells) /\ Len(e) = n /\ \A k \in 1 .. n : e[k] = Cas!Queued[k + 1]
    <2>1. /\ e \in Seq(CasCells) /\ Len(e) = Len(Cas!Queued) - 1
          /\ \A k \in 1 .. Len(e) : e[k] = Cas!Queued[k + 1]
        BY ONLY <1>11, <1>14, HeadTailProperties
    <2>2. QED
        BY <1>11, <2>1
<1> HIDE DEF e
<1>20. ASSUME NEW k \in 1 .. n PROVE Cas!Queued'[k] = e[k]
    <2>1. PICK s \in Cas!Slots : s = CasNth(k + 1) /\ CasNth(k)' = s
        BY <1>16
    <2>2. Cas!Queued'[k] = Cas!ValueAt(s)'
        BY <1>18, <2>1
    <2>3. k + 1 \in 1 .. n + 1
        OBVIOUS
    <2>4. Cas!Queued[k + 1] = Cas!ValueAt(s)
        BY <1>11, <2>1, <2>3
    <2>5. QED
        BY <1>17, <1>19, <2>2, <2>4
<1>21. Len(Cas!Queued') = Len(e) /\ \A k \in 1 .. Len(Cas!Queued') : Cas!Queued'[k] = e[k]
    BY <1>18, <1>19, <1>20
<1>22. Cas!Queued' = e
    BY ONLY <1>18, <1>19, <1>21, SeqEqual
<1>23. QED
    BY <1>14, <1>15, <1>22 DEF e

\* A step that leaves the queue and the calls.
LEMMA CasStutter ==
    ASSUME CasSameQueue, \A u \in Producers : Cas!CallOf(u)' = Cas!CallOf(u)
    PROVE  UNCHANGED Cas!Abstract!vars
<1>1. [u \in Producers |-> Cas!CallOf(u)]' = [u \in Producers |-> Cas!CallOf(u)]
    OBVIOUS
<1>2. QED
    BY <1>1 DEF Cas!Abstract!vars, CasSameQueue

\* A step of a thread in time is a step of Fifo, or none.
LEMMA CasThreadRefines ==
    ASSUME Cas!ConstantsAssumption, CasInTime, NEW t \in Producers,
           Cas!Push(t) \/ Cas!Pop(t) \/ Cas!Return(t)
    PROVE  [Cas!Abstract!Next]_(Cas!Abstract!vars)
<1> USE DEF Cas!Goto, Cas!PushIndex, Cas!PopIndex
<1>1. Cas!TypeOK /\ CasGood
    BY DEF CasInTime, CasGood
<1>2. \A u \in Producers : u # t => Cas!CallOf(u)' = Cas!CallOf(u)
    BY <1>1, CasOtherCalls
<1>3. /\ cr_pc[t] \in Cas!PushIndex \cup Cas!PopIndex \cup
                      {"idle", "push_load", "push_write", "push_update", "pop_load",
                       "full", "empty", "popped"}
      /\ cr_val[t] \in Values \cup {Null}
      /\ cr_pc[t] \in {"push_full", "push_cas", "push_load", "push_write"}
             => cr_val[t] \in Values
    BY <1>1, CasStillTrueIs DEF Cas!TypeOK, CasStill, CasGood
<1>4. ASSUME CasSameQueue, Cas!CallOf(t)' = Cas!CallOf(t)
      PROVE  [Cas!Abstract!Next]_(Cas!Abstract!vars)
    BY <1>2, <1>4, CasStutter
<1>5. ASSUME NEW v \in Values, Cas!PushStart(t, v) PROVE [Cas!Abstract!Next]_(Cas!Abstract!vars)
    <2>1. CasSameQueue
        BY <1>5, CasQuietRefines
    <2>2. Cas!CallOf(t) = <<"idle">> /\ Cas!CallOf(t)' = <<"push", v>>
        BY <1>1, <1>5 DEF Cas!PushStart, Cas!CallOf, Cas!TypeOK
    <2>3. Cas!Abstract!Step(t, <<"idle">>, <<"push", v>>)
        BY <1>2, <2>2, CasCallStep
    <2>4. Cas!Abstract!CallPush(t, v)
        BY <2>1, <2>3
        DEF Cas!Abstract!CallPush, Cas!Abstract!Idle, Cas!Abstract!Pushing, CasSameQueue
    <2>5. QED
        BY <2>4 DEF Cas!Abstract!Next
<1>6. CASE Cas!PushFull(t)
    <2>1. CasSameQueue
        BY <1>6, CasQuietRefines
    <2>2. CASE Cas!After(cr_i[t]) = cr_head
        <3>1. Cas!CallOf(t) = <<"push", cr_val[t]>> /\ Cas!CallOf(t)' = <<"full">>
                  /\ cr_val[t] \in Values
            BY <1>1, <1>3, <1>6, <2>2 DEF Cas!PushFull, Cas!CallOf, Cas!TypeOK
        <3>2. Cas!Abstract!Step(t, <<"push", cr_val[t]>>, <<"full">>)
            BY <1>2, <3>1, CasCallStep
        <3>3. Cas!Abstract!PushFull(t, cr_val[t])
            BY <2>1, <3>2
            DEF Cas!Abstract!PushFull, Cas!Abstract!Refused, Cas!Abstract!Pushing,
                CasSameQueue
        <3>4. QED
            BY <3>1, <3>3 DEF Cas!Abstract!Next
    <2>3. CASE Cas!After(cr_i[t]) # cr_head
        <3>1. Cas!CallOf(t)' = Cas!CallOf(t)
            BY <1>1, <1>6, <2>3 DEF Cas!PushFull, Cas!CallOf, Cas!TypeOK
        <3>2. QED
            BY <1>4, <2>1, <3>1
    <2>4. QED
        BY <2>2, <2>3
<1>7. CASE Cas!PushCas(t) /\ cr_tail = cr_i[t]
    <2>1. cr_moves[t] = 0
        <3>1. cr_late' = (cr_late \/ cr_moves[t] > 0)
            BY <1>7, Zenon DEF Cas!PushCas
        <3>2. ~(cr_moves[t] > 0)
            BY <3>1, Zenon DEF CasInTime
        <3>3. cr_moves[t] \in 0 .. Cas!_max_size /\ Cas!_max_size \in Nat
            BY <1>1 DEF Cas!TypeOK, Cas!_max_size, Cas!ConstantsAssumption
        <3>4. QED
            BY <3>2, <3>3
    <2>2. Cas!Queued' = Append(Cas!Queued, cr_val[t]) /\ Len(Cas!Queued) < SlotCount
        BY <1>7, <2>1, CasPushClaimRefines
    <2>3. Cas!CallOf(t) = <<"push", cr_val[t]>> /\ Cas!CallOf(t)' = <<"idle">>
              /\ cr_val[t] \in Values
        BY <1>1, <1>3, <1>7 DEF Cas!PushCas, Cas!CallOf, Cas!TypeOK
    <2>4. Cas!Abstract!Step(t, <<"push", cr_val[t]>>, <<"idle">>)
        BY <1>2, <2>3, CasCallStep
    <2>5. Cas!Abstract!Push(t, cr_val[t])
        BY <2>2, <2>4 DEF Cas!Abstract!Push, Cas!Abstract!Idle, Cas!Abstract!Pushing
    <2>6. QED
        BY <2>3, <2>5 DEF Cas!Abstract!Next
<1>8. CASE Cas!PushWrite(t)
    <2>1. CasSameQueue
        BY <1>8, CasWriteRefines
    <2>2. Cas!CallOf(t)' = Cas!CallOf(t)
        BY <1>1, <1>8 DEF Cas!PushWrite, Cas!CallOf, Cas!TypeOK
    <2>3. QED
        BY <1>4, <2>1, <2>2
<1>9. CASE \/ Cas!PushUpdate(t) \/ Cas!PushLoad(t) \/ Cas!PopLoad(t) \/ Cas!PopRead(t)
           \/ (Cas!PushCas(t) /\ cr_tail # cr_i[t]) \/ (Cas!PopCas(t) /\ cr_head # cr_i[t])
    <2>1. CasSameQueue
        BY <1>9, CasQuietRefines
    <2>2. Cas!CallOf(t)' = Cas!CallOf(t)
        BY <1>1, <1>9
        DEF Cas!PushUpdate, Cas!PushLoad, Cas!PopLoad, Cas!PopRead, Cas!PushCas, Cas!PopCas,
            Cas!CallOf, Cas!TypeOK
    <2>3. QED
        BY <1>4, <2>1, <2>2
<1>10. CASE Cas!PopStart(t)
    <2>1. CasSameQueue
        BY <1>10, CasQuietRefines
    <2>2. Cas!CallOf(t) = <<"idle">> /\ Cas!CallOf(t)' = <<"pop">>
        BY <1>1, <1>10 DEF Cas!PopStart, Cas!CallOf, Cas!TypeOK
    <2>3. Cas!Abstract!Step(t, <<"idle">>, <<"pop">>)
        BY <1>2, <2>2, CasCallStep
    <2>4. Cas!Abstract!CallPop(t)
        BY <2>1, <2>3
        DEF Cas!Abstract!CallPop, Cas!Abstract!Idle, Cas!Abstract!Popping, CasSameQueue
    <2>5. QED
        BY <2>4 DEF Cas!Abstract!Next
<1>11. CASE Cas!PopEmpty(t) \/ Cas!PopUpdate(t)
    <2>1. CasSameQueue
        BY <1>11, CasQuietRefines
    <2>2. Cas!CallOf(t) = <<"pop">> /\ Cas!CallOf(t)' \in {<<"pop">>, <<"got", Null>>}
        BY <1>1, <1>11 DEF Cas!PopEmpty, Cas!PopUpdate, Cas!PopTest, Cas!CallOf, Cas!TypeOK
    <2>3. CASE Cas!CallOf(t)' = <<"got", Null>>
        <3>1. Cas!Abstract!Step(t, <<"pop">>, <<"got", Null>>)
            BY <1>2, <2>2, <2>3, CasCallStep
        <3>2. Cas!Abstract!PopEmpty(t)
            BY <2>1, <3>1
            DEF Cas!Abstract!PopEmpty, Cas!Abstract!Got, Cas!Abstract!Popping, CasSameQueue
        <3>3. QED
            BY <3>2 DEF Cas!Abstract!Next
    <2>4. QED
        BY <1>4, <2>1, <2>2, <2>3
<1>12. CASE Cas!PopCas(t) /\ cr_head = cr_i[t]
    <2>1. cr_moves[t] = 0
        <3>1. cr_late' = (cr_late \/ cr_moves[t] > 0)
            BY <1>12, Zenon DEF Cas!PopCas
        <3>2. ~(cr_moves[t] > 0)
            BY <3>1, Zenon DEF CasInTime
        <3>3. cr_moves[t] \in 0 .. Cas!_max_size /\ Cas!_max_size \in Nat
            BY <1>1 DEF Cas!TypeOK, Cas!_max_size, Cas!ConstantsAssumption
        <3>4. QED
            BY <3>2, <3>3
    <2>2. Cas!Queued # <<>> /\ cr_val[t] = Head(Cas!Queued) /\ Cas!Queued' = Tail(Cas!Queued)
        BY <1>12, <2>1, CasPopClaimRefines
    <2>3. Cas!CallOf(t) = <<"pop">> /\ Cas!CallOf(t)' = <<"got", cr_val[t]>>
        BY <1>1, <1>12 DEF Cas!PopCas, Cas!CallOf, Cas!TypeOK
    <2>4. Cas!Abstract!Step(t, <<"pop">>, <<"got", cr_val[t]>>)
        BY <1>2, <2>3, CasCallStep
    <2>5. Cas!Abstract!Pop(t)
        BY <2>2, <2>4 DEF Cas!Abstract!Pop, Cas!Abstract!Got, Cas!Abstract!Popping
    <2>6. QED
        BY <2>5 DEF Cas!Abstract!Next
<1>13. CASE Cas!Return(t)
    <2>1. CasSameQueue
        BY <1>13, CasQuietRefines
    <2>2. Cas!CallOf(t)' = <<"idle">>
        BY <1>1, <1>13 DEF Cas!Return, Cas!CallOf, Cas!TypeOK
    <2>3. PICK r \in {Cas!Abstract!Refused} \cup {Cas!Abstract!Got(v) : v \in Values \cup {Null}} :
              r = Cas!CallOf(t)
        BY <1>1, <1>3, <1>13
        DEF Cas!Return, Cas!CallOf, Cas!TypeOK, Cas!Abstract!Refused, Cas!Abstract!Got
    <2>4. Cas!Abstract!Step(t, r, <<"idle">>)
        BY <1>2, <2>2, <2>3, CasCallStep
    <2>5. Cas!Abstract!Return(t)
        BY <2>1, <2>3, <2>4 DEF Cas!Abstract!Return, Cas!Abstract!Idle, CasSameQueue
    <2>6. QED
        BY <2>5 DEF Cas!Abstract!Next
<1>14. CASE Cas!Push(t)
    BY <1>5, <1>6, <1>7, <1>8, <1>9, <1>14 DEF Cas!Push
<1>15. CASE Cas!Pop(t)
    BY <1>9, <1>10, <1>11, <1>12, <1>15 DEF Cas!Pop
<1>16. QED
    BY <1>13, <1>14, <1>15

\* Every step is one of Fifo, or none, or late.
LEMMA CasStepRefines ==
    ASSUME Cas!ConstantsAssumption
    PROVE  Cas!IInv /\ [Cas!Next]_(Cas!vars)
               => cr_late' \/ [Cas!Abstract!Next]_(Cas!Abstract!vars)
<1> SUFFICES ASSUME Cas!IInv, [Cas!Next]_(Cas!vars), ~cr_late'
             PROVE  [Cas!Abstract!Next]_(Cas!Abstract!vars)
    OBVIOUS
<1>1. CASE UNCHANGED Cas!vars
    BY <1>1
    DEF Cas!vars, Cas!Abstract!vars, Cas!Queued, Cas!From, Cas!ValueAt, Cas!Writers,
        Cas!CallOf
<1>2. CASE Cas!Next /\ ~cr_late
    <2>1. Cas!IInv'
        BY CasStepIInv
    <2>2. CasInTime
        BY <1>2, <2>1, CasBothViews, CasIndicesAreNumbers DEF CasInTime, CasGood, Cas!IInv
    <2>3. PICK t \in Producers : Cas!Push(t) \/ Cas!Pop(t) \/ Cas!Return(t)
        BY <1>2 DEF Cas!Next
    <2>4. QED
        BY <2>2, <2>3, CasThreadRefines
<1>3. QED
    BY <1>1, <1>2 DEF Cas!Next

\* The ring starts out as Fifo does.
LEMMA CasStartsEmpty ==
    ASSUME Cas!ConstantsAssumption PROVE Cas!Init => Cas!Abstract!Init
<1> SUFFICES ASSUME Cas!Init PROVE Cas!Abstract!Init
    OBVIOUS
<1>1. Cas!IInv /\ ~cr_late
    BY CasInitIInv DEF Cas!Init
<1>2. Cas!From(cr_tail) = 0
    BY <1>1, CasIndicesAreNumbers, CasDistances DEF Cas!IInv, Cas!Init
<1>3. Cas!Queued = <<>>
    BY <1>2 DEF Cas!Queued
<1>4. \A t \in Producers : Cas!CallOf(t) = <<"idle">>
    BY DEF Cas!Init, Cas!CallOf, Cas!PushIndex, Cas!PopIndex
<1>5. QED
    BY <1>3, <1>4 DEF Cas!Abstract!Init, Cas!Abstract!Idle

\* Until an exchange takes an index that has gone round the ring for the one it was,
\* the ring is linearizable: for every capacity and any number of threads.
THEOREM CasLinearizableUntilLate ==
    ASSUME Cas!ConstantsAssumption PROVE Cas!Spec => Cas!ImplementsFifoUntilLate
<1>1. Cas!Init => Cas!Abstract!Init
    BY CasStartsEmpty
<1>2. Cas!IInv /\ [Cas!Next]_(Cas!vars)
          => [cr_late' \/ [Cas!Abstract!Next]_(Cas!Abstract!vars)]_(Cas!vars)
    BY CasStepRefines
<1>3. QED
    BY <1>1, <1>2, CasInvariance, PTL DEF Cas!Spec, Cas!ImplementsFifoUntilLate

-----------------------------------------------------------------------------
(* MCFifos: whichever queue it runs *)

\* The Vyukov ring has two slots or more.
TwoSlotsOrMore == SlotCount # 1

fifos_vars == <<which, vars, sl_vars, mr_vars, op_vars, cr_vars, sr_vars, tq_vars>>

-----------------------------------------------------------------------------
(* A step of MCFifos is a step of each queue, or leaves it alone. *)

\* A component whose variables do not change does not step.
LEMMA Idle ==
    /\ UNCHANGED sl_vars => UNCHANGED Linked!vars
    /\ UNCHANGED mr_vars => UNCHANGED Mpmc!vars
    /\ UNCHANGED op_vars => UNCHANGED OneProducer!vars
    /\ UNCHANGED cr_vars => UNCHANGED Cas!vars
    /\ UNCHANGED sr_vars => UNCHANGED Spin!vars
    /\ UNCHANGED tq_vars => UNCHANGED Two!vars
<1>1. UNCHANGED sl_vars => UNCHANGED Linked!vars
    BY DEF sl_vars, Linked!vars, Linked!node, Linked!push_vars, Linked!pop_vars
<1>2. UNCHANGED mr_vars => UNCHANGED Mpmc!vars
    BY DEF mr_vars, Mpmc!vars
<1>3. UNCHANGED op_vars => UNCHANGED OneProducer!vars
    BY DEF op_vars, OneProducer!vars
<1>4. UNCHANGED cr_vars => UNCHANGED Cas!vars
    BY DEF cr_vars, Cas!vars
<1>5. UNCHANGED sr_vars => UNCHANGED Spin!vars
    BY DEF sr_vars, Spin!vars
<1>6. UNCHANGED tq_vars => UNCHANGED Two!vars
    BY DEF tq_vars, Two!vars
<1>7. QED
    BY <1>1, <1>2, <1>3, <1>4, <1>5, <1>6

\* A step of one component leaves the others alone.
LEMMA StepOfEach ==
    [FifosNext]_fifos_vars =>
        /\ [Next]_vars
        /\ [Linked!Next]_(Linked!vars)
        /\ [Mpmc!Next]_(Mpmc!vars)
        /\ [OneProducer!Next]_(OneProducer!vars)
        /\ [Cas!Next]_(Cas!vars)
        /\ [Spin!Next]_(Spin!vars)
        /\ [Two!Next]_(Two!vars)
BY Idle
DEF FifosNext, SpscStep, LinkedStep, MpmcStep, OneProducerStep, CasStep, SpinlockStep,
    TwoLockStep, fifos_vars

\* Whichever queue it runs, a behaviour of MCFifos is a behaviour of every queue.
THEOREM BehavesAsEach ==
    FifosSpec =>
        /\ Spec /\ Linked!Spec /\ Mpmc!Spec /\ OneProducer!Spec
        /\ Cas!Spec /\ Spin!Spec /\ Two!Spec
<1>1. FifosInit => /\ Init /\ Linked!Init /\ Mpmc!Init /\ OneProducer!Init
                   /\ Cas!Init /\ Spin!Init /\ Two!Init
    BY DEF FifosInit
<1>2. QED
    BY <1>1, StepOfEach, PTL
    DEF FifosSpec, fifos_vars, Spec, Linked!Spec, Mpmc!Spec, OneProducer!Spec, Cas!Spec,
        Spin!Spec, Two!Spec

-----------------------------------------------------------------------------
(* The invariants *)

\* Both Vyukov rings are instances their proofs are about.
LEMMA RingsHaveSlots ==
    ASSUME TwoSlotsOrMore
    PROVE  Mpmc!TwoSlots /\ OneProducer!SingleProducer
<1>1. Mpmc!TwoSlots /\ OneProducer!TwoSlots
    BY QueueConstants DEF QueueConstants, TwoSlotsOrMore, Mpmc!TwoSlots, OneProducer!TwoSlots
<1>2. QED
    BY <1>1 DEF OneProducer!SingleProducer

\* The invariants of all queues together.
FifosInv ==
    /\ IInv /\ LinkedIInv /\ Mpmc!RInv /\ OneProducer!OInv
    /\ Cas!IInv /\ Spin!IInv /\ Two!IInv

\* The invariants of all components, at the start
LEMMA InitFifosInv == TwoSlotsOrMore /\ FifosInit => FifosInv
<1> SUFFICES ASSUME TwoSlotsOrMore, FifosInit PROVE FifosInv
    OBVIOUS
<1>1. IInv /\ LinkedIInv
    BY QueueConstants, InitIInv, LinkedInitIInv DEF FifosInit, QueueConstants
<1>2. Mpmc!RInv
    BY RingsHaveSlots, Mpmc!StartsEmpty DEF FifosInit
<1>3. OneProducer!OInv
    BY RingsHaveSlots, OneProducer!InitOInv DEF FifosInit
<1>4. Cas!IInv /\ Spin!IInv /\ Two!IInv
    BY QueueConstants, CasInitIInv, SpinInitIInv, TwoInitIInv
    DEF FifosInit, QueueConstants
<1>5. QED
    BY <1>1, <1>2, <1>3, <1>4 DEF FifosInv

\* and after each step.
LEMMA StepFifosInv == TwoSlotsOrMore /\ FifosInv /\ [FifosNext]_fifos_vars => FifosInv'
<1> SUFFICES ASSUME TwoSlotsOrMore, FifosInv, [FifosNext]_fifos_vars PROVE FifosInv'
    OBVIOUS
<1>1. IInv'
    BY StepOfEach, StepIInv DEF FifosInv
<1>2. LinkedIInv'
    BY QueueConstants, StepOfEach, LinkedStepIInv DEF FifosInv, QueueConstants
<1>3. Mpmc!RInv'
    BY StepOfEach, Mpmc!StepRInv DEF FifosInv
<1>4. OneProducer!OInv'
    BY StepOfEach, RingsHaveSlots, OneProducer!StepOInv DEF FifosInv
<1>5. Cas!IInv'
    BY QueueConstants, StepOfEach, CasStepIInv DEF FifosInv, QueueConstants
<1>6. Spin!IInv'
    BY QueueConstants, StepOfEach, SpinStepIInv DEF FifosInv, QueueConstants
<1>7. Two!IInv'
    BY QueueConstants, StepOfEach, TwoStepIInv DEF FifosInv, QueueConstants
<1>8. QED
    BY <1>1, <1>2, <1>3, <1>4, <1>5, <1>6, <1>7 DEF FifosInv

\* The invariants hold in every state.
THEOREM FifosInvariance ==
    ASSUME TwoSlotsOrMore PROVE FifosSpec => []FifosInv
<1>1. FifosInit => FifosInv
    BY InitFifosInv
<1>2. FifosInv /\ [FifosNext]_fifos_vars => FifosInv'
    BY StepFifosInv
<1>3. QED
    BY <1>1, <1>2, PTL DEF FifosSpec, fifos_vars

\* In every queue no node or slot is touched by two threads at once, and none is
\* lost, for any number of threads, values, nodes and slots.
THEOREM NeverShared ==
    ASSUME TwoSlotsOrMore PROVE FifosSpec => []NodesUnshared
<1>1. FifosInv => NodesUnshared
    <2> SUFFICES ASSUME FifosInv PROVE NodesUnshared
        OBVIOUS
    <2>1. IInv /\ LinkedIInv /\ Mpmc!IInv /\ Cas!IInv /\ Spin!IInv /\ Two!IInv
        BY DEF FifosInv, Mpmc!RInv
    <2>2. /\ Linked!NodesUnshared /\ Linked!NodesAccounted
          /\ Linked!Consistent(Linked!Linked)
        BY <2>1, QueueConstants, LinkedIInvChain DEF QueueConstants
    <2>3. Linked!TypeOK /\ Linked!LocalsOK
        BY <2>1 DEF LinkedIInv
    <2>4. Mpmc!SlotsUnshared
        BY <2>1, RingsHaveSlots, Mpmc!IInvSlots
    <2>5. Cas!ClaimsApart
        BY <2>1 DEF Cas!IInv, Cas!ClaimsApart
    <2>6. Spin!ObjectsInRing
        BY <2>1, QueueConstants, SpinIInvObjects DEF QueueConstants
    <2>7. Two!TakesRealNode
        BY <2>1, TwoIInvTakes
    <2>8. QED
        BY <2>1, <2>2, <2>3, <2>4, <2>5, <2>6, <2>7 DEF NodesUnshared
<1>2. QED
    BY <1>1, FifosInvariance, PTL

\* The positions claimed for a push and not yet for a pop fit the Vyukov ring.
THEOREM RingNeverOverfull ==
    ASSUME TwoSlotsOrMore PROVE FifosSpec => []CapacityKept
<1>1. FifosInv => CapacityKept
    BY RingsHaveSlots, Mpmc!IInvSlots DEF FifosInv, Mpmc!RInv, CapacityKept
<1>2. QED
    BY <1>1, FifosInvariance, PTL

\* With one producer the Vyukov ring answers "empty" only when all that had been
\* pushed before the call has been taken.
THEOREM EmptyWhenAllTaken ==
    ASSUME TwoSlotsOrMore PROVE FifosSpec => []OneProducerEmptyMeansEmpty
<1>1. FifosInv => OneProducerEmptyMeansEmpty
    BY DEF FifosInv, OneProducer!OInv, OneProducerEmptyMeansEmpty
<1>2. QED
    BY <1>1, FifosInvariance, PTL

-----------------------------------------------------------------------------
(* The abstract queue *)

\* Every component starts as its abstract queue does,
LEMMA AllStartEmpty == TwoSlotsOrMore /\ FifosInit => FifosStartEmpty
<1> SUFFICES ASSUME TwoSlotsOrMore, FifosInit PROVE FifosStartEmpty
    OBVIOUS
<1>1. Abstract!Init /\ Linked!Abstract!Init
    BY QueueConstants, StartsEmpty, LinkedStartsEmpty DEF FifosInit, QueueConstants
<1>2. Mpmc!Abstract!Init
    BY RingsHaveSlots, Mpmc!StartsEmpty DEF FifosInit
<1>3. Cas!Abstract!Init /\ Spin!Abstract!Init /\ Two!Abstract!Init
    BY QueueConstants, CasStartsEmpty, SpinStartsEmpty, TwoStartsEmpty
    DEF FifosInit, QueueConstants
<1>4. QED
    BY <1>1, <1>2, <1>3 DEF FifosStartEmpty

\* and every step of it is a step of that queue or none.
LEMMA StepAsFifo ==
    TwoSlotsOrMore /\ FifosInv /\ [FifosNext]_fifos_vars => FifosStepAsFifo
<1> SUFFICES ASSUME TwoSlotsOrMore, FifosInv, [FifosNext]_fifos_vars PROVE FifosStepAsFifo
    OBVIOUS
<1>1. [Abstract!Next]_(Abstract!vars)
    BY StepOfEach, StepRefines DEF FifosInv
<1>2. [Linked!Abstract!Next]_(Linked!Abstract!vars)
    BY QueueConstants, StepOfEach, LinkedStepRefines DEF FifosInv, QueueConstants
<1>3. [Mpmc!Abstract!Next]_(Mpmc!Abstract!vars)
    BY StepOfEach, Mpmc!StepRefines DEF FifosInv
<1>4. cr_late' \/ [Cas!Abstract!Next]_(Cas!Abstract!vars)
    BY QueueConstants, StepOfEach, CasStepRefines DEF FifosInv, QueueConstants
<1>5. [Spin!Abstract!Next]_(Spin!Abstract!vars)
    BY QueueConstants, StepOfEach, SpinStepRefines DEF FifosInv, QueueConstants
<1>6. [Two!Abstract!Next]_(Two!Abstract!vars)
    BY QueueConstants, StepOfEach, TwoStepRefines DEF FifosInv, QueueConstants
<1>7. QED
    BY <1>1, <1>2, <1>3, <1>4, <1>5, <1>6 DEF FifosStepAsFifo

\* Every queue implements the abstract queue; CasRing until its first late exchange.
THEOREM AllLinearizable ==
    ASSUME TwoSlotsOrMore PROVE FifosSpec => FifosImplementFifo
<1>1. FifosInit => FifosStartEmpty
    BY AllStartEmpty
<1>2. FifosInv /\ [FifosNext]_fifos_vars
        => [FifosStepAsFifo]_<<vars, sl_vars, mr_vars, op_vars, cr_vars, sr_vars, tq_vars>>
    BY StepAsFifo
<1>3. QED
    BY <1>1, <1>2, FifosInvariance, PTL DEF FifosSpec, fifos_vars, FifosImplementFifo
=============================================================================
