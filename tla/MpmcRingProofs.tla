--------------------------- MODULE MpmcRingProofs ---------------------------
(***************************************************************************)
(* Proof, for every number of slots from two on and every set of threads,  *)
(* that no two threads of MpmcRing are on the same slot at once, that at   *)
(* most Cap positions are in use, and that the ring implements Fifo; with  *)
(* one producer, that "empty" is answered only when the ring was empty.    *)
(***************************************************************************)
EXTENDS MpmcRing, SequenceTheorems, WellFoundedInduction, TLAPS

\* One slot is a power of two as well, but there seq says "published" and "free
\* for the next lap" with the same number.
TwoSlots == ConstantsAssumption /\ Cap # 1

\* The slot of a position comes back after a lap.
LEMMA SlotOnRing ==
    ASSUME TwoSlots, NEW p \in Nat
    PROVE  Slot(p) \in Slots /\ Slot(p + Cap) = Slot(p)
<1>1. Cap \in Nat \ {0} /\ p \in Nat
    BY DEF TwoSlots, ConstantsAssumption
<1>2. p % Cap \in 0 .. Cap - 1
    BY <1>1
<1>3. (p + Cap) % Cap = p % Cap
    <2>1. PICK d \in Int, r \in 0 .. Cap - 1 : p = (d * Cap) + r /\ r = p % Cap
        BY <1>1, p = (p \div Cap) * Cap + (p % Cap), p \div Cap \in Int
    <2>2. PICK q \in Nat : q = p + Cap
        BY <1>1
    <2>3. PICK e \in Int, s \in 0 .. Cap - 1 : q = (e * Cap) + s /\ s = q % Cap
        BY <1>1, q = (q \div Cap) * Cap + (q % Cap), q \div Cap \in Int
    <2>4. PICK k \in Int : k = d + 1 - e
        OBVIOUS
    <2>5. s - r = k * Cap /\ s - r < Cap /\ r - s < Cap
        BY <1>1, <2>1, <2>2, <2>3, <2>4
    <2>6. k >= 1 => k * Cap >= Cap
        BY <1>1
    <2>7. k <= -1 => k * Cap <= - Cap
        BY <1>1
    <2>8. k = 0
        BY <1>1, <2>1, <2>3, <2>5, <2>6, <2>7
    <2>9. k * Cap = 0
        BY <1>1, <2>8
    <2>10. s = r
        BY <2>1, <2>3, <2>5, <2>9
    <2>11. q % Cap = p % Cap
        BY <2>1, <2>3, <2>10
    <2>12. QED
        BY <2>2, <2>11
<1>4. QED
    BY <1>2, <1>3 DEF Slot, Slots

\* Positions less than a lap apart have different slots.
LEMMA SlotsApart ==
    ASSUME TwoSlots, NEW p \in Nat, NEW q \in Nat, p < q, q < p + Cap
    PROVE  Slot(p) # Slot(q)
<1> SUFFICES ASSUME p % Cap = q % Cap PROVE FALSE
    BY DEF Slot
<1>1. Cap \in Nat \ {0}
    BY DEF TwoSlots, ConstantsAssumption
<1>2. p = (p \div Cap) * Cap + (p % Cap) /\ q = (q \div Cap) * Cap + (q % Cap)
    BY <1>1
<1>3. p \div Cap \in Int /\ q \div Cap \in Int
    BY <1>1
<1>4. q - p = (q \div Cap - p \div Cap) * Cap
    BY <1>1, <1>2, <1>3
<1>5. PICK k \in Int : k = q \div Cap - p \div Cap
    BY <1>3
<1>6. k * Cap > 0 /\ k * Cap < Cap
    BY <1>1, <1>4, <1>5
<1>7. k > 0
    BY <1>1, <1>6
<1>8. k * Cap >= Cap
    BY <1>1, <1>7
<1>9. QED
    BY <1>1, <1>6, <1>8

\* The positions are numbers, and a lap apart at most.
LEMMA Numbers ==
    ASSUME TwoSlots, IInv
    PROVE  /\ Cap \in Nat /\ Cap > 1
           /\ enqueue_pos \in Nat /\ dequeue_pos \in Nat
           /\ dequeue_pos <= enqueue_pos /\ enqueue_pos <= dequeue_pos + Cap
BY DEF TwoSlots, ConstantsAssumption, IInv, TypeOK, Window, CapacityKept

\* What seq tells a thread that reads it: the position is free, or published.
LEMMA SeqTells ==
    ASSUME TwoSlots, IInv
    PROVE  /\ seq[Slot(enqueue_pos)] = enqueue_pos => enqueue_pos < dequeue_pos + Cap
           /\ seq[Slot(dequeue_pos)] = dequeue_pos + 1 => dequeue_pos < enqueue_pos
<1> USE Numbers
<1>1. ASSUME seq[Slot(enqueue_pos)] = enqueue_pos, enqueue_pos = dequeue_pos + Cap
      PROVE  FALSE
    <2>1. Slot(enqueue_pos) = Slot(dequeue_pos)
        BY <1>1, SlotOnRing
    <2>2. dequeue_pos \in dequeue_pos .. enqueue_pos - 1
        BY <1>1
    <2>3. seq[Slot(dequeue_pos)] \in {dequeue_pos, dequeue_pos + 1}
        BY <2>2 DEF IInv, Window
    <2>4. QED
        BY <1>1, <2>1, <2>3
<1>2. ASSUME seq[Slot(dequeue_pos)] = dequeue_pos + 1, dequeue_pos = enqueue_pos
      PROVE  FALSE
    <2>1. dequeue_pos \in enqueue_pos .. dequeue_pos + Cap - 1
        BY <1>2
    <2>2. seq[Slot(dequeue_pos)] \in {dequeue_pos, dequeue_pos + 1 - Cap}
        BY <2>1 DEF IInv, Window
    <2>3. QED
        BY <1>2, <2>2
<1>3. QED
    BY <1>1, <1>2

-----------------------------------------------------------------------------
\* The constructor establishes the invariant.
LEMMA InitIInv == TwoSlots /\ Init => IInv
<1> SUFFICES ASSUME TwoSlots, Init PROVE IInv
    OBVIOUS
<1>1. Cap \in Nat /\ Cap > 1 /\ enqueue_pos = 0 /\ dequeue_pos = 0
    BY DEF Init, TwoSlots, ConstantsAssumption
<1>2. TypeOK
    BY <1>1 DEF Init, TypeOK, Slots
<1>3. Window
    <2>1. ASSUME NEW p \in 0 .. Cap - 1 PROVE seq[Slot(p)] = p
        BY <1>1 DEF Init, Slot, Slots
    <2>2. QED
        BY <1>1, <2>1 DEF Window, CapacityKept
<1>4. Owned /\ SeqStillTrue
    BY DEF Init, Owned, SeqStillTrue, Writers, Readers
<1>5. QED
    BY <1>2, <1>3, <1>4 DEF IInv

OwnerStates == {"write", "publish", "read", "release"}

\* A step outside the claims that moves no position and stores no seq.
Looks(t, from, to, n) ==
    /\ Goto(t, from, to)
    /\ pos' = [pos EXCEPT ![t] = n]
    /\ UNCHANGED <<enqueue_pos, dequeue_pos, seq>>

\* A step that reads, or whose exchange fails, keeps it.
LEMMA LooksIInv ==
    ASSUME TwoSlots, IInv, NEW t \in Threads, NEW from, NEW to, NEW n \in Nat,
           Looks(t, from, to, n),
           from \notin OwnerStates,
           to \in {"idle", "push_seq", "push_reload", "push_cas", "full",
                   "pop_seq", "pop_reload", "pop_cas", "empty"},
           to \in {"push_seq", "push_cas"} => n <= enqueue_pos,
           to \in {"pop_seq", "pop_cas"} => n <= dequeue_pos,
           to = "push_cas" => seq[Slot(n)] = n,
           to = "pop_cas" => seq[Slot(n)] = n + 1
    PROVE  IInv'
<1>1. /\ pc[t] = from
      /\ \A u \in Threads : pc'[u] = IF u = t THEN to ELSE pc[u]
      /\ \A u \in Threads : pos'[u] = IF u = t THEN n ELSE pos[u]
    BY DEF Looks, Goto, IInv, TypeOK
<1>2. TypeOK'
    BY <1>1 DEF Looks, Goto, IInv, TypeOK
<1>3. Window'
    BY DEF Looks, IInv, Window, CapacityKept
<1>4. Owned'
    <2>1. Writers' = Writers /\ Readers' = Readers
        BY <1>1 DEF Writers, Readers, OwnerStates
    <2>2. \A u \in Writers \cup Readers : pos'[u] = pos[u]
        BY <1>1 DEF Writers, Readers, OwnerStates
    <2>3. QED
        BY <2>1, <2>2 DEF Looks, IInv, Owned
<1>5. SeqStillTrue'
    BY <1>1, SeqTells DEF Looks, IInv, SeqStillTrue
<1>6. QED
    BY <1>2, <1>3, <1>4, <1>5 DEF IInv

\* A step inside a claim that does not store seq.
LEMMA OwnerStep ==
    ASSUME TwoSlots, IInv, NEW t \in Threads, NEW from, NEW to,
           Goto(t, from, to), UNCHANGED <<enqueue_pos, dequeue_pos, seq, pos>>,
           \/ from = "write" /\ to = "publish"
           \/ from = "read" /\ to = "release"
    PROVE  IInv'
<1>1. /\ pc[t] = from
      /\ \A u \in Threads : pc'[u] = IF u = t THEN to ELSE pc[u]
    BY DEF Goto, IInv, TypeOK
<1>2. TypeOK'
    BY <1>1 DEF Goto, IInv, TypeOK
<1>3. Window'
    BY DEF IInv, Window, CapacityKept
<1>4. Writers' = Writers /\ Readers' = Readers
    BY <1>1 DEF Writers, Readers
<1>5. Owned'
    BY <1>4 DEF IInv, Owned
<1>6. SeqStillTrue'
    BY <1>1 DEF IInv, SeqStillTrue
<1>7. QED
    BY <1>2, <1>3, <1>5, <1>6 DEF IInv

-----------------------------------------------------------------------------
\* A push claims enqueue_pos: the slot is free, and no pop is still on it.
LEMMA PushClaims ==
    ASSUME TwoSlots, IInv, NEW t \in Threads, Goto(t, "push_cas", "write"),
           enqueue_pos = pos[t], enqueue_pos' = pos[t] + 1,
           UNCHANGED <<dequeue_pos, seq, pos>>
    PROVE  IInv'
<1> USE Numbers
<1>1. /\ pc[t] = "push_cas"
      /\ \A u \in Threads : pc'[u] = IF u = t THEN "write" ELSE pc[u]
    BY DEF Goto, IInv, TypeOK
<1>2. enqueue_pos < dequeue_pos + Cap /\ seq[Slot(enqueue_pos)] = enqueue_pos
    BY <1>1 DEF IInv, SeqStillTrue
<1>3. TypeOK'
    BY <1>1 DEF Goto, IInv, TypeOK
<1>4. Window'
    <2>1. \A p \in dequeue_pos .. enqueue_pos : seq[Slot(p)] \in {p, p + 1}
        BY <1>2 DEF IInv, Window
    <2>2. QED
        BY <1>2, <2>1 DEF IInv, Window, CapacityKept
<1>5. Writers' = Writers \cup {t} /\ Readers' = Readers /\ t \notin Writers \cup Readers
    BY <1>1 DEF Writers, Readers
<1>6. ASSUME NEW u \in Readers PROVE pos[u] # enqueue_pos - Cap
    <2>1. pos[u] \in Nat /\ seq[Slot(pos[u])] = pos[u] + 1
        BY DEF IInv, TypeOK, Owned, Readers
    <2>2. pos[u] = enqueue_pos - Cap => Slot(enqueue_pos) = Slot(pos[u])
        BY <2>1, SlotOnRing
    <2>3. QED
        BY <1>2, <2>1, <2>2
<1>7. Owned'
    <2>1. \A u \in Writers : pos[u] < enqueue_pos /\ pos[u] >= dequeue_pos
        BY DEF IInv, Owned
    <2>2. \A u \in Readers : pos[u] \in enqueue_pos + 1 - Cap .. dequeue_pos - 1
        BY <1>6 DEF IInv, Owned
    <2>3. \A u \in Writers \cup Readers : pos[u] # pos[t]
        BY <2>1, <2>2
    <2>4. QED
        BY <1>2, <1>5, <2>1, <2>2, <2>3 DEF IInv, Owned
<1>8. SeqStillTrue'
    BY <1>1 DEF IInv, SeqStillTrue, TypeOK
<1>9. QED
    BY <1>3, <1>4, <1>7, <1>8 DEF IInv

\* A pop claims dequeue_pos: it is published, so no push is still on its slot.
LEMMA PopClaims ==
    ASSUME TwoSlots, IInv, NEW t \in Threads, Goto(t, "pop_cas", "read"),
           dequeue_pos = pos[t], dequeue_pos' = pos[t] + 1,
           UNCHANGED <<enqueue_pos, seq, pos>>
    PROVE  IInv'
<1> USE Numbers
<1>1. /\ pc[t] = "pop_cas"
      /\ \A u \in Threads : pc'[u] = IF u = t THEN "read" ELSE pc[u]
    BY DEF Goto, IInv, TypeOK
<1>2. dequeue_pos < enqueue_pos /\ seq[Slot(dequeue_pos)] = dequeue_pos + 1
    BY <1>1 DEF IInv, SeqStillTrue
<1>3. TypeOK'
    BY <1>1 DEF Goto, IInv, TypeOK
<1>4. Window'
    <2>1. Slot(dequeue_pos + Cap) = Slot(dequeue_pos)
        BY SlotOnRing
    <2>2. \A p \in enqueue_pos .. dequeue_pos + Cap : seq[Slot(p)] \in {p, p + 1 - Cap}
        BY <1>2, <2>1 DEF IInv, Window
    <2>3. QED
        BY <1>2, <2>2 DEF IInv, Window, CapacityKept
<1>5. Writers' = Writers /\ Readers' = Readers \cup {t} /\ t \notin Writers \cup Readers
    BY <1>1 DEF Writers, Readers
<1>6. \A u \in Writers : pos[u] # dequeue_pos
    BY <1>2 DEF IInv, Owned
<1>7. Owned'
    <2>1. \A u \in Writers : pos[u] \in dequeue_pos + 1 .. enqueue_pos - 1
        BY <1>6 DEF IInv, Owned
    <2>2. \A u \in Readers : pos[u] < dequeue_pos /\ pos[u] >= enqueue_pos - Cap
        BY DEF IInv, Owned
    <2>3. \A u \in Writers \cup Readers : pos[u] # pos[t]
        BY <2>1, <2>2
    <2>4. QED
        BY <1>2, <1>5, <2>1, <2>2, <2>3 DEF IInv, Owned
<1>8. SeqStillTrue'
    BY <1>1 DEF IInv, SeqStillTrue, TypeOK
<1>9. QED
    BY <1>3, <1>4, <1>7, <1>8 DEF IInv

\* Two owners are less than a lap apart, so they are on different slots.
LEMMA OwnersApart ==
    ASSUME TwoSlots, IInv, NEW t \in Writers \cup Readers, NEW u \in Writers \cup Readers,
           t # u
    PROVE  Slot(pos[t]) # Slot(pos[u])
<1>1. pos[t] \in Nat /\ pos[u] \in Nat /\ pos[t] # pos[u]
    BY DEF IInv, TypeOK, Owned, Writers, Readers
<1>2. /\ pos[t] \in enqueue_pos - Cap .. enqueue_pos - 1
      /\ pos[u] \in enqueue_pos - Cap .. enqueue_pos - 1
    BY Numbers DEF IInv, Owned
<1>3. pos[t] < pos[u] => pos[u] < pos[t] + Cap
    BY Numbers, <1>1, <1>2
<1>4. pos[u] < pos[t] => pos[t] < pos[u] + Cap
    BY Numbers, <1>1, <1>2
<1>5. QED
    BY <1>1, <1>3, <1>4, SlotsApart

\* An owner that stores seq changes one slot, which is nobody else's.
LEMMA StoreSeq ==
    ASSUME TwoSlots, IInv, NEW t \in Writers \cup Readers, NEW n \in Nat,
           Goto(t, pc[t], "idle"), pos' = [pos EXCEPT ![t] = 0],
           UNCHANGED <<enqueue_pos, dequeue_pos>>,
           seq' = [seq EXCEPT ![Slot(pos[t])] = n]
    PROVE  /\ TypeOK'
           /\ Owned'
           /\ \A p \in Nat : seq'[Slot(p)] = IF Slot(p) = Slot(pos[t]) THEN n ELSE seq[Slot(p)]
           /\ \A u \in Threads : /\ pc'[u] = IF u = t THEN "idle" ELSE pc[u]
                                 /\ pos'[u] = IF u = t THEN 0 ELSE pos[u]
<1>1. /\ \A u \in Threads : pc'[u] = IF u = t THEN "idle" ELSE pc[u]
      /\ \A u \in Threads : pos'[u] = IF u = t THEN 0 ELSE pos[u]
    BY DEF Goto, IInv, TypeOK
<1>2. t \in Threads /\ pos[t] \in Nat
    BY DEF Writers, Readers, IInv, TypeOK
<1>3. \A p \in Nat : seq'[Slot(p)] = IF Slot(p) = Slot(pos[t]) THEN n ELSE seq[Slot(p)]
    BY <1>2, SlotOnRing DEF IInv, TypeOK
<1>4. TypeOK'
    BY <1>2 DEF Goto, IInv, TypeOK
<1>5. Writers' = Writers \ {t} /\ Readers' = Readers \ {t}
    BY <1>1, <1>2 DEF Writers, Readers
<1>6. ASSUME NEW u \in (Writers \cup Readers) \ {t}
      PROVE  pos'[u] = pos[u] /\ seq'[Slot(pos[u])] = seq[Slot(pos[u])]
    <2>1. u \in Threads /\ pos[u] \in Nat
        BY DEF Writers, Readers, IInv, TypeOK
    <2>2. QED
        BY <1>1, <1>3, <2>1, OwnersApart
<1>7. Owned'
    BY <1>5, <1>6 DEF IInv, Owned
<1>8. QED
    BY <1>1, <1>3, <1>4, <1>7

\* push publishes its position: the seq of the slot goes from pos to pos + 1.
LEMMA PublishIInv ==
    ASSUME TwoSlots, IInv, NEW t \in Threads, Publish(t)
    PROVE  IInv'
<1> USE Numbers
<1>1. t \in Writers /\ pos[t] \in Nat
    BY DEF Publish, Goto, Writers, IInv, TypeOK
<1>2. /\ pos[t] \in dequeue_pos .. enqueue_pos - 1
      /\ seq[Slot(pos[t])] = pos[t]
    BY <1>1 DEF IInv, Owned
<1>3. /\ TypeOK' /\ Owned'
      /\ \A p \in Nat :
            seq'[Slot(p)] = IF Slot(p) = Slot(pos[t]) THEN pos[t] + 1 ELSE seq[Slot(p)]
      /\ \A u \in Threads : /\ pc'[u] = IF u = t THEN "idle" ELSE pc[u]
                            /\ pos'[u] = IF u = t THEN 0 ELSE pos[u]
    <2>1. Goto(t, pc[t], "idle") /\ pos[t] + 1 \in Nat
        BY <1>1 DEF Publish, Goto
    <2>2. QED
        BY <1>1, <2>1, StoreSeq DEF Publish
<1>4. ASSUME NEW p \in dequeue_pos .. dequeue_pos + Cap - 1, p # pos[t]
      PROVE  p \in Nat /\ Slot(p) # Slot(pos[t])
    <2>1. p \in Nat /\ p < pos[t] + Cap /\ pos[t] < p + Cap
        BY <1>2
    <2>2. QED
        BY <1>1, <1>4, <2>1, SlotsApart
<1>5. ASSUME NEW p \in dequeue_pos .. dequeue_pos + Cap - 1, p # pos[t]
      PROVE  seq'[Slot(p)] = seq[Slot(p)]
    BY <1>3, <1>4, <1>5
<1>6. seq'[Slot(pos[t])] = pos[t] + 1
    BY <1>1, <1>3
<1>7. Window'
    <2>1. ASSUME NEW p \in dequeue_pos .. enqueue_pos - 1
          PROVE  seq'[Slot(p)] \in {p, p + 1}
        BY <1>5, <1>6 DEF IInv, Window
    <2>2. ASSUME NEW p \in enqueue_pos .. dequeue_pos + Cap - 1
          PROVE  seq'[Slot(p)] \in {p, p + 1 - Cap}
        BY <1>2, <1>5 DEF IInv, Window
    <2>3. QED
        BY <2>1, <2>2 DEF Publish, Window, CapacityKept
<1>8. enqueue_pos < dequeue_pos + Cap => seq'[Slot(enqueue_pos)] = seq[Slot(enqueue_pos)]
    BY <1>2, <1>5
<1>9. seq[Slot(dequeue_pos)] = dequeue_pos + 1
        => seq'[Slot(dequeue_pos)] = seq[Slot(dequeue_pos)]
    BY <1>2, <1>5
<1>10. SeqStillTrue'
    BY <1>3, <1>8, <1>9 DEF Publish, IInv, SeqStillTrue
<1>11. QED
    BY <1>3, <1>7, <1>10 DEF IInv

\* pop releases its position: the slot is free for the push one lap ahead.
LEMMA ReleaseIInv ==
    ASSUME TwoSlots, IInv, NEW t \in Threads, Release(t)
    PROVE  IInv'
<1> USE Numbers
<1>1. t \in Readers /\ pos[t] \in Nat
    BY DEF Release, Goto, Readers, IInv, TypeOK
<1>2. /\ pos[t] \in enqueue_pos - Cap .. dequeue_pos - 1
      /\ seq[Slot(pos[t])] = pos[t] + 1
    BY <1>1 DEF IInv, Owned
<1>3. /\ TypeOK' /\ Owned'
      /\ \A p \in Nat :
            seq'[Slot(p)] = IF Slot(p) = Slot(pos[t]) THEN pos[t] + Cap ELSE seq[Slot(p)]
      /\ \A u \in Threads : /\ pc'[u] = IF u = t THEN "idle" ELSE pc[u]
                            /\ pos'[u] = IF u = t THEN 0 ELSE pos[u]
    <2>1. Goto(t, pc[t], "idle") /\ pos[t] + Cap \in Nat
        BY <1>1 DEF Release, Goto
    <2>2. QED
        BY <1>1, <2>1, StoreSeq DEF Release
<1>4. PICK q \in Nat : q = pos[t] + Cap
    BY <1>1
<1>5. Slot(q) = Slot(pos[t]) /\ q \in enqueue_pos .. dequeue_pos + Cap - 1
    BY <1>1, <1>2, <1>4, SlotOnRing
<1>6. ASSUME NEW p \in dequeue_pos .. dequeue_pos + Cap - 1, p # q
      PROVE  seq'[Slot(p)] = seq[Slot(p)]
    <2>1. p \in Nat /\ p < q + Cap /\ q < p + Cap
        BY <1>5
    <2>2. Slot(p) # Slot(q)
        BY <1>4, <1>6, <2>1, SlotsApart
    <2>3. QED
        BY <1>3, <1>5, <2>1, <2>2
<1>7. seq'[Slot(q)] = q
    BY <1>3, <1>4, <1>5
<1>8. Window'
    <2>1. ASSUME NEW p \in dequeue_pos .. enqueue_pos - 1
          PROVE  seq'[Slot(p)] \in {p, p + 1}
        BY <1>5, <1>6 DEF IInv, Window
    <2>2. ASSUME NEW p \in enqueue_pos .. dequeue_pos + Cap - 1
          PROVE  seq'[Slot(p)] \in {p, p + 1 - Cap}
        BY <1>6, <1>7 DEF IInv, Window
    <2>3. QED
        BY <2>1, <2>2 DEF Release, Window, CapacityKept
<1>9. enqueue_pos < dequeue_pos + Cap /\ seq[Slot(enqueue_pos)] = enqueue_pos
        => seq'[Slot(enqueue_pos)] = enqueue_pos
    <2>1. CASE enqueue_pos = q
        BY <1>7, <2>1
    <2>2. CASE enqueue_pos # q
        BY <1>6, <2>2
    <2>3. QED
        BY <2>1, <2>2
<1>10. dequeue_pos < enqueue_pos
        => seq'[Slot(dequeue_pos)] = seq[Slot(dequeue_pos)]
    BY <1>5, <1>6
<1>11. SeqStillTrue'
    BY <1>3, <1>9, <1>10 DEF Release, IInv, SeqStillTrue
<1>12. QED
    BY <1>3, <1>8, <1>11 DEF IInv

-----------------------------------------------------------------------------
\* Each step of a push preserves it,
LEMMA PushIInv ==
    ASSUME TwoSlots, IInv, NEW t \in Threads, Push(t)
    PROVE  IInv'
<1>1. /\ enqueue_pos \in Nat /\ pos[t] \in Nat /\ seq[Slot(pos[t])] \in Nat
      /\ pos = [pos EXCEPT ![t] = pos[t]]
    BY SlotOnRing DEF IInv, TypeOK
<1> USE DEF OwnerStates
<1>2. ASSUME NEW v \in Values, PushStart(t, v) PROVE IInv'
    <2>1. Looks(t, "idle", "push_seq", enqueue_pos)
        BY <1>2 DEF PushStart, Looks
    <2>2. QED
        BY <1>1, <2>1, LooksIInv
<1>3. CASE PushSeq(t)
    <2>1. pos[t] <= enqueue_pos
        BY <1>3 DEF PushSeq, Goto, IInv, SeqStillTrue
    <2>2. \/ seq[Slot(pos[t])] = pos[t] /\ Looks(t, "push_seq", "push_cas", pos[t])
          \/ Looks(t, "push_seq", "full", pos[t])
          \/ Looks(t, "push_seq", "push_reload", pos[t])
        BY <1>1, <1>3 DEF PushSeq, Looks
    <2>3. QED
        BY <1>1, <2>1, <2>2, LooksIInv
<1>4. CASE PushReload(t)
    <2>1. Looks(t, "push_reload", "push_seq", enqueue_pos)
        BY <1>4 DEF PushReload, Looks
    <2>2. QED
        BY <1>1, <2>1, LooksIInv
<1>5. CASE PushCas(t)
    <2>1. CASE Goto(t, "push_cas", "write")
        BY <1>5, <2>1, PushClaims DEF PushCas, Goto, IInv, TypeOK
    <2>2. CASE Looks(t, "push_cas", "push_seq", enqueue_pos)
        BY <1>1, <2>2, LooksIInv
    <2>3. QED
        BY <1>5, <2>1, <2>2 DEF PushCas, Looks
<1>6. CASE WriteData(t)
    BY <1>6, OwnerStep DEF WriteData
<1>7. CASE Publish(t)
    BY <1>7, PublishIInv
<1>8. CASE ReturnFull(t)
    <2>1. Looks(t, "full", "idle", 0)
        BY <1>8 DEF ReturnFull, Looks
    <2>2. QED
        BY <2>1, LooksIInv
<1>9. QED
    BY <1>2, <1>3, <1>4, <1>5, <1>6, <1>7, <1>8 DEF Push

\* and each step of a pop.
LEMMA PopIInv ==
    ASSUME TwoSlots, IInv, NEW t \in Threads, Pop(t)
    PROVE  IInv'
<1>1. /\ dequeue_pos \in Nat /\ pos[t] \in Nat /\ seq[Slot(pos[t])] \in Nat
      /\ pos = [pos EXCEPT ![t] = pos[t]]
    BY SlotOnRing DEF IInv, TypeOK
<1> USE DEF OwnerStates
<1>2. CASE PopStart(t)
    <2>1. Looks(t, "idle", "pop_seq", dequeue_pos)
        BY <1>2 DEF PopStart, Looks
    <2>2. QED
        BY <1>1, <2>1, LooksIInv
<1>3. CASE PopSeq(t)
    <2>1. pos[t] <= dequeue_pos
        BY <1>3 DEF PopSeq, Goto, IInv, SeqStillTrue
    <2>2. \/ seq[Slot(pos[t])] = pos[t] + 1 /\ Looks(t, "pop_seq", "pop_cas", pos[t])
          \/ Looks(t, "pop_seq", "empty", pos[t])
          \/ Looks(t, "pop_seq", "pop_reload", pos[t])
        BY <1>1, <1>3 DEF PopSeq, Looks
    <2>3. QED
        BY <1>1, <2>1, <2>2, LooksIInv
<1>4. CASE PopReload(t)
    <2>1. Looks(t, "pop_reload", "pop_seq", dequeue_pos)
        BY <1>4 DEF PopReload, Looks
    <2>2. QED
        BY <1>1, <2>1, LooksIInv
<1>5. CASE PopCas(t)
    <2>1. CASE Goto(t, "pop_cas", "read")
        BY <1>5, <2>1, PopClaims DEF PopCas, Goto, IInv, TypeOK
    <2>2. CASE Looks(t, "pop_cas", "pop_seq", dequeue_pos)
        BY <1>1, <2>2, LooksIInv
    <2>3. QED
        BY <1>5, <2>1, <2>2 DEF PopCas, Looks
<1>6. CASE ReadData(t)
    BY <1>6, OwnerStep DEF ReadData
<1>7. CASE Release(t)
    BY <1>7, ReleaseIInv
<1>8. CASE ReturnEmpty(t)
    <2>1. Looks(t, "empty", "idle", 0)
        BY <1>8 DEF ReturnEmpty, Looks
    <2>2. QED
        BY <2>1, LooksIInv
<1>9. QED
    BY <1>2, <1>3, <1>4, <1>5, <1>6, <1>7, <1>8 DEF Pop

\* So every step does.
LEMMA StepIInv == TwoSlots /\ IInv /\ [Next]_vars => IInv'
<1> SUFFICES ASSUME TwoSlots, IInv, [Next]_vars PROVE IInv'
    OBVIOUS
<1>1. CASE UNCHANGED vars
    BY <1>1 DEF vars, IInv, TypeOK, Window, CapacityKept, Owned, SeqStillTrue,
        Writers, Readers
<1>2. QED
    BY <1>1, PushIInv, PopIInv DEF Next, Threads

\* The sequence numbers and the two positions always fit together.
THEOREM Invariance ==
    ASSUME TwoSlots PROVE Spec => []IInv
<1>1. Init => IInv
    BY InitIInv
<1>2. IInv /\ [Next]_vars => IInv'
    BY StepIInv
<1>3. QED
    BY <1>1, <1>2, PTL DEF Spec

\* What the invariant says of claims: nobody shares a slot, none is overrun.
LEMMA IInvSlots ==
    ASSUME TwoSlots PROVE IInv => SlotsUnshared /\ CapacityKept
<1> SUFFICES ASSUME IInv PROVE SlotsUnshared /\ CapacityKept
    OBVIOUS
<1>1. CapacityKept
    BY DEF IInv, Window
<1>2. {t \in Threads : pc[t] \in {"write", "publish", "read", "release"}}
            = Writers \cup Readers
    BY DEF Writers, Readers
<1>3. SlotsUnshared
    BY <1>2, OwnersApart DEF SlotsUnshared
<1>4. QED
    BY <1>1, <1>3

\* For any number of threads and slots, a thread is alone on the slot whose
\* position it has claimed, and at most Cap positions are claimed by pushes and
\* not yet by pops.
THEOREM SlotOwnership ==
    ASSUME TwoSlots PROVE Spec => [](SlotsUnshared /\ CapacityKept)
<1>1. IInv => SlotsUnshared /\ CapacityKept
    BY IInvSlots
<1>2. QED
    BY Invariance, <1>1, PTL

-----------------------------------------------------------------------------
\* A value is carried from its push to its pop.
LEMMA InitValues == Init => ValuesTyped
BY DEF Init, ValuesTyped, Cells

\* Every step keeps the types of the values.
LEMMA StepValues == TwoSlots /\ IInv /\ ValuesTyped /\ [Next]_vars => ValuesTyped'
<1> SUFFICES ASSUME TwoSlots, IInv, ValuesTyped, [Next]_vars PROVE ValuesTyped'
    OBVIOUS
<1> USE DEF ValuesTyped, Cells, Goto
<1>1. pc \in [Threads -> {"idle", "push_seq", "push_reload", "push_cas", "write",
                          "publish", "full", "pop_seq", "pop_reload", "pop_cas",
                          "read", "release", "empty"}]
      /\ \A t \in Threads : pos[t] \in Nat
    BY DEF IInv, TypeOK
<1>2. \A t \in Threads : Slot(pos[t]) \in Slots
    BY <1>1, SlotOnRing
<1>3. ASSUME NEW t \in Threads, Push(t) PROVE ValuesTyped'
    <2>1. ASSUME NEW v \in Values, PushStart(t, v) PROVE ValuesTyped'
        BY <1>1, <2>1 DEF PushStart
    <2>2. CASE PushSeq(t) \/ PushReload(t) \/ PushCas(t)
        BY <1>1, <2>2 DEF PushSeq, PushReload, PushCas
    <2>3. CASE WriteData(t) \/ Publish(t) \/ ReturnFull(t)
        BY <1>1, <1>2, <2>3 DEF WriteData, Publish, ReturnFull
    <2>4. QED
        BY <1>3, <2>1, <2>2, <2>3 DEF Push
<1>4. ASSUME NEW t \in Threads, Pop(t) PROVE ValuesTyped'
    <2>1. CASE PopStart(t) \/ PopSeq(t) \/ PopReload(t) \/ PopCas(t) \/ ReturnEmpty(t)
        BY <1>1, <2>1 DEF PopStart, PopSeq, PopReload, PopCas, ReturnEmpty
    <2>2. CASE ReadData(t) \/ Release(t)
        BY <1>1, <1>2, <2>2 DEF ReadData, Release
    <2>3. QED
        BY <1>4, <2>1, <2>2 DEF Pop
<1>5. CASE UNCHANGED vars
    BY <1>5 DEF vars
<1>6. QED
    BY <1>3, <1>4, <1>5 DEF Next, Threads

\* The value at a position: with the thread that is about to write it, or in
\* the slot.
ValueView ==
    /\ \A t \in Threads : pc[t] = "write" => ValueAt(pos[t]) = val[t]
    /\ \A p : (\A t \in Threads : pc[t] = "write" => pos[t] # p)
                => ValueAt(p) = data[Slot(p)]

\* The value at a position of the abstract queue.
LEMMA ValueFound == IInv => ValueView
<1> SUFFICES ASSUME IInv PROVE ValueView
    OBVIOUS
<1>1. ASSUME NEW t \in Threads, pc[t] = "write" PROVE ValueAt(pos[t]) = val[t]
    <2>1. \A u \in Threads : pc[u] = "write" /\ pos[u] = pos[t] => u = t
        BY <1>1 DEF IInv, Owned, Writers
    <2>2. t = CHOOSE u \in Threads : pc[u] = "write" /\ pos[u] = pos[t]
        BY <1>1, <2>1
    <2>3. QED
        BY <1>1, <2>2 DEF ValueAt
<1>2. QED
    BY <1>1 DEF ValueView, ValueAt

QueuedView ==
    /\ Queued \in Seq(Cells)
    /\ Len(Queued) = enqueue_pos - dequeue_pos
    /\ \A i \in 1 .. enqueue_pos - dequeue_pos : Queued[i] = ValueAt(dequeue_pos + i - 1)

\* Its values one by one.
LEMMA QueuedFound == TwoSlots /\ IInv /\ ValuesTyped => ValueView /\ QueuedView
<1> SUFFICES ASSUME TwoSlots, IInv, ValuesTyped PROVE ValueView /\ QueuedView
    OBVIOUS
<1>1. ValueView
    BY ValueFound
<1>2. enqueue_pos - dequeue_pos \in Nat /\ dequeue_pos \in Nat
    BY Numbers
<1>3. ASSUME NEW p \in Nat PROVE ValueAt(p) \in Cells
    <2>1. CASE \E t \in Threads : pc[t] = "write" /\ pos[t] = p
        BY <1>1, <2>1 DEF ValueView, ValuesTyped
    <2>2. CASE ~ \E t \in Threads : pc[t] = "write" /\ pos[t] = p
        BY <1>1, <2>2, SlotOnRing DEF ValueView, ValuesTyped
    <2>3. QED
        BY <2>1, <2>2
<1>4. \A i \in 1 .. enqueue_pos - dequeue_pos : ValueAt(dequeue_pos + i - 1) \in Cells
    BY <1>2, <1>3
<1>5. Queued \in Seq(Cells) /\ Len(Queued) = enqueue_pos - dequeue_pos
    BY <1>2, <1>4 DEF Queued
<1>6. QED
    BY <1>1, <1>5 DEF QueuedView, Queued

RInv == TwoSlots /\ IInv /\ ValuesTyped

\* The invariant of the refinement is kept.
LEMMA StepRInv == RInv /\ [Next]_vars => RInv'
BY StepIInv, StepValues DEF RInv

\* The views of the queue hold before and after each step.
LEMMA BothViews ==
    RInv /\ [Next]_vars => ValueView /\ QueuedView /\ ValueView' /\ QueuedView'
<1>1. RInv => ValueView /\ QueuedView
    BY QueuedFound DEF RInv
<1>2. QED
    BY <1>1, StepRInv, PTL

-----------------------------------------------------------------------------
\* A step of one thread that takes it from one call to another is a step of
\* its caller.
LEMMA CallStep ==
    ASSUME NEW t \in Threads, NEW from, NEW to,
           CallOf(t) = from, CallOf(t)' = to,
           \A u \in Threads \ {t} : CallOf(u)' = CallOf(u)
    PROVE  Abstract!Step(t, from, to)
BY DEF Abstract!Step

\* What a thread's locals say of its call.
LEMMA CallOfPush ==
    ASSUME NEW t
    PROVE  /\ pc[t] \in {"push_seq", "push_reload", "push_cas"}
                => CallOf(t) = <<"push", val[t]>>
           /\ pc[t] = "full" => CallOf(t) = <<"full">>
           /\ pc[t] \in {"idle", "write", "publish"} => CallOf(t) = <<"idle">>
BY DEF CallOf

\* The result of a pop, by its control point.
LEMMA CallOfPop ==
    ASSUME NEW t
    PROVE  /\ pc[t] \in {"pop_seq", "pop_reload", "pop_cas"} => CallOf(t) = <<"pop">>
           /\ pc[t] = "empty" => CallOf(t) = <<"got", Null>>
           /\ pc[t] = "read" => CallOf(t) = <<"got", data[Slot(pos[t])]>>
           /\ pc[t] = "release" => CallOf(t) = <<"got", val[t]>>
BY DEF CallOf

\* A thread whose locals and slot stay is in the same call.
LEMMA SameCall ==
    ASSUME NEW u, pc'[u] = pc[u], val'[u] = val[u],
           pc[u] = "read" => data'[Slot(pos'[u])] = data[Slot(pos[u])]
    PROVE  CallOf(u)' = CallOf(u)
BY DEF CallOf

\* The program counter, position and value of the other threads stay.
Others(t) ==
    \A u \in Threads \ {t} : pc'[u] = pc[u] /\ pos'[u] = pos[u] /\ val'[u] = val[u]

\* A step that writes no value changes no other call.
LEMMA OtherCalls ==
    ASSUME NEW t \in Threads, Others(t), data' = data
    PROVE  \A u \in Threads \ {t} : CallOf(u)' = CallOf(u)
BY SameCall DEF Others

\* A step of one thread leaves the other threads alone.
LEMMA StepOthers ==
    ASSUME IInv, ValuesTyped, NEW t \in Threads, Push(t) \/ Pop(t)
    PROVE  Others(t)
<1> USE DEF Others, Goto, IInv, TypeOK, ValuesTyped
<1>1. ASSUME Push(t) PROVE Others(t)
    <2>1. ASSUME NEW v \in Values, PushStart(t, v) PROVE Others(t)
        BY <2>1 DEF PushStart
    <2>2. CASE PushSeq(t) \/ PushReload(t) \/ PushCas(t)
        BY <2>2 DEF PushSeq, PushReload, PushCas
    <2>3. CASE WriteData(t) \/ Publish(t) \/ ReturnFull(t)
        BY <2>3 DEF WriteData, Publish, ReturnFull
    <2>4. QED
        BY <1>1, <2>1, <2>2, <2>3 DEF Push
<1>2. ASSUME Pop(t) PROVE Others(t)
    <2>1. CASE PopStart(t) \/ PopSeq(t) \/ PopReload(t) \/ PopCas(t) \/ ReturnEmpty(t)
        BY <2>1 DEF PopStart, PopSeq, PopReload, PopCas, ReturnEmpty
    <2>2. CASE ReadData(t) \/ Release(t)
        BY <2>2 DEF ReadData, Release
    <2>3. QED
        BY <1>2, <2>1, <2>2 DEF Pop
<1>3. QED
    BY <1>1, <1>2

\* As long as t is not and was not writing, no value changes hands.
LEMMA SameValues ==
    ASSUME ValueView, ValueView', NEW t \in Threads, Others(t), data' = data,
           pc[t] # "write", pc'[t] # "write"
    PROVE  \A p : ValueAt(p)' = ValueAt(p)
<1> SUFFICES ASSUME NEW p PROVE ValueAt(p)' = ValueAt(p)
    OBVIOUS
<1>1. CASE \E u \in Threads : pc[u] = "write" /\ pos[u] = p
    <2>1. PICK u \in Threads : pc[u] = "write" /\ pos[u] = p
        BY <1>1
    <2>2. pc'[u] = "write" /\ pos'[u] = p /\ val'[u] = val[u]
        BY <2>1 DEF Others
    <2>3. ValueAt(p) = val[u]
        BY <2>1 DEF ValueView
    <2>4. ValueAt(p)' = val'[u]
        BY <2>2 DEF ValueView
    <2>5. QED
        BY <2>2, <2>3, <2>4
<1>2. CASE \A u \in Threads : pc[u] = "write" => pos[u] # p
    <2>1. \A u \in Threads : pc'[u] = "write" => pos'[u] # p
        BY <1>2 DEF Others
    <2>2. ValueAt(p) = data[Slot(p)] /\ ValueAt(p)' = data'[Slot(p)]
        BY <1>2, <2>1 DEF ValueView
    <2>3. QED
        BY <2>2
<1>3. QED
    BY <1>1, <1>2

\* The queue changes only with the positions and the values between them.
LEMMA SameQueue ==
    ASSUME QueuedView, QueuedView', UNCHANGED <<enqueue_pos, dequeue_pos>>,
           \A i \in 1 .. enqueue_pos - dequeue_pos :
               ValueAt(dequeue_pos + i - 1)' = ValueAt(dequeue_pos + i - 1)
    PROVE  Queued' = Queued
<1>1. /\ Len(Queued') = Len(Queued)
      /\ \A i \in 1 .. Len(Queued') : Queued'[i] = Queued[i]
    BY DEF QueuedView
<1>2. Queued \in Seq(Cells) /\ Queued' \in Seq(Cells)
    BY DEF QueuedView, Cells
<1>3. QED
    BY ONLY <1>1, <1>2, SeqEqual

Views == RInv /\ ValueView /\ QueuedView /\ ValueView' /\ QueuedView'

\* The steps by which a thread looks at a slot and returns: the queue stays.
LEMMA LookRefines ==
    ASSUME Views, NEW t \in Threads, Push(t) \/ Pop(t),
           UNCHANGED <<enqueue_pos, dequeue_pos, data>>,
           pc[t] # "write", pc'[t] # "write"
    PROVE  Queued' = Queued /\ \A u \in Threads \ {t} : CallOf(u)' = CallOf(u)
<1>1. Others(t)
    BY StepOthers DEF Views, RInv
<1>2. \A p : ValueAt(p)' = ValueAt(p)
    BY <1>1, SameValues DEF Views
<1>3. Queued' = Queued
    BY <1>2, SameQueue DEF Views
<1>4. QED
    BY <1>1, <1>3, OtherCalls

\* push is called, or refused, or returns "full".
LEMMA PushLookRefines ==
    ASSUME Views, NEW t \in Threads, Push(t),
           \/ \E v \in Values : PushStart(t, v)
           \/ PushSeq(t) \/ PushReload(t)
           \/ PushCas(t) /\ pc'[t] = "push_seq"
           \/ Publish(t) \/ ReturnFull(t)
    PROVE  Abstract!Next \/ UNCHANGED Abstract!vars
<1> IInv /\ ValuesTyped
    BY DEF Views, RInv
<1> USE DEF Goto, IInv, TypeOK, ValuesTyped
<1>1. /\ Queued' = Queued
      /\ \A u \in Threads \ {t} : CallOf(u)' = CallOf(u)
    <2>1. UNCHANGED <<enqueue_pos, dequeue_pos, data>> /\ pc[t] # "write" /\ pc'[t] # "write"
        BY DEF PushStart, PushSeq, PushReload, PushCas, Publish, ReturnFull
    <2>2. QED
        BY <2>1, LookRefines
<1>2. ASSUME NEW v \in Values, PushStart(t, v) PROVE Abstract!Next
    <2>1. pc[t] = "idle" /\ pc'[t] = "push_seq" /\ val'[t] = v
        BY <1>2 DEF PushStart
    <2>2. CallOf(t) = <<"idle">> /\ CallOf(t)' = <<"push", v>>
        BY ONLY <2>1 DEF CallOf
    <2>3. Abstract!CallPush(t, v)
        BY <1>1, <2>2, CallStep DEF Abstract!CallPush, Abstract!Idle, Abstract!Pushing
    <2>4. QED
        BY <2>3 DEF Abstract!Next
<1>3. CASE PushSeq(t) /\ pc'[t] = "full"
    <2>1. pc[t] = "push_seq" /\ val[t] \in Values
        BY <1>3 DEF PushSeq
    <2>2. CallOf(t) = <<"push", val[t]>> /\ CallOf(t)' = <<"full">>
        BY ONLY <1>3, <2>1 DEF CallOf
    <2>3. Abstract!PushFull(t, val[t])
        BY <1>1, <2>2, CallStep
        DEF Abstract!PushFull, Abstract!Pushing, Abstract!Refused
    <2>4. QED
        BY <2>1, <2>3 DEF Abstract!Next
<1>4. CASE /\ PushSeq(t) \/ PushReload(t) \/ PushCas(t)
           /\ pc'[t] \in {"push_seq", "push_reload", "push_cas"}
    <2>1. /\ pc[t] \in {"push_seq", "push_reload", "push_cas"}
          /\ val'[t] = val[t]
        BY <1>4 DEF PushSeq, PushReload, PushCas
    <2>2. CallOf(t) = <<"push", val[t]>> /\ CallOf(t)' = <<"push", val'[t]>>
        BY ONLY <1>4, <2>1 DEF CallOf
    <2>3. QED
        BY <1>1, <2>1, <2>2 DEF Abstract!vars
<1>5. CASE Publish(t)
    <2>1. pc[t] = "publish" /\ pc'[t] = "idle"
        BY <1>5 DEF Publish
    <2>2. CallOf(t) = <<"idle">> /\ CallOf(t)' = <<"idle">>
        BY ONLY <2>1 DEF CallOf
    <2>3. QED
        BY <1>1, <2>2 DEF Abstract!vars
<1>6. CASE ReturnFull(t)
    <2>1. pc[t] = "full" /\ pc'[t] = "idle"
        BY <1>6 DEF ReturnFull
    <2>2. CallOf(t) = <<"full">> /\ CallOf(t)' = <<"idle">>
        BY ONLY <2>1 DEF CallOf
    <2>3. Abstract!Step(t, <<"full">>, <<"idle">>)
        BY <1>1, <2>2, CallStep
    <2>4. Abstract!Return(t)
        BY <1>1, <2>3 DEF Abstract!Return, Abstract!Refused, Abstract!Idle
    <2>5. QED
        BY <2>4 DEF Abstract!Next
<1>7. PushSeq(t) => pc'[t] \in {"push_cas", "full", "push_reload"}
    BY DEF PushSeq
<1>8. PushReload(t) => pc'[t] = "push_seq"
    BY DEF PushReload
<1>9. QED
    BY <1>2, <1>3, <1>4, <1>5, <1>6, <1>7, <1>8

\* pop is called, finds the queue empty, or returns.
LEMMA PopLookRefines ==
    ASSUME Views, NEW t \in Threads, Pop(t),
           \/ PopStart(t) \/ PopSeq(t) \/ PopReload(t)
           \/ PopCas(t) /\ pc'[t] = "pop_seq"
           \/ ReadData(t) \/ Release(t) \/ ReturnEmpty(t)
    PROVE  Abstract!Next \/ UNCHANGED Abstract!vars
<1> IInv /\ ValuesTyped
    BY DEF Views, RInv
<1> USE DEF Goto, IInv, TypeOK, ValuesTyped
<1>1. /\ Queued' = Queued
      /\ \A u \in Threads \ {t} : CallOf(u)' = CallOf(u)
    <2>1. UNCHANGED <<enqueue_pos, dequeue_pos, data>> /\ pc[t] # "write" /\ pc'[t] # "write"
        BY DEF PopStart, PopSeq, PopReload, PopCas, ReadData, Release, ReturnEmpty
    <2>2. QED
        BY <2>1, LookRefines
<1>2. CASE PopStart(t)
    <2>1. pc[t] = "idle" /\ pc'[t] = "pop_seq"
        BY <1>2 DEF PopStart
    <2>2. CallOf(t) = <<"idle">> /\ CallOf(t)' = <<"pop">>
        BY ONLY <2>1 DEF CallOf
    <2>3. Abstract!CallPop(t)
        BY <1>1, <2>2, CallStep DEF Abstract!CallPop, Abstract!Idle, Abstract!Popping
    <2>4. QED
        BY <2>3 DEF Abstract!Next
<1>3. CASE PopSeq(t) /\ pc'[t] = "empty"
    <2>1. pc[t] = "pop_seq"
        BY <1>3 DEF PopSeq
    <2>2. CallOf(t) = <<"pop">> /\ CallOf(t)' = <<"got", Null>>
        BY ONLY <1>3, <2>1 DEF CallOf
    <2>3. Abstract!PopEmpty(t)
        BY <1>1, <2>2, CallStep DEF Abstract!PopEmpty, Abstract!Popping, Abstract!Got
    <2>4. QED
        BY <2>3 DEF Abstract!Next
<1>4. CASE /\ PopSeq(t) \/ PopReload(t) \/ PopCas(t)
           /\ pc'[t] \in {"pop_seq", "pop_reload", "pop_cas"}
    <2>1. pc[t] \in {"pop_seq", "pop_reload", "pop_cas"}
        BY <1>4 DEF PopSeq, PopReload, PopCas
    <2>2. CallOf(t) = <<"pop">> /\ CallOf(t)' = <<"pop">>
        BY ONLY <1>4, <2>1 DEF CallOf
    <2>3. QED
        BY <1>1, <2>2 DEF Abstract!vars
<1>5. CASE ReadData(t)
    <2>1. pc[t] = "read" /\ pc'[t] = "release" /\ val'[t] = data[Slot(pos[t])]
        BY <1>5 DEF ReadData
    <2>2. CallOf(t) = <<"got", data[Slot(pos[t])]>> /\ CallOf(t)' = <<"got", val'[t]>>
        BY ONLY <2>1 DEF CallOf
    <2>3. QED
        BY <1>1, <2>1, <2>2 DEF Abstract!vars
<1>6. CASE Release(t) \/ ReturnEmpty(t)
    <2>1. PICK r \in Values \cup {Null} :
            CallOf(t) = <<"got", r>> /\ CallOf(t)' = <<"idle">>
        <3>1. CASE Release(t)
            <4>1. pc[t] = "release" /\ pc'[t] = "idle" /\ val[t] \in Values \cup {Null}
                BY <3>1 DEF Release, Cells
            <4>2. CallOf(t) = <<"got", val[t]>> /\ CallOf(t)' = <<"idle">>
                BY ONLY <4>1 DEF CallOf
            <4>3. QED
                BY <4>1, <4>2
        <3>2. CASE ReturnEmpty(t)
            <4>1. pc[t] = "empty" /\ pc'[t] = "idle"
                BY <3>2 DEF ReturnEmpty
            <4>2. CallOf(t) = <<"got", Null>> /\ CallOf(t)' = <<"idle">>
                BY ONLY <4>1 DEF CallOf
            <4>3. QED
                BY <4>2
        <3>3. QED
            BY <1>6, <3>1, <3>2
    <2>2. Abstract!Step(t, <<"got", r>>, <<"idle">>)
        BY <1>1, <2>1, CallStep
    <2>3. Abstract!Return(t)
        BY <1>1, <2>2 DEF Abstract!Return, Abstract!Got, Abstract!Idle
    <2>4. QED
        BY <2>3 DEF Abstract!Next
<1>7. PopSeq(t) => pc'[t] \in {"pop_cas", "empty", "pop_reload"}
    BY DEF PopSeq
<1>8. PopReload(t) => pc'[t] = "pop_seq"
    BY DEF PopReload
<1>9. QED
    BY <1>2, <1>3, <1>4, <1>5, <1>6, <1>7, <1>8

-----------------------------------------------------------------------------
\* A push takes effect when its exchange claims the position.
LEMMA PushClaimRefines ==
    ASSUME Views, NEW t \in Threads, PushCas(t), pc'[t] = "write"
    PROVE  Abstract!Next
<1> TwoSlots /\ IInv /\ ValuesTyped
    BY DEF Views, RInv
<1> USE DEF Goto, IInv, TypeOK, ValuesTyped
<1>1. /\ pc[t] = "push_cas" /\ pos[t] = enqueue_pos /\ pos'[t] = enqueue_pos
      /\ enqueue_pos' = enqueue_pos + 1
      /\ UNCHANGED <<dequeue_pos, data, val>>
      /\ val[t] \in Values /\ val[t] \in Cells
    BY DEF PushCas, Cells
<1>2. /\ enqueue_pos < dequeue_pos + Cap
      /\ Cap \in Nat /\ enqueue_pos \in Nat /\ dequeue_pos \in Nat
      /\ dequeue_pos <= enqueue_pos
    BY <1>1, Numbers DEF SeqStillTrue
<1>3. Others(t)
    BY StepOthers DEF Push
<1>4. PICK e \in Nat, d \in Nat : e = enqueue_pos /\ d = dequeue_pos
    BY <1>2
<1>5. ValueAt(e)' = val[t]
    BY <1>1, <1>4 DEF Views, ValueView
<1>6. ASSUME NEW p \in d .. e - 1 PROVE ValueAt(p)' = ValueAt(p)
    <2>1. p # enqueue_pos
        BY <1>2, <1>4
    <2>2. CASE \E u \in Threads : pc[u] = "write" /\ pos[u] = p
        <3>1. PICK u \in Threads : pc[u] = "write" /\ pos[u] = p
            BY <2>2
        <3>2. pc'[u] = "write" /\ pos'[u] = p /\ val'[u] = val[u]
            BY <1>1, <3>1 DEF PushCas
        <3>3. ValueAt(p) = val[u] /\ ValueAt(p)' = val'[u]
            BY <3>1, <3>2 DEF Views, ValueView
        <3>4. QED
            BY <3>2, <3>3
    <2>3. CASE \A u \in Threads : pc[u] = "write" => pos[u] # p
        <3>1. \A u \in Threads : pc'[u] = "write" => pos'[u] # p
            BY <1>1, <1>3, <2>1, <2>3 DEF Others
        <3>2. ValueAt(p) = data[Slot(p)] /\ ValueAt(p)' = data'[Slot(p)]
            BY <2>3, <3>1 DEF Views, ValueView
        <3>3. QED
            BY <1>1, <3>2
    <2>4. QED
        BY <2>2, <2>3
<1>7. PICK n \in Nat : n = e - d
    BY <1>2, <1>4
<1>8. /\ Queued \in Seq(Cells) /\ Len(Queued) = n
      /\ \A i \in 1 .. n : Queued[i] = ValueAt(d + i - 1)
    BY <1>4, <1>7 DEF Views, QueuedView
<1>9. Queued' \in Seq(Cells)
    BY DEF Views, QueuedView, Cells
<1>10. /\ Len(Queued') = n + 1
      /\ \A i \in 1 .. n + 1 : Queued'[i] = ValueAt(d + i - 1)'
    <2>1. enqueue_pos' - dequeue_pos' = n + 1
        BY <1>1, <1>2, <1>4, <1>7
    <2>2. QED
        BY <1>1, <1>4, <2>1 DEF Views, QueuedView
<1>11. /\ Append(Queued, val[t]) \in Seq(Cells)
       /\ Len(Append(Queued, val[t])) = n + 1
       /\ \A i \in 1 .. n : Append(Queued, val[t])[i] = Queued[i]
       /\ Append(Queued, val[t])[n + 1] = val[t]
    BY ONLY <1>1, <1>8, AppendProperties
<1>12. ASSUME NEW i \in 1 .. n + 1 PROVE Queued'[i] = Append(Queued, val[t])[i]
    <2>1. CASE i = n + 1
        <3>1. d + i - 1 = e
            BY <1>4, <1>7, <2>1
        <3>2. QED
            BY <1>5, <1>10, <1>11, <2>1, <3>1
    <2>2. CASE i # n + 1
        <3>1. i \in 1 .. n /\ d + i - 1 \in d .. e - 1
            BY <1>4, <1>7, <2>2
        <3>2. QED
            BY <1>6, <1>8, <1>10, <1>11, <3>1
    <2>3. QED
        BY <2>1, <2>2
<1>13. Queued' = Append(Queued, val[t])
    <2>1. /\ Len(Queued') = Len(Append(Queued, val[t]))
          /\ \A i \in 1 .. Len(Queued') : Queued'[i] = Append(Queued, val[t])[i]
        BY <1>10, <1>11, <1>12
    <2>2. QED
        BY ONLY <1>9, <1>11, <2>1, SeqEqual
<1>14. CallOf(t) = <<"push", val[t]>> /\ CallOf(t)' = <<"idle">>
    BY ONLY <1>1, pc'[t] = "write" DEF CallOf
<1>15. \A u \in Threads \ {t} : CallOf(u)' = CallOf(u)
    BY <1>1, <1>3, OtherCalls
<1>16. Len(Queued) < Cap
    BY <1>2, <1>4, <1>7, <1>8
<1>17. Abstract!Push(t, val[t])
    BY <1>13, <1>14, <1>15, <1>16, CallStep
    DEF Abstract!Push, Abstract!Pushing, Abstract!Idle
<1>18. QED
    BY <1>1, <1>17 DEF Abstract!Next

\* A pop takes effect when its exchange claims the position, with the value it
\* will read there.
LEMMA PopClaimRefines ==
    ASSUME Views, NEW t \in Threads, PopCas(t), pc'[t] = "read"
    PROVE  Abstract!Next
<1> TwoSlots /\ IInv /\ ValuesTyped
    BY DEF Views, RInv
<1> USE DEF Goto, IInv, TypeOK, ValuesTyped
<1>1. /\ pc[t] = "pop_cas" /\ pos[t] = dequeue_pos /\ pos'[t] = dequeue_pos
      /\ dequeue_pos' = dequeue_pos + 1
      /\ UNCHANGED <<enqueue_pos, data, val>>
    BY DEF PopCas
<1>2. /\ dequeue_pos < enqueue_pos /\ seq[Slot(dequeue_pos)] = dequeue_pos + 1
      /\ enqueue_pos \in Nat /\ dequeue_pos \in Nat
    BY <1>1, Numbers DEF SeqStillTrue
<1>3. Others(t)
    BY StepOthers DEF Pop
<1>4. \A p : ValueAt(p)' = ValueAt(p)
    BY <1>1, <1>3, SameValues DEF Views
<1>5. ValueAt(dequeue_pos) = data[Slot(dequeue_pos)]
    <2>1. \A u \in Threads : pc[u] = "write" => pos[u] # dequeue_pos
        BY <1>2 DEF Owned, Writers
    <2>2. QED
        BY <2>1 DEF Views, ValueView
<1>6. PICK n \in Nat : n = enqueue_pos - dequeue_pos /\ n >= 1
    BY <1>2
<1>7. /\ Queued \in Seq(Cells) /\ Len(Queued) = n
      /\ \A i \in 1 .. n : Queued[i] = ValueAt(dequeue_pos + i - 1)
    BY <1>6 DEF Views, QueuedView
<1>8. Queued' \in Seq(Cells)
    BY DEF Views, QueuedView, Cells
<1>9. /\ Len(Queued') = n - 1
      /\ \A i \in 1 .. n - 1 : Queued'[i] = ValueAt(dequeue_pos + 1 + i - 1)
    <2>1. enqueue_pos' - dequeue_pos' = n - 1
        BY <1>1, <1>2, <1>6
    <2>2. QED
        BY <1>1, <1>4, <2>1 DEF Views, QueuedView
<1>10. Queued # <<>>
    BY <1>6, <1>7
<1>11. Head(Queued) = data[Slot(dequeue_pos)]
    <2>1. Head(Queued) = Queued[1]
        BY <1>10
    <2>2. dequeue_pos + 1 - 1 = dequeue_pos /\ 1 \in 1 .. n
        BY <1>2, <1>6
    <2>3. QED
        BY <1>5, <1>7, <2>1, <2>2
<1>12. /\ Tail(Queued) \in Seq(Cells)
       /\ Len(Tail(Queued)) = n - 1
       /\ \A i \in 1 .. n - 1 : Tail(Queued)[i] = Queued[i + 1]
    BY ONLY <1>7, <1>10, HeadTailProperties
<1>13. ASSUME NEW i \in 1 .. n - 1 PROVE Queued'[i] = Tail(Queued)[i]
    <2>1. i + 1 \in 1 .. n /\ dequeue_pos + (i + 1) - 1 = dequeue_pos + 1 + i - 1
        BY <1>2, <1>6
    <2>2. QED
        BY <1>7, <1>9, <1>12, <2>1
<1>14. Queued' = Tail(Queued)
    <2>1. /\ Len(Queued') = Len(Tail(Queued))
          /\ \A i \in 1 .. Len(Queued') : Queued'[i] = Tail(Queued)[i]
        BY <1>9, <1>12, <1>13
    <2>2. QED
        BY ONLY <1>8, <1>12, <2>1, SeqEqual
<1>15. CallOf(t) = <<"pop">> /\ CallOf(t)' = <<"got", data'[Slot(pos'[t])]>>
    BY ONLY <1>1, pc'[t] = "read" DEF CallOf
<1>16. CallOf(t)' = <<"got", Head(Queued)>>
    BY <1>1, <1>11, <1>15
<1>17. \A u \in Threads \ {t} : CallOf(u)' = CallOf(u)
    BY <1>1, <1>3, OtherCalls
<1>18. Abstract!Pop(t)
    BY <1>10, <1>14, <1>15, <1>16, <1>17, CallStep
    DEF Abstract!Pop, Abstract!Popping, Abstract!Got
<1>19. QED
    BY <1>18 DEF Abstract!Next

\* Writing the claimed slot is not seen by any caller.
LEMMA WriteRefines ==
    ASSUME Views, NEW t \in Threads, WriteData(t)
    PROVE  UNCHANGED Abstract!vars
<1> TwoSlots /\ IInv /\ ValuesTyped
    BY DEF Views, RInv
<1> USE DEF Goto, IInv, TypeOK, ValuesTyped
<1>1. /\ pc[t] = "write" /\ pc'[t] = "publish" /\ t \in Writers
      /\ UNCHANGED <<enqueue_pos, dequeue_pos, pos, val>>
      /\ pos[t] \in Nat /\ Slot(pos[t]) \in Slots
      /\ data' = [data EXCEPT ![Slot(pos[t])] = val[t]]
    BY SlotOnRing DEF WriteData, Writers
<1>2. /\ data'[Slot(pos[t])] = val[t]
      /\ \A i \in Slots : i # Slot(pos[t]) => data'[i] = data[i]
    BY <1>1
<1>3. Others(t)
    BY StepOthers DEF Push
<1>4. pos[t] \in dequeue_pos .. enqueue_pos - 1
    BY <1>1 DEF Owned
<1>5. ASSUME NEW p \in dequeue_pos .. enqueue_pos - 1 PROVE ValueAt(p)' = ValueAt(p)
    <2>1. p \in Nat /\ Slot(p) \in Slots
        BY Numbers, SlotOnRing
    <2>2. CASE p = pos[t]
        <3>1. \A u \in Threads : pc'[u] = "write" => pos'[u] # p
            BY <1>1, <1>3, <2>2 DEF Others, Owned, Writers
        <3>2. ValueAt(p) = val[t] /\ ValueAt(p)' = data'[Slot(p)]
            BY <1>1, <2>2, <3>1 DEF Views, ValueView
        <3>3. QED
            BY <1>2, <2>2, <3>2
    <2>3. CASE p # pos[t] /\ \E u \in Threads : pc[u] = "write" /\ pos[u] = p
        <3>1. PICK u \in Threads : pc[u] = "write" /\ pos[u] = p
            BY <2>3
        <3>2. pc'[u] = "write" /\ pos'[u] = p /\ val'[u] = val[u]
            BY <1>1, <1>3, <2>3, <3>1 DEF Others
        <3>3. ValueAt(p) = val[u] /\ ValueAt(p)' = val'[u]
            BY <3>1, <3>2 DEF Views, ValueView
        <3>4. QED
            BY <3>2, <3>3
    <2>4. CASE p # pos[t] /\ \A u \in Threads : pc[u] = "write" => pos[u] # p
        <3>1. \A u \in Threads : pc'[u] = "write" => pos'[u] # p
            BY <1>1, <1>3, <2>4 DEF Others
        <3>2. ValueAt(p) = data[Slot(p)] /\ ValueAt(p)' = data'[Slot(p)]
            BY <2>4, <3>1 DEF Views, ValueView
        <3>3. p < pos[t] + Cap /\ pos[t] < p + Cap
            BY <1>1, <1>4, <2>1, Numbers
        <3>4. Slot(p) # Slot(pos[t])
            BY <1>1, <2>1, <2>4, <3>3, SlotsApart
        <3>5. QED
            BY <1>2, <2>1, <3>2, <3>4
    <2>5. QED
        BY <2>2, <2>3, <2>4
<1>6. Queued' = Queued
    <2>1. \A i \in 1 .. enqueue_pos - dequeue_pos :
            dequeue_pos + i - 1 \in dequeue_pos .. enqueue_pos - 1
        BY Numbers
    <2>2. QED
        BY <1>1, <1>5, <2>1, SameQueue DEF Views
<1>7. ASSUME NEW u \in Threads PROVE CallOf(u)' = CallOf(u)
    <2>1. CASE u = t
        BY ONLY <1>1, <2>1 DEF CallOf
    <2>2. CASE u # t
        <3>1. pc'[u] = pc[u] /\ pos'[u] = pos[u] /\ val'[u] = val[u]
            BY <1>3, <2>2 DEF Others
        <3>2. ASSUME pc[u] = "read" PROVE data'[Slot(pos[u])] = data[Slot(pos[u])]
            <4>1. u \in Readers /\ pos[u] \in Nat
                BY <3>2 DEF Readers
            <4>2. Slot(pos[u]) # Slot(pos[t]) /\ Slot(pos[u]) \in Slots
                BY <1>1, <2>2, <4>1, OwnersApart, SlotOnRing
            <4>3. QED
                BY <1>2, <4>2
        <3>3. QED
            BY <3>1, <3>2, SameCall
    <2>3. QED
        BY <2>1, <2>2
<1>8. QED
    BY <1>6, <1>7 DEF Abstract!vars

\* Every step of the ring is a step of the queue, or none.
LEMMA StepRefines == RInv /\ [Next]_vars => [Abstract!Next]_(Abstract!vars)
<1> SUFFICES ASSUME RInv, [Next]_vars PROVE Abstract!Next \/ UNCHANGED Abstract!vars
    OBVIOUS
<1>1. Views
    BY BothViews DEF Views
<1>2. ASSUME NEW t \in Threads, Push(t) PROVE Abstract!Next \/ UNCHANGED Abstract!vars
    <2>1. PushCas(t) => pc'[t] \in {"write", "push_seq"}
        BY <1>1 DEF PushCas, Goto, Views, RInv, IInv, TypeOK
    <2>2. QED
        BY <1>1, <1>2, <2>1, PushLookRefines, PushClaimRefines, WriteRefines DEF Push
<1>3. ASSUME NEW t \in Threads, Pop(t) PROVE Abstract!Next \/ UNCHANGED Abstract!vars
    <2>1. PopCas(t) => pc'[t] \in {"read", "pop_seq"}
        BY <1>1 DEF PopCas, Goto, Views, RInv, IInv, TypeOK
    <2>2. QED
        BY <1>1, <1>3, <2>1, PopLookRefines, PopClaimRefines DEF Pop
<1>4. CASE UNCHANGED vars
    BY <1>4 DEF vars, Abstract!vars, Queued, ValueAt, CallOf
<1>5. QED
    BY <1>2, <1>3, <1>4 DEF Next, Threads

\* The ring starts as the empty queue.
LEMMA StartsEmpty == TwoSlots /\ Init => RInv /\ Abstract!Init
<1> SUFFICES ASSUME TwoSlots, Init PROVE RInv /\ Abstract!Init
    OBVIOUS
<1>1. RInv
    BY InitIInv, InitValues DEF RInv
<1>2. Queued = <<>>
    <2>1. Len(Queued) = 0 /\ Queued \in Seq(Cells)
        BY <1>1, QueuedFound DEF RInv, QueuedView, Init
    <2>2. QED
        BY <2>1, EmptySeq
<1>3. QED
    BY <1>1, <1>2 DEF Abstract!Init, Abstract!Idle, Init, CallOf

\* For any number of threads and slots the ring is a queue of Cap values: they
\* come out in the order in which their pushes claimed positions, each once; only
\* "full" and "empty" may be reported too early.
THEOREM Linearizable ==
    ASSUME TwoSlots PROVE Spec => ImplementsFifo
<1>1. Init => RInv /\ Abstract!Init
    BY StartsEmpty
<1>2. RInv /\ [Next]_vars => RInv' /\ [Abstract!Next]_(Abstract!vars)
    BY StepRInv, StepRefines
<1>3. QED
    BY <1>1, <1>2, PTL DEF Spec, Abstract!Spec, ImplementsFifo

-----------------------------------------------------------------------------
(* One producer *)

\* A set of naturals has a least element.
LEMMA LeastNatural ==
    ASSUME NEW S, S \subseteq Nat, S # {}
    PROVE  \E x \in S : \A y \in S : x <= y
<1>1. PICK R : /\ IsWellFoundedOn(R, Nat)
               /\ \A x, y \in Nat : x < y => <<x, y>> \in R
    <2> WITNESS OpToRel(<, Nat)
    <2>1. \A x, y \in Nat : x < y => <<x, y>> \in OpToRel(<, Nat)
        BY DEF OpToRel
    <2>2. QED
        BY <2>1, NatLessThanWellFounded
<1>2. IsWellFoundedOn(R, Nat)
    BY <1>1
<1>3. \E x \in S : \A y \in S : ~ (<<y, x>> \in R)
    BY <1>2, WFMin
<1>4. PICK x \in S : \A y \in S : ~ (<<y, x>> \in R)
    BY <1>3
<1>5. ASSUME NEW y \in S PROVE x <= y
    <2>1. x \in Nat /\ y \in Nat /\ <<y, x>> \notin R
        BY <1>4
    <2>2. ~(y < x)
        BY <1>1, <2>1
    <2>3. QED
        BY <2>1, <2>2
<1>6. QED
    BY <1>5

\* A set of positions below another has a last one, which is its Max.
LEMMA MaxIsLast ==
    ASSUME NEW n \in Nat, NEW S, S \subseteq 0 .. n, S # {}
    PROVE  Max(S) \in S
<1> DEFINE D == {k \in 0 .. n : n - k \in S}
<1>1. D # {}
    <2>1. PICK x \in S : TRUE
        OBVIOUS
    <2>2. n - x \in 0 .. n /\ n - (n - x) = x
        BY <2>1
    <2>3. n - x \in D
        BY <2>1, <2>2
    <2>4. QED
        BY <2>3
<1>2. PICK d \in D : \A k \in D : d <= k
    <2>1. D \subseteq Nat
        OBVIOUS
    <2>2. QED
        BY <1>1, <2>1, LeastNatural, Zenon
<1>3. ASSUME NEW y \in S PROVE n - d >= y
    <2>1. n - y \in 0 .. n /\ n - (n - y) = y
        OBVIOUS
    <2>2. d <= n - y
        BY <1>2, <2>1
    <2>3. QED
        BY <2>2
<1>4. n - d \in S
    OBVIOUS
<1>5. \E x \in S : \A y \in S : x >= y
    BY <1>3, <1>4
<1>6. QED
    BY <1>5 DEF Max

SingleProducer == TwoSlots /\ \E t : Producers = {t}

OInv == IInv /\ OldestFirst /\ EmptyMeansEmpty

\* The constructor establishes the invariant of one producer.
LEMMA InitOInv == SingleProducer /\ Init => OInv
<1> SUFFICES ASSUME SingleProducer, Init PROVE OInv
    OBVIOUS
<1>1. IInv
    BY InitIInv DEF SingleProducer
<1>2. OldestFirst /\ EmptyMeansEmpty
    BY DEF Init, OldestFirst, EmptyMeansEmpty, Writers
<1>3. QED
    BY <1>1, <1>2 DEF OInv

\* A step that claims nothing and stores no seq.
LEMMA QuietOInv ==
    ASSUME TwoSlots, OInv, NEW t \in Threads,
           UNCHANGED <<enqueue_pos, dequeue_pos, seq>>,
           \A u \in Threads : u # t => pc'[u] = pc[u] /\ pos'[u] = pos[u],
           \A u \in Threads : u # t => before'[u] = before[u],
           pc'[t] \in {"write", "publish"} => pc[t] \in {"write", "publish"} /\ pos'[t] = pos[t],
           pc[t] \in {"write", "publish"} => pc'[t] \in {"write", "publish"},
           before' \in [Threads -> Int], before'[t] < enqueue_pos,
           \A u \in Writers : before'[t] < pos[u],
           pc'[t] = "pop_seq" => pos'[t] = dequeue_pos,
           pc'[t] = "empty" => before'[t] < dequeue_pos
    PROVE  OldestFirst' /\ EmptyMeansEmpty'
<1>1. Writers' = Writers /\ \A u \in Writers : pos'[u] = pos[u]
    BY DEF Writers
<1>2. \A u \in Threads : /\ before'[u] < enqueue_pos
                         /\ \A w \in Writers : before'[u] < pos[w]
    BY DEF OInv, OldestFirst
<1>3. \A p : Published(p)' = Published(p)
    BY DEF Published, Slot
<1>4. \A u \in Threads :
        pc'[u] = "pop_seq" /\ pos'[u] < dequeue_pos => seq[Slot(pos'[u])] > pos'[u]
    <2>1. dequeue_pos \in Nat
        BY DEF OInv, IInv, TypeOK
    <2>2. \A u \in Threads :
            pc[u] = "pop_seq" /\ pos[u] < dequeue_pos => seq[Slot(pos[u])] > pos[u]
        BY DEF OInv, OldestFirst
    <2>3. QED
        BY <2>1, <2>2
<1>5. OldestFirst'
    <2>1. \A p \in dequeue_pos .. enqueue_pos - 1 :
            Published(p)' \/ \E u \in Writers' : pos'[u] = p
        BY <1>1, <1>3 DEF OInv, OldestFirst
    <2>2. \A u \in Writers' : u \in Producers /\ pos'[u] = enqueue_pos' - 1
        BY <1>1 DEF OInv, OldestFirst
    <2>3. \A u \in Threads :
            pc'[u] = "pop_seq" /\ pos'[u] < dequeue_pos' => seq'[Slot(pos'[u])] > pos'[u]
        BY <1>4
    <2>4. QED
        BY <1>1, <1>2, <2>1, <2>2, <2>3 DEF OldestFirst, Slot
<1>6. EmptyMeansEmpty'
    BY DEF OInv, EmptyMeansEmpty
<1>7. QED
    BY <1>5, <1>6

\* A pop that begins notes the last position published, before the one being written.
LEMMA PopStartNotes ==
    ASSUME TwoSlots, OInv, NEW t \in Threads, PopStart(t)
    PROVE  /\ before'[t] \in Int /\ before'[t] < enqueue_pos
           /\ \A u \in Writers : before'[t] < pos[u]
<1> USE Numbers DEF OInv
<1>1. before'[t] = IF Pending = {} THEN -1 ELSE Max(Pending)
    BY DEF PopStart, OldestFirst, IInv, TypeOK, OInv
<1>2. \A u \in Writers : pos[u] \in Nat /\ pos[u] = enqueue_pos - 1 /\ seq[Slot(pos[u])] = pos[u]
    BY DEF OldestFirst, IInv, TypeOK, Owned, Writers
<1>3. CASE Pending = {}
    BY <1>1, <1>2, <1>3
<1>4. CASE Pending # {}
    <2>1. Pending \subseteq 0 .. enqueue_pos
        BY DEF Pending
    <2>2. Max(Pending) \in Pending
        BY <1>4, <2>1, MaxIsLast
    <2>3. PICK m \in Pending : m = Max(Pending)
        BY <2>2
    <2>4. m \in Nat /\ m < enqueue_pos /\ seq[Slot(m)] = m + 1
        BY DEF Pending, Published
    <2>5. \A u \in Writers : m # pos[u]
        BY <1>2, <2>4
    <2>6. QED
        BY <1>1, <1>2, <1>4, <2>3, <2>4, <2>5
<1>5. QED
    BY <1>3, <1>4

\* What a step that is neither a claim nor a store of seq leaves.
LEMMA QuietStepOInv ==
    ASSUME SingleProducer, OInv, NEW t \in Threads,
           \/ \E v \in Values : PushStart(t, v)
           \/ PushSeq(t) \/ PushReload(t) \/ WriteData(t) \/ ReturnFull(t)
           \/ (PushCas(t) /\ ~Goto(t, "push_cas", "write"))
           \/ PopStart(t) \/ PopSeq(t) \/ PopReload(t) \/ ReadData(t) \/ ReturnEmpty(t)
           \/ (PopCas(t) /\ ~Goto(t, "pop_cas", "read"))
    PROVE  OldestFirst' /\ EmptyMeansEmpty'
<1> TwoSlots
    BY DEF SingleProducer
<1> USE Numbers DEF OInv
<1>1. /\ pc \in [Threads -> {"idle", "push_seq", "push_reload", "push_cas", "write",
                           "publish", "full", "pop_seq", "pop_reload", "pop_cas",
                           "read", "release", "empty"}]
      /\ pos \in [Threads -> Nat] /\ before \in [Threads -> Int]
    BY DEF IInv, TypeOK, OldestFirst
<1>2. \A u \in Writers : pos[u] \in Nat
    BY <1>1 DEF Writers
<1>3. before[t] < enqueue_pos /\ \A u \in Writers : before[t] < pos[u]
    BY DEF OldestFirst
<1>4. CASE \/ \E v \in Values : PushStart(t, v)
           \/ PushSeq(t) \/ PushReload(t) \/ WriteData(t) \/ ReturnFull(t)
           \/ (PushCas(t) /\ ~Goto(t, "push_cas", "write"))
    <2>1. /\ UNCHANGED <<enqueue_pos, dequeue_pos, seq, before>>
          /\ \A u \in Threads : u # t => pc'[u] = pc[u] /\ pos'[u] = pos[u]
          /\ pc'[t] \notin {"pop_seq", "empty"}
          /\ pc'[t] \in {"write", "publish"} => pc[t] \in {"write", "publish"} /\ pos'[t] = pos[t]
          /\ pc[t] \in {"write", "publish"} => pc'[t] \in {"write", "publish"}
        BY <1>1, <1>4 DEF PushStart, PushSeq, PushReload, WriteData, ReturnFull, PushCas, Goto
    <2>2. QED
        BY <1>1, <1>3, <2>1, QuietOInv
<1>5. CASE PopStart(t)
    <2>1. /\ UNCHANGED <<enqueue_pos, dequeue_pos, seq>>
          /\ \A u \in Threads : u # t => pc'[u] = pc[u] /\ pos'[u] = pos[u]
          /\ pc[t] = "idle" /\ pc'[t] = "pop_seq" /\ pos'[t] = dequeue_pos
        BY <1>1, <1>5 DEF PopStart, Goto
    <2>2. /\ before'[t] \in Int /\ before'[t] < enqueue_pos
          /\ \A u \in Writers : before'[t] < pos[u]
        BY <1>5, PopStartNotes
    <2>3. /\ \A u \in Threads : u # t => before'[u] = before[u]
          /\ before' \in [Threads -> Int]
        <3>1. PICK b : before' = [before EXCEPT ![t] = b]
            BY <1>5 DEF PopStart
        <3>2. b \in Int
            BY <1>1, <2>2, <3>1
        <3>3. QED
            BY <1>1, <3>1, <3>2
    <2>4. QED
        BY <2>1, <2>2, <2>3, QuietOInv
<1>6. CASE PopSeq(t)
    <2>1. /\ UNCHANGED <<enqueue_pos, dequeue_pos, seq, before, pos>>
          /\ \A u \in Threads : u # t => pc'[u] = pc[u]
          /\ pc[t] = "pop_seq" /\ pc'[t] \in {"pop_cas", "empty", "pop_reload"}
          /\ pc'[t] = "empty" => seq[Slot(pos[t])] - (pos[t] + 1) < 0
        BY <1>1, <1>6 DEF PopSeq, Goto
    <2>2. ASSUME pc'[t] = "empty" PROVE before[t] < dequeue_pos
        <3>1. pos[t] \in Nat /\ seq[Slot(pos[t])] \in Nat /\ pos[t] <= dequeue_pos
            BY <1>1, <2>1, SlotOnRing DEF IInv, TypeOK, SeqStillTrue
        <3>2. ~(seq[Slot(pos[t])] > pos[t])
            BY <2>1, <2>2, <3>1
        <3>3. pos[t] = dequeue_pos
            BY <2>1, <3>1, <3>2 DEF OldestFirst
        <3>4. CASE dequeue_pos = enqueue_pos
            BY <1>3, <3>4
        <3>5. CASE dequeue_pos # enqueue_pos
            <4>1. dequeue_pos \in dequeue_pos .. enqueue_pos - 1
                BY <3>5
            <4>2. ~Published(dequeue_pos)
                BY <3>1, <3>2, <3>3 DEF Published
            <4>3. PICK u \in Writers : pos[u] = dequeue_pos
                BY <4>1, <4>2 DEF OldestFirst
            <4>4. QED
                BY <1>3, <4>3
        <3>6. QED
            BY <3>4, <3>5
    <2>3. QED
        BY <1>1, <1>3, <2>1, <2>2, QuietOInv
<1>7. CASE PopReload(t) \/ ReadData(t) \/ (PopCas(t) /\ ~Goto(t, "pop_cas", "read"))
    <2>1. /\ UNCHANGED <<enqueue_pos, dequeue_pos, seq, before>>
          /\ \A u \in Threads : u # t => pc'[u] = pc[u] /\ pos'[u] = pos[u]
          /\ pc[t] \notin {"write", "publish"} /\ pc'[t] \notin {"write", "publish", "empty"}
          /\ pc'[t] = "pop_seq" => pos'[t] = dequeue_pos
        BY <1>1, <1>7 DEF PopReload, ReadData, PopCas, Goto
    <2>2. QED
        BY <1>1, <1>3, <2>1, QuietOInv
<1>8. CASE ReturnEmpty(t)
    <2>1. /\ UNCHANGED <<enqueue_pos, dequeue_pos, seq>>
          /\ \A u \in Threads : u # t => pc'[u] = pc[u] /\ pos'[u] = pos[u]
          /\ \A u \in Threads : u # t => before'[u] = before[u]
          /\ before' \in [Threads -> Int] /\ before'[t] = -1
          /\ pc[t] = "empty" /\ pc'[t] = "idle"
        BY <1>1, <1>8 DEF ReturnEmpty, Goto
    <2>2. QED
        BY <1>2, <2>1, QuietOInv
<1>9. QED
    BY <1>4, <1>5, <1>6, <1>7, <1>8

\* The producer claims a position: no other is being written.
LEMMA PushClaimOInv ==
    ASSUME SingleProducer, OInv, IInv', NEW t \in Producers, PushCas(t), Goto(t, "push_cas", "write")
    PROVE  OldestFirst' /\ EmptyMeansEmpty'
<1> TwoSlots /\ t \in Threads
    BY DEF SingleProducer, Threads
<1> USE Numbers DEF OInv
<1>1. /\ pc[t] = "push_cas" /\ \A u \in Threads : pc'[u] = IF u = t THEN "write" ELSE pc[u]
      /\ enqueue_pos = pos[t] /\ enqueue_pos' = enqueue_pos + 1
      /\ UNCHANGED <<dequeue_pos, seq, pos, before>>
    BY DEF PushCas, Goto, IInv, TypeOK
<1>2. Writers = {} /\ Writers' = {t}
    <2>1. \A u \in Writers : u = t
        BY DEF OldestFirst, SingleProducer
    <2>2. t \notin Writers
        BY <1>1 DEF Writers
    <2>3. QED
        BY <1>1, <2>1, <2>2 DEF Writers
<1>3. \A p : Published(p)' = Published(p)
    BY <1>1 DEF Published, Slot
<1>4. \A p \in dequeue_pos' .. enqueue_pos' - 1 : Published(p)' \/ \E u \in Writers' : pos'[u] = p
    <2>1. ASSUME NEW p \in dequeue_pos .. enqueue_pos, p # enqueue_pos PROVE Published(p)
        <3>1. p \in dequeue_pos .. enqueue_pos - 1
            BY <2>1
        <3>2. QED
            BY <1>2, <3>1 DEF OldestFirst
    <2>2. QED
        BY <1>1, <1>2, <1>3, <2>1
<1>5. \A u \in Threads : before'[u] < enqueue_pos' /\ \A w \in Writers' : before'[u] < pos'[w]
    <2>1. \A u \in Threads : before[u] \in Int /\ before[u] < enqueue_pos
        BY DEF OldestFirst
    <2>2. QED
        BY <1>1, <1>2, <2>1
<1>6. \A u \in Threads :
        pc'[u] = "pop_seq" /\ pos'[u] < dequeue_pos' => seq'[Slot(pos'[u])] > pos'[u]
    BY <1>1 DEF OldestFirst
<1>7. \A u \in Writers' : u \in Producers /\ pos'[u] = enqueue_pos' - 1
    BY <1>1, <1>2
<1>8. before' \in [Threads -> Int]
    BY <1>1 DEF OldestFirst
<1>9. OldestFirst'
    BY <1>4, <1>5, <1>6, <1>7, <1>8 DEF OldestFirst, Slot
<1>10. EmptyMeansEmpty'
    BY <1>1 DEF EmptyMeansEmpty
<1>11. QED
    BY <1>9, <1>10

\* A pop claims the oldest position: whoever comes there later finds it published.
LEMMA PopClaimOInv ==
    ASSUME SingleProducer, OInv, NEW t \in Threads, PopCas(t), Goto(t, "pop_cas", "read")
    PROVE  OldestFirst' /\ EmptyMeansEmpty'
<1> TwoSlots
    BY DEF SingleProducer
<1> USE Numbers DEF OInv
<1>1. /\ pc[t] = "pop_cas" /\ \A u \in Threads : pc'[u] = IF u = t THEN "read" ELSE pc[u]
      /\ dequeue_pos = pos[t] /\ dequeue_pos' = dequeue_pos + 1
      /\ before' = [before EXCEPT ![t] = -1]
      /\ UNCHANGED <<enqueue_pos, seq, pos>>
    BY DEF PopCas, Goto, IInv, TypeOK
<1>2. seq[Slot(dequeue_pos)] = dequeue_pos + 1
    BY <1>1 DEF IInv, SeqStillTrue
<1>3. Writers' = Writers
    BY <1>1 DEF Writers
<1>4. \A p : Published(p)' = Published(p)
    BY <1>1 DEF Published, Slot
<1>5. \A p \in dequeue_pos' .. enqueue_pos' - 1 : Published(p)' \/ \E u \in Writers' : pos'[u] = p
    BY <1>1, <1>3, <1>4 DEF OldestFirst
<1>6. /\ before' \in [Threads -> Int]
      /\ \A u \in Threads : before'[u] = before[u] \/ before'[u] = -1
    BY <1>1 DEF OldestFirst
<1>7. \A u \in Threads : before'[u] < enqueue_pos' /\ \A w \in Writers' : before'[u] < pos'[w]
    <2>1. \A w \in Writers : pos[w] \in Nat
        BY DEF Writers, IInv, TypeOK
    <2>2. \A u \in Threads : before[u] < enqueue_pos /\ \A w \in Writers : before[u] < pos[w]
        BY DEF OldestFirst
    <2>3. QED
        BY <1>1, <1>3, <1>6, <2>1, <2>2
<1>8. ASSUME NEW u \in Threads, pc'[u] = "pop_seq", pos'[u] < dequeue_pos'
      PROVE  seq'[Slot(pos'[u])] > pos'[u]
    <2>1. pos[u] \in Nat /\ pc[u] = "pop_seq"
        BY <1>1, <1>8 DEF IInv, TypeOK
    <2>2. CASE pos[u] = dequeue_pos
        BY <1>1, <1>2, <2>2
    <2>3. CASE pos[u] < dequeue_pos
        BY <1>1, <2>1, <2>3 DEF OldestFirst
    <2>4. QED
        BY <1>1, <1>8, <2>1, <2>2, <2>3
<1>9. \A u \in Writers' : u \in Producers /\ pos'[u] = enqueue_pos' - 1
    BY <1>1, <1>3 DEF OldestFirst
<1>10. OldestFirst'
    BY <1>5, <1>6, <1>7, <1>8, <1>9 DEF OldestFirst, Slot
<1>11. EmptyMeansEmpty'
    <2>1. \A u \in Threads : pc'[u] = "empty" => pc[u] = "empty" /\ u # t
        BY <1>1
    <2>2. \A u \in Threads : u # t => before'[u] = before[u]
        BY <1>1
    <2>3. \A u \in Threads : before[u] \in Int
        BY DEF OldestFirst
    <2>4. QED
        BY <1>1, <2>1, <2>2, <2>3 DEF EmptyMeansEmpty
<1>12. QED
    BY <1>10, <1>11

\* A slot's seq only grows; the one of an owner's position.
LEMMA StoreOInv ==
    ASSUME SingleProducer, OInv, NEW t \in Writers \cup Readers, NEW n \in Nat,
           Goto(t, pc[t], "idle"), pos' = [pos EXCEPT ![t] = 0],
           UNCHANGED <<enqueue_pos, dequeue_pos, before>>,
           seq' = [seq EXCEPT ![Slot(pos[t])] = n],
           n >= seq[Slot(pos[t])],
           t \in Writers => n = pos[t] + 1,
           t \in Readers => n = pos[t] + Cap
    PROVE  OldestFirst' /\ EmptyMeansEmpty'
<1> TwoSlots
    BY DEF SingleProducer
<1> USE Numbers DEF OInv
<1>0. t \in Threads /\ pos[t] \in Nat
    BY DEF Writers, Readers, IInv, TypeOK
<1>1. /\ \A p \in Nat : seq'[Slot(p)] = IF Slot(p) = Slot(pos[t]) THEN n ELSE seq[Slot(p)]
      /\ \A u \in Threads : /\ pc'[u] = IF u = t THEN "idle" ELSE pc[u]
                            /\ pos'[u] = IF u = t THEN 0 ELSE pos[u]
    BY StoreSeq
<1>2. Writers' = Writers \ {t} /\ \A u \in Writers' : pos'[u] = pos[u]
    BY <1>1 DEF Writers
<1>3. ASSUME NEW p \in dequeue_pos .. enqueue_pos - 1
      PROVE  Published(p)' \/ \E u \in Writers' : pos'[u] = p
    <2>1. p \in Nat
        OBVIOUS
    <2>2. CASE p = pos[t]
        <3>1. t \notin Readers
            BY <2>2 DEF IInv, Owned
        <3>2. seq'[Slot(p)] = p + 1
            BY <1>1, <2>1, <2>2, <3>1
        <3>3. QED
            BY <3>2 DEF Published, Slot
    <2>3. CASE p # pos[t]
        <3>1. pos[t] \in enqueue_pos - Cap .. enqueue_pos - 1
            BY DEF IInv, Owned
        <3>2. Slot(p) # Slot(pos[t])
            <4>1. p < pos[t] => pos[t] < p + Cap
                BY <1>0, <2>1, <3>1
            <4>2. pos[t] < p => p < pos[t] + Cap
                BY <1>0, <2>1, <3>1
            <4>3. QED
                BY <1>0, <2>1, <2>3, <4>1, <4>2, SlotsApart
        <3>3. seq'[Slot(p)] = seq[Slot(p)]
            BY <1>1, <2>1, <3>2
        <3>4. Published(p) => Published(p)'
            BY <3>3 DEF Published, Slot
        <3>5. QED
            BY <1>2, <2>3, <3>4 DEF OldestFirst
    <2>4. QED
        BY <2>2, <2>3
<1>4. \A u \in Threads : before'[u] < enqueue_pos' /\ \A w \in Writers' : before'[u] < pos'[w]
    BY <1>2 DEF OldestFirst
<1>5. ASSUME NEW u \in Threads, pc'[u] = "pop_seq", pos'[u] < dequeue_pos'
      PROVE  seq'[Slot(pos'[u])] > pos'[u]
    <2>1. u # t /\ pc[u] = "pop_seq" /\ pos'[u] = pos[u] /\ pos[u] \in Nat
        BY <1>1, <1>5 DEF IInv, TypeOK
    <2>2. seq[Slot(pos[u])] > pos[u]
        BY <1>5, <2>1 DEF OldestFirst
    <2>3. seq'[Slot(pos[u])] >= seq[Slot(pos[u])]
        <3>1. seq[Slot(pos[u])] \in Nat
            BY <2>1, SlotOnRing DEF IInv, TypeOK
        <3>2. QED
            BY <1>1, <2>1, <3>1
    <2>4. seq[Slot(pos[u])] \in Nat /\ seq'[Slot(pos[u])] \in Nat
        BY <1>1, <2>1, SlotOnRing DEF IInv, TypeOK
    <2>5. QED
        BY <2>1, <2>2, <2>3, <2>4
<1>6. \A u \in Writers' : u \in Producers /\ pos'[u] = enqueue_pos' - 1
    BY <1>2 DEF OldestFirst
<1>7. before' \in [Threads -> Int]
    BY DEF OldestFirst
<1>8. OldestFirst'
    BY <1>3, <1>4, <1>5, <1>6, <1>7 DEF OldestFirst, Slot
<1>9. EmptyMeansEmpty'
    BY <1>1 DEF EmptyMeansEmpty
<1>10. QED
    BY <1>8, <1>9

\* Every step preserves it.
LEMMA StepOInv == SingleProducer /\ OInv /\ [Next]_vars => OInv'
<1> SUFFICES ASSUME SingleProducer, OInv, [Next]_vars PROVE OldestFirst' /\ EmptyMeansEmpty'
    BY StepIInv DEF OInv, SingleProducer
<1> TwoSlots
    BY DEF SingleProducer
<1>1. IInv'
    BY StepIInv DEF OInv
<1>2. ASSUME NEW t \in Threads, t \in Writers \cup Readers, Publish(t) \/ Release(t)
      PROVE  OldestFirst' /\ EmptyMeansEmpty'
    <2>1. pos[t] \in Nat /\ Cap \in Nat /\ Cap > 1
        BY Numbers DEF OInv, IInv, TypeOK
    <2>2. CASE Publish(t)
        <3>1. /\ pc[t] = "publish" /\ Goto(t, pc[t], "idle") /\ pos' = [pos EXCEPT ![t] = 0]
              /\ UNCHANGED <<enqueue_pos, dequeue_pos, before>>
              /\ seq' = [seq EXCEPT ![Slot(pos[t])] = pos[t] + 1]
            BY <2>2 DEF Publish, Goto
        <3>2. t \in Writers /\ t \notin Readers
            BY <3>1 DEF Writers, Readers
        <3>3. seq[Slot(pos[t])] = pos[t]
            BY <3>2 DEF OInv, IInv, Owned
        <3>4. pos[t] + 1 \in Nat /\ pos[t] + 1 >= seq[Slot(pos[t])]
            BY <2>1, <3>3
        <3>5. QED
            BY <3>1, <3>2, <3>4, StoreOInv
    <2>3. CASE Release(t)
        <3>1. /\ pc[t] = "release" /\ Goto(t, pc[t], "idle") /\ pos' = [pos EXCEPT ![t] = 0]
              /\ UNCHANGED <<enqueue_pos, dequeue_pos, before>>
              /\ seq' = [seq EXCEPT ![Slot(pos[t])] = pos[t] + Cap]
            BY <2>3 DEF Release, Goto
        <3>2. t \in Readers /\ t \notin Writers
            BY <3>1 DEF Writers, Readers
        <3>3. seq[Slot(pos[t])] = pos[t] + 1
            BY <3>2 DEF OInv, IInv, Owned
        <3>4. pos[t] + Cap \in Nat /\ pos[t] + Cap >= seq[Slot(pos[t])]
            BY <2>1, <3>3
        <3>5. QED
            BY <3>1, <3>2, <3>4, StoreOInv
    <2>4. QED
        BY <1>2, <2>2, <2>3
<1>3. ASSUME NEW t \in Producers, Push(t) PROVE OldestFirst' /\ EmptyMeansEmpty'
    <2>1. t \in Threads
        BY DEF Threads
    <2>2. CASE PushCas(t) /\ Goto(t, "push_cas", "write")
        BY <1>1, <2>2, PushClaimOInv
    <2>3. CASE Publish(t)
        <3>1. t \in Writers
            BY <2>1, <2>3 DEF Publish, Goto, Writers
        <3>2. QED
            BY <1>2, <2>1, <2>3, <3>1
    <2>4. CASE \/ \E v \in Values : PushStart(t, v)
               \/ PushSeq(t) \/ PushReload(t) \/ WriteData(t) \/ ReturnFull(t)
               \/ (PushCas(t) /\ ~Goto(t, "push_cas", "write"))
        BY <2>1, <2>4, QuietStepOInv
    <2>5. QED
        BY <1>3, <2>2, <2>3, <2>4 DEF Push
<1>4. ASSUME NEW t \in Consumers, Pop(t) PROVE OldestFirst' /\ EmptyMeansEmpty'
    <2>1. t \in Threads
        BY DEF Threads
    <2>2. CASE PopCas(t) /\ Goto(t, "pop_cas", "read")
        BY <2>1, <2>2, PopClaimOInv
    <2>3. CASE Release(t)
        <3>1. t \in Readers
            BY <2>1, <2>3 DEF Release, Goto, Readers
        <3>2. QED
            BY <1>2, <2>1, <2>3, <3>1
    <2>4. CASE \/ PopStart(t) \/ PopSeq(t) \/ PopReload(t) \/ ReadData(t) \/ ReturnEmpty(t)
               \/ (PopCas(t) /\ ~Goto(t, "pop_cas", "read"))
        BY <2>1, <2>4, QuietStepOInv
    <2>5. QED
        BY <1>4, <2>2, <2>3, <2>4 DEF Pop
<1>5. CASE UNCHANGED vars
    BY <1>5 DEF vars, OInv, OldestFirst, EmptyMeansEmpty, Published, Slot, Writers
<1>6. QED
    BY <1>3, <1>4, <1>5 DEF Next

\* With a single producer, any number of consumers and at least two slots, pop answers
\* "empty" only when all that had been pushed before the call has been taken.
THEOREM EmptyIsEmpty ==
    ASSUME SingleProducer PROVE Spec => []EmptyMeansEmpty
<1>1. Init => OInv
    BY InitOInv
<1>2. OInv /\ [Next]_vars => OInv'
    BY StepOInv
<1>3. OInv => EmptyMeansEmpty
    BY DEF OInv
<1>4. QED
    BY <1>1, <1>2, <1>3, PTL DEF Spec
=============================================================================
