---------------------------- MODULE ReclaimProofs ----------------------------
(***************************************************************************)
(* The components that delete nodes while others may still hold them, for  *)
(* any number of threads, nodes, values and hazard records.                *)
(* lock_free_stack: no pop reads a node that has been deleted, no node is  *)
(* lost or deleted twice, and the stack is linearizable.                   *)
(* mpmc_lockfree_queue, whose push protects nothing: where no other thread *)
(* pushes, or no thread pops, no thread touches a node that has been       *)
(* deleted, and until a pop stores nullptr into head_ the values come out  *)
(* in the order they went in.                                              *)
(* mpmc_refcount_queue: no thread touches a node that has been deleted,    *)
(* and no node is left behind, the counts wrapping as they do; where one   *)
(* thread pushes, or nobody pops, it is linearizable.                      *)
(***************************************************************************)
EXTENDS MCReclaim, LinkedListTheorems

-----------------------------------------------------------------------------
(* lock_free_stack *)

USE DEF Records, NoRecord, NodeOrNull

\* The constructor establishes the invariant.
LEMMA InitIInv == Init => IInv
<1> SUFFICES ASSUME Init PROVE IInv
  OBVIOUS
<1> USE ConstantsAssumption DEF Init
<1>1. TypeOK
  BY DEF TypeOK, PC
<1>2. LocalsOK
  BY DEF LocalsOK
<1>3. Ownership /\ ResultsOK
  BY DEF Ownership, Owned, Held, ResultsOK
<1>4. Shape
  BY DEF Shape, InStack
<1>5. RecordsUnshared
  BY DEF RecordsUnshared
<1>6. RecordSet /\ Protected
  BY DEF RecordSet, Protected, Validated
<1> QED
  BY <1>1, <1>2, <1>3, <1>4, <1>5, <1>6 DEF IInv

\* Every step keeps the type of every variable: one sub-step per action.
LEMMA StepTypeOK == TypeOK /\ LocalsOK /\ [Next]_vars => TypeOK'
<1> SUFFICES ASSUME TypeOK, LocalsOK, [Next]_vars
             PROVE  TypeOK'
  OBVIOUS
<1> USE ConstantsAssumption DEF TypeOK, PC, Goto
<1>1. ASSUME NEW t \in Threads, NEW v \in Values, PushAlloc(t, v)
      PROVE  TypeOK'
  BY <1>1 DEF PushAlloc
<1>2. ASSUME NEW t \in Threads, PushCas(t)
      PROVE  TypeOK'
  <2>1. new[t] \in Nodes /\ pc' \in [Threads -> PC]
    BY <1>2 DEF PushCas, LocalsOK
  <2>2. new' \in [Threads -> NodeOrNull] /\ head' \in NodeOrNull
    BY <1>2, <2>1 DEF PushCas
  <2>3. next' \in [Nodes -> NodeOrNull]
    BY <1>2, <2>1 DEF PushCas
  <2> QED
    BY <1>2, <2>1, <2>2, <2>3 DEF PushCas
<1>3. ASSUME NEW t \in Threads, PopEnter(t)
      PROVE  TypeOK'
  BY <1>3 DEF PopEnter, FreeRecords
<1>4. ASSUME NEW t \in Threads, LoadHead(t)
      PROVE  TypeOK'
  BY <1>4 DEF LoadHead
<1>5. ASSUME NEW t \in Threads, StoreHp(t)
      PROVE  TypeOK'
  BY <1>5 DEF StoreHp
<1>6. ASSUME NEW t \in Threads, Validate(t)
      PROVE  TypeOK'
  BY <1>6 DEF Validate
<1>7. ASSUME NEW t \in Threads, ReadNext(t)
      PROVE  TypeOK'
  BY <1>7 DEF ReadNext, LocalsOK
<1>8. ASSUME NEW t \in Threads, PopCas(t)
      PROVE  TypeOK'
  BY <1>8 DEF PopCas
<1>9. ASSUME NEW t \in Threads, ReadData(t)
      PROVE  TypeOK'
  BY <1>9 DEF ReadData, LocalsOK
<1>10. ASSUME NEW t \in Threads, ClearHp(t)
       PROVE  TypeOK'
  BY <1>10 DEF ClearHp
<1>11. ASSUME NEW t \in Threads, ClearHpEmpty(t)
       PROVE  TypeOK'
  BY <1>11 DEF ClearHpEmpty
<1>12. ASSUME NEW t \in Threads, ReclaimLater(t)
       PROVE  TypeOK'
  BY <1>12 DEF ReclaimLater, LocalsOK
<1>13. ASSUME NEW t \in Threads, ExchangeList(t)
       PROVE  TypeOK'
  BY <1>13 DEF ExchangeList
<1>14. ASSUME NEW t \in Threads, NextNode(t)
       PROVE  TypeOK'
  <2>1. ASSUME NEW n \in batch[t],
               cur' = [cur EXCEPT ![t] = n],
               idx' = [idx EXCEPT ![t] = 0],
               pc' = [pc EXCEPT ![t] = "scan"],
               UNCHANGED res
        PROVE  TypeOK'
    <3>1. n \in Nodes
      OBVIOUS
    <3>2. cur' \in [Threads -> NodeOrNull] /\ idx' \in [Threads -> 0 .. MAX_HAZARD]
      BY <2>1, <3>1
    <3> QED
      BY <1>14, <2>1, <3>2 DEF NextNode
  <2>2. ASSUME batch[t] = {},
               pc' = [pc EXCEPT ![t] = "idle"],
               res' = [res EXCEPT ![t] = NoResult],
               UNCHANGED <<cur, idx>>
        PROVE  TypeOK'
    BY <1>14, <2>2 DEF NextNode
  <2> QED
    BY <1>14, <2>1, <2>2 DEF NextNode
<1>15. ASSUME NEW t \in Threads, ScanRecord(t)
       PROVE  TypeOK'
  <2>1. idx' \in [Threads -> 0 .. MAX_HAZARD]
    <3>1. idx[t] + 1 \in 0 .. MAX_HAZARD
      BY <1>15 DEF ScanRecord
    <3>2. idx' = idx \/ idx' = [idx EXCEPT ![t] = idx[t] + 1]
      BY <1>15 DEF ScanRecord
    <3> QED
      BY <3>1, <3>2
  <2>2. pc' \in [Threads -> PC]
    BY <1>15 DEF ScanRecord
  <2> QED
    BY <1>15, <2>1, <2>2 DEF ScanRecord
<1>16. ASSUME NEW t \in Threads, Delete(t)
       PROVE  TypeOK'
  <2>1. cur[t] \in Nodes
    <3>1. batch[t] \in SUBSET Nodes
      OBVIOUS
    <3>2. cur[t] \in batch[t]
      BY <1>16 DEF Delete, LocalsOK
    <3> QED
      BY <3>1, <3>2
  <2>2. /\ batch' \in [Threads -> SUBSET Nodes]
        /\ cur' \in [Threads -> NodeOrNull]
        /\ idx' \in [Threads -> 0 .. MAX_HAZARD]
    BY <1>16 DEF Delete, Dispose
  <2> QED
    BY <1>16, <2>1, <2>2 DEF Delete, Dispose
<1>17. ASSUME NEW t \in Threads, KeepForLater(t)
       PROVE  TypeOK'
  <2>1. cur[t] \in Nodes
    <3>1. batch[t] \in SUBSET Nodes
      OBVIOUS
    <3>2. cur[t] \in batch[t]
      BY <1>17 DEF KeepForLater, LocalsOK
    <3> QED
      BY <3>1, <3>2
  <2>2. /\ batch' \in [Threads -> SUBSET Nodes]
        /\ cur' \in [Threads -> NodeOrNull]
        /\ idx' \in [Threads -> 0 .. MAX_HAZARD]
    BY <1>17 DEF KeepForLater, Dispose
  <2> QED
    BY <1>17, <2>1, <2>2 DEF KeepForLater, Dispose
<1>18. CASE UNCHANGED vars
  BY <1>18 DEF vars
<1> QED
  BY <1>1, <1>2, <1>3, <1>4, <1>5, <1>6, <1>7, <1>8, <1>9, <1>10, <1>11,
     <1>12, <1>13, <1>14, <1>15, <1>16, <1>17, <1>18 DEF Next, Pop, Reclaim

\* A thread has the locals its program counter says it has, before and after
\* any step: a node to push, a record, a validated node, a node under scan.
LEMMA StepLocalsOK == TypeOK /\ LocalsOK /\ [Next]_vars => LocalsOK'
<1> SUFFICES ASSUME TypeOK, LocalsOK, [Next]_vars
             PROVE  LocalsOK'
  OBVIOUS
<1> USE ConstantsAssumption DEF TypeOK, LocalsOK, Goto
<1>1. ASSUME NEW t \in Threads, NEW v \in Values, PushAlloc(t, v)
      PROVE  LocalsOK'
  BY <1>1 DEF PushAlloc
<1>2. ASSUME NEW t \in Threads, PushCas(t)
      PROVE  LocalsOK'
  BY <1>2 DEF PushCas
<1>3. ASSUME NEW t \in Threads, PopEnter(t)
      PROVE  LocalsOK'
  BY <1>3 DEF PopEnter, FreeRecords
<1>4. ASSUME NEW t \in Threads, LoadHead(t)
      PROVE  LocalsOK'
  BY <1>4 DEF LoadHead
<1>5. ASSUME NEW t \in Threads, StoreHp(t)
      PROVE  LocalsOK'
  BY <1>5 DEF StoreHp
<1>6. ASSUME NEW t \in Threads, Validate(t)
      PROVE  LocalsOK'
  <2>1. CASE pc' = [pc EXCEPT ![t] = "load_head"]
    BY <1>6, <2>1 DEF Validate
  <2>2. CASE pc' = [pc EXCEPT ![t] = "clear_hp_empty"]
    BY <1>6, <2>2 DEF Validate
  <2>3. CASE pc' = [pc EXCEPT ![t] = "read_next"] /\ old[t] # Null
    BY <1>6, <2>3 DEF Validate
  <2> QED
    BY <1>6, <2>1, <2>2, <2>3 DEF Validate
<1>7. ASSUME NEW t \in Threads, ReadNext(t)
      PROVE  LocalsOK'
  BY <1>7 DEF ReadNext
<1>8. ASSUME NEW t \in Threads, PopCas(t)
      PROVE  LocalsOK'
  <2>1. CASE pc' = [pc EXCEPT ![t] = "read_data"]
    BY <1>8, <2>1 DEF PopCas
  <2>2. CASE pc' = [pc EXCEPT ![t] = "load_head"]
    BY <1>8, <2>2 DEF PopCas
  <2> QED
    BY <1>8, <2>1, <2>2 DEF PopCas
<1>9. ASSUME NEW t \in Threads, ReadData(t)
      PROVE  LocalsOK'
  BY <1>9 DEF ReadData
<1>10. ASSUME NEW t \in Threads, ClearHp(t)
       PROVE  LocalsOK'
  BY <1>10 DEF ClearHp
<1>11. ASSUME NEW t \in Threads, ClearHpEmpty(t)
       PROVE  LocalsOK'
  BY <1>11 DEF ClearHpEmpty
<1>12. ASSUME NEW t \in Threads, ReclaimLater(t)
       PROVE  LocalsOK'
  BY <1>12 DEF ReclaimLater
<1>13. ASSUME NEW t \in Threads, ExchangeList(t)
       PROVE  LocalsOK'
  BY <1>13 DEF ExchangeList
<1>14. ASSUME NEW t \in Threads, NextNode(t)
       PROVE  LocalsOK'
  BY <1>14 DEF NextNode
<1>15. ASSUME NEW t \in Threads, ScanRecord(t)
       PROVE  LocalsOK'
  BY <1>15 DEF ScanRecord
<1>16. ASSUME NEW t \in Threads, Delete(t)
       PROVE  LocalsOK'
  BY <1>16 DEF Delete, Dispose
<1>17. ASSUME NEW t \in Threads, KeepForLater(t)
       PROVE  LocalsOK'
  BY <1>17 DEF KeepForLater, Dispose
<1>18. CASE UNCHANGED vars
  BY <1>18 DEF vars
<1> QED
  BY <1>1, <1>2, <1>3, <1>4, <1>5, <1>6, <1>7, <1>8, <1>9, <1>10, <1>11, <1>12, <1>13, <1>14,
     <1>15, <1>16, <1>17, <1>18
     DEF Next, Pop, Reclaim

-----------------------------------------------------------------------------
(* Which steps move a node from one place to another *)

\* No node moves.
Still ==
    /\ free' = free
    /\ reclaim_list' = reclaim_list
    /\ \A u \in Threads : Owned(u)' = Owned(u)

\* The steps that touch neither a link, nor the top, nor a place.
Quiet(t) ==
    \/ PopEnter(t) \/ LoadHead(t) \/ StoreHp(t) \/ Validate(t) \/ ReadNext(t)
    \/ ReadData(t) \/ ClearHp(t) \/ ClearHpEmpty(t) \/ NextNode(t) \/ ScanRecord(t)

\* The steps that only move a thread along (loads, hazard stores, the scan)
\* change neither the list, nor who owns which node.
LEMMA QuietIsStill ==
    ASSUME TypeOK, LocalsOK, NEW t \in Threads, Quiet(t)
    PROVE  Still /\ head' = head /\ next' = next
<1> USE DEF TypeOK, Still, Owned, Held, Goto
<1>1. CASE PopEnter(t)
  BY <1>1 DEF PopEnter
<1>2. CASE LoadHead(t)
  BY <1>2 DEF LoadHead
<1>3. CASE StoreHp(t)
  BY <1>3 DEF StoreHp
<1>4. CASE Validate(t)
  BY <1>4 DEF Validate
<1>5. CASE ReadNext(t)
  BY <1>5 DEF ReadNext
<1>6. CASE ReadData(t)
  BY <1>6 DEF ReadData
<1>7. CASE ClearHp(t)
  BY <1>7 DEF ClearHp
<1>8. CASE ClearHpEmpty(t)
  BY <1>8 DEF ClearHpEmpty
<1>9. CASE NextNode(t)
  BY <1>9 DEF NextNode
<1>10. CASE ScanRecord(t)
  BY <1>10 DEF ScanRecord
<1> QED
  BY <1>1, <1>2, <1>3, <1>4, <1>5, <1>6, <1>7, <1>8, <1>9, <1>10 DEF Quiet

\* When nothing moves, what is said of the places stays true.
LEMMA StillFrame ==
    ASSUME Still
    PROVE  /\ InStack' = InStack
           /\ Ownership => Ownership'
BY DEF Still, InStack, Ownership

-----------------------------------------------------------------------------
(* The steps that move a node *)

Moved(t, mine) ==
    /\ Owned(t)' = mine
    /\ \A u \in Threads : u # t => Owned(u)' = Owned(u)

\* A push takes its node from the heap and owns it.
LEMMA PushAllocMoves ==
    ASSUME TypeOK, LocalsOK, NEW t \in Threads, NEW v \in Values, PushAlloc(t, v)
    PROVE  \E n \in free : /\ free' = free \ {n}
                           /\ reclaim_list' = reclaim_list
                           /\ Owned(t) = {}
                           /\ Moved(t, {n})
                           /\ head' = head
                           /\ next' = [next EXCEPT ![n] = head]
<1>1. PICK n \in free : /\ free' = free \ {n}
                        /\ new' = [new EXCEPT ![t] = n]
                        /\ next' = [next EXCEPT ![n] = head]
  BY DEF PushAlloc
<1>2. /\ pc[t] = "idle" /\ batch[t] = {} /\ old' = old /\ batch' = batch
      /\ pc' = [pc EXCEPT ![t] = "push_cas"]
  BY DEF TypeOK, LocalsOK, PushAlloc, Goto
<1>3. Owned(t) = {} /\ Owned(t)' = {n}
  BY <1>1, <1>2 DEF TypeOK, Owned, Held
<1>4. \A u \in Threads : u # t => Owned(u)' = Owned(u)
  BY <1>1, <1>2 DEF TypeOK, Owned, Held
<1> QED
  BY <1>1, <1>3, <1>4 DEF PushAlloc, Moved

\* A push gives its node to the stack.
LEMMA PushCasMoves ==
    ASSUME TypeOK, LocalsOK, NEW t \in Threads, PushCas(t)
    PROVE  /\ free' = free
           /\ reclaim_list' = reclaim_list
           /\ Owned(t) = {new[t]}
           /\ new[t] \in Nodes
           /\ \/ /\ Moved(t, {})
                 /\ next[new[t]] = head
                 /\ head' = new[t]
                 /\ next' = next
              \/ /\ Still
                 /\ head' = head
                 /\ next' = [next EXCEPT ![new[t]] = head]
<1> USE DEF TypeOK, LocalsOK, PushCas
<1>1. CASE head' = new[t] /\ next[new[t]] = head /\ next' = next
           /\ new' = [new EXCEPT ![t] = Null] /\ pc' = [pc EXCEPT ![t] = "idle"]
  <2>1. /\ pc[t] = "push_cas" /\ new[t] \in Nodes /\ batch[t] = {}
        /\ old' = old /\ batch' = batch /\ free' = free /\ reclaim_list' = reclaim_list
    OBVIOUS
  <2>2. Owned(t) = {new[t]} /\ Owned(t)' = {}
    BY <1>1, <2>1 DEF Owned, Held
  <2>3. \A u \in Threads : u # t => Owned(u)' = Owned(u)
    BY <1>1, <2>1 DEF Owned, Held
  <2> QED
    BY <1>1, <2>1, <2>2, <2>3 DEF Moved
<1>2. CASE next' = [next EXCEPT ![new[t]] = head] /\ UNCHANGED <<head, new, pc>>
  BY <1>2 DEF Still, Owned, Held
<1> QED
  BY <1>1, <1>2

\* A pop takes the top node from the stack and owns it.
LEMMA PopCasMoves ==
    ASSUME TypeOK, LocalsOK, NEW t \in Threads, PopCas(t)
    PROVE  /\ free' = free
           /\ reclaim_list' = reclaim_list
           /\ next' = next
           /\ \/ /\ Owned(t) = {}
                 /\ Moved(t, {old[t]})
                 /\ head = old[t]
                 /\ head' = nxt[t]
              \/ /\ Still
                 /\ head' = head
<1> USE DEF TypeOK, LocalsOK, PopCas
<1>1. CASE old[t] = head /\ head' = nxt[t] /\ pc' = [pc EXCEPT ![t] = "read_data"]
  BY <1>1 DEF Moved, Owned, Held
<1>2. CASE head' = head /\ pc' = [pc EXCEPT ![t] = "load_head"]
  BY <1>2 DEF Still, Owned, Held
<1> QED
  BY <1>1, <1>2

\* reclaim_later (lines 62-69) gives the node popped to the reclaim list.
LEMMA ReclaimLaterMoves ==
    ASSUME TypeOK, LocalsOK, NEW t \in Threads, ReclaimLater(t)
    PROVE  /\ free' = free
           /\ reclaim_list' = reclaim_list \cup Owned(t)
           /\ Moved(t, {})
           /\ head' = head
           /\ next' = next
BY DEF TypeOK, LocalsOK, ReclaimLater, Goto, Moved, Owned, Held

\* reclaim_list.exchange (line 73) gives the whole list to one thread.
LEMMA ExchangeListMoves ==
    ASSUME TypeOK, LocalsOK, NEW t \in Threads, ExchangeList(t)
    PROVE  /\ free' = free
           /\ reclaim_list' = {}
           /\ Owned(t) = {}
           /\ Moved(t, reclaim_list)
           /\ head' = head
           /\ next' = next
BY DEF TypeOK, LocalsOK, ExchangeList, Goto, Moved, Owned, Held

\* A delete (line 79) gives the node under scan back to the heap.
LEMMA DeleteMoves ==
    ASSUME TypeOK, LocalsOK, NEW t \in Threads, Delete(t)
    PROVE  /\ cur[t] \in Owned(t)
           /\ free' = free \cup {cur[t]}
           /\ reclaim_list' = reclaim_list
           /\ Moved(t, Owned(t) \ {cur[t]})
           /\ head' = head
           /\ next' = next
BY DEF TypeOK, LocalsOK, Delete, Dispose, Goto, Moved, Owned, Held

\* A node still in use goes from the batch back to the reclaim list.
LEMMA KeepForLaterMoves ==
    ASSUME TypeOK, LocalsOK, NEW t \in Threads, KeepForLater(t)
    PROVE  /\ cur[t] \in Owned(t)
           /\ free' = free
           /\ reclaim_list' = reclaim_list \cup {cur[t]}
           /\ Moved(t, Owned(t) \ {cur[t]})
           /\ head' = head
           /\ next' = next
BY DEF TypeOK, LocalsOK, KeepForLater, Dispose, Goto, Moved, Owned, Held

-----------------------------------------------------------------------------
(* Each part of the invariant, one action at a time *)

Cases(t) ==
    \/ Quiet(t) \/ (\E v \in Values : PushAlloc(t, v)) \/ PushCas(t) \/ PopCas(t)
    \/ ReclaimLater(t) \/ ExchangeList(t) \/ Delete(t) \/ KeepForLater(t)

\* Every step is quiet or one of the moves.
LEMMA NextCases == Next => \E t \in Threads : Cases(t)
BY DEF Next, Pop, Reclaim, Cases, Quiet

\* A node is in one place only: the heap, the stack, the reclaim list or the
\* hands of one thread.  Each move takes it from one place to another.
LEMMA StepOwnership ==
    ASSUME TypeOK, LocalsOK, Ownership, Shape, NEW t \in Threads, Cases(t)
    PROVE  Ownership'
<1>1. CASE Quiet(t)
  BY <1>1, QuietIsStill, StillFrame
<1>2. ASSUME NEW v \in Values, PushAlloc(t, v)
      PROVE  Ownership'
  BY <1>2, PushAllocMoves DEF Ownership, Moved
<1>3. CASE PushCas(t)
  <2>1. CASE Still
    BY <2>1, StillFrame
  <2>2. CASE Moved(t, {})
    BY <1>3, <2>2, PushCasMoves DEF Ownership, Moved
  <2> QED
    BY <1>3, <2>1, <2>2, PushCasMoves
<1>4. CASE PopCas(t)
  <2>1. CASE Still
    BY <2>1, StillFrame
  <2>2. CASE Moved(t, {old[t]}) /\ head = old[t] /\ head' = nxt[t]
    <3>1. old[t] \in InStack
      BY <1>4, <2>2 DEF Shape, LocalsOK, PopCas
    <3> QED
      BY <1>4, <2>2, <3>1, PopCasMoves DEF Ownership, Moved, InStack
  <2> QED
    BY <1>4, <2>1, <2>2, PopCasMoves
<1>5. CASE ReclaimLater(t)
  BY <1>5, ReclaimLaterMoves DEF Ownership, Moved
<1>6. CASE ExchangeList(t)
  BY <1>6, ExchangeListMoves DEF Ownership, Moved
<1>7. CASE Delete(t)
  BY <1>7, DeleteMoves DEF Ownership, Moved
<1>8. CASE KeepForLater(t)
  BY <1>8, KeepForLaterMoves DEF Ownership, Moved
<1> QED
  BY <1>1, <1>2, <1>3, <1>4, <1>5, <1>6, <1>7, <1>8 DEF Cases

\* The next fields lead from the top of the stack through stack nodes only.
LEMMA StepShape ==
    ASSUME TypeOK, LocalsOK, Ownership, Shape, Protected,
           NEW t \in Threads, Cases(t)
    PROVE  Shape'
<1>1. CASE Quiet(t)
  BY <1>1, QuietIsStill, StillFrame DEF Shape
<1>2. ASSUME NEW v \in Values, PushAlloc(t, v)
      PROVE  Shape'
  <2>1. PICK n \in free : /\ free' = free \ {n}
                          /\ reclaim_list' = reclaim_list
                          /\ Owned(t) = {}
                          /\ Moved(t, {n})
                          /\ head' = head
                          /\ next' = [next EXCEPT ![n] = head]
    BY <1>2, PushAllocMoves
  <2>2. n \notin InStack /\ InStack' = InStack
    BY <2>1 DEF InStack, Moved
  <2>3. \A m \in InStack : next'[m] = next[m]
    BY <2>1, <2>2 DEF TypeOK, InStack
  <2> QED
    BY <2>1, <2>2, <2>3 DEF Shape
<1>3. CASE PushCas(t)
  <2> DEFINE n == new[t]
  <2>1. n \in Nodes /\ n \notin InStack
    BY <1>3, PushCasMoves DEF InStack
  <2>2. CASE Still /\ head' = head /\ next' = [next EXCEPT ![n] = head]
    <3>1. \A m \in InStack : next'[m] = next[m]
      BY <2>1, <2>2 DEF TypeOK, InStack
    <3> QED
      BY <2>2, <3>1, StillFrame DEF Shape
  <2>3. CASE Moved(t, {}) /\ next[n] = head /\ head' = n /\ next' = next
    <3>1. InStack' = InStack \cup {n}
      BY <1>3, <2>1, <2>3, PushCasMoves DEF InStack, Moved, Ownership
    <3> QED
      BY <2>1, <2>3, <3>1, ConstantsAssumption DEF Shape
  <2> QED
    BY <1>3, <2>2, <2>3, PushCasMoves
<1>4. CASE PopCas(t)
  <2>1. CASE Still /\ head' = head
    BY <1>4, <2>1, PopCasMoves, StillFrame DEF Shape
  <2>2. CASE Owned(t) = {} /\ Moved(t, {old[t]}) /\ head = old[t] /\ head' = nxt[t]
    <3>1. old[t] \in InStack
      BY <1>4, <2>2 DEF Shape, LocalsOK, PopCas
    <3>2. InStack' = InStack \ {old[t]}
      BY <1>4, <2>2, <3>1, PopCasMoves DEF InStack, Moved
    <3>3. head' = next[old[t]] /\ next' = next
      BY <1>4, <2>2, PopCasMoves DEF Protected, Validated, PopCas
    <3> QED
      BY <2>2, <3>1, <3>2, <3>3 DEF Shape
  <2> QED
    BY <1>4, <2>1, <2>2, PopCasMoves
<1>5. CASE ReclaimLater(t)
  <2>1. InStack' = InStack
    BY <1>5, ReclaimLaterMoves DEF InStack, Moved
  <2> QED
    BY <1>5, <2>1, ReclaimLaterMoves DEF Shape
<1>6. CASE ExchangeList(t)
  <2>1. InStack' = InStack
    BY <1>6, ExchangeListMoves DEF InStack, Moved
  <2> QED
    BY <1>6, <2>1, ExchangeListMoves DEF Shape
<1>7. CASE Delete(t)
  <2>1. InStack' = InStack
    BY <1>7, DeleteMoves DEF InStack, Moved
  <2>2. head' = head /\ next' = next
    BY <1>7, DeleteMoves
  <2> QED
    BY <2>1, <2>2 DEF Shape
<1>8. CASE KeepForLater(t)
  <2>1. InStack' = InStack
    BY <1>8, KeepForLaterMoves DEF InStack, Moved
  <2>2. head' = head /\ next' = next
    BY <1>8, KeepForLaterMoves
  <2> QED
    BY <2>1, <2>2 DEF Shape
<1> QED
  BY <1>1, <1>2, <1>3, <1>4, <1>5, <1>6, <1>7, <1>8 DEF Cases

\* thread_hazard_ptr (lines 22-39) never gives two threads the same record.
LEMMA StepRecordsUnshared ==
    ASSUME TypeOK, RecordsUnshared, NEW t \in Threads, Cases(t)
    PROVE  RecordsUnshared'
<1>1. CASE PopEnter(t)
  <2>1. CASE rec' = rec
    BY <2>1 DEF RecordsUnshared
  <2>2. ASSUME NEW i \in FreeRecords, rec' = [rec EXCEPT ![t] = i]
        PROVE  RecordsUnshared'
    BY <2>2 DEF RecordsUnshared, FreeRecords, TypeOK
  <2> QED
    BY <1>1, <2>1, <2>2 DEF PopEnter
<1>2. CASE ~PopEnter(t)
  <2>1. rec' = rec
    BY <1>2 DEF Cases, Quiet, LoadHead, StoreHp, Validate, ReadNext, ReadData,
                ClearHp, ClearHpEmpty, NextNode, ScanRecord, PushAlloc, PushCas,
                PopCas, ReclaimLater, ExchangeList, Delete, KeepForLater, Dispose
  <2> QED
    BY <2>1 DEF RecordsUnshared
<1> QED
  BY <1>1, <1>2

\* A step of t leaves the locals of every other thread alone.
LEMMA OthersKeepLocals ==
    ASSUME TypeOK, NEW t \in Threads, Cases(t), NEW u \in Threads, u # t
    PROVE  /\ pc'[u] = pc[u] /\ new'[u] = new[u] /\ old'[u] = old[u]
           /\ nxt'[u] = nxt[u] /\ rec'[u] = rec[u] /\ cur'[u] = cur[u]
           /\ idx'[u] = idx[u]
BY DEF TypeOK, Goto, Cases, Quiet, PopEnter, LoadHead, StoreHp, Validate, ReadNext, ReadData,
     ClearHp, ClearHpEmpty, NextNode, ScanRecord, PushAlloc, PushCas, PopCas,
     ReclaimLater, ExchangeList, Delete, KeepForLater, Dispose

\* A step of t changes the result of no other thread, and its own only when it
\* fetches it and when it returns.
LEMMA ResultKept ==
    ASSUME TypeOK, NEW t \in Threads, Cases(t), NEW u \in Threads,
           u # t \/ pc[t] \notin {"validate", "read_data", "clear_hp_empty", "next_node"}
    PROVE  res'[u] = res[u]
BY DEF TypeOK, Goto, Cases, Quiet, PopEnter, LoadHead, StoreHp, Validate, ReadNext, ReadData,
     ClearHp, ClearHpEmpty, NextNode, ScanRecord, PushAlloc, PushCas, PopCas,
     ReclaimLater, ExchangeList, Delete, KeepForLater, Dispose

\* A pop gets its result once, and gives it up when it returns.
LEMMA StepResultsOK ==
    ASSUME TypeOK, LocalsOK, ResultsOK, NEW t \in Threads, Cases(t)
    PROVE  ResultsOK'
<1> SUFFICES ASSUME NEW u \in Threads
             PROVE  (res[u] = NoResult <=>
                        pc[u] \in {"idle", "push_cas", "load_head", "store_hp", "validate",
                                   "read_next", "pop_cas", "read_data"})'
  BY DEF ResultsOK
<1>1. CASE u # t
  BY <1>1, OthersKeepLocals, ResultKept DEF ResultsOK
<1>2. CASE u = t
  <2> USE <1>2, ConstantsAssumption DEF TypeOK, ResultsOK, Goto
  <2>1. CASE Validate(t)
    BY <2>1 DEF Validate
  <2>2. CASE ReadData(t)
    <3>1. data[old[t]] # NoResult
      BY <2>2 DEF ReadData, LocalsOK
    <3> QED
      BY <2>2, <3>1 DEF ReadData
  <2>3. CASE ClearHpEmpty(t)
    BY <2>3 DEF ClearHpEmpty
  <2>4. CASE NextNode(t)
    <3>1. /\ pc[t] = "next_node"
          /\ \/ pc'[t] = "scan" /\ res'[t] = res[t]
             \/ pc'[t] = "idle" /\ res'[t] = NoResult
      BY <2>4 DEF NextNode
    <3> QED
      BY <3>1
  <2>5. CASE PushCas(t)
    BY <2>5 DEF PushCas
  <2>6. CASE PopCas(t)
    BY <2>6 DEF PopCas
  <2>7. CASE ScanRecord(t)
    <3>1. pc[t] = "scan" /\ pc'[t] \in {"scan", "keep"} /\ res' = res
      BY <2>7 DEF ScanRecord
    <3> QED
      BY <3>1
  <2>8. CASE \/ PopEnter(t) \/ LoadHead(t) \/ StoreHp(t) \/ ReadNext(t) \/ ClearHp(t)
             \/ (\E v \in Values : PushAlloc(t, v))
    <3>1. /\ res' = res
          /\ \/ pc[t] = "clear_hp" /\ pc'[t] = "retire"
             \/ /\ pc[t] \in {"idle", "load_head", "store_hp", "read_next"}
                /\ pc'[t] \in {"push_cas", "load_head", "store_hp", "validate", "pop_cas"}
      BY <2>8 DEF PopEnter, LoadHead, StoreHp, ReadNext, ClearHp, PushAlloc
    <3> QED
      BY <3>1
  <2>9. CASE ReclaimLater(t) \/ ExchangeList(t) \/ Delete(t) \/ KeepForLater(t)
    <3>1. /\ pc[t] \in {"retire", "exchange", "scan", "keep"}
          /\ pc'[t] \in {"exchange", "next_node"}
          /\ res' = res
      BY <2>9 DEF ReclaimLater, ExchangeList, Delete, KeepForLater, Dispose
    <3> QED
      BY <3>1
  <2> QED
    BY <2>1, <2>2, <2>3, <2>4, <2>5, <2>6, <2>7, <2>8, <2>9 DEF Cases, Quiet
<1> QED
  BY <1>1, <1>2

\* After StoreHp the thread's record holds its candidate until it is cleared.
LEMMA StepRecordSet ==
    ASSUME TypeOK, LocalsOK, RecordsUnshared, RecordSet, NEW t \in Threads, Cases(t)
    PROVE  RecordSet'
<1> SUFFICES ASSUME NEW u \in Threads, (pc[u] = "validate" \/ Validated(u))'
             PROVE  (hp[rec[u]] = old[u])'
  BY DEF RecordSet
<1> USE DEF Validated
<1>1. CASE u # t
  <2>1. /\ pc[u] = "validate" \/ Validated(u)
        /\ rec'[u] = rec[u] /\ old'[u] = old[u]
    BY <1>1, OthersKeepLocals
  <2>2. rec[u] \in Records /\ rec[u] # rec[t]
    BY <1>1, <2>1 DEF LocalsOK, RecordsUnshared
  <2>3. hp'[rec[u]] = hp[rec[u]]
    BY <2>2 DEF TypeOK, Cases, Quiet, PopEnter, LoadHead, StoreHp, Validate, ReadNext, ReadData,
     ClearHp, ClearHpEmpty, NextNode, ScanRecord, PushAlloc, PushCas, PopCas,
     ReclaimLater, ExchangeList, Delete, KeepForLater, Dispose
  <2> QED
    BY <2>1, <2>3 DEF RecordSet
<1>2. CASE u = t
  <2>1. CASE StoreHp(t)
    BY <1>2, <2>1 DEF StoreHp, Goto, TypeOK, LocalsOK
  <2>2. CASE Validate(t)
    BY <1>2, <2>2 DEF Validate, TypeOK, RecordSet
  <2>3. CASE ReadNext(t)
    BY <1>2, <2>3 DEF ReadNext, Goto, TypeOK, RecordSet
  <2>4. CASE ~StoreHp(t) /\ ~Validate(t) /\ ~ReadNext(t)
    <3>1. ~(pc[u] = "validate" \/ Validated(u))'
      BY <1>2, <2>4
      DEF TypeOK, Goto, Cases, Quiet, PopEnter, LoadHead, StoreHp, Validate, ReadNext,
          ReadData,
     ClearHp, ClearHpEmpty, NextNode, ScanRecord, PushAlloc, PushCas, PopCas,
     ReclaimLater, ExchangeList, Delete, KeepForLater, Dispose
    <3> QED
      BY <3>1
  <2> QED
    BY <2>1, <2>2, <2>3, <2>4
<1> QED
  BY <1>1, <1>2

\* A node another thread has validated: no step of t deletes it, reuses it or
\* relinks it, or carries a scan past the record that holds it.
LEMMA OthersStayProtected ==
    ASSUME TypeOK, LocalsOK, RecordSet, Protected, NEW t \in Threads, Cases(t),
           NEW w \in Threads, w # t, Validated(w)
    PROVE  /\ old[w] \notin free'
           /\ \A u \in Threads : pc'[u] = "push_cas" => new'[u] # old[w]
           /\ next'[old[w]] = next[old[w]]
           /\ \A u \in Threads :
                 pc'[u] = "scan" /\ cur'[u] = old[w] => idx'[u] <= rec[w]
<1> DEFINE o == old[w]
<1>0. /\ o \in Nodes /\ o \notin free /\ rec[w] \in Records /\ hp[rec[w]] = o
      /\ \A u \in Threads : pc[u] = "push_cas" => new[u] # o
      /\ \A u \in Threads : pc[u] = "scan" /\ cur[u] = o => idx[u] <= rec[w]
  <2>1. o \in Nodes /\ rec[w] \in Records
    BY DEF TypeOK, LocalsOK, Validated
  <2>2. hp[rec[w]] = o
    BY DEF RecordSet
  <2> QED
    BY <2>1, <2>2 DEF Protected
<1>1. \A u \in Threads : u # t => /\ pc'[u] = pc[u] /\ new'[u] = new[u]
                                  /\ cur'[u] = cur[u] /\ idx'[u] = idx[u]
  BY OthersKeepLocals
<1> USE DEF TypeOK, Goto
<1>2. o \notin free'
  <2>1. CASE Delete(t)
    <3>1. cur[t] # o
      BY <1>0, <2>1, ConstantsAssumption DEF Delete
    <3> QED
      BY <1>0, <2>1, <3>1 DEF Delete
  <2>2. CASE ~Delete(t)
    <3>1. free' \subseteq free
      BY <2>2 DEF Cases, Quiet, PopEnter, LoadHead, StoreHp, Validate, ReadNext,
                  ReadData, ClearHp, ClearHpEmpty, NextNode, ScanRecord, PushAlloc,
                  PushCas, PopCas, ReclaimLater, ExchangeList, KeepForLater
    <3> QED
      BY <1>0, <3>1
  <2> QED
    BY <2>1, <2>2
<1>3. pc'[t] = "push_cas" => new'[t] # o
  <2>1. ASSUME NEW v \in Values, PushAlloc(t, v)
        PROVE  new'[t] # o
    BY <1>0, <2>1 DEF PushAlloc
  <2>2. CASE PushCas(t)
    BY <1>0, <2>2 DEF PushCas
  <2>3. CASE ~PushCas(t) /\ \A v \in Values : ~PushAlloc(t, v)
    BY <2>3 DEF Cases, Quiet, PopEnter, LoadHead, StoreHp, Validate, ReadNext,
                ReadData, ClearHp, ClearHpEmpty, NextNode, ScanRecord, PopCas,
                ReclaimLater, ExchangeList, Delete, KeepForLater, Dispose
  <2> QED
    BY <2>1, <2>2, <2>3
<1>4. next'[o] = next[o]
  <2>1. ASSUME NEW v \in Values, PushAlloc(t, v)
        PROVE  next'[o] = next[o]
    BY <1>0, <2>1 DEF PushAlloc
  <2>2. CASE PushCas(t)
    BY <1>0, <2>2 DEF PushCas
  <2>3. CASE ~PushCas(t) /\ \A v \in Values : ~PushAlloc(t, v)
    BY <2>3 DEF Cases, Quiet, PopEnter, LoadHead, StoreHp, Validate, ReadNext,
                ReadData, ClearHp, ClearHpEmpty, NextNode, ScanRecord, PopCas,
                ReclaimLater, ExchangeList, Delete, KeepForLater, Dispose
  <2> QED
    BY <2>1, <2>2, <2>3
<1>5. pc'[t] = "scan" /\ cur'[t] = o => idx'[t] <= rec[w]
  <2>1. CASE NextNode(t)
    BY <1>0, <2>1, ConstantsAssumption DEF NextNode
  <2>2. CASE ScanRecord(t)
    <3> SUFFICES ASSUME pc'[t] = "scan", cur'[t] = o
                 PROVE  idx'[t] <= rec[w]
      OBVIOUS
    <3>1. hp[idx[t]] # cur[t] /\ cur[t] = o /\ idx'[t] = idx[t] + 1
      BY <2>2 DEF ScanRecord
    <3>2. idx[t] <= rec[w] /\ idx[t] # rec[w]
      BY <1>0, <2>2, <3>1 DEF ScanRecord
    <3> QED
      BY <1>0, <3>1, <3>2, ConstantsAssumption
  <2>3. CASE ~NextNode(t) /\ ~ScanRecord(t)
    BY <2>3 DEF Cases, Quiet, PopEnter, LoadHead, StoreHp, Validate, ReadNext,
                ReadData, ClearHp, ClearHpEmpty, PushAlloc, PushCas, PopCas,
                ReclaimLater, ExchangeList, Delete, KeepForLater, Dispose
  <2> QED
    BY <2>1, <2>2, <2>3
<1> QED
  BY <1>1, <1>2, <1>3, <1>4, <1>5, <1>0

\* A validated node is neither deleted nor relinked while it stays validated.
LEMMA StepProtected ==
    ASSUME TypeOK, LocalsOK, Ownership, Shape, RecordSet, Protected,
           NEW t \in Threads, Cases(t)
    PROVE  Protected'
<1> SUFFICES ASSUME NEW w \in Threads, Validated(w)'
             PROVE  (/\ old[w] \notin free
                     /\ \A u \in Threads : pc[u] = "push_cas" => new[u] # old[w]
                     /\ pc[w] = "pop_cas" => nxt[w] = next[old[w]]
                     /\ \A u \in Threads :
                           pc[u] = "scan" /\ cur[u] = old[w] => idx[u] <= rec[w])'
  BY DEF Protected
<1>1. CASE w # t
  <2>1. /\ Validated(w) /\ old'[w] = old[w] /\ nxt'[w] = nxt[w]
        /\ rec'[w] = rec[w] /\ pc'[w] = pc[w]
    BY <1>1, OthersKeepLocals DEF Validated
  <2>2. pc[w] = "pop_cas" => nxt[w] = next[old[w]]
    BY <2>1 DEF Protected
  <2> QED
    BY <1>1, <2>1, <2>2, OthersStayProtected
<1>2. CASE w = t
  <2>1. CASE Validate(t)
    <3>1. /\ old' = old /\ free' = free /\ new' = new /\ cur' = cur /\ idx' = idx
          /\ old[t] = head /\ head # Null /\ pc' = [pc EXCEPT ![t] = "read_next"]
      BY <1>2, <2>1 DEF Validate, Validated, TypeOK
    <3>2. old[t] \in InStack
      BY <3>1 DEF Shape
    <3>3. \A u \in Threads : /\ pc[u] = "push_cas" => new[u] # old[t]
                             /\ pc[u] = "scan" => cur[u] # old[t]
      BY <3>2 DEF InStack, Owned, Held, LocalsOK
    <3> QED
      BY <1>2, <3>1, <3>2, <3>3 DEF InStack, TypeOK
  <2>2. CASE ReadNext(t)
    <3>1. /\ Validated(t)
          /\ pc' = [pc EXCEPT ![t] = "pop_cas"] /\ nxt'[t] = next[old[t]]
          /\ UNCHANGED <<old, free, new, cur, idx, next, rec>>
      BY <2>2 DEF ReadNext, Goto, Validated, TypeOK
    <3> QED
      BY <1>2, <3>1 DEF Protected, TypeOK
  <2>3. CASE ~Validate(t) /\ ~ReadNext(t)
    <3>1. ~Validated(t)'
      BY <2>3 DEF TypeOK, Goto, Validated, Cases, Quiet, PopEnter, LoadHead, StoreHp,
                  ReadData, ClearHp, ClearHpEmpty, NextNode, ScanRecord, PushAlloc,
                  PushCas, PopCas, ReclaimLater, ExchangeList, Delete, KeepForLater
    <3> QED
      BY <1>2, <3>1
  <2> QED
    BY <2>1, <2>2, <2>3
<1> QED
  BY <1>1, <1>2

-----------------------------------------------------------------------------
\* The invariant is inductive: the parts above put together.
LEMMA StepIInv == IInv /\ [Next]_vars => IInv'
<1> SUFFICES ASSUME IInv, [Next]_vars
             PROVE  IInv'
  OBVIOUS
<1> USE DEF IInv
<1>1. CASE UNCHANGED vars
  BY <1>1 DEF vars, TypeOK, LocalsOK, ResultsOK, Ownership, Shape, RecordsUnshared, RecordSet,
              Protected, Validated, InStack, Owned, Held
<1>2. CASE Next
  <2>1. PICK t \in Threads : Cases(t)
    BY <1>2, NextCases
  <2>2. TypeOK' /\ LocalsOK'
    BY StepTypeOK, StepLocalsOK
  <2>3. Ownership' /\ Shape'
    BY <2>1, StepOwnership, StepShape
  <2>4. RecordsUnshared' /\ RecordSet' /\ Protected'
    BY <2>1, StepRecordsUnshared, StepRecordSet, StepProtected
  <2>5. ResultsOK'
    BY <2>1, StepResultsOK
  <2> QED
    BY <2>2, <2>3, <2>4, <2>5
<1> QED
  BY <1>1, <1>2

\* The invariant excludes a use after free.
LEMMA IInvSafe == IInv => NoUseAfterFree
<1> SUFFICES ASSUME IInv, NEW t \in Threads, pc[t] \in {"read_next", "read_data"}
             PROVE  old[t] \notin free
  BY DEF NoUseAfterFree
<1>1. CASE pc[t] = "read_next"
  BY <1>1 DEF IInv, Protected, Validated
<1>2. CASE pc[t] = "read_data"
  BY <1>2 DEF IInv, Ownership, Owned, Held
<1> QED
  BY <1>1, <1>2

\* The strengthening holds of every run of the stack, whatever the constants.
THEOREM Invariance == Spec => []IInv
<1>1. Init => IInv
  BY InitIInv
<1>2. IInv /\ [Next]_vars => IInv'
  BY StepIInv
<1> QED
  BY <1>1, <1>2, PTL DEF Spec

\* Every variable keeps its type.
THEOREM TypeCorrect == Spec => []TypeOK
<1>1. IInv => TypeOK
  BY DEF IInv
<1> QED
  BY <1>1, Invariance, PTL

\* The hazard pointers do their job: pop (lines 124-144) never reads a node
\* that delete_without_hazards (lines 71-87) has deleted.
THEOREM MemorySafety == Spec => []NoUseAfterFree
<1>1. IInv => NoUseAfterFree
  BY IInvSafe
<1> QED
  BY <1>1, Invariance, PTL

-----------------------------------------------------------------------------
(* The list from head_ *)

\* A list that leads from head_ to null is the one StackNodes finds.
LEMMA StackIs ==
    ASSUME NEW c \in Seq(Nodes), Links(c)
    PROVE  StackNodes = c
BY ListIs, ConstantsAssumption DEF Links, StackNodes

\* The same of the state after a step.
LEMMA StackIsAfter ==
    ASSUME NEW c \in Seq(Nodes), Links(c)'
    PROVE  StackNodes' = c
BY ListIs, ConstantsAssumption DEF Links, StackNodes

\* A step that moves no node in or out of the stack and relinks none of it.
LEMMA LinksFrame ==
    ASSUME NEW c \in Seq(Nodes), Links(c), head' = head, InStack' = InStack,
           \A n \in InStack : next'[n] = next[n]
    PROVE  Links(c)'
<1>1. Chain(c, head, next', Null)
  BY ChainFrame DEF Links
<1> QED
  BY <1>1 DEF Links

\* The stack's list, before and after a step that pushes nothing and pops nothing.
LEMMA QuietLinks ==
    ASSUME TypeOK, LocalsOK, Ownership, NEW t \in Threads, Cases(t),
           NEW c \in Seq(Nodes), Links(c), head' = head, pc[t] = "push_cas" => Still,
           pc[t] = "pop_cas" => Still
    PROVE  Links(c)'
<1>1. CASE Quiet(t)
  BY <1>1, QuietIsStill, StillFrame, LinksFrame
<1>2. ASSUME NEW v \in Values, PushAlloc(t, v)
      PROVE  Links(c)'
  <2>1. PICK n \in free : /\ free' = free \ {n}
                          /\ reclaim_list' = reclaim_list
                          /\ Owned(t) = {}
                          /\ Moved(t, {n})
                          /\ next' = [next EXCEPT ![n] = head]
    BY <1>2, PushAllocMoves
  <2>2. n \notin InStack /\ InStack' = InStack
    BY <2>1 DEF InStack, Moved
  <2>3. \A m \in InStack : next'[m] = next[m]
    BY <2>1, <2>2 DEF TypeOK, InStack
  <2> QED
    BY <2>2, <2>3, LinksFrame
<1>3. CASE PushCas(t)
  <2>1. new[t] \in Nodes /\ new[t] \notin InStack /\ pc[t] = "push_cas" /\ Still
    BY <1>3, PushCasMoves DEF InStack, PushCas
  <2>2. \A m \in InStack : next'[m] = next[m]
    BY <1>3, <2>1 DEF TypeOK, InStack, PushCas
  <2> QED
    BY <2>1, <2>2, StillFrame, LinksFrame
<1>4. CASE PopCas(t)
  <2>1. Still /\ next' = next
    BY <1>4, PopCasMoves DEF PopCas
  <2> QED
    BY <2>1, StillFrame, LinksFrame
<1>5. CASE ReclaimLater(t)
  <2>1. InStack' = InStack /\ next' = next
    BY <1>5, ReclaimLaterMoves DEF InStack, Moved
  <2> QED
    BY <2>1, LinksFrame
<1>6. CASE ExchangeList(t)
  <2>1. InStack' = InStack /\ next' = next
    BY <1>6, ExchangeListMoves DEF InStack, Moved
  <2> QED
    BY <2>1, LinksFrame
<1>7. CASE Delete(t)
  <2>1. InStack' = InStack /\ next' = next
    BY <1>7, DeleteMoves DEF InStack, Moved
  <2> QED
    BY <2>1, LinksFrame
<1>8. CASE KeepForLater(t)
  <2>1. InStack' = InStack /\ next' = next
    BY <1>8, KeepForLaterMoves DEF InStack, Moved
  <2> QED
    BY <2>1, LinksFrame
<1> QED
  BY <1>1, <1>2, <1>3, <1>4, <1>5, <1>6, <1>7, <1>8 DEF Cases

\* A compare-exchange of push that succeeds.
LEMMA PushCasSucceeds ==
    ASSUME TypeOK, LocalsOK, NEW t \in Threads, PushCas(t), pc'[t] = "idle"
    PROVE  /\ Moved(t, {})
           /\ pc[t] = "push_cas" /\ next[new[t]] = head /\ head' = new[t]
           /\ next' = next /\ data' = data /\ new[t] \in Nodes
<1>1. /\ pc[t] = "push_cas" /\ next[new[t]] = head /\ head' = new[t] /\ next' = next
      /\ new' = [new EXCEPT ![t] = Null] /\ pc' = [pc EXCEPT ![t] = "idle"]
  BY DEF PushCas, TypeOK
<1>2. new[t] \in Nodes /\ data' = data /\ old' = old /\ batch' = batch
  BY <1>1 DEF PushCas, TypeOK, LocalsOK
<1>3. Moved(t, {})
  BY <1>1, <1>2 DEF Moved, Owned, Held, TypeOK, LocalsOK
<1> QED
  BY <1>1, <1>2, <1>3

\* A compare-exchange of pop that succeeds.
LEMMA PopCasSucceeds ==
    ASSUME TypeOK, LocalsOK, NEW t \in Threads, PopCas(t), pc'[t] = "read_data"
    PROVE  /\ Moved(t, {old[t]}) /\ Owned(t) = {}
           /\ pc[t] = "pop_cas" /\ old[t] = head /\ head' = nxt[t] /\ old[t] \in Nodes
           /\ data' = data /\ old' = old /\ res' = res
<1>1. /\ pc[t] = "pop_cas" /\ old[t] = head /\ head' = nxt[t]
      /\ pc' = [pc EXCEPT ![t] = "read_data"]
  BY DEF PopCas, TypeOK
<1>2. /\ old[t] \in Nodes /\ data' = data /\ old' = old /\ res' = res /\ new' = new
      /\ batch' = batch
  BY <1>1 DEF PopCas, TypeOK, LocalsOK
<1>3. Moved(t, {old[t]}) /\ Owned(t) = {}
  BY <1>1, <1>2 DEF Moved, Owned, Held, TypeOK, LocalsOK
<1> QED
  BY <1>1, <1>2, <1>3

\* A push that succeeds puts its node before the others.
LEMMA PushLinks ==
    ASSUME TypeOK, LocalsOK, Ownership, NEW t \in Threads, PushCas(t),
           Moved(t, {}), next[new[t]] = head, head' = new[t], next' = next,
           NEW c \in Seq(Nodes), Links(c)
    PROVE  \E d \in Seq(Nodes) : d = <<new[t]>> \o c /\ Links(d)'
<1>n. PICK n : n = new[t]
  OBVIOUS
<1> DEFINE d == <<n>> \o c
<1>1. n \in Nodes /\ n \notin InStack /\ InStack' = InStack \cup {n}
  <2>1. n \in Nodes /\ n \notin InStack
    BY <1>n, PushCasMoves DEF InStack
  <2> QED
    BY <1>n, <2>1, PushCasMoves DEF InStack, Moved, Ownership
<1>2. next[n] = head /\ head' = n /\ next' = next
  BY <1>n
<1>3. Chain(c, head, next, Null) /\ InStack = Elements(c)
  BY DEF Links
<1>4. d \in Seq(Nodes) /\ Chain(d, n, next, Null) /\ Elements(d) = Elements(c) \cup {n}
  BY <1>1, <1>2, <1>3, ChainPush
<1> HIDE DEF d
<1>5. Links(d)'
  BY <1>1, <1>2, <1>3, <1>4 DEF Links
<1> QED
  BY <1>n, <1>4, <1>5 DEF d

\* A pop that succeeds takes the first node off.
LEMMA PopLinks ==
    ASSUME TypeOK, LocalsOK, Ownership, Protected, NEW t \in Threads, PopCas(t),
           Moved(t, {old[t]}), Owned(t) = {}, head = old[t], head' = nxt[t],
           NEW c \in Seq(Nodes), Links(c)
    PROVE  /\ c # <<>> /\ c[1] = old[t]
           /\ Tail(c) \in Seq(Nodes)
           /\ Links(Tail(c))'
<1> DEFINE d == Tail(c)
<1>1. Chain(c, head, next, Null) /\ InStack = Elements(c)
  BY DEF Links
<1>2. head # Null /\ head = old[t]
  BY DEF LocalsOK, PopCas
<1>3. /\ c # <<>> /\ c[1] = head
      /\ d \in Seq(Nodes) /\ Chain(d, next[head], next, Null)
      /\ Elements(d) = Elements(c) \ {head}
  BY <1>1, <1>2, ChainPop, ConstantsAssumption
<1>4. head' = next[head] /\ next' = next
  BY <1>2 DEF Protected, Validated, PopCas
<1>5. InStack' = InStack \ {head}
  BY <1>2, PopCasMoves DEF InStack, Moved
<1> HIDE DEF d
<1>6. Links(d)'
  BY <1>1, <1>3, <1>4, <1>5 DEF Links
<1> QED
  BY <1>2, <1>3, <1>6 DEF d

-----------------------------------------------------------------------------
(* The steps of the stack are steps of Lifo *)

\* The value in a node that is not free stays.
LEMMA DataKept ==
    ASSUME TypeOK, NEW t \in Threads, Cases(t), NEW n \in Nodes \ free
    PROVE  data'[n] = data[n]
<1>1. ASSUME NEW v \in Values, PushAlloc(t, v)
      PROVE  data'[n] = data[n]
  <2>1. PICK m \in free : data' = [data EXCEPT ![m] = v]
    BY <1>1 DEF PushAlloc
  <2> QED
    BY <2>1 DEF TypeOK
<1>2. CASE \A v \in Values : ~PushAlloc(t, v)
  BY <1>2 DEF Cases, Quiet, PopEnter, LoadHead, StoreHp, Validate, ReadNext,
              ReadData, ClearHp, ClearHpEmpty, NextNode, ScanRecord, PushCas, PopCas,
              ReclaimLater, ExchangeList, Delete, KeepForLater, Dispose
<1> QED
  BY <1>1, <1>2

\* What the other threads have called, and what they have got, stays.
LEMMA OtherCalls ==
    ASSUME TypeOK, LocalsOK, Ownership, NEW t \in Threads, Cases(t),
           NEW u \in Threads, u # t
    PROVE  CallOf(u)' = CallOf(u)
<1>1. pc'[u] = pc[u] /\ new'[u] = new[u] /\ old'[u] = old[u] /\ res'[u] = res[u]
  BY OthersKeepLocals, ResultKept
<1>2. pc[u] = "push_cas" => data'[new[u]] = data[new[u]]
  <2>1. pc[u] = "push_cas" => new[u] \in Nodes /\ new[u] \in Owned(u)
    BY DEF TypeOK, LocalsOK, Owned, Held
  <2>2. pc[u] = "push_cas" => new[u] \in Nodes \ free
    BY <2>1 DEF Ownership
  <2> QED
    BY <2>2, DataKept
<1>3. pc[u] = "read_data" => data'[old[u]] = data[old[u]]
  <2>1. pc[u] = "read_data" => old[u] \in Nodes /\ old[u] \in Owned(u)
    BY DEF TypeOK, LocalsOK, Owned, Held
  <2>2. pc[u] = "read_data" => old[u] \in Nodes \ free
    BY <2>1 DEF Ownership
  <2> QED
    BY <2>2, DataKept
<1> QED
  BY <1>1, <1>2, <1>3 DEF CallOf

\* A step that is one step of the call of t.
LEMMA CallStep ==
    ASSUME TypeOK, LocalsOK, Ownership, NEW t \in Threads, Cases(t), NEW from, NEW to,
           CallOf(t) = from, CallOf(t)' = to
    PROVE  Abstract!Step(t, from, to)
<1>1. \A u \in Threads : u # t => CallOf(u)' = CallOf(u)
  BY OtherCalls
<1>2. [u \in Threads |-> CallOf(u)]' = [[u \in Threads |-> CallOf(u)] EXCEPT ![t] = to]
  BY <1>1
<1> QED
  BY <1>2 DEF Abstract!Step

\* A step that keeps the list keeps the values.
LEMMA SameStack ==
    ASSUME TypeOK, NEW t \in Threads, Cases(t),
           NEW c \in Seq(Nodes), Links(c), Links(c)'
    PROVE  Contents(data, StackNodes)' = Contents(data, StackNodes)
<1>1. StackNodes = c /\ StackNodes' = c
  BY StackIs, StackIsAfter
<1>2. \A i \in DOMAIN c : c[i] \in Nodes \ free
  BY DEF Links, InStack, Elements
<1>3. \A i \in DOMAIN c : data'[c[i]] = data[c[i]]
  BY <1>2, DataKept
<1> QED
  BY <1>1, <1>3 DEF Contents

Stuttering == UNCHANGED Abstract!vars
SameValues == Contents(data, StackNodes)' = Contents(data, StackNodes)

\* A step that keeps the values on the stack and no call notices.
LEMMA Stutter ==
    ASSUME SameValues, \A u \in Threads : CallOf(u)' = CallOf(u)
    PROVE  Stuttering
BY DEF Stuttering, Abstract!vars, SameValues, Contents

\* The steps of one call between its call, its effect and its return.
LEMMA QuietRefines ==
    ASSUME TypeOK, LocalsOK, Ownership, ResultsOK, NEW t \in Threads, Cases(t),
           NEW c \in Seq(Nodes), Links(c), Links(c)', CallOf(t)' = CallOf(t)
    PROVE  Stuttering
<1>1. SameValues
  BY SameStack DEF SameValues
<1>2. \A u \in Threads : CallOf(u)' = CallOf(u)
  BY OtherCalls
<1> QED
  BY <1>1, <1>2, Stutter

\* Which steps of a call it does not notice.
LEMMA OwnCall ==
    ASSUME TypeOK, LocalsOK, Ownership, ResultsOK, NEW t \in Threads, Cases(t),
           \/ LoadHead(t) \/ StoreHp(t) \/ ReadNext(t) \/ ReadData(t) \/ ClearHp(t)
           \/ ReclaimLater(t) \/ ExchangeList(t) \/ ScanRecord(t) \/ Delete(t)
           \/ KeepForLater(t)
           \/ Validate(t) /\ pc'[t] # "clear_hp_empty"
           \/ PopCas(t) /\ pc'[t] = "load_head"
           \/ NextNode(t) /\ pc'[t] = "scan"
           \/ PushCas(t) /\ pc'[t] = "push_cas"
    PROVE  CallOf(t)' = CallOf(t)
<1>1. CASE LoadHead(t) \/ StoreHp(t) \/ ReadNext(t)
  BY <1>1 DEF LoadHead, StoreHp, ReadNext, Goto, TypeOK, CallOf
<1>2. CASE ReadData(t)
  <2>1. /\ pc[t] = "read_data" /\ pc'[t] = "clear_hp" /\ res'[t] = data[old[t]]
        /\ old[t] \in Nodes
    BY <1>2 DEF ReadData, Goto, TypeOK, LocalsOK
  <2>2. data[old[t]] # NoResult
    BY <2>1, ConstantsAssumption DEF TypeOK
  <2>3. CallOf(t) = <<"got", data[old[t]]>>
    BY <2>1 DEF CallOf
  <2>4. CallOf(t)' = <<"got", res'[t]>>
    BY <2>1, <2>2 DEF CallOf
  <2> QED
    BY <2>1, <2>3, <2>4
<1>3. CASE ClearHp(t) \/ ReclaimLater(t) \/ ExchangeList(t) \/ ScanRecord(t) \/ Delete(t)
           \/ KeepForLater(t)
  <2>1. /\ pc[t] \in {"clear_hp", "retire", "exchange", "scan", "keep"}
        /\ pc'[t] \in {"retire", "exchange", "next_node", "scan", "keep"}
        /\ res' = res
    BY <1>3 DEF ClearHp, ReclaimLater, ExchangeList, ScanRecord, Delete, KeepForLater,
                Dispose, Goto, TypeOK
  <2> QED
    BY <2>1 DEF CallOf
<1>4. CASE Validate(t) /\ pc'[t] # "clear_hp_empty"
  <2>1. pc[t] = "validate" /\ pc'[t] \in {"load_head", "read_next"} /\ res' = res
    BY <1>4 DEF Validate, TypeOK
  <2> QED
    BY <2>1 DEF CallOf
<1>5. CASE PopCas(t) /\ pc'[t] = "load_head"
  BY <1>5 DEF PopCas, CallOf
<1>6. CASE NextNode(t) /\ pc'[t] = "scan"
  <2>1. pc[t] = "next_node" /\ res' = res
    BY <1>6 DEF NextNode, TypeOK
  <2> QED
    BY <1>6, <2>1 DEF CallOf
<1>7. CASE PushCas(t) /\ pc'[t] = "push_cas"
  <2>1. pc[t] = "push_cas" /\ new' = new /\ data' = data
    BY <1>7 DEF PushCas, TypeOK
  <2> QED
    BY <1>7, <2>1 DEF CallOf
<1> QED
  BY <1>1, <1>2, <1>3, <1>4, <1>5, <1>6, <1>7

\* push and pop are called, and return.
LEMMA CallsRefine ==
    ASSUME TypeOK, LocalsOK, Ownership, ResultsOK, NEW t \in Threads, Cases(t),
           NEW c \in Seq(Nodes), Links(c), Links(c)',
           \/ \E v \in Values : PushAlloc(t, v)
           \/ PopEnter(t) \/ ClearHpEmpty(t)
           \/ NextNode(t) /\ pc'[t] = "idle"
    PROVE  Abstract!Next
<1>0. SameValues
  BY SameStack DEF SameValues
<1>1. ASSUME NEW v \in Values, PushAlloc(t, v)
      PROVE  Abstract!Next
  <2>1. PICK n \in free : new'[t] = n /\ data'[n] = v
    BY <1>1 DEF PushAlloc, TypeOK
  <2>2. pc[t] = "idle" /\ pc'[t] = "push_cas"
    BY <1>1 DEF PushAlloc, Goto, TypeOK
  <2>3. CallOf(t) = <<"idle">>
    BY <2>2 DEF CallOf
  <2>4. CallOf(t)' = <<"push", v>>
    BY <2>1, <2>2 DEF CallOf
  <2>5. Abstract!CallPush(t, v)
    BY <1>0, <2>3, <2>4, CallStep
       DEF Abstract!CallPush, Abstract!Idle, Abstract!Pushing, SameValues, Contents
  <2> QED
    BY <2>5 DEF Abstract!Next
<1>2. CASE PopEnter(t)
  <2>1. pc[t] = "idle" /\ pc'[t] = "load_head" /\ res'[t] = res[t]
    BY <1>2 DEF PopEnter, Goto, TypeOK
  <2>2. res[t] = NoResult
    BY <2>1 DEF ResultsOK
  <2>3. CallOf(t) = <<"idle">> /\ CallOf(t)' = <<"pop">>
    BY <2>1, <2>2 DEF CallOf
  <2>4. Abstract!CallPop(t)
    BY <1>0, <2>3, CallStep
       DEF Abstract!CallPop, Abstract!Idle, Abstract!Popping, SameValues, Contents
  <2> QED
    BY <2>4 DEF Abstract!Next
<1>3. CASE ClearHpEmpty(t) \/ (NextNode(t) /\ pc'[t] = "idle")
  <2>1. pc[t] \in {"clear_hp_empty", "next_node"} /\ pc'[t] = "idle"
    BY <1>3 DEF ClearHpEmpty, NextNode, Goto, TypeOK
  <2>2. res[t] \in Values \cup {Null} /\ res[t] # NoResult
    BY <2>1 DEF ResultsOK, TypeOK
  <2>3. CallOf(t) = <<"got", res[t]>> /\ CallOf(t)' = <<"idle">>
    BY <2>1, <2>2 DEF CallOf
  <2>4. Abstract!Step(t, Abstract!Got(res[t]), Abstract!Idle)
    BY <2>3, CallStep DEF Abstract!Got, Abstract!Idle
  <2>5. Abstract!Return(t)
    BY <1>0, <2>2, <2>4 DEF Abstract!Return, SameValues, Contents
  <2> QED
    BY <2>5 DEF Abstract!Next
<1> QED
  BY <1>1, <1>2, <1>3

\* A pop takes effect in validating a null head_.
LEMMA EmptyRefines ==
    ASSUME TypeOK, LocalsOK, Ownership, ResultsOK, NEW t \in Threads, Cases(t),
           NEW c \in Seq(Nodes), Links(c), Links(c)',
           Validate(t), pc'[t] = "clear_hp_empty"
    PROVE  Abstract!Next
<1>1. /\ pc[t] = "validate" /\ head = Null /\ res'[t] = Null
  BY DEF Validate, TypeOK
<1>2. res[t] = NoResult /\ Null # NoResult
  BY <1>1, ConstantsAssumption DEF ResultsOK
<1>3. CallOf(t) = <<"pop">> /\ CallOf(t)' = <<"got", Null>>
  BY <1>1, <1>2 DEF CallOf
<1>4. c = <<>>
  <2>1. c # <<>> => c[1] \in Nodes
    OBVIOUS
  <2> QED
    BY <1>1, <2>1, ConstantsAssumption DEF Links, Chain
<1>5. StackNodes = <<>>
  BY <1>4, StackIs
<1>6. [i \in DOMAIN StackNodes |-> data[StackNodes[i]]] = <<>>
  BY <1>5
<1>7. SameValues
  BY SameStack DEF SameValues
<1>8. Abstract!PopEmpty(t)
  BY <1>3, <1>6, <1>7, CallStep
     DEF Abstract!PopEmpty, Abstract!Popping, Abstract!Got, SameValues, Contents
<1> QED
  BY <1>8 DEF Abstract!Next

\* A push takes effect in its compare-exchange.
LEMMA PushRefines ==
    ASSUME TypeOK, LocalsOK, Ownership, NEW t \in Threads, Cases(t), PushCas(t),
           NEW c \in Seq(Nodes), Links(c), pc'[t] = "idle"
    PROVE  Abstract!Next
<1>1. /\ Moved(t, {})
      /\ pc[t] = "push_cas" /\ next[new[t]] = head /\ head' = new[t]
      /\ next' = next /\ data' = data /\ new[t] \in Nodes
  BY PushCasSucceeds
<1>3. PICK d \in Seq(Nodes) : d = <<new[t]>> \o c /\ Links(d)'
  BY <1>1, PushLinks
<1>4. StackNodes = c /\ StackNodes' = d
  BY <1>3, StackIs, StackIsAfter
<1>5. Contents(data, d) = <<data[new[t]]>> \o Contents(data, c)
  BY <1>1, <1>3, ContentsPush DEF ValueOf
<1>6. [i \in DOMAIN StackNodes |-> data[StackNodes[i]]]'
        = <<data[new[t]]>> \o [i \in DOMAIN StackNodes |-> data[StackNodes[i]]]
  BY <1>1, <1>4, <1>5 DEF Contents
<1>7. CallOf(t) = <<"push", data[new[t]]>> /\ CallOf(t)' = <<"idle">>
  BY <1>1 DEF CallOf
<1>8. data[new[t]] \in Values
  BY <1>1 DEF TypeOK
<1>9. PICK v \in Values : v = data[new[t]]
  BY <1>8
<1>10. Abstract!Push(t, v)
  BY <1>6, <1>7, <1>9, CallStep DEF Abstract!Push, Abstract!Pushing, Abstract!Idle
<1> QED
  BY <1>10 DEF Abstract!Next

\* A pop takes effect in its compare-exchange, although it reads the value later.
LEMMA PopRefines ==
    ASSUME TypeOK, LocalsOK, Ownership, Protected, ResultsOK, NEW t \in Threads, Cases(t),
           PopCas(t), NEW c \in Seq(Nodes), Links(c), pc'[t] = "read_data"
    PROVE  Abstract!Next
<1>1. /\ Moved(t, {old[t]}) /\ Owned(t) = {}
      /\ pc[t] = "pop_cas" /\ old[t] = head /\ head' = nxt[t] /\ old[t] \in Nodes
      /\ data' = data /\ old' = old /\ res' = res
  BY PopCasSucceeds
<1>3. /\ c # <<>> /\ c[1] = old[t]
      /\ Tail(c) \in Seq(Nodes)
      /\ Links(Tail(c))'
  BY <1>1, PopLinks
<1>4. StackNodes = c /\ StackNodes' = Tail(c)
  BY <1>3, StackIs, StackIsAfter
<1>5. /\ Contents(data, c) # <<>>
      /\ Head(Contents(data, c)) = data[old[t]]
      /\ Contents(data, Tail(c)) = Tail(Contents(data, c))
  BY <1>3, ContentsPop DEF ValueOf
<1>6. res[t] = NoResult
  BY <1>1 DEF ResultsOK
<1>7. CallOf(t) = <<"pop">> /\ CallOf(t)' = <<"got", data[old[t]]>>
  BY <1>1, <1>6 DEF CallOf
<1>8. Abstract!Pop(t)
  BY <1>1, <1>4, <1>5, <1>7, CallStep DEF Abstract!Pop, Abstract!Popping, Abstract!Got, Contents
<1> QED
  BY <1>8 DEF Abstract!Next

-----------------------------------------------------------------------------
(* The theorems about the list *)

\* The strengthening with the list from head_.
LInv == IInv /\ \E c \in Seq(Nodes) : Links(c)

\* The new stack is the empty list.
LEMMA InitLinks ==
    ASSUME Init
    PROVE  <<>> \in Seq(Nodes) /\ Links(<<>>)
<1>1. InStack = {}
  BY DEF Init, InStack
<1>2. Links(<<>>)
  BY <1>1 DEF Links, Chain, Elements, Init
<1> QED
  BY <1>2

\* The constructor establishes the strengthening.
LEMMA InitLInv == Init => LInv
<1> SUFFICES ASSUME Init PROVE LInv
  OBVIOUS
<1>1. \E c \in Seq(Nodes) : Links(c)
  <2>1. <<>> \in Seq(Nodes) /\ Links(<<>>)
    BY InitLinks
  <2> QED
    BY ONLY <2>1
<1> QED
  BY <1>1, InitIInv DEF LInv

\* What a step does to the list and to the calls.
LEMMA StepRefines ==
    ASSUME LInv, NEW t \in Threads, Cases(t)
    PROVE  /\ \E c \in Seq(Nodes) : Links(c)'
           /\ Abstract!Next \/ Stuttering
<1>1. PICK c \in Seq(Nodes) : Links(c)
  BY DEF LInv
<1> USE DEF LInv, IInv
<1>2. CASE PushCas(t) /\ pc'[t] = "idle"
  <2>1. Moved(t, {}) /\ next[new[t]] = head /\ head' = new[t] /\ next' = next
    BY <1>2, PushCasSucceeds
  <2>3. \E d \in Seq(Nodes) : Links(d)'
    BY <1>1, <1>2, <2>1, PushLinks
  <2> QED
    BY <1>1, <1>2, <2>3, PushRefines
<1>3. CASE PopCas(t) /\ pc'[t] = "read_data"
  <2>1. Moved(t, {old[t]}) /\ Owned(t) = {} /\ old[t] = head /\ head' = nxt[t]
    BY <1>3, PopCasSucceeds
  <2>3. \E d \in Seq(Nodes) : Links(d)'
    BY <1>1, <1>3, <2>1, PopLinks
  <2> QED
    BY <1>1, <1>3, <2>3, PopRefines
<1>4. CASE ~ (PushCas(t) /\ pc'[t] = "idle") /\ ~ (PopCas(t) /\ pc'[t] = "read_data")
  <2>1. Links(c)'
    <3>1. head' = head
      BY <1>4 DEF TypeOK, Cases, Quiet, PopEnter, LoadHead, StoreHp, Validate, ReadNext,
                  ReadData, ClearHp, ClearHpEmpty, NextNode, ScanRecord, PushAlloc,
                  PushCas, PopCas, ReclaimLater, ExchangeList, Delete, KeepForLater,
                  Dispose
    <3>2. pc[t] \in {"push_cas", "pop_cas"} => Still
      BY <1>4 DEF Still, Owned, Held, TypeOK, Goto, Cases, Quiet, PopEnter, LoadHead,
                  StoreHp, Validate, ReadNext, ReadData, ClearHp, ClearHpEmpty, NextNode,
                  ScanRecord, PushAlloc, PushCas, PopCas, ReclaimLater, ExchangeList,
                  Delete, KeepForLater
    <3> QED
      BY <1>1, <3>1, <3>2, QuietLinks
  <2>2. CASE \/ \E v \in Values : PushAlloc(t, v)
             \/ PopEnter(t) \/ ClearHpEmpty(t)
             \/ NextNode(t) /\ pc'[t] = "idle"
    BY <1>1, <2>1, <2>2, CallsRefine
  <2>3. CASE Validate(t) /\ pc'[t] = "clear_hp_empty"
    BY <1>1, <2>1, <2>3, EmptyRefines
  <2>4. CASE \/ LoadHead(t) \/ StoreHp(t) \/ ReadNext(t) \/ ReadData(t) \/ ClearHp(t)
             \/ ReclaimLater(t) \/ ExchangeList(t) \/ ScanRecord(t) \/ Delete(t)
             \/ KeepForLater(t)
             \/ Validate(t) /\ pc'[t] # "clear_hp_empty"
             \/ PopCas(t) /\ pc'[t] = "load_head"
             \/ NextNode(t) /\ pc'[t] = "scan"
             \/ PushCas(t) /\ pc'[t] = "push_cas"
    BY <1>1, <2>1, <2>4, OwnCall, QuietRefines
  <2>5. /\ NextNode(t) => pc'[t] \in {"idle", "scan"}
        /\ PopCas(t) => pc'[t] \in {"read_data", "load_head"}
        /\ PushCas(t) => pc'[t] \in {"idle", "push_cas"}
    BY DEF NextNode, PopCas, PushCas, TypeOK
  <2> QED
    BY <1>4, <2>1, <2>2, <2>3, <2>4, <2>5 DEF Cases, Quiet
<1> QED
  BY <1>2, <1>3, <1>4

\* A step of no thread changes nothing.
LEMMA StutterRefines ==
    ASSUME UNCHANGED vars
    PROVE  Stuttering
BY DEF vars, Stuttering, Abstract!vars, CallOf, StackNodes

\* Every step keeps it.
LEMMA StepLInv == LInv /\ [Next]_vars => LInv'
<1> SUFFICES ASSUME LInv, [Next]_vars
             PROVE  LInv'
  OBVIOUS
<1>1. IInv'
  BY StepIInv DEF LInv
<1>2. CASE UNCHANGED vars
  BY <1>1, <1>2 DEF LInv, vars, Links, InStack, Owned, Held
<1>3. CASE Next
  BY <1>1, <1>3, NextCases, StepRefines DEF LInv
<1> QED
  BY <1>2, <1>3

\* No node is lost, retired twice or deleted twice (lines 62-87), and from head_
\* the links lead through exactly the nodes of the stack, each once.
THEOREM ListKept == Spec => []NodesAccounted
<1>1. LInv => NodesAccounted
  <2> SUFFICES ASSUME LInv PROVE NodesAccounted
    OBVIOUS
  <2>1. PICK c \in Seq(Nodes) : Links(c)
    BY DEF LInv
  <2>2. StackNodes = c
    BY <2>1, StackIs
  <2> QED
    BY <2>1, <2>2 DEF NodesAccounted, LInv, IInv
<1> QED
  BY <1>1, InitLInv, StepLInv, PTL DEF Spec

\* push and pop (lines 117-144) are linearizable: every call takes effect in one
\* instant, with addresses that are deleted, handed out and pushed again in between.
THEOREM Linearizable == Spec => ImplementsLifo
<1>1. Init => Abstract!Init
  <2> SUFFICES ASSUME Init PROVE Abstract!Init
    OBVIOUS
  <2>3. StackNodes = <<>>
    BY InitLinks, StackIs
  <2>4. \A t \in Threads : CallOf(t) = <<"idle">>
    BY DEF Init, CallOf
  <2> QED
    BY <2>3, <2>4 DEF Abstract!Init, Abstract!Idle
<1>2. LInv /\ [Next]_vars => [Abstract!Next]_(Abstract!vars)
  <2> SUFFICES ASSUME LInv, [Next]_vars
               PROVE  Abstract!Next \/ Stuttering
    BY DEF Stuttering
  <2>1. CASE UNCHANGED vars
    BY <2>1, StutterRefines
  <2>2. CASE Next
    BY <2>2, NextCases, StepRefines
  <2> QED
    BY <2>1, <2>2
<1> QED
  BY <1>1, <1>2, InitLInv, StepLInv, PTL DEF Spec, Abstract!Spec, ImplementsLifo

-----------------------------------------------------------------------------
(* mpmc_lockfree_queue: the operators the instance has copies of *)

\* The constants of the queue.
LEMMA QueueConstantsHold ==
    /\ Producers \cap Consumers = {}
    /\ \A T \in Teams : T \subseteq Producers \cup Consumers
    /\ QueueNodes # {} /\ IsFiniteSet(QueueNodes) /\ Null \notin QueueNodes
    /\ QueueHazards \in Nat /\ MaxPush \in Nat
BY QueueConstants DEF QueueConstants, Queue!ConstantsAssumption, Queue!IsFiniteSet, IsFiniteSet

\* The lists of the queue are those of the lemmas on linked lists.
LEMMA QueueListsAre ==
    \A m, f :
        /\ Queue!ListOf(m, f, Null, QueueNodes) = ListOf(m, f, Null, QueueNodes)
        /\ Queue!OnList(m, f, Null, QueueNodes) = OnList(m, f, Null, QueueNodes)
        /\ Queue!IsLinked(m, f, Null, QueueNodes) <=> IsLinked(m, f, Null, QueueNodes)
<1>1. \A S : Queue!Cardinality(S) = Cardinality(S)
  BY DEF Queue!Cardinality, Cardinality
<1>2. \A m, f, k : Queue!Reached(m, f, Null, k) = Reached(m, f, Null, k)
  BY DEF Queue!Reached, Reached
<1>3. \A m, f : Queue!ListOf(m, f, Null, QueueNodes) = ListOf(m, f, Null, QueueNodes)
  BY <1>1, <1>2, Zenon DEF Queue!ListOf, ListOf
<1>4. \A c : Queue!Elements(c) = Elements(c)
  BY DEF Queue!Elements, Elements
<1>5. \A c, m, f : Queue!Chain(c, m, f, Null) <=> Chain(c, m, f, Null)
  BY DEF Queue!Chain, Chain
<1> QED
  BY <1>3, <1>4, <1>5, Zenon DEF Queue!OnList, OnList, Queue!IsLinked, IsLinked

-----------------------------------------------------------------------------
(* mpmc_lockfree_queue: threads and steps *)

\* Where pops are at work only one thread pushes.
QueueOneSided ==
    \A T \in Teams : T \cap Consumers = {} \/ \A p, q \in T \cap Producers : p = q

\* A step of one thread.
QueueStepOf(t) ==
    \/ t \in Producers /\ Queue!Push(t)
    \/ t \in Consumers /\ (Queue!Pop(t) \/ Queue!Reclaim(t))

\* It leaves the locals of the other threads alone.
QueueOthers(t) ==
    /\ \A u \in Queue!Callers : u # t =>
        /\ q_pc'[u] = q_pc[u] /\ q_nd'[u] = q_nd[u] /\ q_h'[u] = q_h[u]
        /\ q_n'[u] = q_n[u] /\ q_tl'[u] = q_tl[u]
    /\ \A c \in Consumers : c # t =>
        /\ q_batch'[c] = q_batch[c] /\ q_cur'[c] = q_cur[c] /\ q_idx'[c] = q_idx[c]
        /\ recs'[c] = recs[c]

-----------------------------------------------------------------------------
(* Types and locals *)

\* All is well typed at the start.
LEMMA QueueInitTypeOK == Queue!Init => Queue!TypeOK
<1> SUFFICES ASSUME Queue!Init PROVE Queue!TypeOK
  OBVIOUS
<1> USE QueueConstantsHold
<1>1. /\ team \subseteq Queue!Callers /\ q_head \in Queue!NodeOrNull
      /\ q_tail \in QueueNodes /\ q_free \subseteq QueueNodes
  BY DEF Queue!Init, Queue!Callers, Queue!NodeOrNull
<1>2. q_pc \in [Queue!Callers -> Queue!PC]
  BY DEF Queue!Init, Queue!PC
<1>3. recs \in [Consumers -> [{1, 2} -> Queue!Records \cup {Queue!NoRecord}]]
  BY DEF Queue!Init
<1>4. /\ q_next \in [QueueNodes -> Queue!NodeOrNull] /\ q_data \in [QueueNodes -> Nat]
      /\ q_hp \in [Queue!Records -> Queue!NodeOrNull]
      /\ q_nd \in [Queue!Callers -> Queue!NodeOrNull]
      /\ q_h \in [Queue!Callers -> Queue!NodeOrNull]
      /\ q_n \in [Queue!Callers -> Queue!NodeOrNull]
      /\ q_tl \in [Queue!Callers -> Queue!NodeOrNull]
  BY DEF Queue!Init, Queue!NodeOrNull
<1>5. /\ q_batch \in [Consumers -> SUBSET QueueNodes] /\ q_reclaim_list \subseteq QueueNodes
      /\ q_cur \in [Consumers -> Queue!NodeOrNull] /\ q_idx \in [Consumers -> 0 .. QueueHazards]
  BY DEF Queue!Init, Queue!NodeOrNull
<1>6. called \in Nat /\ crashed \in BOOLEAN
  BY DEF Queue!Init
<1>7. pushed \in Seq(Nat) /\ popped \in Seq(Nat)
  <2>1. pushed = <<>> /\ popped = <<>>
    BY DEF Queue!Init
  <2> QED
    BY ONLY <2>1
<1> QED
  BY <1>1, <1>2, <1>3, <1>4, <1>5, <1>6, <1>7 DEF Queue!TypeOK

\* A push keeps the types.
LEMMA QueuePushTypeOK ==
    ASSUME Queue!TypeOK, NEW p \in Producers, Queue!PusherOK(p), Queue!Push(p), team' = team
    PROVE  Queue!TypeOK'
<1>1. p \in Queue!Callers
  BY DEF Queue!Callers
<1> USE <1>1
    DEF Queue!TypeOK, Queue!Goto, Queue!queue, Queue!hazard, Queue!history, Queue!NodeOrNull,
        Queue!PusherOK, Queue!Pushing, Queue!Filling
<1>2. CASE Queue!PushAlloc(p)
  <2>1. PICK x \in q_free : /\ q_free' = q_free \ {x} /\ q_nd' = [q_nd EXCEPT ![p] = x]
                            /\ q_data' = [q_data EXCEPT ![x] = called']
                            /\ q_next' = [q_next EXCEPT ![x] = Null]
    BY <1>2 DEF Queue!PushAlloc
  <2>2. x \in QueueNodes /\ called' \in Nat
    BY <1>2 DEF Queue!PushAlloc
  <2>3. /\ q_next' \in [QueueNodes -> Queue!NodeOrNull] /\ q_data' \in [QueueNodes -> Nat]
        /\ q_free' \subseteq QueueNodes /\ q_nd' \in [Queue!Callers -> Queue!NodeOrNull]
    BY <2>1, <2>2
  <2>4. q_pc' \in [Queue!Callers -> Queue!PC]
    BY <1>2 DEF Queue!PushAlloc, Queue!PC
  <2> QED
    BY <1>2, <2>2, <2>3, <2>4 DEF Queue!PushAlloc
<1>3. CASE Queue!PushLoadTail(p)
  <2>1. q_pc' \in [Queue!Callers -> Queue!PC] /\ q_tl' \in [Queue!Callers -> Queue!NodeOrNull]
    BY <1>3 DEF Queue!PushLoadTail, Queue!PC
  <2> QED
    BY <1>3, <2>1 DEF Queue!PushLoadTail
<1>4. CASE Queue!PushLoadNext(p)
  <2>1. q_pc' \in [Queue!Callers -> Queue!PC] /\ q_n' \in [Queue!Callers -> Queue!NodeOrNull]
    BY <1>4 DEF Queue!PushLoadNext, Queue!PC
  <2> QED
    BY <1>4, <2>1 DEF Queue!PushLoadNext
<1>5. CASE Queue!PushCheck(p)
  <2>1. q_pc' \in [Queue!Callers -> Queue!PC]
    BY <1>5 DEF Queue!PushCheck, Queue!PC
  <2> QED
    BY <1>5, <2>1 DEF Queue!PushCheck
<1>6. CASE Queue!PushLink(p)
  <2>1. q_nd[p] \in QueueNodes /\ q_pc' \in [Queue!Callers -> Queue!PC]
    <3>1. q_pc' = [q_pc EXCEPT ![p] = "p_advance"] \/ q_pc' = [q_pc EXCEPT ![p] = "p_tail"]
      BY <1>6 DEF Queue!PushLink
    <3> QED
      BY <1>6, <3>1 DEF Queue!PushLink, Queue!PC
  <2>2. q_next' \in [QueueNodes -> Queue!NodeOrNull]
    BY <1>6, <2>1 DEF Queue!PushLink
  <2>3. pushed' \in Seq(Nat)
    <3>1. pushed' = pushed \/ pushed' = Append(pushed, q_data[q_nd[p]])
      BY <1>6 DEF Queue!PushLink
    <3>2. pushed \in Seq(Nat) /\ q_data[q_nd[p]] \in Nat
      BY <2>1
    <3> QED
      BY ONLY <3>1, <3>2
  <2> QED
    BY <1>6, <2>1, <2>2, <2>3 DEF Queue!PushLink
<1>7. CASE Queue!PushAdvance(p)
  <2>1. q_tail' \in QueueNodes /\ q_pc' \in [Queue!Callers -> Queue!PC]
    BY <1>7 DEF Queue!PushAdvance, Queue!PC
  <2>2. /\ q_nd' \in [Queue!Callers -> Queue!NodeOrNull]
        /\ q_n' \in [Queue!Callers -> Queue!NodeOrNull]
        /\ q_tl' \in [Queue!Callers -> Queue!NodeOrNull]
    BY <1>7 DEF Queue!PushAdvance
  <2> QED
    BY <1>7, <2>1, <2>2 DEF Queue!PushAdvance
<1>8. CASE Queue!PushHelp(p)
  <2>1. q_tail' \in QueueNodes /\ q_pc' \in [Queue!Callers -> Queue!PC]
    BY <1>8 DEF Queue!PushHelp, Queue!PC
  <2> QED
    BY <1>8, <2>1 DEF Queue!PushHelp
<1> QED
  BY <1>2, <1>3, <1>4, <1>5, <1>6, <1>7, <1>8 DEF Queue!Push

\* A pop in its records.
LEMMA QueuePopperRecords ==
    ASSUME Queue!TypeOK, NEW c \in Consumers, Queue!PopperOK(c), q_pc[c] \in Queue!InPop
    PROVE  recs[c][1] \in Queue!Records /\ recs[c][2] \in Queue!Records
BY DEF Queue!TypeOK, Queue!PopperOK

\* A pop keeps the types.
LEMMA QueuePopTypeOK ==
    ASSUME Queue!TypeOK, NEW c \in Consumers, Queue!PopperOK(c), Queue!Pop(c), team' = team
    PROVE  Queue!TypeOK'
<1>1. c \in Queue!Callers
  BY DEF Queue!Callers
<1> USE <1>1
    DEF Queue!TypeOK, Queue!Goto, Queue!queue, Queue!hazard, Queue!history, Queue!NodeOrNull
<1>2. CASE Queue!ClaimRecord(c)
  <2>1. PICK s \in {1, 2}, i \in Queue!FreeRecords : recs' = [recs EXCEPT ![c][s] = i]
    BY <1>2 DEF Queue!ClaimRecord
  <2>2. i \in Queue!Records
    BY <2>1 DEF Queue!FreeRecords
  <2>3. recs' \in [Consumers -> [{1, 2} -> Queue!Records \cup {Queue!NoRecord}]]
    BY <2>1, <2>2
  <2> QED
    BY <1>2, <2>3 DEF Queue!ClaimRecord
<1>3. CASE Queue!LoadHead(c)
  <2>1. q_pc' \in [Queue!Callers -> Queue!PC] /\ q_h' \in [Queue!Callers -> Queue!NodeOrNull]
    BY <1>3 DEF Queue!LoadHead, Queue!PC
  <2> QED
    BY <1>3, <2>1 DEF Queue!LoadHead
<1>4. CASE Queue!StoreHpHead(c)
  <2>1. q_pc' \in [Queue!Callers -> Queue!PC] /\ q_hp' \in [Queue!Records -> Queue!NodeOrNull]
    BY <1>4, QueuePopperRecords DEF Queue!StoreHpHead, Queue!PC, Queue!InPop
  <2> QED
    BY <1>4, <2>1 DEF Queue!StoreHpHead
<1>5. CASE Queue!CheckHead(c) \/ Queue!CheckNext(c) \/ Queue!LoadTail(c)
  <2>1. q_pc' \in [Queue!Callers -> Queue!PC]
    <3>1. \/ q_pc' = [q_pc EXCEPT ![c] = "load"] \/ q_pc' = [q_pc EXCEPT ![c] = "next"]
          \/ q_pc' = [q_pc EXCEPT ![c] = "tail"] \/ q_pc' = [q_pc EXCEPT ![c] = "cas"]
          \/ q_pc' = [q_pc EXCEPT ![c] = "clear_head_empty"]
          \/ q_pc' = [q_pc EXCEPT ![c] = "help"]
      BY <1>5 DEF Queue!CheckHead, Queue!CheckNext, Queue!LoadTail
    <3> QED
      BY <3>1 DEF Queue!PC
  <2> QED
    BY <1>5, <2>1 DEF Queue!CheckHead, Queue!CheckNext, Queue!LoadTail
<1>6. CASE Queue!LoadNext(c)
  <2>1. /\ q_pc' \in [Queue!Callers -> Queue!PC] /\ q_n' \in [Queue!Callers -> Queue!NodeOrNull]
        /\ crashed' \in BOOLEAN
    <3>1. \/ q_pc' = q_pc /\ q_n' = q_n
          \/ q_pc' = [q_pc EXCEPT ![c] = "set_next"] /\ q_h[c] # Null
             /\ q_n' = [q_n EXCEPT ![c] = q_next[q_h[c]]]
      BY <1>6 DEF Queue!LoadNext
    <3>2. crashed' \in BOOLEAN
      BY <1>6 DEF Queue!LoadNext
    <3>3. q_h[c] # Null => q_next[q_h[c]] \in Queue!NodeOrNull
      OBVIOUS
    <3>4. q_pc' \in [Queue!Callers -> Queue!PC]
      BY <3>1 DEF Queue!PC
    <3>5. q_n' \in [Queue!Callers -> Queue!NodeOrNull]
      BY <3>1, <3>3
    <3> QED
      BY <3>2, <3>4, <3>5
  <2> QED
    BY <1>6, <2>1 DEF Queue!LoadNext
<1>7. CASE Queue!StoreHpNext(c)
  <2>1. q_pc' \in [Queue!Callers -> Queue!PC] /\ q_hp' \in [Queue!Records -> Queue!NodeOrNull]
    BY <1>7, QueuePopperRecords
    DEF Queue!StoreHpNext, Queue!PC, Queue!InPop, Queue!Published, Queue!Sure
  <2> QED
    BY <1>7, <2>1 DEF Queue!StoreHpNext
<1>8. CASE Queue!PopHelp(c)
  <2>1. q_pc' \in [Queue!Callers -> Queue!PC] /\ q_tail' \in QueueNodes
    BY <1>8 DEF Queue!PopHelp, Queue!PC, Queue!PopperOK
  <2> QED
    BY <1>8, <2>1 DEF Queue!PopHelp
<1>9. CASE Queue!PopCas(c)
  <2>1. q_pc' \in [Queue!Callers -> Queue!PC] /\ q_head' \in Queue!NodeOrNull
    <3>1. /\ q_pc' = [q_pc EXCEPT ![c] = "read"] \/ q_pc' = [q_pc EXCEPT ![c] = "load"]
          /\ q_head' = q_n[c] \/ q_head' = q_head
      BY <1>9 DEF Queue!PopCas
    <3> QED
      BY <3>1 DEF Queue!PC
  <2>2. popped' \in Seq(Nat)
    <3>1. \/ popped' = popped
          \/ popped' = IF q_n[c] = Null THEN popped ELSE Append(popped, q_data[q_n[c]])
      BY <1>9 DEF Queue!PopCas
    <3>2. popped \in Seq(Nat) /\ (q_n[c] # Null => q_data[q_n[c]] \in Nat)
      OBVIOUS
    <3> QED
      BY ONLY <3>1, <3>2
  <2> QED
    BY <1>9, <2>1, <2>2 DEF Queue!PopCas
<1>10. CASE Queue!ReadData(c)
  <2>1. q_pc' \in [Queue!Callers -> Queue!PC] /\ crashed' \in BOOLEAN
    BY <1>10 DEF Queue!ReadData, Queue!PC
  <2> QED
    BY <1>10, <2>1 DEF Queue!ReadData
<1>11. CASE Queue!ClearHpHead(c)
  <2>1. q_pc' \in [Queue!Callers -> Queue!PC] /\ q_hp' \in [Queue!Records -> Queue!NodeOrNull]
    BY <1>11, QueuePopperRecords
    DEF Queue!ClearHpHead, Queue!PC, Queue!InPop, Queue!Published
  <2> QED
    BY <1>11, <2>1 DEF Queue!ClearHpHead
<1>12. CASE Queue!ClearHpNext(c)
  <2>1. q_pc' \in [Queue!Callers -> Queue!PC] /\ q_hp' \in [Queue!Records -> Queue!NodeOrNull]
    BY <1>12, QueuePopperRecords
    DEF Queue!ClearHpNext, Queue!PC, Queue!InPop, Queue!PublishedNext
  <2>2. /\ q_h' \in [Queue!Callers -> Queue!NodeOrNull]
        /\ q_n' \in [Queue!Callers -> Queue!NodeOrNull]
    BY <1>12 DEF Queue!ClearHpNext
  <2> QED
    BY <1>12, <2>1, <2>2 DEF Queue!ClearHpNext
<1> QED
  BY <1>2, <1>3, <1>4, <1>5, <1>6, <1>7, <1>8, <1>9, <1>10, <1>11, <1>12 DEF Queue!Pop

\* A node under scan is one of the batch.
LEMMA QueueScannedNode ==
    ASSUME Queue!TypeOK, NEW c \in Consumers, Queue!PopperOK(c), q_pc[c] \in {"scan", "keep"}
    PROVE  q_cur[c] \in QueueNodes /\ q_cur[c] \in q_batch[c]
<1>1. q_batch[c] \subseteq QueueNodes
  BY DEF Queue!TypeOK
<1> QED
  BY <1>1 DEF Queue!PopperOK

\* Reclaiming keeps the types.
LEMMA QueueReclaimTypeOK ==
    ASSUME Queue!TypeOK, NEW c \in Consumers, Queue!PopperOK(c), Queue!Reclaim(c), team' = team
    PROVE  Queue!TypeOK'
<1>1. c \in Queue!Callers
  BY DEF Queue!Callers
<1> USE <1>1, QueueConstantsHold
    DEF Queue!TypeOK, Queue!Goto, Queue!queue, Queue!hazard, Queue!history, Queue!NodeOrNull
<1>2. CASE Queue!ReclaimLater(c)
  <2>1. q_pc' \in [Queue!Callers -> Queue!PC] /\ q_reclaim_list' \subseteq QueueNodes
    BY <1>2 DEF Queue!ReclaimLater, Queue!PC, Queue!PopperOK, Queue!Popping
  <2>2. q_h' \in [Queue!Callers -> Queue!NodeOrNull]
    BY <1>2 DEF Queue!ReclaimLater
  <2> QED
    BY <1>2, <2>1, <2>2 DEF Queue!ReclaimLater
<1>3. CASE Queue!ExchangeList(c)
  <2>1. q_pc' \in [Queue!Callers -> Queue!PC] /\ q_batch' \in [Consumers -> SUBSET QueueNodes]
    BY <1>3 DEF Queue!ExchangeList, Queue!PC
  <2> QED
    BY <1>3, <2>1 DEF Queue!ExchangeList
<1>4. CASE Queue!NextNode(c)
  <2>1. q_pc' \in [Queue!Callers -> Queue!PC]
    BY <1>4 DEF Queue!NextNode, Queue!PC
  <2>2. q_cur' \in [Consumers -> Queue!NodeOrNull]
    <3>1. q_batch[c] \subseteq QueueNodes
      OBVIOUS
    <3>2. CASE \E x \in q_batch[c] : q_cur' = [q_cur EXCEPT ![c] = x]
      BY <3>1, <3>2
    <3> QED
      BY <1>4, <3>2 DEF Queue!NextNode
  <2> QED
    BY <1>4, <2>1, <2>2 DEF Queue!NextNode
<1>5. CASE Queue!ScanRecord(c)
  <2>1. q_idx[c] + 1 \in 0 .. QueueHazards
    BY <1>5 DEF Queue!ScanRecord, Queue!Records
  <2>2. q_pc' \in [Queue!Callers -> Queue!PC]
    BY <1>5 DEF Queue!ScanRecord, Queue!PC
  <2>3. q_idx' \in [Consumers -> 0 .. QueueHazards]
    <3>1. q_idx' = q_idx \/ q_idx' = [q_idx EXCEPT ![c] = @ + 1]
      BY <1>5 DEF Queue!ScanRecord
    <3>2. q_idx \in [Consumers -> 0 .. QueueHazards]
      OBVIOUS
    <3> QED
      BY ONLY <2>1, <3>1, <3>2
  <2> QED
    BY <1>5, <2>2, <2>3 DEF Queue!ScanRecord
<1>6. CASE Queue!Delete(c) \/ Queue!KeepForLater(c)
  <2>1. q_cur[c] \in QueueNodes
    BY <1>6, QueueScannedNode DEF Queue!Delete, Queue!KeepForLater
  <2>2. Queue!Dispose(c)
    BY <1>6 DEF Queue!Delete, Queue!KeepForLater
  <2>3. /\ q_batch' \in [Consumers -> SUBSET QueueNodes]
        /\ q_cur' \in [Consumers -> Queue!NodeOrNull]
        /\ q_idx' \in [Consumers -> 0 .. QueueHazards]
    <3>1. q_batch' = [q_batch EXCEPT ![c] = @ \ {q_cur[c]}]
      BY <2>2 DEF Queue!Dispose
    <3>2. q_cur' = [q_cur EXCEPT ![c] = Null] /\ q_idx' = [q_idx EXCEPT ![c] = 0]
      BY <2>2 DEF Queue!Dispose
    <3>3. /\ q_batch \in [Consumers -> SUBSET QueueNodes]
          /\ q_cur \in [Consumers -> Queue!NodeOrNull]
      OBVIOUS
    <3>4. q_idx \in [Consumers -> 0 .. QueueHazards] /\ 0 \in 0 .. QueueHazards
      OBVIOUS
    <3>5. /\ q_batch' \in [Consumers -> SUBSET QueueNodes]
          /\ q_cur' \in [Consumers -> Queue!NodeOrNull]
      BY ONLY <3>1, <3>2, <3>3 DEF Queue!NodeOrNull
    <3> QED
      BY ONLY <3>2, <3>4, <3>5
  <2>4. q_pc' \in [Queue!Callers -> Queue!PC]
    BY <1>6 DEF Queue!Delete, Queue!KeepForLater, Queue!PC
  <2>5. q_free' \subseteq QueueNodes /\ q_reclaim_list' \subseteq QueueNodes
    BY <1>6, <2>1 DEF Queue!Delete, Queue!KeepForLater
  <2> QED
    BY <1>6, <2>2, <2>3, <2>4, <2>5 DEF Queue!Delete, Queue!KeepForLater, Queue!Dispose
<1> QED
  BY <1>2, <1>3, <1>4, <1>5, <1>6 DEF Queue!Reclaim

\* Every step keeps the types.
LEMMA QueueStepTypeOK ==
    ASSUME Queue!TypeOK, Queue!LocalsOK, NEW t \in Queue!Callers, QueueStepOf(t), team' = team
    PROVE  Queue!TypeOK'
BY QueuePushTypeOK, QueuePopTypeOK, QueueReclaimTypeOK DEF QueueStepOf, Queue!LocalsOK

\* A push leaves the locals of others alone.
LEMMA QueuePushOthers ==
    ASSUME Queue!TypeOK, NEW p \in Producers, Queue!Push(p)
    PROVE  QueueOthers(p) /\ \A c \in Consumers : q_pc'[c] = q_pc[c]
<1>1. p \notin Consumers
  BY QueueConstantsHold
<1> USE <1>1 DEF Queue!TypeOK, QueueOthers, Queue!Goto, Queue!hazard, Queue!Callers
<1>2. CASE Queue!PushAlloc(p)
  BY <1>2 DEF Queue!PushAlloc
<1>3. CASE \/ Queue!PushLoadTail(p) \/ Queue!PushLoadNext(p) \/ Queue!PushCheck(p)
           \/ Queue!PushLink(p)
  BY <1>3 DEF Queue!PushLoadTail, Queue!PushLoadNext, Queue!PushCheck, Queue!PushLink
<1>4. CASE Queue!PushAdvance(p) \/ Queue!PushHelp(p)
  BY <1>4 DEF Queue!PushAdvance, Queue!PushHelp
<1> QED
  BY <1>2, <1>3, <1>4 DEF Queue!Push

\* So does a pop.
LEMMA QueuePopOthers ==
    ASSUME Queue!TypeOK, NEW c \in Consumers, Queue!Pop(c)
    PROVE  QueueOthers(c) /\ \A p \in Producers : q_pc'[p] = q_pc[p]
<1>1. c \notin Producers
  BY QueueConstantsHold
<1> USE <1>1 DEF Queue!TypeOK, QueueOthers, Queue!Goto, Queue!hazard, Queue!Callers
<1>2. CASE Queue!ClaimRecord(c)
  BY <1>2 DEF Queue!ClaimRecord
<1>3. CASE Queue!LoadHead(c) \/ Queue!StoreHpHead(c) \/ Queue!CheckHead(c) \/ Queue!LoadNext(c)
  BY <1>3 DEF Queue!LoadHead, Queue!StoreHpHead, Queue!CheckHead, Queue!LoadNext
<1>4. CASE Queue!StoreHpNext(c) \/ Queue!CheckNext(c) \/ Queue!LoadTail(c) \/ Queue!PopHelp(c)
  BY <1>4 DEF Queue!StoreHpNext, Queue!CheckNext, Queue!LoadTail, Queue!PopHelp
<1>5. CASE Queue!PopCas(c) \/ Queue!ReadData(c) \/ Queue!ClearHpHead(c) \/ Queue!ClearHpNext(c)
  BY <1>5 DEF Queue!PopCas, Queue!ReadData, Queue!ClearHpHead, Queue!ClearHpNext
<1> QED
  BY <1>2, <1>3, <1>4, <1>5 DEF Queue!Pop

\* And a thread that reclaims.
LEMMA QueueReclaimOthers ==
    ASSUME Queue!TypeOK, NEW c \in Consumers, Queue!Reclaim(c)
    PROVE  QueueOthers(c) /\ \A p \in Producers : q_pc'[p] = q_pc[p]
<1>1. c \notin Producers
  BY QueueConstantsHold
<1> USE <1>1 DEF Queue!TypeOK, QueueOthers, Queue!Goto, Queue!hazard, Queue!Callers
<1>2. CASE Queue!ReclaimLater(c) \/ Queue!ExchangeList(c) \/ Queue!NextNode(c)
  BY <1>2 DEF Queue!ReclaimLater, Queue!ExchangeList, Queue!NextNode
<1>3. CASE Queue!ScanRecord(c) \/ Queue!Delete(c) \/ Queue!KeepForLater(c)
  BY <1>3 DEF Queue!ScanRecord, Queue!Delete, Queue!KeepForLater, Queue!Dispose
<1> QED
  BY <1>2, <1>3 DEF Queue!Reclaim

\* Every step leaves the locals of the other threads alone.
LEMMA QueueStepOthers ==
    ASSUME Queue!TypeOK, NEW t \in Queue!Callers, QueueStepOf(t)
    PROVE  QueueOthers(t)
BY QueuePushOthers, QueuePopOthers, QueueReclaimOthers DEF QueueStepOf

\* A push has the locals its program counter says it has.
LEMMA QueuePushLocals ==
    ASSUME Queue!TypeOK, NEW p \in Producers, Queue!PusherOK(p), Queue!Push(p)
    PROVE  Queue!PusherOK(p)'
<1>1. p \in Queue!Callers /\ Null \notin QueueNodes
  BY QueueConstantsHold DEF Queue!Callers
<1> USE <1>1 DEF Queue!TypeOK, Queue!Goto, Queue!PusherOK, Queue!Pushing, Queue!Filling
<1>2. CASE Queue!PushAlloc(p)
  BY <1>2 DEF Queue!PushAlloc
<1>3. CASE Queue!PushLoadTail(p)
  BY <1>3 DEF Queue!PushLoadTail
<1>4. CASE Queue!PushLoadNext(p)
  BY <1>4 DEF Queue!PushLoadNext
<1>5. CASE Queue!PushCheck(p)
  BY <1>5 DEF Queue!PushCheck
<1>6. CASE Queue!PushLink(p)
  BY <1>6 DEF Queue!PushLink
<1>7. CASE Queue!PushAdvance(p)
  BY <1>7 DEF Queue!PushAdvance
<1>8. CASE Queue!PushHelp(p)
  BY <1>8 DEF Queue!PushHelp
<1> QED
  BY <1>2, <1>3, <1>4, <1>5, <1>6, <1>7, <1>8 DEF Queue!Push

\* The program counters of a pop and of reclaiming, one by one.
LEMMA QueuePopCounters ==
    /\ Queue!InPop = {"load", "set_head", "check_head", "next", "set_next", "check_next", "tail",
                      "cas", "help", "read", "clear_head", "clear_next", "retire",
                      "clear_head_empty", "clear_next_empty"}
    /\ Queue!Sure \ {"next"} = {"set_next", "check_next", "tail", "cas", "help", "read"}
    /\ Queue!Popping = {"read", "clear_head", "clear_next", "retire"}
    /\ Queue!Reclaiming = {"exchange", "node", "scan", "keep"}
BY DEF Queue!InPop, Queue!Published, Queue!PublishedNext, Queue!Popping, Queue!Sure,
    Queue!SureOfNext, Queue!Reclaiming

\* So has a pop.
LEMMA QueuePopLocals ==
    ASSUME Queue!TypeOK, NEW c \in Consumers, Queue!PopperOK(c), Queue!Pop(c)
    PROVE  Queue!PopperOK(c)'
<1>1. c \in Queue!Callers /\ Queue!NoRecord \notin Queue!Records
  BY QueueConstantsHold DEF Queue!Callers, Queue!NoRecord, Queue!Records
<1> USE <1>1, QueuePopCounters DEF Queue!TypeOK, Queue!Goto, Queue!PopperOK, Queue!hazard
<1>2. CASE Queue!ClaimRecord(c)
  <2>1. PICK s \in {1, 2}, i \in Queue!FreeRecords :
            recs' = [recs EXCEPT ![c][s] = i] /\ (s = 2 => recs[c][1] # Queue!NoRecord)
    BY <1>2 DEF Queue!ClaimRecord
  <2>2. i # Queue!NoRecord
    BY <2>1 DEF Queue!FreeRecords
  <2>3. recs'[c][2] # Queue!NoRecord => recs'[c][1] # Queue!NoRecord
    BY <2>1, <2>2
  <2> QED
    BY <1>2, <2>3 DEF Queue!ClaimRecord
<1>3. CASE Queue!LoadHead(c)
  BY <1>3 DEF Queue!LoadHead
<1>4. CASE Queue!StoreHpHead(c)
  <2>1. /\ UNCHANGED <<recs, q_h, q_n, q_batch, q_cur, q_idx>>
        /\ q_pc[c] = "set_head" /\ q_pc' = [q_pc EXCEPT ![c] = "check_head"]
    BY <1>4 DEF Queue!StoreHpHead
  <2> QED
    BY <2>1
<1>13. CASE Queue!CheckHead(c)
  BY <1>13 DEF Queue!CheckHead
<1>5. CASE Queue!LoadNext(c)
  BY <1>5 DEF Queue!LoadNext
<1>6. CASE Queue!StoreHpNext(c) \/ Queue!CheckNext(c)
  BY <1>6 DEF Queue!StoreHpNext, Queue!CheckNext
<1>7. CASE Queue!LoadTail(c)
  BY <1>7 DEF Queue!LoadTail
<1>8. CASE Queue!PopHelp(c)
  BY <1>8 DEF Queue!PopHelp
<1>9. CASE Queue!PopCas(c)
  BY <1>9 DEF Queue!PopCas
<1>10. CASE Queue!ReadData(c)
  BY <1>10 DEF Queue!ReadData
<1>11. CASE Queue!ClearHpHead(c)
  <2>1. /\ UNCHANGED <<recs, q_h, q_n, q_batch, q_cur, q_idx>>
        /\ \/ q_pc[c] = "clear_head" /\ q_pc' = [q_pc EXCEPT ![c] = "clear_next"]
           \/ q_pc[c] = "clear_head_empty" /\ q_pc' = [q_pc EXCEPT ![c] = "clear_next_empty"]
    BY <1>11 DEF Queue!ClearHpHead
  <2>2. CASE q_pc[c] = "clear_head" /\ q_pc' = [q_pc EXCEPT ![c] = "clear_next"]
    BY <2>1, <2>2
  <2>3. CASE q_pc[c] = "clear_head_empty" /\ q_pc' = [q_pc EXCEPT ![c] = "clear_next_empty"]
    BY <2>1, <2>3
  <2> QED
    BY <2>1, <2>2, <2>3
<1>12. CASE Queue!ClearHpNext(c)
  <2>1. /\ UNCHANGED <<recs, q_batch, q_cur, q_idx>>
        /\ \/ q_pc[c] = "clear_next" /\ q_pc' = [q_pc EXCEPT ![c] = "retire"] /\ q_h' = q_h
           \/ q_pc[c] = "clear_next_empty" /\ q_pc' = [q_pc EXCEPT ![c] = "idle"]
    BY <1>12 DEF Queue!ClearHpNext
  <2>2. CASE q_pc[c] = "clear_next" /\ q_pc' = [q_pc EXCEPT ![c] = "retire"] /\ q_h' = q_h
    BY <2>1, <2>2
  <2>3. CASE q_pc[c] = "clear_next_empty" /\ q_pc' = [q_pc EXCEPT ![c] = "idle"]
    BY <2>1, <2>3
  <2> QED
    BY <2>1, <2>2, <2>3
<1> QED
  BY <1>2, <1>3, <1>4, <1>5, <1>6, <1>7, <1>8, <1>9, <1>10, <1>11, <1>12, <1>13
  DEF Queue!Pop

\* And a thread that reclaims.
LEMMA QueueReclaimLocals ==
    ASSUME Queue!TypeOK, NEW c \in Consumers, Queue!PopperOK(c), Queue!Reclaim(c)
    PROVE  Queue!PopperOK(c)'
<1>1. c \in Queue!Callers
  BY DEF Queue!Callers
<1> USE <1>1, QueuePopCounters DEF Queue!TypeOK, Queue!Goto, Queue!PopperOK
<1>2. CASE Queue!ReclaimLater(c)
  BY <1>2 DEF Queue!ReclaimLater
<1>3. CASE Queue!ExchangeList(c)
  BY <1>3 DEF Queue!ExchangeList
<1>4. CASE Queue!NextNode(c)
  <2>1. CASE /\ Queue!Goto(c, "node", "scan")
             /\ \E x \in q_batch[c] : q_cur' = [q_cur EXCEPT ![c] = x]
    BY <1>4, <2>1 DEF Queue!NextNode
  <2>2. CASE Queue!Goto(c, "node", "idle") /\ q_batch[c] = {} /\ q_cur' = q_cur
    BY <1>4, <2>2 DEF Queue!NextNode
  <2> QED
    BY <1>4, <2>1, <2>2 DEF Queue!NextNode
<1>5. CASE Queue!ScanRecord(c)
  <2>1. CASE q_hp[q_idx[c]] = q_cur[c]
    <3>1. q_pc[c] = "scan" /\ q_pc' = [q_pc EXCEPT ![c] = "keep"]
          /\ UNCHANGED <<recs, q_h, q_n, q_batch, q_cur, q_idx>>
      BY <1>5, <2>1 DEF Queue!ScanRecord
    <3> QED
      BY <3>1
  <2>2. CASE q_hp[q_idx[c]] # q_cur[c]
    BY <1>5, <2>2 DEF Queue!ScanRecord
  <2> QED
    BY <2>1, <2>2
<1>6. CASE Queue!Delete(c)
  BY <1>6 DEF Queue!Delete, Queue!Dispose
<1>7. CASE Queue!KeepForLater(c)
  BY <1>7 DEF Queue!KeepForLater, Queue!Dispose
<1> QED
  BY <1>2, <1>3, <1>4, <1>5, <1>6, <1>7 DEF Queue!Reclaim

\* Every thread has the locals its program counter says it has, after any step.
LEMMA QueueStepLocalsOK ==
    ASSUME Queue!TypeOK, Queue!LocalsOK, NEW t \in Queue!Callers, QueueStepOf(t), t \in team,
           team' = team
    PROVE  Queue!LocalsOK'
<1>1. QueueOthers(t)
  BY QueueStepOthers
<1>2. t \in Producers => Queue!PusherOK(t)'
  BY QueuePushLocals, QueueConstantsHold DEF QueueStepOf, Queue!LocalsOK
<1>3. t \in Consumers => Queue!PopperOK(t)'
  BY QueuePopLocals, QueueReclaimLocals, QueueConstantsHold
  DEF QueueStepOf, Queue!LocalsOK
<1>4. \A u \in Queue!Callers : q_pc'[u] # "idle" => u \in team'
  BY <1>1 DEF Queue!LocalsOK, QueueOthers
<1>5. ASSUME NEW p \in Producers, p # t PROVE Queue!PusherOK(p)'
  BY <1>1, <1>5 DEF Queue!LocalsOK, Queue!PusherOK, QueueOthers, Queue!Callers
<1>6. ASSUME NEW c \in Consumers, c # t PROVE Queue!PopperOK(c)'
  BY <1>1, <1>6 DEF Queue!LocalsOK, Queue!PopperOK, QueueOthers, Queue!Callers
<1> QED
  BY <1>2, <1>3, <1>4, <1>5, <1>6 DEF Queue!LocalsOK

-----------------------------------------------------------------------------
(* Which steps move a node from one place to another *)

\* No node changes hands.
QueueQuiet(t) ==
    /\ Queue!Held(t)' = Queue!Held(t)
    /\ q_free' = q_free /\ q_reclaim_list' = q_reclaim_list /\ q_batch' = q_batch

\* Nor does a link, or what the history says.
QueueStill(t) ==
    /\ QueueQuiet(t)
    /\ q_head' = q_head /\ q_next' = q_next /\ q_data' = q_data
    /\ pushed' = pushed /\ popped' = popped

\* The steps that change the list.
QueueLinks(p) == Queue!PushLink(p) /\ q_next[q_tl[p]] = Null
QueueTakes(c) == Queue!PopCas(c) /\ q_head = q_h[c] /\ q_n[c] # Null
QueueEmpties(c) == Queue!PopCas(c) /\ q_head = q_h[c] /\ q_n[c] = Null

\* A push takes a node from the heap, links it, or only moves along.
LEMMA QueuePushCases ==
    ASSUME Queue!TypeOK, NEW p \in Producers, Queue!PusherOK(p), Queue!Push(p)
    PROVE  Queue!PushAlloc(p) \/ QueueLinks(p) \/ QueueStill(p)
<1>1. p \in Queue!Callers
  BY DEF Queue!Callers
<1> USE <1>1
    DEF Queue!TypeOK, Queue!Goto, QueueStill, QueueQuiet, Queue!Held, Queue!Filling,
        Queue!Popping, Queue!hazard, Queue!queue, Queue!history
<1>2. CASE Queue!PushLoadTail(p) \/ Queue!PushLoadNext(p)
  BY <1>2 DEF Queue!PushLoadTail, Queue!PushLoadNext
<1>3. CASE Queue!PushCheck(p)
  BY <1>3 DEF Queue!PushCheck
<1>4. CASE Queue!PushLink(p)
  BY <1>4 DEF Queue!PushLink, QueueLinks
<1>5. CASE Queue!PushAdvance(p)
  BY <1>5 DEF Queue!PushAdvance
<1>6. CASE Queue!PushHelp(p)
  BY <1>6 DEF Queue!PushHelp
<1> QED
  BY <1>2, <1>3, <1>4, <1>5, <1>6 DEF Queue!Push

\* A pop takes a node from the list, sets head_ to nullptr, or only moves along.
LEMMA QueuePopCases ==
    ASSUME Queue!TypeOK, NEW c \in Consumers, Queue!PopperOK(c), Queue!Pop(c)
    PROVE  QueueTakes(c) \/ QueueEmpties(c) \/ QueueStill(c)
<1>1. c \in Queue!Callers
  BY DEF Queue!Callers
<1> USE <1>1
    DEF Queue!TypeOK, Queue!Goto, QueueStill, QueueQuiet, Queue!Held, Queue!Filling,
        Queue!Popping, Queue!hazard, Queue!queue, Queue!history
<1>2. CASE Queue!ClaimRecord(c) \/ Queue!LoadHead(c)
  BY <1>2 DEF Queue!ClaimRecord, Queue!LoadHead
<1>3. CASE Queue!StoreHpHead(c) \/ Queue!CheckHead(c)
  BY <1>3 DEF Queue!StoreHpHead, Queue!CheckHead
<1>4. CASE Queue!LoadNext(c) \/ Queue!StoreHpNext(c)
  BY <1>4 DEF Queue!LoadNext, Queue!StoreHpNext
<1>5. CASE Queue!CheckNext(c) \/ Queue!LoadTail(c)
  BY <1>5 DEF Queue!CheckNext, Queue!LoadTail
<1>6. CASE Queue!PopHelp(c)
  BY <1>6 DEF Queue!PopHelp
<1>7. CASE Queue!PopCas(c)
  BY <1>7 DEF Queue!PopCas, QueueTakes, QueueEmpties
<1>8. CASE Queue!ReadData(c)
  BY <1>8 DEF Queue!ReadData
<1>9. CASE Queue!ClearHpHead(c)
  BY <1>9 DEF Queue!ClearHpHead
<1>10. CASE Queue!ClearHpNext(c)
  BY <1>10 DEF Queue!ClearHpNext
<1> QED
  BY <1>2, <1>3, <1>4, <1>5, <1>6, <1>7, <1>8, <1>9, <1>10 DEF Queue!Pop

\* What the other threads hold stays.
LEMMA QueueOthersHold ==
    ASSUME NEW t \in Queue!Callers, QueueOthers(t), NEW u \in Queue!Callers, u # t
    PROVE  Queue!Held(u)' = Queue!Held(u)
BY DEF QueueOthers, Queue!Held

\* When nothing changes hands, every node stays where it is.
LEMMA QueueQuietFrame ==
    ASSUME NEW t \in Queue!Callers, QueueOthers(t), QueueQuiet(t)
    PROVE  /\ \A u \in Queue!Callers : Queue!Held(u)' = Queue!Held(u)
           /\ Queue!Retired' = Queue!Retired /\ Queue!Live' = Queue!Live
           /\ Queue!Popped' = Queue!Popped
           /\ Queue!Apart => Queue!Apart'
<1>1. \A u \in Queue!Callers : Queue!Held(u)' = Queue!Held(u)
  BY QueueOthersHold DEF QueueQuiet
<1>2. Queue!Retired' = Queue!Retired
  BY DEF QueueQuiet, Queue!Retired
<1>3. Queue!Live' = Queue!Live
  BY <1>1, <1>2 DEF QueueQuiet, Queue!Live
<1>4. Queue!Popped' = Queue!Popped
  BY <1>1, <1>2 DEF Queue!Popped, Queue!Callers
<1>5. Queue!Apart => Queue!Apart'
  BY <1>1, <1>2 DEF QueueQuiet, Queue!Apart
<1> QED
  BY <1>1, <1>2, <1>3, <1>4, <1>5

\* The next three leave free or reclaim_list, and the batches, alone.
QueueNoneRetired == q_reclaim_list' = q_reclaim_list /\ q_batch' = q_batch

\* A push takes a node from the heap.
LEMMA QueueAllocFrame ==
    ASSUME Queue!Apart, NEW p \in Producers, QueueOthers(p), NEW x \in q_free,
           Queue!Held(p) = {}, Queue!Held(p)' = {x}, q_free' = q_free \ {x}, QueueNoneRetired
    PROVE  Queue!Apart' /\ Queue!Live' = Queue!Live /\ Queue!Popped' = Queue!Popped
<1>1. p \in Queue!Callers /\ p \notin Consumers
  BY QueueConstantsHold DEF Queue!Callers
<1>2. \A u \in Queue!Callers : u # p => Queue!Held(u)' = Queue!Held(u)
  BY <1>1, QueueOthersHold
<1>3. Queue!Retired' = Queue!Retired
  BY DEF QueueNoneRetired, Queue!Retired
<1>4. x \notin Queue!Retired /\ \A u \in Queue!Callers : x \notin Queue!Held(u)
  BY DEF Queue!Apart
<1>5. Queue!Live' = Queue!Live
  BY <1>1, <1>2, <1>3, <1>4 DEF Queue!Live
<1>6. Queue!Popped' = Queue!Popped
  BY <1>1, <1>2, <1>3 DEF Queue!Popped, Queue!Callers
<1>7. Queue!Apart'
  BY <1>1, <1>2, <1>3, <1>4 DEF Queue!Apart, QueueNoneRetired
<1> QED
  BY <1>5, <1>6, <1>7

\* A push gives its node to the queue.
LEMMA QueueLinkFrame ==
    ASSUME Queue!Apart, NEW p \in Producers, QueueOthers(p), NEW x \in QueueNodes,
           Queue!Held(p) = {x}, Queue!Held(p)' = {}, q_free' = q_free, QueueNoneRetired
    PROVE  /\ Queue!Apart' /\ x \notin Queue!Live /\ Queue!Live' = Queue!Live \cup {x}
           /\ Queue!Popped' = Queue!Popped
<1>1. p \in Queue!Callers /\ p \notin Consumers
  BY QueueConstantsHold DEF Queue!Callers
<1>2. \A u \in Queue!Callers : u # p => Queue!Held(u)' = Queue!Held(u)
  BY <1>1, QueueOthersHold
<1>3. Queue!Retired' = Queue!Retired
  BY DEF QueueNoneRetired, Queue!Retired
<1>4. /\ x \notin q_free \cup Queue!Retired
      /\ \A u \in Queue!Callers : u # p => x \notin Queue!Held(u)
  BY <1>1 DEF Queue!Apart
<1>5. x \notin Queue!Live /\ Queue!Live' = Queue!Live \cup {x}
  BY <1>1, <1>2, <1>3, <1>4 DEF Queue!Live
<1>6. Queue!Popped' = Queue!Popped
  BY <1>1, <1>2, <1>3 DEF Queue!Popped, Queue!Callers
<1>7. Queue!Apart'
  BY <1>1, <1>2, <1>3 DEF Queue!Apart, QueueNoneRetired
<1> QED
  BY <1>5, <1>6, <1>7

\* A pop takes a node from the queue.
LEMMA QueueTakeFrame ==
    ASSUME Queue!Apart, NEW c \in Consumers, QueueOthers(c), NEW x \in Queue!Live,
           Queue!Held(c) = {}, Queue!Held(c)' = {x}, q_free' = q_free, QueueNoneRetired
    PROVE  /\ Queue!Apart' /\ Queue!Live' = Queue!Live \ {x}
           /\ Queue!Popped' = Queue!Popped \cup {x}
<1>1. c \in Queue!Callers
  BY DEF Queue!Callers
<1>2. \A u \in Queue!Callers : u # c => Queue!Held(u)' = Queue!Held(u)
  BY <1>1, QueueOthersHold
<1>3. Queue!Retired' = Queue!Retired
  BY DEF QueueNoneRetired, Queue!Retired
<1>4. x \notin q_free \cup Queue!Retired /\ \A u \in Queue!Callers : x \notin Queue!Held(u)
  BY DEF Queue!Live
<1>5. Queue!Live' = Queue!Live \ {x}
  BY <1>1, <1>2, <1>3 DEF Queue!Live
<1>6. Queue!Popped' = Queue!Popped \cup {x}
  BY <1>1, <1>2, <1>3 DEF Queue!Popped, Queue!Callers
<1>7. Queue!Apart'
  BY <1>1, <1>2, <1>3, <1>4 DEF Queue!Apart, QueueNoneRetired
<1> QED
  BY <1>5, <1>6, <1>7

\* A pop retires its node.
LEMMA QueueLaterFrame ==
    ASSUME Queue!TypeOK, Queue!Apart, NEW c \in Consumers, QueueOthers(c), Queue!PopperOK(c),
           Queue!ReclaimLater(c)
    PROVE  /\ Queue!Apart' /\ Queue!Live' = Queue!Live /\ Queue!Popped' = Queue!Popped
           /\ q_free' = q_free
           /\ Queue!Retired' = Queue!Retired \cup {q_h[c]} /\ Queue!Held(c) = {q_h[c]}
<1>1. c \in Queue!Callers
  BY DEF Queue!Callers
<1>2. \A u \in Queue!Callers : u # c => Queue!Held(u)' = Queue!Held(u)
  BY <1>1, QueueOthersHold
<1>3. Queue!Held(c) = {q_h[c]} /\ Queue!Held(c)' = {}
  BY <1>1
  DEF Queue!ReclaimLater, Queue!Goto, Queue!Held, Queue!Filling, Queue!Popping,
      Queue!TypeOK
<1>4. /\ q_reclaim_list' = q_reclaim_list \cup {q_h[c]} /\ q_batch' = q_batch /\ q_free' = q_free
  BY DEF Queue!ReclaimLater, Queue!queue
<1>5. Queue!Retired' = Queue!Retired \cup {q_h[c]}
  BY <1>4 DEF Queue!Retired
<1>6. /\ q_h[c] \notin q_free \cup Queue!Retired
      /\ \A u \in Queue!Callers : u # c => q_h[c] \notin Queue!Held(u)
  BY <1>1, <1>3 DEF Queue!Apart
<1>7. Queue!Live' = Queue!Live
  BY <1>1, <1>2, <1>3, <1>4, <1>5 DEF Queue!Live
<1>8. Queue!Popped' = Queue!Popped
  <2>1. \A x : x \in Queue!Popped <=> x \in Queue!Retired
            \/ \E d \in Consumers : x \in Queue!Held(d)
    BY DEF Queue!Popped
  <2>2. \A x : x \in Queue!Popped' <=> x \in Queue!Retired'
            \/ \E d \in Consumers : x \in Queue!Held(d)'
    BY DEF Queue!Popped
  <2>3. \A x : x \in Queue!Popped' <=> x \in Queue!Popped
    BY <1>2, <1>3, <1>5, <2>1, <2>2 DEF Queue!Callers
  <2> QED
    BY <2>3
<1>9. \A d \in Consumers : q_h[c] \notin q_batch[d]
  BY <1>6 DEF Queue!Retired
<1>10. Queue!Apart'
  BY <1>1, <1>2, <1>3, <1>4, <1>5, <1>6, <1>9 DEF Queue!Apart
<1> QED
  BY <1>3, <1>4, <1>5, <1>7, <1>8, <1>10

\* Reclaiming a retired node, or none, with the nodes that threads hold as they are.
QueueHeldStay == \A u \in Queue!Callers : Queue!Held(u)' = Queue!Held(u)

\* The whole reclaim_list becomes one thread's batch.
LEMMA QueueExchangeFrame ==
    ASSUME Queue!TypeOK, Queue!Apart, NEW c \in Consumers, QueueOthers(c), Queue!PopperOK(c),
           Queue!ExchangeList(c)
    PROVE  /\ Queue!Apart' /\ Queue!Live' = Queue!Live /\ Queue!Popped' = Queue!Popped
           /\ q_free' = q_free
           /\ Queue!Retired' = Queue!Retired /\ QueueHeldStay
<1>1. c \in Queue!Callers /\ q_pc[c] = "exchange" /\ q_pc' = [q_pc EXCEPT ![c] = "node"]
  BY DEF Queue!Callers, Queue!ExchangeList, Queue!Goto
<1>2. QueueHeldStay
  BY <1>1, QueueOthersHold
  DEF QueueHeldStay, Queue!Held, Queue!Filling, Queue!Popping, Queue!TypeOK
<1>3. /\ q_batch' = [q_batch EXCEPT ![c] = q_reclaim_list] /\ q_reclaim_list' = {}
      /\ q_free' = q_free
      /\ q_batch[c] = {}
  BY <1>1 DEF Queue!ExchangeList, Queue!PopperOK, Queue!queue
<1>4. /\ q_batch'[c] = q_reclaim_list /\ \A d \in Consumers : d # c => q_batch'[d] = q_batch[d]
  BY <1>3 DEF Queue!TypeOK
<1>5. Queue!Retired' = Queue!Retired
  BY <1>3, <1>4 DEF Queue!Retired
<1>6. Queue!Live' = Queue!Live /\ Queue!Popped' = Queue!Popped
  BY <1>2, <1>3, <1>5 DEF Queue!Live, Queue!Popped, QueueHeldStay, Queue!Callers
<1>7. Queue!Apart'
  BY <1>2, <1>3, <1>4, <1>5 DEF Queue!Apart, QueueHeldStay
<1> QED
  BY <1>2, <1>3, <1>5, <1>6, <1>7

\* A node without a hazard goes back to the heap.
LEMMA QueueDeleteFrame ==
    ASSUME Queue!TypeOK, Queue!Apart, NEW c \in Consumers, QueueOthers(c), Queue!PopperOK(c),
           Queue!Delete(c)
    PROVE  /\ Queue!Apart' /\ Queue!Live' = Queue!Live
           /\ Queue!Popped' = Queue!Popped \ {q_cur[c]}
           /\ q_free' = q_free \cup {q_cur[c]} /\ q_cur[c] \in QueueNodes /\ QueueHeldStay
           /\ Queue!Retired' = Queue!Retired \ {q_cur[c]}
<1>1. c \in Queue!Callers /\ q_pc[c] = "scan" /\ q_pc' = [q_pc EXCEPT ![c] = "node"]
  BY DEF Queue!Callers, Queue!Delete, Queue!Goto
<1>2. QueueHeldStay
  BY <1>1, QueueOthersHold
  DEF QueueHeldStay, Queue!Held, Queue!Filling, Queue!Popping, Queue!TypeOK
<1>3. q_cur[c] \in QueueNodes /\ q_cur[c] \in q_batch[c]
  BY <1>1, QueueScannedNode
<1>4. /\ q_batch' = [q_batch EXCEPT ![c] = @ \ {q_cur[c]}] /\ q_reclaim_list' = q_reclaim_list
      /\ q_free' = q_free \cup {q_cur[c]}
  BY DEF Queue!Delete, Queue!Dispose
<1>5. /\ q_batch'[c] = q_batch[c] \ {q_cur[c]}
      /\ \A d \in Consumers : d # c => q_batch'[d] = q_batch[d]
  BY <1>4 DEF Queue!TypeOK
<1>6. q_cur[c] \notin q_reclaim_list /\ \A d \in Consumers : d # c => q_cur[c] \notin q_batch[d]
  BY <1>3 DEF Queue!Apart
<1>7. Queue!Retired' = Queue!Retired \ {q_cur[c]}
  BY <1>4, <1>5, <1>6 DEF Queue!Retired
<1>8. q_cur[c] \in Queue!Retired
  BY <1>3 DEF Queue!Retired
<1>9. \A u \in Queue!Callers : q_cur[c] \notin Queue!Held(u)
  BY <1>8 DEF Queue!Apart
<1>10. Queue!Live' = Queue!Live
  BY <1>2, <1>4, <1>7, <1>8 DEF Queue!Live, QueueHeldStay
<1>11. Queue!Popped' = Queue!Popped \ {q_cur[c]}
  BY <1>2, <1>7, <1>9 DEF Queue!Popped, QueueHeldStay, Queue!Callers
<1>12. Queue!Apart'
  BY <1>2, <1>4, <1>5, <1>7, <1>9 DEF Queue!Apart, QueueHeldStay
<1> QED
  BY <1>2, <1>3, <1>4, <1>7, <1>10, <1>11, <1>12

\* One with a hazard goes back to reclaim_list.
LEMMA QueueKeepFrame ==
    ASSUME Queue!TypeOK, Queue!Apart, NEW c \in Consumers, QueueOthers(c), Queue!PopperOK(c),
           Queue!KeepForLater(c)
    PROVE  /\ Queue!Apart' /\ Queue!Live' = Queue!Live /\ Queue!Popped' = Queue!Popped
           /\ q_free' = q_free
           /\ Queue!Retired' = Queue!Retired /\ QueueHeldStay
<1>1. c \in Queue!Callers /\ q_pc[c] = "keep" /\ q_pc' = [q_pc EXCEPT ![c] = "node"]
  BY DEF Queue!Callers, Queue!KeepForLater, Queue!Goto
<1>2. QueueHeldStay
  BY <1>1, QueueOthersHold
  DEF QueueHeldStay, Queue!Held, Queue!Filling, Queue!Popping, Queue!TypeOK
<1>3. q_cur[c] \in q_batch[c]
  BY <1>1, QueueScannedNode
<1>4. /\ q_batch' = [q_batch EXCEPT ![c] = @ \ {q_cur[c]}]
      /\ q_reclaim_list' = q_reclaim_list \cup {q_cur[c]} /\ q_free' = q_free
  BY DEF Queue!KeepForLater, Queue!Dispose
<1>5. /\ q_batch'[c] = q_batch[c] \ {q_cur[c]}
      /\ \A d \in Consumers : d # c => q_batch'[d] = q_batch[d]
  BY <1>4 DEF Queue!TypeOK
<1>6. \A d \in Consumers : d # c => q_cur[c] \notin q_batch[d]
  BY <1>3 DEF Queue!Apart
<1>7. Queue!Retired' = Queue!Retired
  BY <1>3, <1>4, <1>5 DEF Queue!Retired
<1>8. Queue!Live' = Queue!Live /\ Queue!Popped' = Queue!Popped
  BY <1>2, <1>4, <1>7 DEF Queue!Live, Queue!Popped, QueueHeldStay, Queue!Callers
<1>9. Queue!Apart'
  BY <1>2, <1>4, <1>5, <1>6, <1>7 DEF Queue!Apart, QueueHeldStay
<1> QED
  BY <1>2, <1>4, <1>7, <1>8, <1>9

\* Picking a node from the batch and scanning the records move nothing.
LEMMA QueueScanQuiet ==
    ASSUME Queue!TypeOK, NEW c \in Consumers, Queue!NextNode(c) \/ Queue!ScanRecord(c)
    PROVE  QueueQuiet(c)
<1>1. c \in Queue!Callers
  BY DEF Queue!Callers
<1> USE <1>1
    DEF Queue!TypeOK, Queue!Goto, QueueQuiet, Queue!Held, Queue!Filling, Queue!Popping,
        Queue!queue
<1>2. CASE Queue!NextNode(c)
  BY <1>2 DEF Queue!NextNode
<1>3. CASE Queue!ScanRecord(c)
  BY <1>3 DEF Queue!ScanRecord
<1> QED
  BY <1>2, <1>3

\* Reclaiming leaves the queue alone.
LEMMA QueueReclaimFrame ==
    ASSUME Queue!TypeOK, Queue!Apart, NEW c \in Consumers, QueueOthers(c), Queue!PopperOK(c),
           Queue!Reclaim(c)
    PROVE  /\ Queue!Apart' /\ Queue!Live' = Queue!Live
           /\ UNCHANGED <<q_head, q_tail, q_next, q_data, Queue!history, q_nd, q_tl, q_n, q_hp>>
           /\ \A d \in Consumers : q_pc'[d] \in Queue!InPop => q_pc'[d] = q_pc[d]
<1>1. c \in Queue!Callers
  BY DEF Queue!Callers
<1>2. Queue!Apart' /\ Queue!Live' = Queue!Live
  BY <1>1, QueueLaterFrame, QueueExchangeFrame, QueueDeleteFrame, QueueKeepFrame,
      QueueScanQuiet, QueueQuietFrame
  DEF Queue!Reclaim
<1>3. UNCHANGED <<q_head, q_tail, q_next, q_data, Queue!history, q_nd, q_tl, q_n, q_hp>>
  <2> USE DEF Queue!queue, Queue!history
  <2>1. CASE Queue!ReclaimLater(c)
    BY <2>1 DEF Queue!ReclaimLater
  <2>2. CASE Queue!ExchangeList(c)
    BY <2>2 DEF Queue!ExchangeList
  <2>3. CASE Queue!NextNode(c)
    BY <2>3 DEF Queue!NextNode
  <2>4. CASE Queue!ScanRecord(c)
    BY <2>4 DEF Queue!ScanRecord
  <2>5. CASE Queue!Delete(c) \/ Queue!KeepForLater(c)
    BY <2>5 DEF Queue!Delete, Queue!KeepForLater, Queue!Dispose
  <2> QED
    BY <2>1, <2>2, <2>3, <2>4, <2>5 DEF Queue!Reclaim
<1>4. q_pc'[c] \in {"idle", "exchange", "node", "scan", "keep"}
  <2> USE <1>1 DEF Queue!TypeOK, Queue!Goto
  <2>1. CASE Queue!ReclaimLater(c) \/ Queue!ExchangeList(c) \/ Queue!NextNode(c)
    BY <2>1 DEF Queue!ReclaimLater, Queue!ExchangeList, Queue!NextNode
  <2>2. CASE Queue!ScanRecord(c)
    BY <2>2 DEF Queue!ScanRecord
  <2>3. CASE Queue!Delete(c) \/ Queue!KeepForLater(c)
    BY <2>3 DEF Queue!Delete, Queue!KeepForLater
  <2> QED
    BY <2>1, <2>2, <2>3 DEF Queue!Reclaim
<1>5. q_pc'[c] \notin Queue!InPop
  BY <1>4, QueuePopCounters
<1> QED
  BY <1>2, <1>3, <1>5 DEF QueueOthers, Queue!Callers

-----------------------------------------------------------------------------
(* Every step keeps the places apart *)

\* A push that takes or links its node.
LEMMA QueuePushMoves ==
    ASSUME Queue!TypeOK, Queue!Apart, NEW p \in Producers, QueueOthers(p), Queue!PusherOK(p)
    PROVE  /\ Queue!PushAlloc(p) =>
                \E x \in q_free :
                    /\ Queue!Apart' /\ Queue!Live' = Queue!Live /\ Queue!Popped' = Queue!Popped
                    /\ q_next' = [q_next EXCEPT ![x] = Null] /\ q_nd' = [q_nd EXCEPT ![p] = x]
                    /\ q_data' = [q_data EXCEPT ![x] = called'] /\ q_free' = q_free \ {x}
                    /\ UNCHANGED <<q_head, q_tail, pushed, popped>>
           /\ QueueLinks(p) =>
                /\ Queue!Apart' /\ q_nd[p] \in QueueNodes \ Queue!Live
                /\ Queue!Live' = Queue!Live \cup {q_nd[p]}
                /\ Queue!Popped' = Queue!Popped /\ q_next' = [q_next EXCEPT ![q_tl[p]] = q_nd[p]]
                /\ pushed' = Append(pushed, q_data[q_nd[p]])
                /\ UNCHANGED <<q_head, q_tail, q_data, popped, q_nd, q_tl, q_free>>
                /\ q_pc[p] = "p_link" /\ q_pc'[p] = "p_advance"
<1>1. p \in Queue!Callers
  BY DEF Queue!Callers
<1>2. ASSUME Queue!PushAlloc(p)
      PROVE  \E x \in q_free :
                    /\ Queue!Apart' /\ Queue!Live' = Queue!Live /\ Queue!Popped' = Queue!Popped
                    /\ q_next' = [q_next EXCEPT ![x] = Null] /\ q_nd' = [q_nd EXCEPT ![p] = x]
                    /\ q_data' = [q_data EXCEPT ![x] = called'] /\ q_free' = q_free \ {x}
                    /\ UNCHANGED <<q_head, q_tail, pushed, popped>>
  <2>1. PICK x \in q_free : /\ q_free' = q_free \ {x} /\ q_nd' = [q_nd EXCEPT ![p] = x]
                            /\ q_data' = [q_data EXCEPT ![x] = called']
                            /\ q_next' = [q_next EXCEPT ![x] = Null]
    BY <1>2 DEF Queue!PushAlloc
  <2>2. UNCHANGED <<q_head, q_tail, pushed, popped>> /\ QueueNoneRetired
    BY <1>2 DEF Queue!PushAlloc, Queue!hazard, QueueNoneRetired
  <2>3. Queue!Held(p) = {} /\ Queue!Held(p)' = {x}
    BY <1>1, <1>2, <2>1
    DEF Queue!PushAlloc, Queue!Goto, Queue!Held, Queue!Filling, Queue!Popping, Queue!TypeOK
  <2>4. Queue!Apart' /\ Queue!Live' = Queue!Live /\ Queue!Popped' = Queue!Popped
    BY <2>1, <2>2, <2>3, QueueAllocFrame
  <2> QED
    BY <2>1, <2>2, <2>4
<1>3. ASSUME QueueLinks(p)
      PROVE  /\ Queue!Apart' /\ q_nd[p] \in QueueNodes \ Queue!Live
             /\ Queue!Live' = Queue!Live \cup {q_nd[p]}
             /\ Queue!Popped' = Queue!Popped /\ q_next' = [q_next EXCEPT ![q_tl[p]] = q_nd[p]]
             /\ pushed' = Append(pushed, q_data[q_nd[p]])
             /\ UNCHANGED <<q_head, q_tail, q_data, popped, q_nd, q_tl, q_free>>
             /\ q_pc[p] = "p_link" /\ q_pc'[p] = "p_advance"
  <2>1. /\ q_pc[p] = "p_link" /\ q_pc' = [q_pc EXCEPT ![p] = "p_advance"]
        /\ q_next' = [q_next EXCEPT ![q_tl[p]] = q_nd[p]]
        /\ pushed' = Append(pushed, q_data[q_nd[p]])
        /\ UNCHANGED <<q_head, q_tail, q_data, popped, q_nd, q_tl, q_free>> /\ QueueNoneRetired
    BY <1>3 DEF QueueLinks, Queue!PushLink, Queue!hazard, QueueNoneRetired
  <2>2. q_nd[p] \in QueueNodes
    BY <1>1, <2>1
    DEF Queue!PusherOK, Queue!Pushing, Queue!Filling, Queue!TypeOK, Queue!NodeOrNull
  <2>3. Queue!Held(p) = {q_nd[p]} /\ Queue!Held(p)' = {}
    BY <1>1, <2>1 DEF Queue!Held, Queue!Filling, Queue!Popping, Queue!TypeOK
  <2>4. /\ Queue!Apart' /\ q_nd[p] \notin Queue!Live
        /\ Queue!Live' = Queue!Live \cup {q_nd[p]} /\ Queue!Popped' = Queue!Popped
    BY <2>1, <2>2, <2>3, QueueLinkFrame
  <2> QED
    BY <1>1, <2>1, <2>2, <2>4 DEF Queue!TypeOK
<1> QED
  BY <1>2, <1>3

\* A pop that moves head_.
LEMMA QueuePopMoves ==
    ASSUME Queue!TypeOK, Queue!Apart, Queue!Shape, NEW c \in Consumers, QueueOthers(c),
           Queue!PopperOK(c)
    PROVE  /\ QueueTakes(c) =>
                /\ Queue!Apart' /\ q_head \in Queue!Live /\ Queue!Live' = Queue!Live \ {q_head}
                /\ Queue!Popped' = Queue!Popped \cup {q_head}
                /\ q_head = q_h[c] /\ q_head' = q_n[c] /\ q_n[c] # Null
                /\ popped' = Append(popped, q_data[q_n[c]])
           /\ QueueEmpties(c) =>
                /\ Queue!Apart' /\ Queue!Live' = Queue!Live
                /\ Queue!Popped' = Queue!Popped /\ q_head' = Null
           /\ QueueTakes(c) \/ QueueEmpties(c) =>
                /\ UNCHANGED <<q_tail, q_next, q_data, pushed, q_nd, q_tl, q_h, q_n, q_free>>
                /\ q_pc[c] = "cas" /\ q_pc'[c] = "read"
<1>1. c \in Queue!Callers
  BY DEF Queue!Callers
<1>2. ASSUME QueueTakes(c) \/ QueueEmpties(c)
      PROVE  /\ UNCHANGED <<q_tail, q_next, q_data, pushed, q_nd, q_tl, q_h, q_n,
                             q_free, q_reclaim_list, q_batch>>
             /\ q_pc[c] = "cas" /\ q_pc' = [q_pc EXCEPT ![c] = "read"] /\ q_pc'[c] = "read"
             /\ q_head = q_h[c] /\ q_head' = q_n[c]
             /\ popped' = IF q_n[c] = Null THEN popped ELSE Append(popped, q_data[q_n[c]])
  <2>1. /\ UNCHANGED <<q_tail, q_next, q_data, pushed, q_nd, q_tl, q_h, q_n,
                             q_free, q_reclaim_list, q_batch>>
        /\ q_pc[c] = "cas" /\ q_pc' = [q_pc EXCEPT ![c] = "read"]
        /\ q_head = q_h[c] /\ q_head' = q_n[c]
        /\ popped' = IF q_n[c] = Null THEN popped ELSE Append(popped, q_data[q_n[c]])
    BY <1>2 DEF QueueTakes, QueueEmpties, Queue!PopCas, Queue!hazard
  <2> QED
    BY <1>1, <2>1 DEF Queue!TypeOK
<1>3. ASSUME QueueTakes(c)
      PROVE  /\ Queue!Apart' /\ q_head \in Queue!Live
             /\ Queue!Live' = Queue!Live \ {q_head}
             /\ Queue!Popped' = Queue!Popped \cup {q_head}
  <2>1. q_h[c] # Null
    BY <1>2, <1>3, QueuePopCounters DEF Queue!PopperOK
  <2>2. q_head \in Queue!Live
    BY <1>2, <1>3, <2>1 DEF Queue!Shape
  <2>3. Queue!Held(c) = {} /\ Queue!Held(c)' = {q_head}
    BY <1>2, <1>3 DEF QueueTakes, Queue!Held, Queue!Filling, Queue!Popping
  <2>4. q_free' = q_free /\ QueueNoneRetired
    BY <1>2, <1>3 DEF QueueNoneRetired
  <2> QED
    BY <2>2, <2>3, <2>4, QueueTakeFrame
<1>4. ASSUME QueueEmpties(c)
      PROVE  /\ Queue!Apart' /\ Queue!Live' = Queue!Live /\ Queue!Popped' = Queue!Popped
             /\ q_head' = Null
  <2>1. Queue!Held(c) = {} /\ Queue!Held(c)' = {}
    BY <1>2, <1>4 DEF QueueEmpties, Queue!Held, Queue!Filling, Queue!Popping
  <2>2. QueueQuiet(c)
    BY <1>2, <1>4, <2>1 DEF QueueQuiet
  <2> QED
    BY <1>1, <1>2, <1>4, <2>2, QueueQuietFrame DEF QueueEmpties
<1> QED
  BY <1>2, <1>3, <1>4 DEF QueueTakes, QueueEmpties

\* Every step keeps them apart.
LEMMA QueueStepApart ==
    ASSUME Queue!TypeOK, Queue!LocalsOK, Queue!Apart, Queue!Shape, NEW t \in Queue!Callers,
           QueueStepOf(t)
    PROVE  Queue!Apart'
<1>1. QueueOthers(t)
  BY QueueStepOthers
<1>2. CASE t \in Producers /\ Queue!Push(t)
  BY <1>1, <1>2, QueuePushCases, QueuePushMoves, QueueQuietFrame
  DEF Queue!LocalsOK, QueueStill
<1>3. CASE t \in Consumers /\ Queue!Pop(t)
  BY <1>1, <1>3, QueuePopCases, QueuePopMoves, QueueQuietFrame
  DEF Queue!LocalsOK, QueueStill
<1>4. CASE t \in Consumers /\ Queue!Reclaim(t)
  BY <1>1, <1>4, QueueReclaimFrame DEF Queue!LocalsOK
<1> QED
  BY <1>2, <1>3, <1>4 DEF QueueStepOf

-----------------------------------------------------------------------------
(* The line of nodes *)

\* A push that is filling was filling the same node before, unless it just took it.
LEMMA QueuePushFilling ==
    ASSUME Queue!TypeOK, NEW p \in Producers, Queue!Push(p), ~Queue!PushAlloc(p),
           q_pc'[p] \in Queue!Filling
    PROVE  q_pc[p] \in Queue!Filling /\ q_nd'[p] = q_nd[p]
<1>1. p \in Queue!Callers
  BY DEF Queue!Callers
<1> USE <1>1 DEF Queue!TypeOK, Queue!Goto, Queue!Filling
<1>2. CASE Queue!PushLoadTail(p) \/ Queue!PushLoadNext(p)
  BY <1>2 DEF Queue!PushLoadTail, Queue!PushLoadNext
<1>3. CASE Queue!PushCheck(p) \/ Queue!PushLink(p)
  BY <1>3 DEF Queue!PushCheck, Queue!PushLink
<1>4. CASE Queue!PushAdvance(p) \/ Queue!PushHelp(p)
  BY <1>4 DEF Queue!PushAdvance, Queue!PushHelp
<1> QED
  BY <1>2, <1>3, <1>4 DEF Queue!Push

\* How tail_ moves.
LEMMA QueuePushTail ==
    ASSUME NEW p \in Producers, Queue!Push(p)
    PROVE  \/ q_tail' = q_tail
           \/ /\ Queue!PushAdvance(p) /\ q_pc[p] = "p_advance" /\ q_tail = q_tl[p]
              /\ q_tail' = q_nd[p]
           \/ Queue!PushHelp(p) /\ q_pc[p] = "p_help" /\ q_tail = q_tl[p] /\ q_tail' = q_n[p]
<1> USE DEF Queue!Goto, Queue!queue
<1>1. CASE Queue!PushAlloc(p) \/ Queue!PushLoadTail(p) \/ Queue!PushLoadNext(p)
  BY <1>1 DEF Queue!PushAlloc, Queue!PushLoadTail, Queue!PushLoadNext
<1>2. CASE Queue!PushCheck(p) \/ Queue!PushLink(p)
  BY <1>2 DEF Queue!PushCheck, Queue!PushLink
<1>3. CASE Queue!PushAdvance(p)
  BY <1>3 DEF Queue!PushAdvance
<1>4. CASE Queue!PushHelp(p)
  BY <1>4 DEF Queue!PushHelp
<1> QED
  BY <1>1, <1>2, <1>3, <1>4 DEF Queue!Push

\* And a pop.
LEMMA QueuePopTail ==
    ASSUME NEW c \in Consumers, Queue!Pop(c)
    PROVE  \/ q_tail' = q_tail
           \/ Queue!PopHelp(c) /\ q_pc[c] = "help" /\ q_tail = q_h[c] /\ q_tail' = q_n[c]
<1> USE DEF Queue!Goto, Queue!queue
<1>1. CASE \/ Queue!ClaimRecord(c) \/ Queue!LoadHead(c) \/ Queue!StoreHpHead(c)
           \/ Queue!CheckHead(c) \/ Queue!LoadNext(c)
  BY <1>1
  DEF Queue!ClaimRecord, Queue!LoadHead, Queue!StoreHpHead, Queue!CheckHead, Queue!LoadNext
<1>2. CASE Queue!StoreHpNext(c) \/ Queue!CheckNext(c) \/ Queue!LoadTail(c)
  BY <1>2 DEF Queue!StoreHpNext, Queue!CheckNext, Queue!LoadTail
<1>3. CASE Queue!PopHelp(c)
  BY <1>3 DEF Queue!PopHelp
<1>4. CASE Queue!PopCas(c) \/ Queue!ReadData(c) \/ Queue!ClearHpHead(c) \/ Queue!ClearHpNext(c)
  BY <1>4 DEF Queue!PopCas, Queue!ReadData, Queue!ClearHpHead, Queue!ClearHpNext
<1> QED
  BY <1>1, <1>2, <1>3, <1>4 DEF Queue!Pop

\* The pop that moves tail_ moves it from the sentinel to the node after it.
LEMMA QueueHelpsTail ==
    ASSUME Queue!TypeOK, Queue!Protected, Queue!Shape, NEW c \in Consumers, Queue!PopperOK(c),
           q_pc[c] = "help",
           q_tail = q_h[c]
    PROVE  q_n[c] = q_next[q_tail] /\ q_n[c] \in Queue!Live /\ q_n[c] # q_head
<1>1. q_pc[c] \in Queue!Sure \ {"next"}
  BY QueuePopCounters
<1>2. q_n[c] = q_next[q_h[c]] /\ q_n[c] # Null
  BY <1>1 DEF Queue!Protected, Queue!ProtectedFor, Queue!PopperOK
<1> QED
  BY <1>2 DEF Queue!Shape

\* A step that leaves the links and head_ alone.
LEMMA QueueShapeFrame ==
    ASSUME Queue!Shape, Queue!Live' = Queue!Live, q_head' = q_head \/ q_head' = Null,
           q_next' = q_next, q_tail' \in Queue!Live,
           \A p \in Producers : q_pc'[p] \in Queue!Filling
               => q_pc[p] \in Queue!Filling /\ q_nd'[p] = q_nd[p]
    PROVE  Queue!Shape'
<1>1. q_head' \in Queue!Live' \cup {Null}
  BY DEF Queue!Shape
<1>2. ASSUME NEW x \in Queue!Live'
      PROVE  /\ q_next'[x] \in Queue!Live' \cup {Null}
             /\ q_next'[x] # Null => q_next'[x] # q_head'
             /\ \A y \in Queue!Live' : q_next'[x] = q_next'[y] /\ q_next'[x] # Null => x = y
  BY <1>2 DEF Queue!Shape
<1>3. \A p \in Producers : q_pc'[p] \in Queue!Filling => q_next'[q_nd'[p]] = Null
  BY DEF Queue!Shape
<1> QED
  BY <1>1, <1>2, <1>3 DEF Queue!Shape

\* A new node is not in the line yet.
LEMMA QueueShapeAlloc ==
    ASSUME Queue!TypeOK, Queue!Shape, NEW p \in Producers, QueueOthers(p), NEW x \in q_free,
           Queue!Live' = Queue!Live,
           q_next' = [q_next EXCEPT ![x] = Null], q_nd' = [q_nd EXCEPT ![p] = x],
           q_head' = q_head,
           q_tail' = q_tail
    PROVE  Queue!Shape'
<1>1. x \notin Queue!Live /\ x \in QueueNodes /\ Queue!Live \subseteq QueueNodes
  BY DEF Queue!Live, Queue!TypeOK
<1>2. \A y \in Queue!Live : q_next'[y] = q_next[y]
  BY <1>1 DEF Queue!TypeOK
<1>3. ASSUME NEW q \in Producers, q_pc'[q] \in Queue!Filling
      PROVE  q_next'[q_nd'[q]] = Null
  <2>1. CASE q = p
    BY <1>1, <2>1 DEF Queue!TypeOK, Queue!Callers
  <2>2. CASE q # p
    <3>1. q_nd'[q] = q_nd[q] /\ q_next[q_nd[q]] = Null
      BY <1>3, <2>2 DEF QueueOthers, Queue!Callers, Queue!Shape
    <3> QED
      BY <1>1, <3>1 DEF Queue!TypeOK
  <2> QED
    BY <2>1, <2>2
<1> QED
  BY <1>2, <1>3 DEF Queue!Shape

\* A linked node is at the end of it.
LEMMA QueueShapeLink ==
    ASSUME Queue!TypeOK, Queue!Shape, Queue!Apart, NEW p \in Producers, QueueOthers(p),
           Queue!PusherOK(p),
           NEW l \in Queue!Live, q_next[l] = Null, NEW x \in QueueNodes \ Queue!Live,
           Queue!Live' = Queue!Live \cup {x},
           q_next[x] = Null,
           q_next' = [q_next EXCEPT ![l] = x], q_nd' = q_nd, q_head' = q_head, q_tail' = q_tail,
           q_pc'[p] = "p_advance"
    PROVE  Queue!Shape'
<1>1. l # x /\ Queue!Live \subseteq QueueNodes /\ Null \notin QueueNodes
  BY QueueConstantsHold DEF Queue!Live
<1>2. /\ q_next'[l] = x /\ q_next'[x] = Null
      /\ \A y \in Queue!Live : y # l => q_next'[y] = q_next[y]
  BY <1>1 DEF Queue!TypeOK
<1>3. q_head' # x /\ q_head' \in Queue!Live' \cup {Null} /\ q_tail' \in Queue!Live'
  BY <1>1 DEF Queue!Shape
<1>4. \A y \in Queue!Live : q_next[y] # x
  BY <1>1 DEF Queue!Shape
<1>5. ASSUME NEW y \in Queue!Live'
      PROVE  /\ q_next'[y] \in Queue!Live' \cup {Null}
             /\ q_next'[y] # Null => q_next'[y] # q_head'
             /\ \A z \in Queue!Live' : q_next'[y] = q_next'[z] /\ q_next'[y] # Null => y = z
  BY <1>1, <1>2, <1>3, <1>4, <1>5 DEF Queue!Shape
<1>6. ASSUME NEW q \in Producers, q_pc'[q] \in Queue!Filling
      PROVE  q_next'[q_nd'[q]] = Null
  <2>1. q # p /\ q_pc[q] \in Queue!Filling
    BY <1>6 DEF Queue!Filling, QueueOthers, Queue!Callers
  <2>2. q_nd[q] \in Queue!Held(q) /\ q \in Queue!Callers
    BY <2>1 DEF Queue!Held, Queue!Callers
  <2>3. q_nd[q] # l
    BY <2>2 DEF Queue!Live
  <2> QED
    BY <2>1, <2>3 DEF Queue!Shape, Queue!TypeOK
<1> QED
  BY <1>3, <1>5, <1>6 DEF Queue!Shape

\* A node taken was its first.
LEMMA QueueShapeTake ==
    ASSUME Queue!Shape, q_head \in Queue!Live, q_head # q_tail,
           Queue!Live' = Queue!Live \ {q_head},
           q_head' = q_next[q_head], q_head' # Null, q_next' = q_next, q_tail' = q_tail,
           \A p \in Producers : q_pc'[p] \in Queue!Filling
               => q_pc[p] \in Queue!Filling /\ q_nd'[p] = q_nd[p]
    PROVE  Queue!Shape'
<1>1. q_head' \in Queue!Live' /\ q_tail' \in Queue!Live'
  BY DEF Queue!Shape
<1>2. ASSUME NEW x \in Queue!Live'
      PROVE  /\ q_next'[x] \in Queue!Live' \cup {Null}
             /\ q_next'[x] # Null => q_next'[x] # q_head'
             /\ \A y \in Queue!Live' : q_next'[x] = q_next'[y] /\ q_next'[x] # Null => x = y
  BY <1>2 DEF Queue!Shape
<1>3. \A p \in Producers : q_pc'[p] \in Queue!Filling => q_next'[q_nd'[p]] = Null
  BY DEF Queue!Shape
<1> QED
  BY <1>1, <1>2, <1>3 DEF Queue!Shape

\* What a pop that takes a node knows: there is a node after the first, and tail_ is not the
\* first.
LEMMA QueueTakesFirst ==
    ASSUME Queue!TypeOK, Queue!Shape, Queue!Protected, NEW c \in Consumers, Queue!PopperOK(c),
           q_pc[c] = "cas", q_head = q_h[c]
    PROVE  /\ q_head \in Queue!Live /\ q_head # q_tail
           /\ q_n[c] # Null
                  => q_n[c] = q_next[q_head] /\ q_n[c] \in Queue!Live /\ q_n[c] # q_head
<1>1. q_pc[c] \in Queue!Sure \ {"next"}
  BY QueuePopCounters
<1>2. q_n[c] \in {Null, q_next[q_head]} /\ q_head # q_tail /\ q_head # Null
  BY <1>1 DEF Queue!Protected, Queue!ProtectedFor, Queue!PopperOK
<1> QED
  BY <1>2 DEF Queue!Shape

\* Every step keeps the line.
LEMMA QueueStepShape ==
    ASSUME Queue!TypeOK, Queue!LocalsOK, Queue!Apart, Queue!Shape, Queue!Protected,
           Queue!PushOK,
           NEW t \in Queue!Callers, QueueStepOf(t)
    PROVE  Queue!Shape'
<1>1. QueueOthers(t)
  BY QueueStepOthers
<1>2. CASE t \in Producers /\ Queue!Push(t)
  <2>1. Queue!PusherOK(t)
    BY <1>2 DEF Queue!LocalsOK
  <2>2. CASE Queue!PushAlloc(t)
    BY <1>1, <1>2, <2>1, <2>2, QueuePushMoves, QueueShapeAlloc
  <2>3. CASE QueueLinks(t)
    <3>1. /\ q_nd[t] \in QueueNodes \ Queue!Live /\ Queue!Live' = Queue!Live \cup {q_nd[t]}
          /\ q_next' = [q_next EXCEPT ![q_tl[t]] = q_nd[t]]
          /\ UNCHANGED <<q_head, q_tail, q_nd>> /\ q_pc[t] = "p_link" /\ q_pc'[t] = "p_advance"
      BY <1>1, <1>2, <2>1, <2>3, QueuePushMoves
    <3>2. q_tl[t] \in Queue!Live /\ q_next[q_tl[t]] = Null /\ q_next[q_nd[t]] = Null
      BY <1>2, <2>3, <3>1
      DEF Queue!PushOK, Queue!PushSafe, Queue!Behind, Queue!Filling, Queue!Shape,
          QueueLinks
    <3> QED
      BY <1>1, <1>2, <2>1, <3>1, <3>2, QueueShapeLink
  <2>4. CASE QueueStill(t) /\ ~Queue!PushAlloc(t)
    <3>1. q_tail' \in Queue!Live
      <4>1. q_pc[t] = "p_advance" => q_nd[t] \in Queue!Live
        BY <1>2 DEF Queue!PushOK, Queue!PushSafe
      <4>2. q_pc[t] = "p_help" => q_n[t] \in Queue!Live
        BY <1>2, <2>1 DEF Queue!PushOK, Queue!PushSafe, Queue!Behind, Queue!PusherOK
      <4> QED
        BY <1>2, <4>1, <4>2, QueuePushTail DEF Queue!Shape
    <3>2. \A p \in Producers : q_pc'[p] \in Queue!Filling
              => q_pc[p] \in Queue!Filling /\ q_nd'[p] = q_nd[p]
      BY <1>1, <1>2, <2>4, QueuePushFilling DEF QueueOthers, Queue!Callers
    <3>3. Queue!Live' = Queue!Live
      BY <1>1, <2>4, QueueQuietFrame DEF QueueStill
    <3> QED
      BY <2>4, <3>1, <3>2, <3>3, QueueShapeFrame DEF QueueStill
  <2> QED
    BY <1>2, <2>1, <2>2, <2>3, <2>4, QueuePushCases
<1>3. CASE t \in Consumers /\ Queue!Pop(t)
  <2>1. Queue!PopperOK(t)
    BY <1>3 DEF Queue!LocalsOK
  <2>2. \A p \in Producers : q_pc'[p] = q_pc[p] /\ q_nd'[p] = q_nd[p]
    BY <1>1, <1>3, QueuePopOthers, QueueConstantsHold DEF QueueOthers, Queue!Callers
  <2>3. CASE QueueTakes(t) \/ QueueEmpties(t)
    <3>1. UNCHANGED <<q_tail, q_next>> /\ q_pc[t] = "cas"
      BY <1>1, <1>3, <2>1, <2>3, QueuePopMoves
    <3>2. q_head = q_h[t] /\ q_head \in Queue!Live /\ q_head # q_tail
      BY <1>3, <2>1, <2>3, <3>1, QueueTakesFirst DEF QueueTakes, QueueEmpties
    <3>3. CASE QueueTakes(t)
      <4>1. Queue!Live' = Queue!Live \ {q_head} /\ q_head' = q_n[t] /\ q_n[t] # Null
        BY <1>1, <1>3, <2>1, <3>3, QueuePopMoves
      <4>2. q_n[t] = q_next[q_head]
        BY <1>3, <2>1, <3>1, <3>2, <4>1, QueueTakesFirst
      <4> QED
        BY <2>2, <3>1, <3>2, <4>1, <4>2, QueueShapeTake
    <3>4. CASE QueueEmpties(t)
      <4>1. Queue!Live' = Queue!Live /\ q_head' = Null
        BY <1>1, <1>3, <2>1, <3>4, QueuePopMoves
      <4>2. q_tail' \in Queue!Live
        BY <3>1 DEF Queue!Shape
      <4> QED
        BY <2>2, <3>1, <4>1, <4>2, QueueShapeFrame
    <3> QED
      BY <2>3, <3>3, <3>4
  <2>4. CASE QueueStill(t)
    <3>1. q_tail' \in Queue!Live
      BY <1>3, <2>1, QueuePopTail, QueueHelpsTail DEF Queue!Shape
    <3>2. Queue!Live' = Queue!Live
      BY <1>1, <2>4, QueueQuietFrame DEF QueueStill
    <3> QED
      BY <2>2, <2>4, <3>1, <3>2, QueueShapeFrame DEF QueueStill
  <2> QED
    BY <1>3, <2>1, <2>3, <2>4, QueuePopCases
<1>4. CASE t \in Consumers /\ Queue!Reclaim(t)
  <2>1. Queue!Live' = Queue!Live /\ UNCHANGED <<q_head, q_tail, q_next>>
    BY <1>1, <1>4, QueueReclaimFrame DEF Queue!LocalsOK
  <2>2. \A p \in Producers : q_pc'[p] = q_pc[p] /\ q_nd'[p] = q_nd[p]
    BY <1>1, <1>4, QueueReclaimOthers, QueueConstantsHold
    DEF QueueOthers, Queue!Callers
  <2>3. q_tail' \in Queue!Live
    BY <2>1 DEF Queue!Shape
  <2> QED
    BY <2>1, <2>2, <2>3, QueueShapeFrame
<1> QED
  BY <1>2, <1>3, <1>4 DEF QueueStepOf

-----------------------------------------------------------------------------
(* The records *)

\* Only claiming one changes who has which record.
LEMMA QueueRecordsStay ==
    ASSUME NEW t \in Queue!Callers, QueueStepOf(t)
    PROVE  recs' = recs \/ (t \in Consumers /\ Queue!ClaimRecord(t))
<1> USE DEF Queue!hazard
<1>1. CASE t \in Producers /\ Queue!Push(t)
  <2>1. ASSUME \/ Queue!PushAlloc(t) \/ Queue!PushLoadTail(t) \/ Queue!PushLoadNext(t)
               \/ Queue!PushCheck(t)
      PROVE  recs' = recs
    BY <2>1 DEF Queue!PushAlloc, Queue!PushLoadTail, Queue!PushLoadNext, Queue!PushCheck
  <2>2. ASSUME Queue!PushLink(t) \/ Queue!PushAdvance(t) \/ Queue!PushHelp(t)
      PROVE  recs' = recs
    BY <2>2 DEF Queue!PushLink, Queue!PushAdvance, Queue!PushHelp
  <2> QED
    BY <1>1, <2>1, <2>2 DEF Queue!Push
<1>2. CASE t \in Consumers /\ Queue!Pop(t)
  <2>1. ASSUME \/ Queue!LoadHead(t) \/ Queue!StoreHpHead(t) \/ Queue!CheckHead(t)
               \/ Queue!LoadNext(t)
      PROVE  recs' = recs
    BY <2>1 DEF Queue!LoadHead, Queue!StoreHpHead, Queue!CheckHead, Queue!LoadNext
  <2>2. ASSUME \/ Queue!StoreHpNext(t) \/ Queue!CheckNext(t) \/ Queue!LoadTail(t)
               \/ Queue!PopHelp(t)
      PROVE  recs' = recs
    BY <2>2 DEF Queue!StoreHpNext, Queue!CheckNext, Queue!LoadTail, Queue!PopHelp
  <2>3. ASSUME \/ Queue!PopCas(t) \/ Queue!ReadData(t) \/ Queue!ClearHpHead(t)
               \/ Queue!ClearHpNext(t)
      PROVE  recs' = recs
    BY <2>3 DEF Queue!PopCas, Queue!ReadData, Queue!ClearHpHead, Queue!ClearHpNext
  <2> QED
    BY <1>2, <2>1, <2>2, <2>3 DEF Queue!Pop
<1>3. CASE t \in Consumers /\ Queue!Reclaim(t)
  <2>1. ASSUME \/ Queue!ReclaimLater(t) \/ Queue!ExchangeList(t) \/ Queue!NextNode(t)
               \/ Queue!ScanRecord(t)
      PROVE  recs' = recs
    BY <2>1 DEF Queue!ReclaimLater, Queue!ExchangeList, Queue!NextNode, Queue!ScanRecord
  <2>2. ASSUME Queue!Delete(t) \/ Queue!KeepForLater(t)
      PROVE  recs' = recs
    BY <2>2 DEF Queue!Delete, Queue!KeepForLater, Queue!Dispose
  <2> QED
    BY <1>3, <2>1, <2>2 DEF Queue!Reclaim
<1> QED
  BY <1>1, <1>2, <1>3 DEF QueueStepOf

\* A thread claims a record that no thread has.
LEMMA QueueStepRecordsUnshared ==
    ASSUME Queue!TypeOK, Queue!RecordsUnshared, NEW t \in Queue!Callers, QueueStepOf(t)
    PROVE  Queue!RecordsUnshared'
<1>1. CASE recs' = recs
  BY <1>1 DEF Queue!RecordsUnshared
<1>2. CASE t \in Consumers /\ Queue!ClaimRecord(t)
  <2>1. PICK s \in {1, 2}, i \in Queue!FreeRecords :
            recs' = [recs EXCEPT ![t][s] = i] /\ recs[t][s] = Queue!NoRecord
    BY <1>2 DEF Queue!ClaimRecord
  <2>2. \A c \in Consumers, r \in {1, 2} : recs[c][r] # i
    BY DEF Queue!FreeRecords
  <2>3. /\ recs'[t][s] = i /\ \A r \in {1, 2} : r # s => recs'[t][r] = recs[t][r]
        /\ \A c \in Consumers : c # t => recs'[c] = recs[c]
    BY <1>2, <2>1 DEF Queue!TypeOK
  <2> QED
    BY <2>2, <2>3 DEF Queue!RecordsUnshared
<1> QED
  BY <1>1, <1>2, QueueRecordsStay

\* A record is written by the pop that has it.
LEMMA QueueRecordWrites ==
    ASSUME Queue!TypeOK, Queue!LocalsOK, NEW t \in Queue!Callers, QueueStepOf(t)
    PROVE  \/ q_hp' = q_hp
           \/ /\ t \in Consumers /\ q_pc[t] \in Queue!InPop /\ recs' = recs
              /\ \E s \in {1, 2}, v \in Queue!NodeOrNull :
                     q_hp' = [q_hp EXCEPT ![recs[t][s]] = v]
<1>1. CASE t \in Producers /\ Queue!Push(t)
  <2> USE DEF Queue!hazard
  <2>1. ASSUME \/ Queue!PushAlloc(t) \/ Queue!PushLoadTail(t) \/ Queue!PushLoadNext(t)
               \/ Queue!PushCheck(t)
      PROVE  q_hp' = q_hp
    BY <2>1 DEF Queue!PushAlloc, Queue!PushLoadTail, Queue!PushLoadNext, Queue!PushCheck
  <2>2. ASSUME Queue!PushLink(t) \/ Queue!PushAdvance(t) \/ Queue!PushHelp(t)
      PROVE  q_hp' = q_hp
    BY <2>2 DEF Queue!PushLink, Queue!PushAdvance, Queue!PushHelp
  <2> QED
    BY <1>1, <2>1, <2>2 DEF Queue!Push
<1>2. CASE t \in Consumers /\ Queue!Reclaim(t)
  <2>1. Queue!PopperOK(t)
    BY <1>2 DEF Queue!LocalsOK
  <2>2. ASSUME \/ Queue!ReclaimLater(t) \/ Queue!ExchangeList(t) \/ Queue!NextNode(t)
               \/ Queue!ScanRecord(t)
      PROVE  q_hp' = q_hp
    BY <2>2 DEF Queue!ReclaimLater, Queue!ExchangeList, Queue!NextNode, Queue!ScanRecord
  <2>3. ASSUME Queue!Delete(t) \/ Queue!KeepForLater(t)
      PROVE  q_hp' = q_hp
    BY <2>3 DEF Queue!Delete, Queue!KeepForLater, Queue!Dispose
  <2> QED
    BY <1>2, <2>2, <2>3 DEF Queue!Reclaim
<1>3. CASE t \in Consumers /\ Queue!Pop(t)
  <2>1. ASSUME \/ Queue!ClaimRecord(t) \/ Queue!LoadHead(t) \/ Queue!CheckHead(t)
               \/ Queue!LoadNext(t)
      PROVE  q_hp' = q_hp
    BY <2>1
    DEF Queue!ClaimRecord, Queue!LoadHead, Queue!CheckHead, Queue!LoadNext, Queue!hazard
  <2>2. ASSUME \/ Queue!CheckNext(t) \/ Queue!LoadTail(t) \/ Queue!PopHelp(t)
               \/ Queue!PopCas(t) \/ Queue!ReadData(t)
      PROVE  q_hp' = q_hp
    BY <2>2
    DEF Queue!CheckNext, Queue!LoadTail, Queue!PopHelp, Queue!PopCas, Queue!ReadData,
        Queue!hazard
  <2>3. CASE Queue!StoreHpHead(t)
    <3>1. /\ q_pc[t] = "set_head" /\ q_hp' = [q_hp EXCEPT ![recs[t][1]] = q_h[t]] /\ recs' = recs
          /\ q_h[t] \in Queue!NodeOrNull
      BY <2>3 DEF Queue!StoreHpHead, Queue!Goto, Queue!TypeOK
    <3> QED
      BY <1>3, <3>1, QueuePopCounters
  <2>4. CASE Queue!StoreHpNext(t)
    <3>1. /\ q_pc[t] = "set_next" /\ q_hp' = [q_hp EXCEPT ![recs[t][2]] = q_n[t]] /\ recs' = recs
          /\ q_n[t] \in Queue!NodeOrNull
      BY <2>4 DEF Queue!StoreHpNext, Queue!Goto, Queue!TypeOK
    <3> QED
      BY <1>3, <3>1, QueuePopCounters
  <2>5. CASE Queue!ClearHpHead(t)
    <3>1. /\ q_pc[t] \in {"clear_head", "clear_head_empty"}
          /\ q_hp' = [q_hp EXCEPT ![recs[t][1]] = Null] /\ recs' = recs
          /\ Null \in Queue!NodeOrNull
      BY <2>5 DEF Queue!ClearHpHead, Queue!Goto, Queue!NodeOrNull
    <3> QED
      BY <1>3, <3>1, QueuePopCounters
  <2>6. CASE Queue!ClearHpNext(t)
    <3>1. /\ q_pc[t] \in {"clear_next", "clear_next_empty"}
          /\ q_hp' = [q_hp EXCEPT ![recs[t][2]] = Null] /\ recs' = recs
          /\ Null \in Queue!NodeOrNull
      BY <2>6 DEF Queue!ClearHpNext, Queue!Goto, Queue!NodeOrNull
    <3> QED
      BY <1>3, <3>1, QueuePopCounters
  <2> QED
    BY <1>3, <2>1, <2>2, <2>3, <2>4, <2>5, <2>6 DEF Queue!Pop
<1> QED
  BY <1>1, <1>2, <1>3 DEF QueueStepOf

\* The program counters at which the records are set.
LEMMA QueuePublishedCounters ==
    /\ Queue!Published = {"check_head", "next", "set_next", "check_next", "tail", "cas", "help",
                          "read", "clear_head", "clear_head_empty"}
    /\ Queue!PublishedNext = {"check_next", "tail", "cas", "help", "read", "clear_head",
                              "clear_head_empty", "clear_next", "clear_next_empty"}
    /\ Queue!Published \subseteq Queue!InPop /\ Queue!PublishedNext \subseteq Queue!InPop
BY DEF Queue!InPop, Queue!Published, Queue!PublishedNext, Queue!Sure, Queue!SureOfNext

\* What a pop has put in its records stays there: nobody else writes them.
LEMMA QueueOthersRecordsSet ==
    ASSUME Queue!TypeOK, Queue!LocalsOK, Queue!RecordsUnshared, NEW t \in Queue!Callers,
           QueueStepOf(t),
           NEW c \in Consumers, c # t, Queue!RecordsSetOf(c)
    PROVE  Queue!RecordsSetOf(c)'
<1>1. /\ q_pc'[c] = q_pc[c] /\ q_h'[c] = q_h[c] /\ q_n'[c] = q_n[c] /\ recs'[c] = recs[c]
  BY QueueStepOthers DEF QueueOthers, Queue!Callers
<1>2. CASE q_hp' = q_hp
  BY <1>1, <1>2 DEF Queue!RecordsSetOf
<1>3. CASE /\ t \in Consumers /\ q_pc[t] \in Queue!InPop
           /\ \E s \in {1, 2}, v \in Queue!NodeOrNull :
                  q_hp' = [q_hp EXCEPT ![recs[t][s]] = v]
  <2>1. PICK s \in {1, 2}, v \in Queue!NodeOrNull : q_hp' = [q_hp EXCEPT ![recs[t][s]] = v]
    BY <1>3
  <2>2. ASSUME q_pc[c] \in Queue!InPop
        PROVE  \A r \in {1, 2} : recs[c][r] \in Queue!Records
                   /\ q_hp'[recs[c][r]] = q_hp[recs[c][r]]
    <3>1. \A r \in {1, 2} : recs[c][r] \in Queue!Records /\ recs[c][r] # Queue!NoRecord
      BY <2>2, QueuePopperRecords DEF Queue!LocalsOK, Queue!PopperOK
    <3>2. \A r \in {1, 2} : recs[c][r] # recs[t][s]
      BY <1>3, <3>1 DEF Queue!RecordsUnshared
    <3> QED
      BY <2>1, <3>1, <3>2 DEF Queue!TypeOK
  <2> QED
    BY <1>1, <2>2, QueuePublishedCounters DEF Queue!RecordsSetOf
<1> QED
  BY <1>2, <1>3, QueueRecordWrites

\* Its own steps set them first, and clear them last.
LEMMA QueueOwnRecordsSet ==
    ASSUME Queue!TypeOK, Queue!LocalsOK, Queue!RecordsUnshared, NEW c \in Consumers,
           Queue!Pop(c) \/ Queue!Reclaim(c),
           Queue!RecordsSetOf(c)
    PROVE  Queue!RecordsSetOf(c)'
<1>1. c \in Queue!Callers /\ Queue!PopperOK(c)
  BY DEF Queue!Callers, Queue!LocalsOK
<1>2. q_pc[c] \in Queue!InPop => recs[c][1] \in Queue!Records /\ recs[c][2] \in Queue!Records
  BY <1>1, QueuePopperRecords
<1>3. q_pc[c] \in Queue!InPop => recs[c][1] # recs[c][2]
  BY <1>1 DEF Queue!RecordsUnshared, Queue!PopperOK
<1> USE <1>1, QueuePublishedCounters, QueuePopCounters
    DEF Queue!TypeOK, Queue!Goto, Queue!RecordsSetOf, Queue!hazard
<1>4. CASE Queue!ClaimRecord(c)
  BY <1>4 DEF Queue!ClaimRecord
<1>5. CASE Queue!LoadHead(c)
  BY <1>5 DEF Queue!LoadHead
<1>6. CASE Queue!StoreHpHead(c)
  <2>1. recs[c][1] \in Queue!Records
    BY <1>2, <1>6 DEF Queue!StoreHpHead
  <2> QED
    BY <1>6, <2>1 DEF Queue!StoreHpHead
<1>7. CASE Queue!CheckHead(c)
  BY <1>7 DEF Queue!CheckHead
<1>8. CASE Queue!LoadNext(c)
  BY <1>8 DEF Queue!LoadNext
<1>9. CASE Queue!StoreHpNext(c)
  <2>1. recs[c][1] \in Queue!Records /\ recs[c][2] \in Queue!Records /\ recs[c][1] # recs[c][2]
    BY <1>2, <1>3, <1>9 DEF Queue!StoreHpNext
  <2> QED
    BY <1>9, <2>1 DEF Queue!StoreHpNext
<1>10. CASE Queue!CheckNext(c) \/ Queue!LoadTail(c)
  BY <1>10 DEF Queue!CheckNext, Queue!LoadTail
<1>11. CASE Queue!PopHelp(c)
  BY <1>11 DEF Queue!PopHelp
<1>12. CASE Queue!PopCas(c)
  BY <1>12 DEF Queue!PopCas
<1>13. CASE Queue!ReadData(c)
  BY <1>13 DEF Queue!ReadData
<1>14. CASE Queue!ClearHpHead(c)
  <2>1. recs[c][1] \in Queue!Records /\ recs[c][2] \in Queue!Records /\ recs[c][1] # recs[c][2]
    BY <1>2, <1>3, <1>14 DEF Queue!ClearHpHead
  <2> QED
    BY <1>14, <2>1 DEF Queue!ClearHpHead
<1>15. CASE Queue!ClearHpNext(c)
  BY <1>15 DEF Queue!ClearHpNext
<1>16. CASE Queue!Reclaim(c)
  <2>1. CASE Queue!ReclaimLater(c) \/ Queue!ExchangeList(c) \/ Queue!NextNode(c)
    BY <2>1 DEF Queue!ReclaimLater, Queue!ExchangeList, Queue!NextNode
  <2>2. CASE Queue!ScanRecord(c)
    BY <2>2 DEF Queue!ScanRecord
  <2>3. CASE Queue!Delete(c) \/ Queue!KeepForLater(c)
    BY <2>3 DEF Queue!Delete, Queue!KeepForLater
  <2> QED
    BY <1>16, <2>1, <2>2, <2>3 DEF Queue!Reclaim
<1> QED
  BY <1>4, <1>5, <1>6, <1>7, <1>8, <1>9, <1>10, <1>11, <1>12, <1>13, <1>14, <1>15, <1>16
  DEF Queue!Pop

\* Every step keeps the records set.
LEMMA QueueStepRecordsSet ==
    ASSUME Queue!TypeOK, Queue!LocalsOK, Queue!RecordsUnshared, Queue!RecordsSet,
           NEW t \in Queue!Callers, QueueStepOf(t)
    PROVE  Queue!RecordsSet'
<1> SUFFICES ASSUME NEW c \in Consumers PROVE Queue!RecordsSetOf(c)'
  BY DEF Queue!RecordsSet
<1>1. CASE c = t
  BY <1>1, QueueOwnRecordsSet, QueueConstantsHold DEF QueueStepOf, Queue!RecordsSet
<1> QED
  BY <1>1, QueueOthersRecordsSet DEF Queue!RecordsSet

-----------------------------------------------------------------------------
(* What a pop has published stays *)

\* A pop deletes nothing, scans nothing and links nothing.
LEMMA QueuePopFrame ==
    ASSUME NEW c \in Consumers, Queue!Pop(c)
    PROVE  q_cur' = q_cur /\ q_idx' = q_idx /\ q_free' = q_free /\ q_next' = q_next
<1> USE DEF Queue!hazard, Queue!queue
<1>1. CASE \/ Queue!ClaimRecord(c) \/ Queue!LoadHead(c) \/ Queue!StoreHpHead(c)
           \/ Queue!CheckHead(c) \/ Queue!LoadNext(c)
  BY <1>1
  DEF Queue!ClaimRecord, Queue!LoadHead, Queue!StoreHpHead, Queue!CheckHead, Queue!LoadNext
<1>2. CASE Queue!StoreHpNext(c) \/ Queue!CheckNext(c) \/ Queue!LoadTail(c) \/ Queue!PopHelp(c)
  BY <1>2 DEF Queue!StoreHpNext, Queue!CheckNext, Queue!LoadTail, Queue!PopHelp
<1>3. CASE Queue!PopCas(c) \/ Queue!ReadData(c) \/ Queue!ClearHpHead(c) \/ Queue!ClearHpNext(c)
  BY <1>3 DEF Queue!PopCas, Queue!ReadData, Queue!ClearHpHead, Queue!ClearHpNext
<1> QED
  BY <1>1, <1>2, <1>3 DEF Queue!Pop

\* A node named in a record is not deleted, and nobody who scans the records gets past this
\* record without seeing it.
LEMMA QueueKeptStays ==
    ASSUME Queue!TypeOK, Queue!LocalsOK, Queue!Apart, Queue!Shape, NEW t \in Queue!Callers,
           QueueStepOf(t),
           NEW x \in Queue!NodeOrNull, NEW i \in Queue!Records, q_hp[i] = x, Queue!Kept(x, i)
    PROVE  Queue!Kept(x, i)' /\ (x \in Queue!Popped => x \in Queue!Popped')
<1>1. QueueOthers(t)
  BY QueueStepOthers
<1>2. i >= 0 /\ i < QueueHazards
  BY QueueConstantsHold DEF Queue!Records
<1>4. CASE t \in Producers /\ Queue!Push(t)
  <2>1. q_cur' = q_cur /\ q_idx' = q_idx
    <3> USE DEF Queue!hazard
    <3>1. CASE \/ Queue!PushAlloc(t) \/ Queue!PushLoadTail(t) \/ Queue!PushLoadNext(t)
               \/ Queue!PushCheck(t)
      BY <3>1 DEF Queue!PushAlloc, Queue!PushLoadTail, Queue!PushLoadNext, Queue!PushCheck
    <3>2. CASE Queue!PushLink(t) \/ Queue!PushAdvance(t) \/ Queue!PushHelp(t)
      BY <3>2 DEF Queue!PushLink, Queue!PushAdvance, Queue!PushHelp
    <3> QED
      BY <1>4, <3>1, <3>2 DEF Queue!Push
  <2>2. q_free' \subseteq q_free /\ Queue!Popped' = Queue!Popped
    BY <1>1, <1>4, QueuePushCases, QueuePushMoves, QueueQuietFrame
    DEF Queue!LocalsOK, QueueStill, QueueQuiet
  <2> QED
    BY <1>4, <2>1, <2>2 DEF Queue!Kept
<1>5. CASE t \in Consumers /\ Queue!Pop(t)
  <2>1. q_cur' = q_cur /\ q_idx' = q_idx /\ q_free' = q_free
    BY <1>5, QueuePopFrame
  <2>2. Queue!Popped \subseteq Queue!Popped'
    BY <1>1, <1>5, QueuePopCases, QueuePopMoves, QueueQuietFrame
    DEF Queue!LocalsOK, QueueStill
  <2> QED
    BY <1>5, <2>1, <2>2 DEF Queue!Kept
<1>6. CASE t \in Consumers /\ Queue!Reclaim(t)
  <2>1. Queue!PopperOK(t)
    BY <1>6 DEF Queue!LocalsOK
  <2>2. CASE Queue!ReclaimLater(t)
    <3>1. q_cur' = q_cur /\ q_idx' = q_idx
      BY <2>2 DEF Queue!ReclaimLater
    <3> QED
      BY <1>1, <1>6, <2>1, <2>2, <3>1, QueueLaterFrame DEF Queue!Kept
  <2>3. CASE Queue!ExchangeList(t)
    <3>1. q_cur' = q_cur /\ q_idx' = q_idx
      BY <2>3 DEF Queue!ExchangeList
    <3> QED
      BY <1>1, <1>6, <2>1, <2>3, <3>1, QueueExchangeFrame DEF Queue!Kept
  <2>4. CASE Queue!NextNode(t)
    <3>1. q_idx' = q_idx /\ q_free' = q_free /\ q_pc[t] = "node"
      BY <2>4 DEF Queue!NextNode, Queue!queue, Queue!Goto
    <3>2. q_idx[t] = 0
      BY <2>1, <3>1 DEF Queue!PopperOK
    <3>3. \A d \in Consumers : d # t => q_cur'[d] = q_cur[d]
      BY <1>1 DEF QueueOthers
    <3>4. Queue!Popped' = Queue!Popped
      BY <1>1, <1>6, <2>4, QueueScanQuiet, QueueQuietFrame
    <3> QED
      BY <1>2, <3>1, <3>2, <3>3, <3>4 DEF Queue!Kept
  <2>5. CASE Queue!ScanRecord(t)
    <3>1. q_cur' = q_cur /\ q_free' = q_free
      BY <2>5 DEF Queue!ScanRecord, Queue!queue
    <3>2. Queue!Popped' = Queue!Popped
      BY <1>1, <1>6, <2>5, QueueScanQuiet, QueueQuietFrame
    <3>3. \A d \in Consumers : d # t => q_idx'[d] = q_idx[d]
      BY <1>1 DEF QueueOthers
    <3>4. q_cur[t] = x => q_idx'[t] <= i
      <4> SUFFICES ASSUME q_cur[t] = x PROVE q_idx'[t] <= i
        OBVIOUS
      <4>1. q_idx[t] <= i /\ q_idx[t] \in 0 .. QueueHazards
        BY <1>6 DEF Queue!Kept, Queue!TypeOK
      <4>2. CASE q_hp[q_idx[t]] = q_cur[t]
        BY <2>5, <4>1, <4>2 DEF Queue!ScanRecord
      <4>3. CASE q_hp[q_idx[t]] # q_cur[t]
        <5>1. q_idx[t] # i
          BY <4>3
        <5>2. q_idx'[t] = q_idx[t] + 1
          BY <1>6, <2>5, <4>3 DEF Queue!ScanRecord, Queue!TypeOK
        <5>3. i \in Int /\ q_idx[t] \in Int
          BY <4>1, QueueConstantsHold DEF Queue!Records
        <5> QED
          BY ONLY <4>1, <5>1, <5>2, <5>3
      <4> QED
        BY <4>2, <4>3
    <3> QED
      BY <3>1, <3>2, <3>3, <3>4 DEF Queue!Kept
  <2>6. CASE Queue!Delete(t) \/ Queue!KeepForLater(t)
    <3>1. Queue!Dispose(t)
      BY <2>6 DEF Queue!Delete, Queue!KeepForLater
    <3>2. q_cur'[t] = Null /\ q_idx'[t] = 0
      BY <1>6, <3>1 DEF Queue!Dispose, Queue!TypeOK
    <3>3. \A d \in Consumers : d # t => q_cur'[d] = q_cur[d] /\ q_idx'[d] = q_idx[d]
      BY <1>1 DEF QueueOthers
    <3>4. Queue!Delete(t) => q_cur[t] # x
      <4> SUFFICES ASSUME Queue!Delete(t), q_cur[t] = x PROVE FALSE
        OBVIOUS
      <4>1. q_idx[t] = QueueHazards /\ q_idx[t] <= i
        BY <1>6 DEF Queue!Delete, Queue!Kept
      <4> QED
        BY <1>2, <4>1, QueueConstantsHold DEF Queue!Records
    <3>5. x \notin q_free' /\ (x \in Queue!Popped => x \in Queue!Popped')
      BY <1>1, <1>6, <2>1, <2>6, <3>4, QueueDeleteFrame, QueueKeepFrame DEF Queue!Kept
    <3> QED
      BY <1>2, <3>2, <3>3, <3>5 DEF Queue!Kept
  <2> QED
    BY <1>6, <2>2, <2>3, <2>4, <2>5, <2>6 DEF Queue!Reclaim
<1> QED
  BY <1>4, <1>5, <1>6 DEF QueueStepOf

\* A node of the queue is kept: nobody scans the records for it.
LEMMA QueueLiveKept ==
    ASSUME Queue!TypeOK, Queue!LocalsOK, NEW x \in Queue!Live \cup {Null},
           NEW i \in Queue!Records
    PROVE  Queue!Kept(x, i)
<1>1. x \notin q_free
  BY QueueConstantsHold DEF Queue!Live, Queue!TypeOK
<1>2. ASSUME NEW d \in Consumers, q_cur[d] = x
      PROVE  q_idx[d] <= i
  <2>1. CASE q_pc[d] \in {"scan", "keep"}
    <3>1. x \in QueueNodes /\ x \in q_batch[d]
      BY <1>2, <2>1, QueueScannedNode DEF Queue!LocalsOK
    <3> QED
      BY <3>1, QueueConstantsHold DEF Queue!Live, Queue!Retired
  <2>2. CASE q_pc[d] \notin {"scan", "keep"}
    BY <2>2, QueueConstantsHold DEF Queue!LocalsOK, Queue!PopperOK, Queue!Records
  <2> QED
    BY <2>1, <2>2
<1> QED
  BY <1>1, <1>2 DEF Queue!Kept

\* How head_ moves.
LEMMA QueueHeadMoves ==
    ASSUME Queue!TypeOK, Queue!LocalsOK, Queue!Apart, NEW t \in Queue!Callers, QueueStepOf(t)
    PROVE  \/ q_head' = q_head
           \/ t \in Consumers /\ QueueTakes(t)
           \/ t \in Consumers /\ QueueEmpties(t)
<1>1. QueueOthers(t)
  BY QueueStepOthers
<1>2. CASE t \in Producers /\ Queue!Push(t)
  <2>1. Queue!PusherOK(t)
    BY <1>2 DEF Queue!LocalsOK
  <2>2. Queue!PushAlloc(t) \/ QueueLinks(t) => q_head' = q_head
    BY <1>1, <1>2, <2>1, QueuePushMoves
  <2> QED
    BY <1>2, <2>1, <2>2, QueuePushCases DEF QueueStill
<1>3. CASE t \in Consumers /\ Queue!Pop(t)
  BY <1>3, QueuePopCases DEF Queue!LocalsOK, QueueStill
<1>4. CASE t \in Consumers /\ Queue!Reclaim(t)
  <2>1. q_head' = q_head
    BY <1>1, <1>4, QueueReclaimFrame DEF Queue!LocalsOK
  <2> QED
    BY <2>1
<1> QED
  BY <1>2, <1>3, <1>4 DEF QueueStepOf

\* How links change.
LEMMA QueueNextMoves ==
    ASSUME Queue!TypeOK, Queue!LocalsOK, Queue!Apart, NEW t \in Queue!Callers, QueueStepOf(t)
    PROVE  \/ q_next' = q_next
           \/ /\ t \in Producers /\ q_pc[t] = "idle" /\ q_pc'[t] = "p_tail"
              /\ \E x \in q_free : q_next' = [q_next EXCEPT ![x] = Null]
           \/ /\ t \in Producers /\ q_pc[t] = "p_link" /\ q_pc'[t] = "p_advance"
              /\ q_next[q_tl[t]] = Null
              /\ q_next' = [q_next EXCEPT ![q_tl[t]] = q_nd[t]]
<1>1. QueueOthers(t)
  BY QueueStepOthers
<1>2. CASE t \in Producers /\ Queue!Push(t)
  <2>1. Queue!PusherOK(t)
    BY <1>2 DEF Queue!LocalsOK
  <2>2. CASE Queue!PushAlloc(t)
    <3>1. q_pc[t] = "idle" /\ q_pc'[t] = "p_tail"
      BY <2>2 DEF Queue!PushAlloc, Queue!Goto, Queue!TypeOK
    <3>2. \E x \in q_free : q_next' = [q_next EXCEPT ![x] = Null]
      BY <2>2 DEF Queue!PushAlloc
    <3> QED
      BY <1>2, <3>1, <3>2
  <2>3. CASE QueueLinks(t)
    <3>1. /\ q_pc[t] = "p_link" /\ q_pc'[t] = "p_advance" /\ q_next[q_tl[t]] = Null
          /\ q_next' = [q_next EXCEPT ![q_tl[t]] = q_nd[t]]
      BY <1>1, <1>2, <2>1, <2>3, QueuePushMoves DEF QueueLinks
    <3> QED
      BY <1>2, <3>1
  <2>4. CASE QueueStill(t)
    <3>1. q_next' = q_next
      BY <2>4 DEF QueueStill
    <3> QED
      BY <3>1
  <2> QED
    BY <1>2, <2>1, <2>2, <2>3, <2>4, QueuePushCases
<1>3. CASE t \in Consumers /\ Queue!Pop(t)
  <2>1. q_next' = q_next
    BY <1>3, QueuePopFrame
  <2> QED
    BY <2>1
<1>4. CASE t \in Consumers /\ Queue!Reclaim(t)
  <2>1. q_next' = q_next
    BY <1>1, <1>4, QueueReclaimFrame DEF Queue!LocalsOK
  <2> QED
    BY <2>1
<1> QED
  BY <1>2, <1>3, <1>4 DEF QueueStepOf

\* Where pops are at work, tail_ only moves to the node after it.
LEMMA QueueTailMoves ==
    ASSUME Queue!TypeOK, Queue!LocalsOK, Queue!Apart, Queue!Shape, Queue!Protected,
           Queue!PushOK, team \cap Consumers # {},
           NEW t \in Queue!Callers, QueueStepOf(t)
    PROVE  \/ q_tail' = q_tail
           \/ /\ q_tail' = q_next[q_tail] /\ q_tail' \in Queue!Live /\ q_tail' # q_head
              /\ q_head' = q_head /\ q_next' = q_next
              /\ \/ /\ t \in Producers /\ q_pc[t] = "p_advance" /\ q_pc'[t] = "idle"
                    /\ q_tail' = q_nd[t]
                 \/ t \in Consumers
<1>1. CASE t \in Producers /\ Queue!Push(t)
  <2>1. CASE q_tail' = q_tail
    BY <2>1
  <2>2. CASE /\ Queue!PushAdvance(t) /\ q_pc[t] = "p_advance" /\ q_tail = q_tl[t]
             /\ q_tail' = q_nd[t]
    <3>1. q_nd[t] \in Queue!Live /\ (q_tail = q_nd[t] \/ q_next[q_tail] = q_nd[t])
      BY <1>1, <2>2 DEF Queue!PushOK, Queue!PushSafe, Queue!PushAlone
    <3>2. q_head' = q_head /\ q_next' = q_next /\ q_pc'[t] = "idle"
      BY <2>2 DEF Queue!PushAdvance, Queue!Goto, Queue!TypeOK
    <3>3. q_nd[t] # Null
      BY <3>1, QueueConstantsHold DEF Queue!Live
    <3>4. q_tail' # q_tail => q_next[q_tail] = q_nd[t] /\ q_nd[t] # q_head
      BY <2>2, <3>1, <3>3 DEF Queue!Shape
    <3> QED
      BY <1>1, <2>2, <3>1, <3>2, <3>4
  <2>3. CASE q_pc[t] = "p_help"
    BY <1>1, <2>3 DEF Queue!PushOK, Queue!PushAlone, Queue!Behind
  <2> QED
    BY <1>1, <2>1, <2>2, <2>3, QueuePushTail
<1>2. CASE t \in Consumers /\ Queue!Pop(t)
  <2>1. CASE q_tail' = q_tail
    BY <2>1
  <2>2. CASE Queue!PopHelp(t) /\ q_pc[t] = "help" /\ q_tail = q_h[t] /\ q_tail' = q_n[t]
    <3>1. q_n[t] = q_next[q_tail] /\ q_n[t] \in Queue!Live /\ q_n[t] # q_head
      BY <1>2, <2>2, QueueHelpsTail DEF Queue!LocalsOK
    <3>2. q_head' = q_head /\ q_next' = q_next
      BY <2>2 DEF Queue!PopHelp
    <3> QED
      BY <1>2, <2>2, <3>1, <3>2
  <2> QED
    BY <1>2, <2>1, <2>2, QueuePopTail
<1>3. CASE t \in Consumers /\ Queue!Reclaim(t)
  <2>1. q_tail' = q_tail
    BY <1>3, QueueReclaimFrame, QueueStepOthers DEF Queue!LocalsOK
  <2> QED
    BY <2>1
<1> QED
  BY <1>1, <1>2, <1>3 DEF QueueStepOf

\* The program counters of a pop that has made sure of head_.
LEMMA QueueSureCounters ==
    /\ Queue!Sure = {"next", "set_next", "check_next", "tail", "cas", "help", "read"}
    /\ Queue!SureOfNext = {"tail", "cas", "help", "read"}
    /\ Queue!Sure \subseteq Queue!InPop /\ Queue!Sure \subseteq Queue!Published
    /\ Queue!SureOfNext \subseteq Queue!PublishedNext
BY DEF Queue!InPop, Queue!Published, Queue!PublishedNext, Queue!Sure, Queue!SureOfNext

\* The steps of others leave alone what a pop has made sure of.
LEMMA QueueOthersProtected ==
    ASSUME Queue!TypeOK, Queue!LocalsOK, Queue!Apart, Queue!Shape, Queue!RecordsSet,
           Queue!Protected, Queue!PushOK,
           NEW t \in Queue!Callers, QueueStepOf(t), NEW c \in Consumers, c # t
    PROVE  Queue!ProtectedFor(c)'
<1>1. /\ q_pc'[c] = q_pc[c] /\ q_h'[c] = q_h[c] /\ q_n'[c] = q_n[c] /\ recs'[c] = recs[c]
  BY QueueStepOthers DEF QueueOthers, Queue!Callers
<1>2. Queue!ProtectedFor(c) /\ Queue!PopperOK(c)
  BY DEF Queue!Protected, Queue!LocalsOK
<1>3. /\ c \in Queue!Callers /\ q_h[c] \in Queue!NodeOrNull
      /\ q_n[c] \in Queue!NodeOrNull /\ Null \notin QueueNodes
      /\ Queue!Live \subseteq QueueNodes
  BY QueueConstantsHold DEF Queue!TypeOK, Queue!Callers, Queue!Live
<1>4. q_pc[c] \in Queue!Sure => recs[c][1] \in Queue!Records /\ recs[c][2] \in Queue!Records
  BY <1>2, QueuePopperRecords, QueueSureCounters
<1>5. q_pc[c] \in Queue!Sure
          => /\ Queue!Kept(q_h[c], recs[c][1])'
             /\ (q_h[c] \in Queue!Popped => q_h[c] \in Queue!Popped')
  <2> SUFFICES ASSUME q_pc[c] \in Queue!Sure
               PROVE  /\ Queue!Kept(q_h[c], recs[c][1])'
                      /\ (q_h[c] \in Queue!Popped => q_h[c] \in Queue!Popped')
    OBVIOUS
  <2>1. PICK x \in Queue!NodeOrNull : x = q_h[c]
    BY <1>3
  <2>2. PICK i \in Queue!Records : i = recs[c][1]
    BY <1>4
  <2>3. q_hp[i] = x /\ Queue!Kept(x, i)
    BY <1>2, <2>1, <2>2, QueueSureCounters
    DEF Queue!RecordsSet, Queue!RecordsSetOf, Queue!ProtectedFor
  <2>4. Queue!Kept(x, i)' /\ (x \in Queue!Popped => x \in Queue!Popped')
    BY <2>3, QueueKeptStays
  <2>5. Queue!Kept(q_h[c], recs[c][1])'
    BY <1>1, <2>1, <2>2, <2>4 DEF Queue!Kept
  <2> QED
    BY <2>1, <2>4, <2>5
<1>6. q_pc[c] \in Queue!SureOfNext => Queue!Kept(q_n[c], recs[c][2])'
  <2> SUFFICES ASSUME q_pc[c] \in Queue!SureOfNext
               PROVE  Queue!Kept(q_n[c], recs[c][2])'
    OBVIOUS
  <2>1. PICK x \in Queue!NodeOrNull : x = q_n[c]
    BY <1>3
  <2>2. PICK i \in Queue!Records : i = recs[c][2]
    BY <1>4, QueueSureCounters
  <2>3. q_hp[i] = x /\ Queue!Kept(x, i)
    BY <1>2, <2>1, <2>2, QueueSureCounters
    DEF Queue!RecordsSet, Queue!RecordsSetOf, Queue!ProtectedFor
  <2>4. Queue!Kept(x, i)'
    BY <2>3, QueueKeptStays
  <2> QED
    BY <1>1, <2>1, <2>2, <2>4 DEF Queue!Kept
<1>7. q_pc[c] \in Queue!Sure \ {"read"}
          => q_head' = Null \/ q_h[c] = q_head' \/ q_h[c] \in Queue!Popped'
  <2> SUFFICES ASSUME q_pc[c] \in Queue!Sure \ {"read"}
               PROVE  q_head' = Null \/ q_h[c] = q_head' \/ q_h[c] \in Queue!Popped'
    OBVIOUS
  <2>1. q_head = Null \/ q_h[c] = q_head \/ q_h[c] \in Queue!Popped
    BY <1>2 DEF Queue!ProtectedFor
  <2>2. CASE q_head' = q_head
    BY <1>5, <2>1, <2>2
  <2>3. CASE t \in Consumers /\ QueueTakes(t)
    <3>1. q_head \in Queue!Live /\ Queue!Popped' = Queue!Popped \cup {q_head}
      BY <2>3, QueuePopMoves, QueueStepOthers DEF Queue!LocalsOK
    <3> QED
      BY <1>3, <2>1, <3>1
  <2>4. CASE t \in Consumers /\ QueueEmpties(t)
    BY <2>4, QueuePopMoves, QueueStepOthers DEF Queue!LocalsOK
  <2> QED
    BY <2>2, <2>3, <2>4, QueueHeadMoves
<1>8. q_pc[c] \in Queue!Sure \ {"next"} => q_n[c] \in {Null, q_next'[q_h[c]]}
  <2> SUFFICES ASSUME q_pc[c] \in Queue!Sure \ {"next"}
               PROVE  q_n[c] \in {Null, q_next'[q_h[c]]}
    OBVIOUS
  <2>1. q_n[c] \in {Null, q_next[q_h[c]]} /\ q_h[c] \notin q_free /\ q_h[c] \in QueueNodes
    BY <1>2, <1>3, QueuePopCounters
    DEF Queue!ProtectedFor, Queue!PopperOK, Queue!Kept, Queue!NodeOrNull
  <2>2. CASE q_next' = q_next
    BY <2>1, <2>2
  <2>3. CASE \E x \in q_free : q_next' = [q_next EXCEPT ![x] = Null]
    BY <2>1, <2>3 DEF Queue!TypeOK
  <2>4. CASE q_next[q_tl[t]] = Null /\ q_next' = [q_next EXCEPT ![q_tl[t]] = q_nd[t]]
    BY <2>1, <2>4 DEF Queue!TypeOK
  <2> QED
    BY <2>2, <2>3, <2>4, QueueNextMoves
<1>9. q_pc[c] = "cas" /\ q_h[c] = q_head' => q_h[c] # q_tail'
  <2> SUFFICES ASSUME q_pc[c] = "cas", q_h[c] = q_head'
               PROVE  q_h[c] # q_tail'
    OBVIOUS
  <2>1. /\ q_h[c] # Null /\ team \cap Consumers # {}
        /\ q_h[c] = q_head => q_h[c] # q_tail
        /\ q_head = Null \/ q_h[c] = q_head \/ q_h[c] \in Queue!Popped
    BY <1>2, <1>3, QueuePopCounters, QueueSureCounters
    DEF Queue!ProtectedFor, Queue!PopperOK, Queue!LocalsOK
  <2>2. CASE q_head' = q_head
    BY <2>1, <2>2, QueueTailMoves
  <2>3. CASE t \in Consumers /\ QueueTakes(t)
    <3>1. /\ q_head \in Queue!Live /\ q_pc[t] = "cas" /\ q_head = q_h[t]
          /\ q_head' = q_n[t] /\ q_n[t] # Null
      BY <2>3, QueuePopMoves, QueueStepOthers DEF Queue!LocalsOK
    <3>2. q_n[t] \in Queue!Live /\ q_n[t] # q_head
      BY <2>3, <3>1, QueueTakesFirst DEF Queue!LocalsOK
    <3>3. q_h[c] \notin Queue!Popped
      BY <3>1, <3>2 DEF Queue!Live, Queue!Popped, Queue!Callers
    <3> QED
      BY <1>3, <2>1, <3>1, <3>2, <3>3
  <2>4. CASE t \in Consumers /\ QueueEmpties(t)
    BY <2>1, <2>4, QueuePopMoves, QueueStepOthers DEF Queue!LocalsOK
  <2> QED
    BY <2>2, <2>3, <2>4, QueueHeadMoves
<1> QED
  BY <1>1, <1>5, <1>6, <1>7, <1>8, <1>9 DEF Queue!ProtectedFor

\* A pop makes sure of a node by finding head_ unchanged after it published it.
LEMMA QueuePopProtected ==
    ASSUME Queue!TypeOK, Queue!LocalsOK, Queue!Apart, Queue!Shape, Queue!Protected,
           NEW c \in Consumers, Queue!Pop(c)
    PROVE  Queue!ProtectedFor(c)'
<1>1. /\ c \in Queue!Callers /\ Queue!PopperOK(c) /\ Queue!ProtectedFor(c) /\ QueueOthers(c)
  BY QueuePopOthers DEF Queue!Callers, Queue!LocalsOK, Queue!Protected
<1>2. q_pc[c] \in Queue!InPop => recs[c][1] \in Queue!Records /\ recs[c][2] \in Queue!Records
  BY <1>1, QueuePopperRecords
<1>3. q_cur' = q_cur /\ q_idx' = q_idx /\ q_free' = q_free /\ q_next' = q_next
  BY QueuePopFrame
<1>4. \A x, i : Queue!Kept(x, i) => Queue!Kept(x, i)'
  BY <1>3 DEF Queue!Kept
<1>5. Queue!Popped \subseteq Queue!Popped'
  BY <1>1, QueuePopCases, QueuePopMoves, QueueQuietFrame DEF QueueStill
<1>6. ASSUME q_pc'[c] \notin Queue!Sure PROVE Queue!ProtectedFor(c)'
  BY <1>6, QueueSureCounters DEF Queue!ProtectedFor
\* A step on from where it was sure of head_ already.
<1>7. ASSUME recs'[c] = recs[c], q_h'[c] = q_h[c], q_head' = q_head,
             q_pc[c] \in Queue!Sure \ {"read"},
             (q_n'[c] = q_n[c] /\ q_pc[c] # "next") \/ q_n'[c] = q_next[q_h[c]],
             q_pc'[c] \in Queue!SureOfNext => Queue!Kept(q_n'[c], recs[c][2]),
             q_pc'[c] = "cas" => q_h[c] # q_tail'
      PROVE  Queue!ProtectedFor(c)'
  <2>1. /\ Queue!Kept(q_h[c], recs[c][1])'
        /\ (q_pc'[c] \in Queue!SureOfNext => Queue!Kept(q_n[c], recs[c][2])')
    BY <1>1, <1>4, <1>7, QueueSureCounters DEF Queue!ProtectedFor
  <2>2. q_head' = Null \/ q_h'[c] = q_head' \/ q_h'[c] \in Queue!Popped'
    BY <1>1, <1>5, <1>7 DEF Queue!ProtectedFor
  <2>3. q_pc'[c] \in Queue!Sure \ {"next"} => q_n'[c] \in {Null, q_next'[q_h'[c]]}
    BY <1>1, <1>3, <1>7 DEF Queue!ProtectedFor
  <2> QED
    BY <1>7, <2>1, <2>2, <2>3 DEF Queue!ProtectedFor, Queue!Kept
<1> USE <1>1 DEF Queue!TypeOK, Queue!Goto
<1>8. CASE Queue!ClaimRecord(c) \/ Queue!LoadHead(c) \/ Queue!StoreHpHead(c)
  <2>1. q_pc'[c] \notin Queue!Sure
    BY <1>8, QueueSureCounters DEF Queue!ClaimRecord, Queue!LoadHead, Queue!StoreHpHead
  <2> QED
    BY <1>6, <2>1
<1>9. CASE Queue!CheckHead(c)
  <2>1. CASE q_h[c] # q_head
    <3>1. q_pc'[c] = "load"
      BY <1>9, <2>1 DEF Queue!CheckHead
    <3> QED
      BY <1>6, <3>1, QueueSureCounters
  <2>2. CASE q_h[c] = q_head
    <3>1. /\ q_pc[c] = "check_head" /\ q_pc'[c] = "next" /\ recs'[c] = recs[c]
          /\ q_h'[c] = q_h[c] /\ q_head' = q_head
      BY <1>9, <2>2 DEF Queue!CheckHead, Queue!hazard, Queue!queue
    <3>2. recs[c][1] \in Queue!Records
      BY <1>2, <3>1, QueueSureCounters, QueuePopCounters
    <3>3. q_head \in Queue!Live \cup {Null}
      BY DEF Queue!Shape
    <3>4. Queue!Kept(q_head, recs[c][1])'
      BY <1>4, <3>1, <3>2, <3>3, QueueLiveKept DEF Queue!Kept
    <3> QED
      BY <2>2, <3>1, <3>4, QueueSureCounters DEF Queue!ProtectedFor, Queue!Kept
  <2> QED
    BY <2>1, <2>2
<1>10. CASE Queue!LoadNext(c)
  <2>1. CASE q_h[c] # Null
    <3>1. /\ q_pc[c] = "next" /\ q_pc'[c] = "set_next" /\ q_n'[c] = q_next[q_h[c]]
          /\ q_h' = q_h /\ recs' = recs /\ q_head' = q_head
      BY <1>10, <2>1 DEF Queue!LoadNext, Queue!hazard, Queue!queue
    <3> QED
      BY <1>7, <3>1, QueueSureCounters
  <2>2. CASE q_h[c] = Null
    <3>1. /\ q_pc[c] = "next" /\ q_pc' = q_pc /\ q_n' = q_n /\ q_h' = q_h
          /\ recs' = recs /\ q_head' = q_head
      BY <1>10, <2>2 DEF Queue!LoadNext, Queue!hazard, Queue!queue
    <3>2. /\ Queue!Kept(q_h[c], recs[c][1])
          /\ (q_head = Null \/ q_h[c] = q_head \/ q_h[c] \in Queue!Popped)
      BY <3>1, QueueSureCounters DEF Queue!ProtectedFor
    <3>3. q_pc'[c] \notin Queue!SureOfNext /\ q_pc'[c] = "next"
      BY <3>1, QueueSureCounters
    <3>4. /\ Queue!Kept(q_h[c], recs[c][1])'
          /\ (q_head' = Null \/ q_h'[c] = q_head' \/ q_h'[c] \in Queue!Popped')
      BY <1>3, <1>5, <3>1, <3>2 DEF Queue!Kept
    <3> QED
      BY <3>3, <3>4 DEF Queue!ProtectedFor
  <2> QED
    BY <2>1, <2>2
<1>11. CASE Queue!StoreHpNext(c)
  BY <1>7, <1>11, QueueSureCounters DEF Queue!StoreHpNext, Queue!queue
<1>12. CASE Queue!CheckNext(c)
  <2>1. CASE q_h[c] # q_head
    <3>1. q_pc'[c] = "load"
      BY <1>12, <2>1 DEF Queue!CheckNext
    <3> QED
      BY <1>6, <3>1, QueueSureCounters
  <2>2. CASE q_h[c] = q_head
    <3>1. /\ q_pc[c] = "check_next" /\ q_pc'[c] = "tail" /\ recs' = recs
          /\ q_h' = q_h /\ q_n' = q_n /\ q_head' = q_head
      BY <1>12, <2>2 DEF Queue!CheckNext, Queue!hazard, Queue!queue
    <3>2. recs[c][2] \in Queue!Records /\ q_h[c] # Null
      BY <1>2, <3>1, QueueSureCounters, QueuePopCounters DEF Queue!PopperOK
    <3>3. q_n[c] \in {Null, q_next[q_h[c]]}
      BY <3>1, QueueSureCounters DEF Queue!ProtectedFor
    <3>4. q_n[c] \in Queue!Live \cup {Null}
      BY <2>2, <3>2, <3>3 DEF Queue!Shape
    <3>5. Queue!Kept(q_n[c], recs[c][2])
      BY <3>2, <3>4, QueueLiveKept
    <3> QED
      BY <1>7, <3>1, <3>5, QueueSureCounters
  <2> QED
    BY <2>1, <2>2
<1>13. CASE Queue!LoadTail(c)
  <2>1. /\ q_pc[c] = "tail" /\ recs' = recs /\ q_h' = q_h /\ q_n' = q_n
        /\ q_head' = q_head /\ q_tail' = q_tail
        /\ q_pc'[c] \in {"cas", "help", "clear_head_empty"}
        /\ (q_pc'[c] = "cas" => q_h[c] # q_tail)
    BY <1>13 DEF Queue!LoadTail, Queue!hazard, Queue!queue
  <2>2. Queue!Kept(q_n[c], recs[c][2])
    BY <2>1, QueueSureCounters DEF Queue!ProtectedFor
  <2> QED
    BY <1>6, <1>7, <2>1, <2>2, QueueSureCounters
<1>14. CASE Queue!PopHelp(c)
  <2>1. q_pc'[c] = "load"
    BY <1>14 DEF Queue!PopHelp
  <2> QED
    BY <1>6, <2>1, QueueSureCounters
<1>15. CASE Queue!PopCas(c)
  <2>1. /\ q_pc[c] = "cas" /\ recs' = recs /\ q_h' = q_h /\ q_n' = q_n
        /\ q_pc'[c] = "load" \/ q_pc'[c] = "read"
    BY <1>15 DEF Queue!PopCas, Queue!hazard
  <2>2. /\ Queue!Kept(q_h[c], recs[c][1]) /\ Queue!Kept(q_n[c], recs[c][2])
        /\ q_n[c] \in {Null, q_next[q_h[c]]}
    BY <2>1, QueueSureCounters DEF Queue!ProtectedFor
  <2>3. /\ Queue!Kept(q_h[c], recs[c][1])' /\ Queue!Kept(q_n[c], recs[c][2])'
        /\ q_n'[c] \in {Null, q_next'[q_h'[c]]}
    BY <1>3, <1>4, <2>1, <2>2 DEF Queue!Kept
  <2> QED
    BY <1>6, <2>1, <2>3, QueueSureCounters DEF Queue!ProtectedFor
<1>16. CASE Queue!ReadData(c)
  <2>1. CASE q_n[c] # Null
    <3>1. q_pc'[c] = "clear_head"
      BY <1>16, <2>1 DEF Queue!ReadData
    <3> QED
      BY <1>6, <3>1, QueueSureCounters
  <2>2. CASE q_n[c] = Null
    <3>1. q_pc[c] = "read" /\ q_pc' = q_pc /\ q_n' = q_n /\ q_h' = q_h /\ recs' = recs
      BY <1>16, <2>2 DEF Queue!ReadData, Queue!hazard
    <3>2. /\ Queue!Kept(q_h[c], recs[c][1]) /\ Queue!Kept(q_n[c], recs[c][2])
          /\ q_n[c] \in {Null, q_next[q_h[c]]}
      BY <3>1, QueueSureCounters DEF Queue!ProtectedFor
    <3>3. /\ Queue!Kept(q_h[c], recs[c][1])' /\ Queue!Kept(q_n[c], recs[c][2])'
          /\ q_n'[c] \in {Null, q_next'[q_h'[c]]}
      BY <1>3, <1>4, <3>1, <3>2 DEF Queue!Kept
    <3> QED
      BY <3>1, <3>3, QueueSureCounters DEF Queue!ProtectedFor
  <2> QED
    BY <2>1, <2>2
<1>17. CASE Queue!ClearHpHead(c)
  <2>1. q_pc'[c] \in {"clear_next", "clear_next_empty"}
    BY <1>17 DEF Queue!ClearHpHead
  <2> QED
    BY <1>6, <2>1, QueueSureCounters
<1>18. CASE Queue!ClearHpNext(c)
  <2>1. q_pc'[c] \in {"retire", "idle"}
    BY <1>18 DEF Queue!ClearHpNext
  <2> QED
    BY <1>6, <2>1, QueueSureCounters
<1> QED
  BY <1>8, <1>9, <1>10, <1>11, <1>12, <1>13, <1>14, <1>15, <1>16, <1>17, <1>18 DEF Queue!Pop

\* A thread that reclaims has made sure of nothing.
LEMMA QueueReclaimProtected ==
    ASSUME Queue!TypeOK, NEW c \in Consumers, Queue!Reclaim(c)
    PROVE  Queue!ProtectedFor(c)'
<1> USE QueueSureCounters DEF Queue!TypeOK, Queue!Goto, Queue!ProtectedFor, Queue!Callers
<1>1. CASE Queue!ReclaimLater(c) \/ Queue!ExchangeList(c) \/ Queue!NextNode(c)
  BY <1>1 DEF Queue!ReclaimLater, Queue!ExchangeList, Queue!NextNode
<1>2. CASE Queue!ScanRecord(c)
  BY <1>2 DEF Queue!ScanRecord
<1>3. CASE Queue!Delete(c) \/ Queue!KeepForLater(c)
  BY <1>3 DEF Queue!Delete, Queue!KeepForLater
<1> QED
  BY <1>1, <1>2, <1>3 DEF Queue!Reclaim

\* Every step keeps pops protected.
LEMMA QueueStepProtected ==
    ASSUME Queue!TypeOK, Queue!LocalsOK, Queue!Apart, Queue!Shape, Queue!RecordsSet,
           Queue!Protected, Queue!PushOK,
           NEW t \in Queue!Callers, QueueStepOf(t)
    PROVE  Queue!Protected'
<1> SUFFICES ASSUME NEW c \in Consumers PROVE Queue!ProtectedFor(c)'
  BY DEF Queue!Protected
<1>1. CASE c = t
  BY <1>1, QueuePopProtected, QueueReclaimProtected, QueueConstantsHold
  DEF QueueStepOf
<1> QED
  BY <1>1, QueueOthersProtected

-----------------------------------------------------------------------------
(* What a push may touch *)

\* Pops alone, or one thread that pushes.
QueueOneSidedTeam == team \cap Consumers = {} \/ \A p, q \in team \cap Producers : p = q

\* The program counters of a push.
QueuePushCounters ==
    /\ Queue!Behind = {"p_next", "p_check", "p_link", "p_help"}
    /\ Queue!Filling = {"p_tail", "p_next", "p_check", "p_link", "p_help"}

\* The definitions say so.
LEMMA QueuePushCountersAre == QueuePushCounters
BY DEF QueuePushCounters, Queue!Behind, Queue!Filling

\* What a push does with its locals on the way to its link.
LEMMA QueuePushSteps ==
    ASSUME Queue!TypeOK, NEW p \in Producers, Queue!Push(p)
    PROVE  /\ q_pc'[p] \in Queue!Behind =>
                  /\ q_next' = q_next /\ q_tail' = q_tail /\ q_nd'[p] = q_nd[p]
                  /\ \/ q_pc'[p] = "p_next" /\ q_tl'[p] = q_tail
                     \/ /\ q_pc[p] = "p_next" /\ q_pc'[p] = "p_check"
                        /\ q_tl'[p] = q_tl[p] /\ q_n'[p] = q_next[q_tl[p]]
                     \/ /\ q_pc[p] = "p_check" /\ q_tl'[p] = q_tl[p] /\ q_n'[p] = q_n[p]
                        /\ q_pc'[p] # "p_next"
                        /\ q_n[p] = Null => q_pc'[p] # "p_help"
           /\ q_pc'[p] = "p_advance" => QueueLinks(p)
<1> USE QueuePushCountersAre
    DEF QueuePushCounters, Queue!TypeOK, Queue!Goto, Queue!Callers, Queue!queue
<1>1. CASE Queue!PushAlloc(p)
  BY <1>1 DEF Queue!PushAlloc
<1>2. CASE Queue!PushLoadTail(p)
  BY <1>2 DEF Queue!PushLoadTail
<1>3. CASE Queue!PushLoadNext(p)
  BY <1>3 DEF Queue!PushLoadNext
<1>4. CASE Queue!PushCheck(p)
  BY <1>4 DEF Queue!PushCheck
<1>5. CASE Queue!PushLink(p)
  BY <1>5 DEF Queue!PushLink, QueueLinks
<1>6. CASE Queue!PushAdvance(p)
  BY <1>6 DEF Queue!PushAdvance
<1>7. CASE Queue!PushHelp(p)
  BY <1>7 DEF Queue!PushHelp
<1> QED
  BY <1>1, <1>2, <1>3, <1>4, <1>5, <1>6, <1>7 DEF Queue!Push

\* The queue only loses a node to the pop that takes the first one.
LEMMA QueueLiveMoves ==
    ASSUME Queue!TypeOK, Queue!LocalsOK, Queue!Apart, Queue!Shape, NEW t \in Queue!Callers,
           QueueStepOf(t)
    PROVE  Queue!Live \subseteq Queue!Live' \/ (t \in Consumers /\ QueueTakes(t))
<1>1. QueueOthers(t)
  BY QueueStepOthers
<1>2. CASE t \in Producers /\ Queue!Push(t)
  BY <1>1, <1>2, QueuePushCases, QueuePushMoves, QueueQuietFrame
  DEF Queue!LocalsOK, QueueStill
<1>3. CASE t \in Consumers /\ Queue!Pop(t)
  BY <1>1, <1>3, QueuePopCases, QueuePopMoves, QueueQuietFrame
  DEF Queue!LocalsOK, QueueStill
<1>4. CASE t \in Consumers /\ Queue!Reclaim(t)
  BY <1>1, <1>4, QueueReclaimFrame DEF Queue!LocalsOK
<1> QED
  BY <1>2, <1>3, <1>4 DEF QueueStepOf

\* The nodes a push has in hand are nodes of the queue, as long as it needs them.
LEMMA QueueStepPushSafe ==
    ASSUME Queue!TypeOK, Queue!LocalsOK, Queue!Apart, Queue!Shape, Queue!Protected,
           Queue!PushOK,
           NEW t \in Queue!Callers, QueueStepOf(t), NEW p \in Producers
    PROVE  Queue!PushSafe(p)'
<1>1. QueueOthers(t) /\ p \in Queue!Callers /\ Queue!PushSafe(p)
  BY QueueStepOthers DEF Queue!Callers, Queue!PushOK
<1>2. CASE p = t
  <2>1. Queue!Push(p) /\ Queue!PusherOK(p)
    BY <1>2, QueueConstantsHold DEF QueueStepOf, Queue!LocalsOK
  <2>2. Queue!Live \subseteq Queue!Live'
    BY <1>2, QueueLiveMoves, QueueConstantsHold
  <2>3. q_pc'[p] \in Queue!Behind => q_tl'[p] \in Queue!Live
    BY <1>1, <2>1, QueuePushSteps, QueuePushCountersAre
    DEF QueuePushCounters, Queue!PushSafe, Queue!Shape
  <2>4. q_pc'[p] \in Queue!Behind \ {"p_next"} => q_n'[p] \in Queue!Live \cup {Null}
    BY <1>1, <2>1, QueuePushSteps, QueuePushCountersAre
    DEF QueuePushCounters, Queue!PushSafe, Queue!Shape
  <2>5. q_pc'[p] = "p_advance" => q_nd'[p] \in Queue!Live'
    BY <1>1, <1>2, <2>1, QueuePushSteps, QueuePushMoves
  <2> QED
    BY <2>2, <2>3, <2>4, <2>5 DEF Queue!PushSafe
<1>3. CASE p # t
  <2>1. q_pc'[p] = q_pc[p] /\ q_nd'[p] = q_nd[p] /\ q_n'[p] = q_n[p] /\ q_tl'[p] = q_tl[p]
    BY <1>1, <1>3 DEF QueueOthers
  <2>2. CASE Queue!Live \subseteq Queue!Live'
    BY <1>1, <2>1, <2>2 DEF Queue!PushSafe
  <2>3. CASE t \in Consumers /\ QueueTakes(t)
    <3>1. Queue!Live' = Queue!Live \ {q_head} /\ q_pc[t] = "cas" /\ q_head = q_h[t]
      BY <1>1, <2>3, QueuePopMoves DEF Queue!LocalsOK
    <3>2. q_head # q_tail
      BY <2>3, <3>1, QueueTakesFirst DEF Queue!LocalsOK
    <3>3. t \in team
      BY <3>1 DEF Queue!LocalsOK
    <3>4. /\ Queue!PushAlone(p) /\ q_tail \in Queue!Live
          /\ (q_next[q_tail] # Null => q_next[q_tail] # q_head)
          /\ Null \notin Queue!Live
      BY <2>3, <3>3, QueueConstantsHold DEF Queue!PushOK, Queue!Shape, Queue!Live
    <3> QED
      BY <1>1, <2>1, <3>1, <3>2, <3>4, QueuePushCountersAre
      DEF QueuePushCounters, Queue!PushSafe, Queue!PushAlone
  <2> QED
    BY <2>2, <2>3, QueueLiveMoves
<1> QED
  BY <1>2, <1>3

\* Where pops are at work, two threads that are not idle are not both pushing.
LEMMA QueueOnePusher ==
    ASSUME Queue!LocalsOK, QueueOneSidedTeam, team \cap Consumers # {},
           NEW p \in Producers, NEW q \in Producers, q_pc[p] # "idle", q \in team
    PROVE  p = q
BY DEF Queue!LocalsOK, QueueOneSidedTeam, Queue!Callers

\* There tail_ lags behind only by the node that the one push is about to move it to.
LEMMA QueueStepPushAlone ==
    ASSUME Queue!TypeOK, Queue!LocalsOK, Queue!Apart, Queue!Shape, Queue!Protected,
           Queue!PushOK, Queue!TailLags, QueueOneSidedTeam,
           team \cap Consumers # {}, NEW t \in team, QueueStepOf(t), NEW p \in Producers
    PROVE  Queue!PushAlone(p)'
<1>1. t \in Queue!Callers /\ p \in Queue!Callers /\ Queue!PushSafe(p) /\ Queue!PushAlone(p)
  BY DEF Queue!Callers, Queue!PushOK, Queue!TypeOK
<1>2. QueueOthers(t)
  BY <1>1, QueueStepOthers
<1>3. q_pc[p] # "idle" /\ q_pc[p] # "p_advance" => q_next[q_tail] = Null
  BY QueueOnePusher DEF Queue!TailLags, Queue!LocalsOK, Queue!Callers
<1>4. CASE p = t
  <2>1. Queue!Push(p) /\ Queue!PusherOK(p)
    BY <1>4, QueueConstantsHold DEF QueueStepOf, Queue!LocalsOK
  <2>2. /\ q_pc'[p] \in Queue!Behind => q_tl'[p] = q_tail' /\ q_pc'[p] # "p_help"
        /\ q_pc'[p] \in Queue!Behind \ {"p_next"} => q_n'[p] = Null
    <3> SUFFICES ASSUME q_pc'[p] \in Queue!Behind
                 PROVE  /\ q_tl'[p] = q_tail' /\ q_pc'[p] # "p_help"
                        /\ q_pc'[p] # "p_next" => q_n'[p] = Null
      OBVIOUS
    <3>1. q_tail' = q_tail
      BY <2>1, QueuePushSteps
    <3>2. CASE q_pc'[p] = "p_next" /\ q_tl'[p] = q_tail
      BY <3>1, <3>2
    <3>3. CASE /\ q_pc[p] = "p_next" /\ q_pc'[p] = "p_check" /\ q_tl'[p] = q_tl[p]
               /\ q_n'[p] = q_next[q_tl[p]]
      BY <1>1, <1>3, <3>1, <3>3, QueuePushCountersAre DEF QueuePushCounters, Queue!PushAlone
    <3>4. CASE /\ q_pc[p] = "p_check" /\ q_tl'[p] = q_tl[p] /\ q_n'[p] = q_n[p]
               /\ q_pc'[p] # "p_next"
               /\ q_n[p] = Null => q_pc'[p] # "p_help"
      BY <1>1, <3>1, <3>4, QueuePushCountersAre DEF QueuePushCounters, Queue!PushAlone
    <3> QED
      BY <2>1, <3>2, <3>3, <3>4, QueuePushSteps
  <2>3. ASSUME q_pc'[p] = "p_advance"
        PROVE  /\ q_next'[q_nd'[p]] = Null
               /\ q_tail' = q_tl'[p] /\ q_next'[q_tail'] = q_nd'[p]
    <3>1. /\ q_nd[p] \in QueueNodes \ Queue!Live
          /\ q_next' = [q_next EXCEPT ![q_tl[p]] = q_nd[p]]
          /\ q_tail' = q_tail /\ q_nd' = q_nd /\ q_tl' = q_tl /\ q_pc[p] = "p_link"
      BY <1>2, <1>4, <2>1, <2>3, QueuePushSteps, QueuePushMoves
    <3>2. q_tl[p] = q_tail /\ q_tail \in Queue!Live /\ q_next[q_nd[p]] = Null
      BY <1>1, <3>1, QueuePushCountersAre
      DEF QueuePushCounters, Queue!PushAlone, Queue!Shape
    <3> QED
      BY <3>1, <3>2 DEF Queue!TypeOK
  <2> QED
    BY <2>2, <2>3, QueuePushCountersAre DEF QueuePushCounters, Queue!PushAlone
<1>5. CASE p # t
  <2>1. q_pc'[p] = q_pc[p] /\ q_nd'[p] = q_nd[p] /\ q_n'[p] = q_n[p] /\ q_tl'[p] = q_tl[p]
    BY <1>1, <1>2, <1>5 DEF QueueOthers
  <2>2. CASE q_pc[p] = "idle"
    BY <2>1, <2>2, QueuePushCountersAre DEF QueuePushCounters, Queue!PushAlone
  <2>3. CASE q_pc[p] # "idle"
    <3>1. t \notin Producers
      BY <1>5, <2>3, QueueOnePusher
    <3>2. q_next' = q_next
      BY <1>1, <3>1, QueueNextMoves
    <3>3. q_tail' = q_tail \/ (q_tail' = q_next[q_tail] /\ q_tail' \in Queue!Live)
      BY <1>1, QueueTailMoves
    <3>4. Null \notin Queue!Live
      BY QueueConstantsHold DEF Queue!Live
    <3> QED
      BY <1>1, <1>3, <2>1, <2>3, <3>2, <3>3, <3>4, QueuePushCountersAre
      DEF QueuePushCounters, Queue!PushAlone
  <2> QED
    BY <2>2, <2>3
<1> QED
  BY <1>4, <1>5

\* Every step keeps pushes safe.
LEMMA QueueStepPushOK ==
    ASSUME Queue!TypeOK, Queue!LocalsOK, Queue!Apart, Queue!Shape, Queue!Protected,
           Queue!PushOK, Queue!TailLags, QueueOneSidedTeam,
           NEW t \in team, QueueStepOf(t), team' = team
    PROVE  Queue!PushOK'
<1>1. t \in Queue!Callers
  BY DEF Queue!TypeOK
<1>2. \A p \in Producers : Queue!PushSafe(p)'
  BY <1>1, QueueStepPushSafe
<1>3. team \cap Consumers # {} => \A p \in Producers : Queue!PushAlone(p)'
  BY QueueStepPushAlone
<1> QED
  BY <1>2, <1>3 DEF Queue!PushOK

\* Whoever puts a node behind tail_ is about to move tail_ on.
LEMMA QueueStepTailLags ==
    ASSUME Queue!TypeOK, Queue!LocalsOK, Queue!Apart, Queue!Shape, Queue!Protected,
           Queue!PushOK, Queue!TailLags, QueueOneSidedTeam,
           NEW t \in team, QueueStepOf(t), team' = team
    PROVE  Queue!TailLags'
<1> SUFFICES ASSUME team \cap Consumers # {}, q_next'[q_tail'] # Null
             PROVE  \E p \in Producers : q_pc'[p] = "p_advance"
  BY DEF Queue!TailLags
<1>1. t \in Queue!Callers
  BY DEF Queue!TypeOK
<1>2. QueueOthers(t)
  BY <1>1, QueueStepOthers
<1>3. ASSUME q_next[q_tail] # Null, ~(t \in Producers /\ q_pc[t] = "p_advance")
      PROVE  \E p \in Producers : q_pc'[p] = "p_advance"
  <2>1. PICK p \in Producers : q_pc[p] = "p_advance"
    BY <1>3 DEF Queue!TailLags
  <2> QED
    BY <1>2, <1>3, <2>1 DEF QueueOthers, Queue!Callers
<1>4. CASE t \in Consumers
  <2>1. q_next' = q_next
    BY <1>1, <1>4, QueueNextMoves, QueueConstantsHold
  <2>2. q_next[q_tail] # Null
    BY <1>1, <2>1, QueueTailMoves, QueueConstantsHold DEF Queue!Live
  <2> QED
    BY <1>3, <1>4, <2>2, QueueConstantsHold
<1>5. CASE t \in Producers
  <2>1. Queue!Push(t) /\ Queue!PusherOK(t) /\ Queue!PushAlone(t)
    BY <1>5, QueueConstantsHold DEF QueueStepOf, Queue!LocalsOK, Queue!PushOK
  <2>2. CASE QueueLinks(t)
    BY <1>2, <1>5, <2>1, <2>2, QueuePushMoves
  <2>3. CASE Queue!PushAlloc(t)
    <3>1. q_next'[q_tail'] = q_next[q_tail]
      <4>1. q_tail \in Queue!Live /\ q_tail' = q_tail
        BY <1>2, <1>5, <2>1, <2>3, QueuePushMoves DEF Queue!Shape
      <4>2. PICK x \in q_free : q_next' = [q_next EXCEPT ![x] = Null]
        BY <2>3 DEF Queue!PushAlloc
      <4> QED
        BY <4>1, <4>2 DEF Queue!Live, Queue!TypeOK
    <3>2. q_pc[t] = "idle"
      BY <2>3 DEF Queue!PushAlloc, Queue!Goto
    <3> QED
      BY <1>3, <3>1, <3>2
  <2>4. CASE QueueStill(t)
    <3>1. q_next' = q_next
      BY <2>4 DEF QueueStill
    <3>2. CASE q_pc[t] = "p_advance"
      <4>1. Queue!PushAdvance(t)
        BY <2>1, <3>2
        DEF Queue!Push, Queue!PushAlloc, Queue!PushLoadTail, Queue!PushLoadNext,
            Queue!PushCheck, Queue!PushLink, Queue!PushHelp, Queue!Goto
      <4>2. q_tail' = IF q_tail = q_tl[t] THEN q_nd[t] ELSE q_tail
        BY <4>1 DEF Queue!PushAdvance
      <4> QED
        BY <2>1, <3>1, <3>2, <4>2 DEF Queue!PushAlone
    <3>3. CASE q_pc[t] # "p_advance"
      <4>1. q_pc[t] # "p_help"
        BY <2>1, QueuePushCountersAre DEF QueuePushCounters, Queue!PushAlone
      <4>2. q_tail' = q_tail
        BY <1>5, <2>1, <3>3, <4>1, QueuePushTail
      <4> QED
        BY <1>3, <3>1, <3>3, <4>2
    <3> QED
      BY <3>2, <3>3
  <2> QED
    BY <1>5, <2>1, <2>2, <2>3, <2>4, QueuePushCases
<1> QED
  BY <1>1, <1>4, <1>5 DEF Queue!Callers

-----------------------------------------------------------------------------
(* First in, first out *)

\* The values of all nodes but the first.
QueueValuesBehind(f, c) == Contents(f, Tail(c))

\* They are a sequence, and the same as long as the nodes hold the same.
LEMMA QueueBehindFrame ==
    ASSUME NEW S, NEW f, NEW g, NEW c \in Seq(S), c # <<>>,
           \A m \in Elements(c) : g[m] = f[m]
    PROVE  QueueValuesBehind(g, c) = QueueValuesBehind(f, c)
<1>1. /\ Tail(c) \in Seq(S) /\ Len(Tail(c)) = Len(c) - 1 /\ Len(c) \in Nat
      /\ \A i \in 1 .. Len(c) - 1 : Tail(c)[i] = c[i + 1]
      /\ DOMAIN Tail(c) = 1 .. Len(Tail(c))
  OBVIOUS
<1>2. \A i \in DOMAIN Tail(c) : i + 1 \in 1 .. Len(c)
  BY <1>1
<1>3. \A i \in DOMAIN Tail(c) : g[Tail(c)[i]] = f[Tail(c)[i]]
  BY <1>1, <1>2 DEF Elements
<1> QED
  BY <1>3 DEF QueueValuesBehind, Contents

\* A node put at the end adds its value at the end.
LEMMA QueueBehindAppend ==
    ASSUME NEW S, NEW f, NEW c \in Seq(S), c # <<>>, NEW m \in S
    PROVE  QueueValuesBehind(f, c \o <<m>>) = QueueValuesBehind(f, c) \o <<f[m]>>
<1>1. Tail(c) \in Seq(S) /\ Tail(c \o <<m>>) = Tail(c) \o <<m>>
  <2>1. /\ Len(c) \in Nat /\ Len(c) # 0 /\ c \o <<m>> \in Seq(S) /\ Len(c \o <<m>>) = Len(c) + 1
        /\ \A i \in 1 .. Len(c) : (c \o <<m>>)[i] = c[i]
        /\ (c \o <<m>>)[Len(c) + 1] = m
    OBVIOUS
  <2>2. Tail(c) \in Seq(S) /\ Tail(c \o <<m>>) \in Seq(S) /\ Tail(c) \o <<m>> \in Seq(S)
    BY <2>1
  <2>3. /\ Len(Tail(c)) = Len(c) - 1 /\ Len(Tail(c \o <<m>>)) = Len(c)
        /\ \A i \in 1 .. Len(c) - 1 : Tail(c)[i] = c[i + 1]
        /\ \A i \in 1 .. Len(c) : Tail(c \o <<m>>)[i] = (c \o <<m>>)[i + 1]
    BY <2>1
  <2>4. /\ Len(Tail(c) \o <<m>>) = Len(c)
        /\ \A i \in 1 .. Len(c) - 1 : (Tail(c) \o <<m>>)[i] = c[i + 1]
        /\ (Tail(c) \o <<m>>)[Len(c)] = m
    BY <2>1, <2>2, <2>3
  <2>5. \A i \in 1 .. Len(c) : Tail(c \o <<m>>)[i] = (Tail(c) \o <<m>>)[i]
    BY <2>1, <2>3, <2>4
  <2>6. Len(Tail(c \o <<m>>)) = Len(Tail(c) \o <<m>>) /\ Len(Tail(c) \o <<m>>) = Len(c)
    BY <2>3, <2>4
  <2> DEFINE a == Tail(c \o <<m>>)
             b == Tail(c) \o <<m>>
  <2>7. a \in Seq(S) /\ b \in Seq(S) /\ Len(a) = Len(b) /\ \A i \in 1 .. Len(a) : a[i] = b[i]
    BY <2>2, <2>5, <2>6
  <2> HIDE DEF a, b
  <2>8. a = b
    BY <2>7
  <2> QED
    BY <2>2, <2>8 DEF a, b
<1> QED
  BY <1>1, ContentsAppend DEF QueueValuesBehind, ValueOf

\* Without the first node, the value of the second is gone.
LEMMA QueueBehindPop ==
    ASSUME NEW S, NEW f, NEW c \in Seq(S), Tail(c) # <<>>, c # <<>>
    PROVE  /\ QueueValuesBehind(f, c) # <<>>
           /\ Head(QueueValuesBehind(f, c)) = f[Tail(c)[1]]
           /\ QueueValuesBehind(f, Tail(c)) = Tail(QueueValuesBehind(f, c))
<1>1. Tail(c) \in Seq(S)
  OBVIOUS
<1> QED
  BY <1>1, ContentsPop DEF QueueValuesBehind, ValueOf

\* The values are numbers.
LEMMA QueueBehindType ==
    ASSUME NEW S, NEW f \in [S -> Nat], NEW c \in Seq(S), c # <<>>
    PROVE  QueueValuesBehind(f, c) \in Seq(Nat)
<1>1. Tail(c) \in Seq(S)
  OBVIOUS
<1> HIDE DEF QueueValuesBehind
<1>2. /\ DOMAIN Tail(c) = 1 .. Len(Tail(c)) /\ Len(Tail(c)) \in Nat
      /\ \A i \in DOMAIN Tail(c) : Tail(c)[i] \in S
  BY <1>1
<1>3. \A i \in DOMAIN Tail(c) : f[Tail(c)[i]] \in Nat
  BY <1>2
<1>4. QueueValuesBehind(f, c) \in [1 .. Len(Tail(c)) -> Nat]
  BY <1>2, <1>3 DEF QueueValuesBehind, Contents
<1> QED
  BY <1>2, <1>4, SMTT(30)

\* A value put at the end of b is put at the end of both.
LEMMA QueueMoveRight ==
    ASSUME NEW a \in Seq(Nat), NEW b \in Seq(Nat), NEW v \in Nat
    PROVE  a \o (b \o <<v>>) = Append(a \o b, v)
BY SMTT(30)

\* The first value of b, moved to the end of a.
LEMMA QueueMoveLeft ==
    ASSUME NEW a \in Seq(Nat), NEW b \in Seq(Nat), b # <<>>
    PROVE  Append(a, Head(b)) \o Tail(b) = a \o b
BY SMTT(30)

\* A step that leaves the links and the values of the queue alone.
LEMMA QueueFifoFrame ==
    ASSUME Queue!TypeOK, Queue!AllLinked, Queue!FifoUntilNull, q_head # Null, q_head' = q_head,
           Queue!Live' = Queue!Live,
           \A x \in Queue!Live : q_next'[x] = q_next[x] /\ q_data'[x] = q_data[x],
           pushed' = pushed, popped' = popped
    PROVE  Queue!AllLinked' /\ Queue!FifoUntilNull'
<1> DEFINE c == ListOf(q_head, q_next, Null, QueueNodes)
           d == ListOf(q_head', q_next', Null, QueueNodes)
<1>1. IsFiniteSet(QueueNodes) /\ Null \notin QueueNodes
  BY QueueConstantsHold
<1>2. /\ IsLinked(q_head, q_next, Null, QueueNodes)
      /\ OnList(q_head, q_next, Null, QueueNodes) = Queue!Live
  BY QueueListsAre DEF Queue!AllLinked
<1>3. /\ d = c /\ IsLinked(q_head', q_next', Null, QueueNodes)
      /\ OnList(q_head', q_next', Null, QueueNodes) = Queue!Live'
  BY <1>1, <1>2, ListFrame
<1>4. c \in Seq(QueueNodes) /\ c # <<>> /\ Elements(c) = Queue!Live
  BY <1>1, <1>2, ListNodes DEF IsLinked, OnList
<1>5. /\ Queue!Queued = QueueValuesBehind(q_data, c)
      /\ Queue!Queued' = QueueValuesBehind(q_data', d)
  BY QueueListsAre DEF Queue!Queued, QueueValuesBehind, Contents
<1> HIDE DEF c, d
<1>6. QueueValuesBehind(q_data', c) = QueueValuesBehind(q_data, c)
  BY <1>4, QueueBehindFrame
<1>7. Queue!AllLinked'
  BY <1>3, QueueListsAre DEF Queue!AllLinked
<1>8. Queue!FifoUntilNull'
  BY <1>3, <1>5, <1>6 DEF Queue!FifoUntilNull
<1> QED
  BY <1>7, <1>8

\* A push links its node at the end.
LEMMA QueueFifoLink ==
    ASSUME Queue!TypeOK, Queue!Shape, Queue!AllLinked, Queue!FifoUntilNull, q_head # Null,
           q_head' = q_head,
           NEW l \in Queue!Live, q_next[l] = Null, NEW x \in QueueNodes \ Queue!Live,
           q_next[x] = Null,
           Queue!Live' = Queue!Live \cup {x}, q_next' = [q_next EXCEPT ![l] = x],
           q_data' = q_data,
           pushed' = Append(pushed, q_data[x]), popped' = popped
    PROVE  Queue!AllLinked' /\ Queue!FifoUntilNull'
<1> DEFINE c == ListOf(q_head, q_next, Null, QueueNodes)
           d == ListOf(q_head', q_next', Null, QueueNodes)
<1>1. IsFiniteSet(QueueNodes) /\ Null \notin QueueNodes
  BY QueueConstantsHold
<1>2. /\ IsLinked(q_head, q_next, Null, QueueNodes)
      /\ OnList(q_head, q_next, Null, QueueNodes) = Queue!Live
  BY QueueListsAre DEF Queue!AllLinked
<1>5. /\ l \in QueueNodes /\ q_next'[l] = x
      /\ \A k \in Queue!Live \cup {x} : k # l => q_next'[k] = q_next[k]
  BY DEF Queue!TypeOK, Queue!Live
<1>6. /\ IsLinked(q_head, q_next', Null, QueueNodes)
      /\ ListOf(q_head, q_next', Null, QueueNodes) = c \o <<x>>
      /\ OnList(q_head, q_next', Null, QueueNodes) = Queue!Live \cup {x}
  <2>1. /\ l \in OnList(q_head, q_next, Null, QueueNodes)
        /\ x \notin OnList(q_head, q_next, Null, QueueNodes)
    BY <1>2
  <2>2. Relinked(OnList(q_head, q_next, Null, QueueNodes) \cup {x}, l, q_next, q_next')
    BY <1>2, <1>5 DEF Relinked
  <2>3. AddsLast(q_head, x, q_next, q_next', Null, QueueNodes)
    BY <1>1, <1>2, <1>5, <2>1, <2>2, ListAddLast
  <2> QED
    BY <1>2, <2>3 DEF AddsLast
<1>7. c \in Seq(QueueNodes) /\ c # <<>>
  BY <1>1, <1>2, ListNodes DEF IsLinked
<1>8. /\ Queue!Queued = QueueValuesBehind(q_data, c)
      /\ Queue!Queued' = QueueValuesBehind(q_data', d) /\ d = c \o <<x>>
  BY <1>6, QueueListsAre DEF Queue!Queued, QueueValuesBehind, Contents
<1> HIDE DEF c, d
<1>9. Queue!Queued' = Queue!Queued \o <<q_data[x]>>
  BY <1>7, <1>8, QueueBehindAppend
<1>10. Queue!AllLinked'
  BY <1>6, QueueListsAre DEF Queue!AllLinked
<1>11. popped \o Queue!Queued = pushed /\ Queue!Queued \in Seq(Nat) /\ q_data[x] \in Nat
  BY <1>7, <1>8, QueueBehindType DEF Queue!FifoUntilNull, Queue!TypeOK
<1>12. popped \in Seq(Nat) /\ pushed \in Seq(Nat)
  BY DEF Queue!TypeOK
<1>13. popped \o (Queue!Queued \o <<q_data[x]>>) = Append(pushed, q_data[x])
  BY <1>11, <1>12, QueueMoveRight
<1>14. Queue!FifoUntilNull'
  BY <1>9, <1>13 DEF Queue!FifoUntilNull
<1> QED
  BY <1>10, <1>14

\* A pop takes the value behind the sentinel.
LEMMA QueueFifoTake ==
    ASSUME Queue!TypeOK, Queue!AllLinked, Queue!FifoUntilNull, q_head # Null,
           q_next[q_head] # Null,
           q_head' = q_next[q_head], Queue!Live' = Queue!Live \ {q_head}, q_next' = q_next,
           q_data' = q_data,
           pushed' = pushed, popped' = Append(popped, q_data[q_next[q_head]])
    PROVE  Queue!AllLinked' /\ Queue!FifoUntilNull'
<1> DEFINE c == ListOf(q_head, q_next, Null, QueueNodes)
           d == ListOf(q_next[q_head], q_next, Null, QueueNodes)
<1>1. IsFiniteSet(QueueNodes) /\ Null \notin QueueNodes
  BY QueueConstantsHold
<1>2. /\ IsLinked(q_head, q_next, Null, QueueNodes)
      /\ OnList(q_head, q_next, Null, QueueNodes) = Queue!Live
  BY QueueListsAre DEF Queue!AllLinked
<1>d. DropsFirst(q_head, q_next, Null, QueueNodes)
  BY <1>1, <1>2, ListDrop
<1>3. /\ d = Tail(c) /\ IsLinked(q_next[q_head], q_next, Null, QueueNodes)
      /\ OnList(q_next[q_head], q_next, Null, QueueNodes) = Queue!Live \ {q_head}
  BY <1>2, <1>d DEF DropsFirst
<1>4. c \in Seq(QueueNodes) /\ c # <<>> /\ d # <<>> /\ d[1] = q_next[q_head]
  <2>1. StartsWith(q_next[q_head], d)
    BY <1>1, <1>3, ListStart
  <2> QED
    BY <1>1, <1>2, <2>1, ListNodes DEF IsLinked, StartsWith
<1>5. Queue!Queued = QueueValuesBehind(q_data, c) /\ Queue!Queued' = QueueValuesBehind(q_data, d)
  BY QueueListsAre DEF Queue!Queued, QueueValuesBehind, Contents
<1> HIDE DEF c, d
<1>6. /\ Queue!Queued # <<>> /\ Head(Queue!Queued) = q_data[q_next[q_head]]
      /\ Queue!Queued' = Tail(Queue!Queued)
  BY <1>3, <1>4, <1>5, QueueBehindPop
<1>7. Queue!AllLinked'
  BY <1>3, QueueListsAre DEF Queue!AllLinked
<1>8. popped \o Queue!Queued = pushed /\ Queue!Queued \in Seq(Nat)
  BY <1>4, <1>5, QueueBehindType DEF Queue!FifoUntilNull, Queue!TypeOK
<1>9. popped \in Seq(Nat)
  BY DEF Queue!TypeOK
<1>10. Append(popped, Head(Queue!Queued)) \o Tail(Queue!Queued) = popped \o Queue!Queued
  BY <1>6, <1>8, <1>9, QueueMoveLeft
<1>11. Queue!FifoUntilNull'
  BY <1>6, <1>8, <1>10 DEF Queue!FifoUntilNull
<1> QED
  BY <1>7, <1>11

\* Every step keeps the line, and what was popped and what is queued what was pushed.
LEMMA QueueStepFifo ==
    ASSUME Queue!TypeOK, Queue!LocalsOK, Queue!Apart, Queue!Shape, Queue!Protected,
           Queue!PushOK, Queue!AllLinked, Queue!FifoUntilNull,
           NEW t \in Queue!Callers, QueueStepOf(t)
    PROVE  Queue!AllLinked' /\ Queue!FifoUntilNull'
<1>1. QueueOthers(t)
  BY QueueStepOthers
<1>2. ASSUME q_head' = Null PROVE Queue!AllLinked' /\ Queue!FifoUntilNull'
  BY <1>2 DEF Queue!AllLinked, Queue!FifoUntilNull
<1>3. CASE q_head = Null
  <2>1. ~(t \in Consumers /\ QueueTakes(t))
    BY <1>1, <1>3, QueuePopMoves, QueueConstantsHold DEF Queue!LocalsOK, Queue!Live
  <2>2. t \in Consumers /\ QueueEmpties(t) => q_head' = Null
    BY <1>1, QueuePopMoves DEF Queue!LocalsOK
  <2> QED
    BY <1>2, <1>3, <2>1, <2>2, QueueHeadMoves
<1>4. ASSUME QueueStill(t), q_head # Null PROVE Queue!AllLinked' /\ Queue!FifoUntilNull'
  BY <1>1, <1>4, QueueQuietFrame, QueueFifoFrame DEF QueueStill
<1>5. CASE q_head # Null /\ t \in Producers /\ Queue!Push(t)
  <2>1. Queue!PusherOK(t)
    BY <1>5 DEF Queue!LocalsOK
  <2>2. CASE Queue!PushAlloc(t)
    <3>1. PICK x \in q_free :
            /\ Queue!Live' = Queue!Live /\ q_next' = [q_next EXCEPT ![x] = Null]
            /\ q_data' = [q_data EXCEPT ![x] = called']
            /\ q_head' = q_head /\ pushed' = pushed /\ popped' = popped
      BY <1>1, <1>5, <2>1, <2>2, QueuePushMoves
    <3>2. \A y \in Queue!Live : q_next'[y] = q_next[y] /\ q_data'[y] = q_data[y]
      BY <3>1 DEF Queue!Live, Queue!TypeOK
    <3> QED
      BY <1>5, <3>1, <3>2, QueueFifoFrame
  <2>3. CASE QueueLinks(t)
    <3>1. /\ q_nd[t] \in QueueNodes \ Queue!Live /\ Queue!Live' = Queue!Live \cup {q_nd[t]}
          /\ q_next' = [q_next EXCEPT ![q_tl[t]] = q_nd[t]]
          /\ pushed' = Append(pushed, q_data[q_nd[t]])
          /\ q_head' = q_head /\ q_data' = q_data /\ popped' = popped /\ q_pc[t] = "p_link"
      BY <1>1, <1>5, <2>1, <2>3, QueuePushMoves
    <3>2. q_tl[t] \in Queue!Live /\ q_next[q_tl[t]] = Null /\ q_next[q_nd[t]] = Null
      BY <1>5, <2>3, <3>1
      DEF Queue!PushOK, Queue!PushSafe, Queue!Behind, Queue!Filling, Queue!Shape,
          QueueLinks
    <3>3. PICK l \in Queue!Live, x \in QueueNodes \ Queue!Live : l = q_tl[t] /\ x = q_nd[t]
      BY <3>1, <3>2
    <3> QED
      BY <1>5, <3>1, <3>2, <3>3, QueueFifoLink
  <2> QED
    BY <1>4, <1>5, <2>1, <2>2, <2>3, QueuePushCases
<1>6. CASE q_head # Null /\ t \in Consumers /\ Queue!Pop(t)
  <2>1. Queue!PopperOK(t)
    BY <1>6 DEF Queue!LocalsOK
  <2>2. CASE QueueTakes(t)
    <3>1. /\ Queue!Live' = Queue!Live \ {q_head} /\ q_head = q_h[t] /\ q_head' = q_n[t]
          /\ q_n[t] # Null
          /\ popped' = Append(popped, q_data[q_n[t]]) /\ q_pc[t] = "cas"
          /\ q_next' = q_next /\ q_data' = q_data /\ pushed' = pushed
      BY <1>1, <1>6, <2>1, <2>2, QueuePopMoves
    <3>2. q_n[t] = q_next[q_head]
      BY <1>6, <2>1, <3>1, QueueTakesFirst
    <3> QED
      BY <1>6, <3>1, <3>2, QueueFifoTake
  <2>3. CASE QueueEmpties(t)
    BY <1>1, <1>2, <1>6, <2>1, <2>3, QueuePopMoves
  <2> QED
    BY <1>4, <1>6, <2>1, <2>2, <2>3, QueuePopCases
<1>7. CASE q_head # Null /\ t \in Consumers /\ Queue!Reclaim(t)
  <2>1. /\ Queue!Live' = Queue!Live /\ q_next' = q_next /\ q_data' = q_data /\ q_head' = q_head
        /\ pushed' = pushed /\ popped' = popped
    BY <1>1, <1>7, QueueReclaimFrame DEF Queue!LocalsOK, Queue!history
  <2> QED
    BY <1>7, <2>1, QueueFifoFrame
<1> QED
  BY <1>3, <1>5, <1>6, <1>7 DEF QueueStepOf

-----------------------------------------------------------------------------
(* The start *)

\* At the start nobody has anything in hand.
LEMMA QueueInitIdle ==
    ASSUME Queue!Init
    PROVE  /\ \A t \in Queue!Callers : q_pc[t] = "idle" /\ Queue!Held(t) = {}
           /\ Producers \subseteq Queue!Callers /\ Consumers \subseteq Queue!Callers
<1>1. \A t \in Queue!Callers : q_pc[t] = "idle"
  BY DEF Queue!Init
<1> QED
  BY <1>1 DEF Queue!Callers, Queue!Held, Queue!Filling, Queue!Popping

\* The queue has the dummy node.
LEMMA QueueInitLive ==
    ASSUME Queue!Init
    PROVE  /\ q_head \in QueueNodes /\ q_tail = q_head /\ Queue!Live = {q_head}
           /\ q_next[q_head] = Null
<1>1. PICK dummy \in QueueNodes : /\ q_head = dummy /\ q_tail = dummy
                                  /\ q_free = QueueNodes \ {dummy}
  BY DEF Queue!Init
<1>2. Queue!Retired = {}
  BY DEF Queue!Init, Queue!Retired
<1> QED
  BY <1>1, <1>2, QueueInitIdle DEF Queue!Live, Queue!Init

\* The inductive invariant holds at the start.
LEMMA QueueInitIInv ==
    ASSUME Queue!Init
    PROVE  Queue!IInv
<1> USE QueueInitIdle, QueueInitLive
<1>1. Queue!TypeOK
  BY QueueInitTypeOK
<1>2. Queue!LocalsOK
  <2>1. \A t \in Queue!Callers : q_pc[t] # "idle" => t \in team
    OBVIOUS
  <2>2. \A p \in Producers : Queue!PusherOK(p)
    BY QueuePushCountersAre DEF Queue!PusherOK, Queue!Pushing, QueuePushCounters
  <2>3. \A c \in Consumers : Queue!PopperOK(c)
    BY QueuePopCounters DEF Queue!PopperOK, Queue!Init, Queue!Callers
  <2> QED
    BY <2>1, <2>2, <2>3 DEF Queue!LocalsOK
<1>3. Queue!Apart
  <2>1. Queue!Retired = {}
    BY DEF Queue!Init, Queue!Retired
  <2> QED
    BY <2>1 DEF Queue!Apart, Queue!Init
<1>4. Queue!Shape
  BY QueuePushCountersAre, QueueConstantsHold DEF Queue!Shape, QueuePushCounters
<1>5. Queue!RecordsUnshared
  BY DEF Queue!RecordsUnshared, Queue!Init
<1>6. Queue!RecordsSet
  BY QueuePublishedCounters DEF Queue!RecordsSet, Queue!RecordsSetOf
<1>7. Queue!Protected
  BY QueueSureCounters DEF Queue!Protected, Queue!ProtectedFor
<1>8. Queue!PushOK
  BY QueuePushCountersAre
  DEF Queue!PushOK, Queue!PushSafe, Queue!PushAlone, QueuePushCounters
<1>9. Queue!TailLags
  BY DEF Queue!TailLags
<1> QED
  BY <1>1, <1>2, <1>3, <1>4, <1>5, <1>6, <1>7, <1>8, <1>9 DEF Queue!IInv

\* So do the line and the order of values.
LEMMA QueueInitFifo ==
    ASSUME Queue!Init
    PROVE  Queue!AllLinked /\ Queue!FifoUntilNull
<1> DEFINE c == <<q_head>>
<1>1. /\ IsFiniteSet(QueueNodes) /\ Null \notin QueueNodes /\ q_head \in QueueNodes
      /\ q_next[q_head] = Null /\ Queue!Live = {q_head}
  BY QueueInitLive, QueueConstantsHold
<1>2. c \in Seq(QueueNodes) /\ Len(c) = 1 /\ c[1] = q_head /\ c # <<>> /\ Tail(c) = <<>>
  BY <1>1
<1>3. pushed = <<>> /\ popped = <<>>
  BY DEF Queue!Init
<1> HIDE DEF c
<1>4. Chain(c, q_head, q_next, Null) /\ Elements(c) = {q_head}
  BY <1>1, <1>2 DEF Chain, Elements
<1>5. ListOf(q_head, q_next, Null, QueueNodes) = c /\ IsLinked(q_head, q_next, Null, QueueNodes)
  BY <1>1, <1>2, <1>4, ListIs
<1>6. Queue!AllLinked
  BY <1>1, <1>4, <1>5, QueueListsAre DEF Queue!AllLinked, OnList
<1>7. Queue!Queued = <<>>
  BY <1>2, <1>5, QueueListsAre DEF Queue!Queued
<1>8. Queue!FifoUntilNull
  BY <1>3, <1>7 DEF Queue!FifoUntilNull
<1> QED
  BY <1>6, <1>8

-----------------------------------------------------------------------------
(* Every step, and the theorems *)

\* A step of the specification is a step of a thread of the team.
LEMMA QueueNextIsStepOf ==
    ASSUME Queue!Next, Queue!TypeOK
    PROVE  team' = team /\ \E t \in team : t \in Queue!Callers /\ QueueStepOf(t)
BY DEF Queue!Next, QueueStepOf, Queue!TypeOK

QueueSafe == Queue!IInv /\ QueueOneSidedTeam /\ Queue!AllLinked /\ Queue!FifoUntilNull

\* Every step keeps all of it.
LEMMA QueueNextSafe ==
    ASSUME QueueSafe, Queue!Next
    PROVE  QueueSafe'
<1>1. /\ Queue!TypeOK /\ Queue!LocalsOK /\ Queue!Apart /\ Queue!Shape /\ Queue!RecordsUnshared
      /\ Queue!RecordsSet /\ Queue!Protected
      /\ Queue!PushOK /\ Queue!TailLags /\ QueueOneSidedTeam /\ Queue!AllLinked
      /\ Queue!FifoUntilNull
  BY DEF QueueSafe, Queue!IInv
<1>2. PICK t \in team : t \in Queue!Callers /\ QueueStepOf(t)
  BY <1>1, QueueNextIsStepOf
<1>3. team' = team
  BY <1>1, QueueNextIsStepOf
<1>4. Queue!TypeOK' /\ Queue!LocalsOK'
  BY <1>1, <1>2, <1>3, QueueStepTypeOK, QueueStepLocalsOK
<1>5. Queue!Apart' /\ Queue!Shape'
  BY <1>1, <1>2, QueueStepApart, QueueStepShape
<1>6. Queue!RecordsUnshared' /\ Queue!RecordsSet'
  BY <1>1, <1>2, QueueStepRecordsUnshared, QueueStepRecordsSet
<1>7. Queue!Protected'
  BY <1>1, <1>2, QueueStepProtected
<1>8. Queue!PushOK' /\ Queue!TailLags'
  BY <1>1, <1>2, <1>3, QueueStepPushOK, QueueStepTailLags
<1>9. QueueOneSidedTeam'
  BY <1>1, <1>3 DEF QueueOneSidedTeam
<1>10. Queue!AllLinked' /\ Queue!FifoUntilNull'
  BY <1>1, <1>2, QueueStepFifo
<1> QED
  BY <1>4, <1>5, <1>6, <1>7, <1>8, <1>9, <1>10 DEF QueueSafe, Queue!IInv

\* A step that changes nothing keeps it as well.
LEMMA QueueStutterSafe ==
    ASSUME QueueSafe, UNCHANGED Queue!vars
    PROVE  QueueSafe'
<1> USE DEF Queue!vars, Queue!queue, Queue!hazard, Queue!history
<1>1. /\ Queue!TypeOK /\ Queue!LocalsOK /\ Queue!Apart /\ Queue!Shape /\ Queue!RecordsUnshared
      /\ Queue!RecordsSet /\ Queue!Protected
      /\ Queue!PushOK /\ Queue!TailLags /\ QueueOneSidedTeam /\ Queue!AllLinked
      /\ Queue!FifoUntilNull
  BY DEF QueueSafe, Queue!IInv
<1>2. /\ Queue!Live' = Queue!Live /\ Queue!Retired' = Queue!Retired
      /\ Queue!Popped' = Queue!Popped /\ \A t : Queue!Held(t)' = Queue!Held(t)
  BY DEF Queue!Live, Queue!Retired, Queue!Popped, Queue!Held
<1>3. Queue!TypeOK'
  BY <1>1 DEF Queue!TypeOK
<1>4. Queue!LocalsOK'
  BY <1>1 DEF Queue!LocalsOK, Queue!PusherOK, Queue!PopperOK
<1>5. Queue!Apart'
  BY <1>1, <1>2 DEF Queue!Apart
<1>6. Queue!Shape'
  BY <1>1, <1>2 DEF Queue!Shape
<1>7. Queue!RecordsUnshared' /\ Queue!RecordsSet'
  BY <1>1 DEF Queue!RecordsUnshared, Queue!RecordsSet, Queue!RecordsSetOf
<1>8. Queue!Protected'
  BY <1>1, <1>2 DEF Queue!Protected, Queue!ProtectedFor, Queue!Kept
<1>9. Queue!PushOK' /\ Queue!TailLags' /\ QueueOneSidedTeam'
  BY <1>1, <1>2
  DEF Queue!PushOK, Queue!PushSafe, Queue!PushAlone, Queue!TailLags, QueueOneSidedTeam
<1>10. Queue!AllLinked' /\ Queue!FifoUntilNull'
  BY <1>1, <1>2 DEF Queue!AllLinked, Queue!FifoUntilNull, Queue!Queued
<1> QED
  BY <1>3, <1>4, <1>5, <1>6, <1>7, <1>8, <1>9, <1>10 DEF QueueSafe, Queue!IInv

\* Where only one thread pushes, or no thread pops, the inductive invariant holds.
THEOREM QueueInvariance == QueueOneSided => (Queue!Spec => []QueueSafe)
<1> SUFFICES ASSUME QueueOneSided PROVE Queue!Spec => []QueueSafe
  OBVIOUS
<1>1. Queue!Init => QueueSafe
  <2> SUFFICES ASSUME Queue!Init PROVE QueueSafe
    OBVIOUS
  <2>1. team \in Teams
    BY DEF Queue!Init
  <2> QED
    BY <2>1, QueueInitIInv, QueueInitFifo DEF QueueSafe, QueueOneSided, QueueOneSidedTeam
<1>2. QueueSafe /\ [Queue!Next]_(Queue!vars) => QueueSafe'
  BY QueueNextSafe, QueueStutterSafe
<1> QED
  BY <1>1, <1>2, PTL DEF Queue!Spec

\* No thread reads or writes a node that has been deleted.
THEOREM QueueMemorySafety == QueueOneSided => (Queue!Spec => []Queue!NoUseAfterFree)
<1>1. QueueSafe => Queue!NoUseAfterFree
  <2> SUFFICES ASSUME QueueSafe PROVE Queue!NoUseAfterFree
    OBVIOUS
  <2>1. Queue!PopNoUseAfterFree
    BY QueueSureCounters
    DEF QueueSafe, Queue!IInv, Queue!PopNoUseAfterFree, Queue!Protected, Queue!ProtectedFor,
        Queue!Kept
  <2>2. Queue!PushNoUseAfterFree
    BY QueuePushCountersAre
    DEF QueueSafe, Queue!IInv, Queue!PushNoUseAfterFree, Queue!PushOK, Queue!PushSafe,
        QueuePushCounters, Queue!Live
  <2> QED
    BY <2>1, <2>2 DEF Queue!NoUseAfterFree
<1> QED
  BY <1>1, QueueInvariance, PTL

\* Until head_ is null, what was popped and what is queued is what was pushed, in order.
THEOREM QueueInOrder == QueueOneSided => (Queue!Spec => []Queue!FifoUntilNull)
<1>1. QueueSafe => Queue!FifoUntilNull
  BY DEF QueueSafe
<1> QED
  BY <1>1, QueueInvariance, PTL

-----------------------------------------------------------------------------
(* mpmc_refcount_queue: the operators the instance has copies of *)

\* Its sets are counted as the library's lemmas count them.
LEMMA RcSetsAre ==
    \A S :
        /\ Rc!Cardinality(S) = Cardinality(S)
        /\ Rc!IsFiniteSet(S) <=> IsFiniteSet(S)
<1>1. \A S : Rc!Cardinality(S) = Cardinality(S)
  BY DEF Rc!Cardinality, Cardinality
<1>2. \A S : Rc!IsFiniteSet(S) <=> IsFiniteSet(S)
  BY DEF Rc!IsFiniteSet, IsFiniteSet
<1> QED
  BY <1>1, <1>2

\* The constants of the queue.
LEMMA RcConstantsHold ==
    /\ IsFiniteSet(Rc!Callers) /\ Cardinality(Rc!Callers) < 2^30
    /\ \A T \in RcTeams : T \subseteq Rc!Callers
    /\ RcNodes # {} /\ IsFiniteSet(RcNodes)
    /\ Null \notin RcNodes \cup Values
    /\ MaxCount \in Nat
<1>1. /\ Rc!IsFiniteSet(Rc!Callers) /\ Rc!Cardinality(Rc!Callers) < 2^30
      /\ \A T \in RcTeams : T \subseteq Rc!Callers
      /\ RcNodes # {} /\ Rc!IsFiniteSet(RcNodes)
      /\ Null \notin RcNodes \cup Values
      /\ MaxCount \in Nat
  BY QueueConstants DEF QueueConstants, Rc!ConstantsAssumption
<1>2. Rc!IsFiniteSet(Rc!Callers) <=> IsFiniteSet(Rc!Callers)
  BY RcSetsAre
<1>3. Rc!Cardinality(Rc!Callers) = Cardinality(Rc!Callers)
  BY RcSetsAre
<1>4. Rc!IsFiniteSet(RcNodes) <=> IsFiniteSet(RcNodes)
  BY RcSetsAre
<1> QED
  BY <1>1, <1>2, <1>3, <1>4, Zenon

\* Its lists are those of the lemmas on linked lists.
LEMMA RcListsAre ==
    \A m, f :
        /\ Rc!ListOf(m, f, Null, RcNodes) = ListOf(m, f, Null, RcNodes)
        /\ Rc!OnList(m, f, Null, RcNodes) = OnList(m, f, Null, RcNodes)
        /\ Rc!IsLinked(m, f, Null, RcNodes) <=> IsLinked(m, f, Null, RcNodes)
<1>1. \A m, f, k : Rc!Reached(m, f, Null, k) = Reached(m, f, Null, k)
  BY DEF Rc!Reached, Reached
<1>2. \A m, f : Rc!ListOf(m, f, Null, RcNodes) = ListOf(m, f, Null, RcNodes)
  <2> SUFFICES ASSUME NEW m, NEW f
               PROVE  Rc!ListOf(m, f, Null, RcNodes) = ListOf(m, f, Null, RcNodes)
    OBVIOUS
  <2>1. Rc!Cardinality(RcNodes) = Cardinality(RcNodes)
    BY RcSetsAre
  <2> QED
    BY <1>1, <2>1, Zenon DEF Rc!ListOf, ListOf
<1>3. \A c : Rc!Elements(c) = Elements(c)
  BY DEF Rc!Elements, Elements
<1>4. \A c, m, f : Rc!Chain(c, m, f, Null) <=> Chain(c, m, f, Null)
  BY DEF Rc!Chain, Chain
<1> QED
  BY <1>2, <1>3, <1>4, Zenon DEF Rc!OnList, OnList, Rc!IsLinked, IsLinked

-----------------------------------------------------------------------------
(* Numbers *)

\* What wraps twice wraps once.
LEMMA RcWrapAgain == \A a, b \in Int : Rc!Bits(Rc!Bits(a) + b) = Rc!Bits(a + b)
<1>1. \A a, b \in Int : ((a % 1073741824) + b) % 1073741824 = (a + b) % 1073741824
  BY SMT
<1>2. 2^30 = 1073741824
  BY SMT
<1> QED
  BY <1>1, <1>2 DEF Rc!Bits

\* A number of threads that wraps to zero is zero.
LEMMA RcWrapZero ==
    \A a \in Nat : a < 2^30 => (Rc!Bits(a) = 0 <=> a = 0)
<1>1. \A a \in Nat : a < 1073741824 => (a % 1073741824 = 0 <=> a = 0)
  BY SMT
<1>2. 2^30 = 1073741824
  BY SMT
<1> QED
  BY <1>1, <1>2 DEF Rc!Bits

\* A count that wraps has its type.
LEMMA RcWrapType ==
    /\ \A a \in Int : Rc!Bits(a) \in Rc!InternalCounts
    /\ 0 \in Rc!InternalCounts /\ Rc!InternalCounts \subseteq Int
<1>1. ASSUME NEW n \in Nat, n > 0
      PROVE  /\ (\A a \in Int : a % n \in 0 .. n - 1) /\ 0 \in 0 .. n - 1
             /\ 0 .. n - 1 \subseteq Int
  <2>1. \A a \in Int : a % n \in 0 .. n - 1
    BY <1>1, SMT
  <2>2. 0 \in 0 .. n - 1 /\ 0 .. n - 1 \subseteq Int
    BY <1>1, SMT
  <2> QED
    BY <2>1, <2>2
<1>2. 1073741824 = 2^30
  BY SMT
<1>3. 2^30 \in Nat /\ 2^30 > 0
  BY <1>2, SMT
<1> QED
  BY <1>1, <1>3, Zenon DEF Rc!Bits, Rc!InternalCounts

-----------------------------------------------------------------------------
(* Links and references *)

\* Where the links of a node lead.
LEMMA RcAfterIs ==
    ASSUME Rc!TypeOK, NEW x \in RcNodes
    PROVE  /\ Rc!After[x] = r_next[x].ptr /\ Rc!After[x] \in RcNodes \cup {Null}
           /\ r_next[x] = Rc!NullPtr <=> Rc!After[x] = Null
           /\ r_next[x] # Rc!NullPtr => r_next[x].cnt = 1 /\ Rc!After[x] \in RcNodes
           /\ r_next[x].cnt \in Nat
BY RcConstantsHold DEF Rc!TypeOK, Rc!Links, Rc!NullPtr, Rc!Counted, Rc!After

\* The calls with a reference are callers; there are few enough to be counted.
LEMMA RcAtCounted ==
    ASSUME NEW S, NEW x
    PROVE  /\ IsFiniteSet(Rc!At(S, x)) /\ Rc!At(S, x) \subseteq Rc!Callers
           /\ Cardinality(Rc!At(S, x)) \in Nat /\ Cardinality(Rc!At(S, x)) < 2^30
<1>1. IsFiniteSet(Rc!Callers) /\ Cardinality(Rc!Callers) < 2^30
  BY RcConstantsHold
<1>2. Rc!At(S, x) \subseteq Rc!Callers
  BY DEF Rc!At
<1>3. IsFiniteSet(Rc!At(S, x)) /\ Cardinality(Rc!At(S, x)) <= Cardinality(Rc!Callers)
  BY <1>1, <1>2, FS_Subset
<1>4. Cardinality(Rc!At(S, x)) \in Nat /\ Cardinality(Rc!Callers) \in Nat
  BY <1>1, <1>3, FS_CardinalityType
<1>5. 2^30 \in Nat
  OBVIOUS
<1> QED
  BY <1>1, <1>2, <1>3, <1>4, <1>5

\* It leaves the locals of the other threads alone.
RcOthers(t) ==
    \A u \in Rc!Callers : u # t =>
        r_pc'[u] = r_pc[u] /\ r_nd'[u] = r_nd[u] /\ r_o'[u] = r_o[u] /\ r_nx'[u] = r_nx[u]

\* Whether a thread is at x.
LEMMA RcAtHas ==
    ASSUME NEW S, NEW x, NEW t \in Rc!Callers
    PROVE  /\ t \in Rc!At(S, x) <=> r_pc[t] \in S /\ r_o[t].ptr = x
           /\ t \in Rc!At(S, x)' <=> r_pc'[t] \in S /\ r_o'[t].ptr = x
BY DEF Rc!At

\* A step of a thread moves no other.
LEMMA RcAtMoves ==
    ASSUME NEW t \in Rc!Callers, RcOthers(t), NEW S, NEW x
    PROVE  /\ r_pc'[t] \in S /\ r_o'[t].ptr = x => Rc!At(S, x)' = Rc!At(S, x) \cup {t}
           /\ ~(r_pc'[t] \in S /\ r_o'[t].ptr = x) => Rc!At(S, x)' = Rc!At(S, x) \ {t}
<1>1. \A u \in Rc!Callers : u # t => (u \in Rc!At(S, x)' <=> u \in Rc!At(S, x))
  BY RcAtHas DEF RcOthers
<1>2. Rc!At(S, x) \subseteq Rc!Callers /\ Rc!At(S, x)' \subseteq Rc!Callers
  BY DEF Rc!At
<1> QED
  BY <1>1, <1>2, RcAtHas

\* What the counters of a node have counted.
LEMMA RcOwedIs ==
    ASSUME NEW p, NEW S, NEW x
    PROVE  /\ p.ptr = x => Rc!Owed(p, S, x) = p.cnt - 1
           /\ p.ptr # x /\ Rc!At(S, x) = {} => Rc!Owed(p, S, x) = 0
           /\ \A t : p.ptr # x /\ Rc!At(S, x) = {t} => Rc!Owed(p, S, x) = r_o[t].cnt - 1
BY DEF Rc!Owed

\* The same of tail's counter, before and after a step.
LEMMA RcTailOwedIs ==
    ASSUME NEW x
    PROVE  /\ r_tail.ptr = x => Rc!TailOwed(x) = r_tail.cnt - 1
           /\ r_tail.ptr # x /\ Rc!At(Rc!TailFolding, x) = {} => Rc!TailOwed(x) = 0
           /\ \A t : r_tail.ptr # x /\ Rc!At(Rc!TailFolding, x) = {t}
                  => Rc!TailOwed(x) = r_o[t].cnt - 1
           /\ r_tail'.ptr = x => Rc!TailOwed(x)' = r_tail'.cnt - 1
           /\ r_tail'.ptr # x /\ Rc!At(Rc!TailFolding, x)' = {} => Rc!TailOwed(x)' = 0
           /\ \A t : r_tail'.ptr # x /\ Rc!At(Rc!TailFolding, x)' = {t}
                  => Rc!TailOwed(x)' = r_o'[t].cnt - 1
BY DEF Rc!TailOwed, Rc!Owed

\* The same of head's.
LEMMA RcHeadOwedIs ==
    ASSUME NEW x
    PROVE  /\ r_head.ptr = x => Rc!HeadOwed(x) = r_head.cnt - 1
           /\ r_head.ptr # x /\ Rc!At(Rc!HeadFolding, x) = {} => Rc!HeadOwed(x) = 0
           /\ \A t : r_head.ptr # x /\ Rc!At(Rc!HeadFolding, x) = {t}
                  => Rc!HeadOwed(x) = r_o[t].cnt - 1
           /\ r_head'.ptr = x => Rc!HeadOwed(x)' = r_head'.cnt - 1
           /\ r_head'.ptr # x /\ Rc!At(Rc!HeadFolding, x)' = {} => Rc!HeadOwed(x)' = 0
           /\ \A t : r_head'.ptr # x /\ Rc!At(Rc!HeadFolding, x)' = {t}
                  => Rc!HeadOwed(x)' = r_o'[t].cnt - 1
BY DEF Rc!HeadOwed, Rc!Owed

\* No two calls fold the same counter.
LEMMA RcFoldsAlone ==
    ASSUME Rc!Folding, NEW x
    PROVE  /\ Rc!At(Rc!TailFolding, x) = {}
                  \/ \E t \in Rc!Callers : Rc!At(Rc!TailFolding, x) = {t}
           /\ Rc!At(Rc!HeadFolding, x) = {}
                  \/ \E t \in Rc!Callers : Rc!At(Rc!HeadFolding, x) = {t}
BY DEF Rc!Folding, Rc!At

\* What is owed is a number.
LEMMA RcOwedType ==
    ASSUME Rc!TypeOK, Rc!Folding, NEW x
    PROVE  Rc!TailOwed(x) \in Int /\ Rc!HeadOwed(x) \in Int
<1>1. r_head.cnt \in Int /\ r_tail.cnt \in Int /\ \A t \in Rc!Callers : r_o[t].cnt \in Int
  BY DEF Rc!TypeOK
<1>2. Rc!TailOwed(x) \in Int
  BY <1>1, RcFoldsAlone, RcTailOwedIs
<1>3. Rc!HeadOwed(x) \in Int
  BY <1>1, RcFoldsAlone, RcHeadOwedIs
<1> QED
  BY <1>2, <1>3

\* The counts of a node are numbers.
LEMMA RcCountsAreInts ==
    ASSUME Rc!TypeOK, NEW x \in RcNodes
    PROVE  icount[x] \in Int /\ ecount[x] \in Int
<1>1. icount[x] \in Rc!InternalCounts
  BY DEF Rc!TypeOK
<1>2. Rc!InternalCounts \subseteq Int
  BY RcWrapType
<1>3. icount[x] \in Int
  BY ONLY <1>1, <1>2
<1>4. ecount[x] \in 0 .. 3
  BY DEF Rc!TypeOK
<1>5. ecount[x] \in Int
  BY ONLY <1>4
<1> QED
  BY <1>3, <1>5

-----------------------------------------------------------------------------
(* Types *)

\* A step of a thread.
RcStepOf(t) == Rc!Push(t) \/ Rc!Pop(t)

\* What a call that holds a reference or a new node knows.
LEMMA RcHolds ==
    ASSUME Rc!TypeOK, Rc!LocalsOK, NEW t \in Rc!Callers
    PROVE  /\ r_pc[t] \in Rc!Allocated => r_nd[t] \in RcNodes
           /\ r_pc[t] \in Rc!Referring
                  => r_o[t].ptr \in Rc!Placed /\ r_o[t].ptr \in RcNodes \ r_free
BY DEF Rc!TypeOK, Rc!LocalsOK, Rc!Placed

\* A node with a reference to it has a next, unless it is the one at tail.
LEMMA RcHasNext ==
    ASSUME Rc!TypeOK, Rc!LocalsOK, Rc!Shape, NEW t \in Rc!Callers, r_pc[t] \in Rc!Referring,
           r_o[t].ptr # r_tail.ptr
    PROVE  r_next[r_o[t].ptr] # Rc!NullPtr
<1>1. r_o[t].ptr \in Rc!Placed /\ r_o[t].ptr \in RcNodes
  BY RcHolds DEF Rc!Placed
<1>2. t \in Rc!Refs(r_o[t].ptr)
  BY DEF Rc!Refs, Rc!At
<1> QED
  BY <1>1, <1>2, RcListsAre DEF Rc!Shape

\* Setting the counts of a node keeps the types.
LEMMA RcSetCountsType ==
    ASSUME Rc!TypeOK, NEW x \in RcNodes, NEW i \in Int, NEW e \in Int, Rc!SetCounts(x, i, e)
    PROVE  /\ icount' \in [RcNodes -> Rc!InternalCounts] /\ ecount' \in [RcNodes -> 0 .. 3]
           /\ r_next' = r_next /\ r_free' \subseteq RcNodes
           /\ r_free' = IF icount'[x] = 0 /\ ecount'[x] = 0 THEN r_free \cup {x} ELSE r_free
           /\ icount'[x] = Rc!Bits(i) /\ ecount'[x] = e % 4
           /\ \A z \in RcNodes \ {x} : icount'[z] = icount[z] /\ ecount'[z] = ecount[z]
<1>1. /\ icount' = [icount EXCEPT ![x] = Rc!Bits(i)] /\ ecount' = [ecount EXCEPT ![x] = e % 4]
      /\ r_next' = r_next
      /\ r_free' = IF icount'[x] = 0 /\ ecount'[x] = 0 THEN r_free \cup {x} ELSE r_free
  BY DEF Rc!SetCounts
<1>2. Rc!Bits(i) \in Rc!InternalCounts
  BY RcWrapType
<1>3. e % 4 \in 0 .. 3
  OBVIOUS
<1>4. /\ icount \in [RcNodes -> Rc!InternalCounts] /\ ecount \in [RcNodes -> 0 .. 3]
      /\ r_free \subseteq RcNodes
  BY DEF Rc!TypeOK
<1>5. icount' \in [RcNodes -> Rc!InternalCounts] /\ icount'[x] = Rc!Bits(i)
      /\ \A z \in RcNodes \ {x} : icount'[z] = icount[z]
  BY <1>1, <1>2, <1>4, Zenon
<1>6. ecount' \in [RcNodes -> 0 .. 3] /\ ecount'[x] = e % 4
      /\ \A z \in RcNodes \ {x} : ecount'[z] = ecount[z]
  BY <1>1, <1>3, <1>4, Zenon
<1> QED
  BY <1>1, <1>4, <1>5, <1>6

\* All is well typed at the start.
LEMMA RcInitTypeOK == Rc!Init => Rc!TypeOK
<1> SUFFICES ASSUME Rc!Init PROVE Rc!TypeOK
  OBVIOUS
<1> USE RcConstantsHold
<1>1. r_team \subseteq Rc!Callers /\ r_free \subseteq RcNodes
  BY DEF Rc!Init
<1>2. r_head \in [cnt : Nat, ptr : RcNodes] /\ r_tail \in [cnt : Nat, ptr : RcNodes]
  BY DEF Rc!Init, Rc!Counted
<1>3. ecount \in [RcNodes -> 0 .. 3] /\ r_next \in [RcNodes -> Rc!Links]
  BY DEF Rc!Init, Rc!Links
<1>4. icount \in [RcNodes -> Rc!InternalCounts]
  BY RcWrapType DEF Rc!Init
<1>5. r_pc \in [Rc!Callers -> Rc!PC]
  BY DEF Rc!Init, Rc!PC
<1>6. r_nd \in [Rc!Callers -> RcNodes \cup {Null}] /\ r_nx \in [Rc!Callers -> Rc!Links]
  BY DEF Rc!Init, Rc!Links
<1>7. r_o \in [Rc!Callers -> [cnt : Nat, ptr : RcNodes \cup {Null}]]
  BY DEF Rc!Init, Rc!NullPtr, Rc!Counted
<1> QED
  BY <1>1, <1>2, <1>3, <1>4, <1>5, <1>6, <1>7 DEF Rc!TypeOK

\* The program counters are those of the code.
LEMMA RcStepPc ==
    ASSUME Rc!TypeOK, NEW t \in Rc!Callers, RcStepOf(t)
    PROVE  r_pc' \in [Rc!Callers -> Rc!PC] /\ \E to \in Rc!PC : r_pc' = [r_pc EXCEPT ![t] = to]
<1>1. r_pc \in [Rc!Callers -> Rc!PC]
  BY DEF Rc!TypeOK
<1>2. \E to \in Rc!PC : r_pc' = [r_pc EXCEPT ![t] = to]
  <2>1. CASE \E v \in Values : Rc!PushStart(t, v)
    BY <2>1 DEF Rc!PushStart, Rc!Goto, Rc!PC
  <2>2. CASE Rc!PushIncrease(t) \/ Rc!PushData(t) \/ Rc!PushLink(t) \/ Rc!HelpLink(t)
    BY <2>2 DEF Rc!PushIncrease, Rc!PushData, Rc!PushLink, Rc!HelpLink, Rc!Goto, Rc!PC
  <2>3. CASE Rc!SetNewTail(t) \/ Rc!PushFinish(t) \/ Rc!HelpFinish(t)
    BY <2>3 DEF Rc!SetNewTail, Rc!PushFinish, Rc!HelpFinish, Rc!Goto, Rc!PC
  <2>4. CASE Rc!PopStart(t) \/ Rc!PopIncrease(t) \/ Rc!PopTestTail(t) \/ Rc!PopEmpty(t)
    BY <2>4 DEF Rc!PopStart, Rc!PopIncrease, Rc!PopTestTail, Rc!PopEmpty, Rc!Goto, Rc!PC
  <2>5. CASE \/ Rc!PopLoadNext(t) \/ Rc!PopCas(t) \/ Rc!PopRetry(t) \/ Rc!PopData(t)
             \/ Rc!PopFinish(t)
    BY <2>5
    DEF Rc!PopLoadNext, Rc!PopCas, Rc!PopRetry, Rc!PopData, Rc!PopFinish, Rc!Goto, Rc!PC
  <2> QED
    BY <2>1, <2>2, <2>3, <2>4, <2>5 DEF RcStepOf, Rc!Push, Rc!Pop
<1> QED
  BY <1>1, <1>2

\* A push keeps the types.
LEMMA RcPushTypeOK ==
    ASSUME Rc!TypeOK, Rc!LocalsOK, NEW t \in Rc!Callers, Rc!Push(t), r_team' = r_team
    PROVE  Rc!TypeOK'
<1>1. r_pc' \in [Rc!Callers -> Rc!PC]
  BY RcStepPc DEF RcStepOf
<1>2. /\ r_pc[t] \in Rc!Allocated => r_nd[t] \in RcNodes
      /\ r_pc[t] \in Rc!Referring => r_o[t].ptr \in RcNodes
  BY RcHolds
<1>3. Rc!NullPtr \in Rc!Links /\ Rc!NullPtr \in [cnt : Nat, ptr : RcNodes \cup {Null}]
  BY DEF Rc!Links, Rc!NullPtr, Rc!Counted
<1>4. 0 \in Rc!InternalCounts
  BY RcWrapType
<1>5. icount \in [RcNodes -> Rc!InternalCounts]
  BY DEF Rc!TypeOK
<1>6. CASE \E v \in Values : Rc!PushStart(t, v)
  <2>1. PICK x \in r_free : /\ r_free' = r_free \ {x} /\ r_nd' = [r_nd EXCEPT ![t] = x]
                            /\ Rc!Fresh(x)
    BY <1>6 DEF Rc!PushStart
  <2>2. icount' \in [RcNodes -> Rc!InternalCounts]
    BY <2>1, <1>4, <1>5, Zenon DEF Rc!Fresh
  <2> QED
    BY <1>1, <1>3, <1>6, <2>1, <2>2 DEF Rc!TypeOK, Rc!PushStart, Rc!Fresh
<1>7. CASE Rc!PushIncrease(t)
  <2>1. r_tail' \in [cnt : Nat, ptr : RcNodes] /\ r_o' = [r_o EXCEPT ![t] = r_tail']
    BY <1>7 DEF Rc!PushIncrease, Rc!TypeOK
  <2>2. r_o' \in [Rc!Callers -> [cnt : Nat, ptr : RcNodes \cup {Null}]]
    BY <2>1 DEF Rc!TypeOK
  <2> QED
    BY <1>1, <1>7, <2>1, <2>2 DEF Rc!TypeOK, Rc!PushIncrease, Rc!node
<1>8. CASE Rc!PushData(t)
  BY <1>1, <1>8 DEF Rc!TypeOK, Rc!PushData
<1>9. CASE Rc!PushLink(t)
  <2>1. r_nd[t] \in RcNodes /\ r_o[t].ptr \in RcNodes
    BY <1>2, <1>9 DEF Rc!PushLink, Rc!Goto, Rc!Allocated, Rc!Referring, Rc!PC
  <2>2. r_next' \in [RcNodes -> Rc!Links]
    <3>1. Rc!Counted(1, r_nd[t]) \in Rc!Links
      BY <2>1 DEF Rc!Counted, Rc!Links
    <3> QED
      BY <3>1, <1>9 DEF Rc!PushLink, Rc!TypeOK
  <2>3. r_nx' \in [Rc!Callers -> Rc!Links] /\ r_nd' \in [Rc!Callers -> RcNodes \cup {Null}]
    BY <1>9, <2>1, <2>2 DEF Rc!PushLink, Rc!TypeOK
  <2>4. r_free' \subseteq RcNodes
    BY <1>9, <2>1 DEF Rc!PushLink, Rc!TypeOK
  <2> QED
    BY <1>1, <1>9, <2>2, <2>3, <2>4 DEF Rc!TypeOK, Rc!PushLink
<1>10. CASE Rc!HelpLink(t)
  <2>1. r_nd[t] \in RcNodes /\ r_o[t].ptr \in RcNodes
    BY <1>2, <1>10 DEF Rc!HelpLink, Rc!Goto, Rc!Allocated, Rc!Referring, Rc!PC
  <2>2. /\ r_next' \in [RcNodes -> Rc!Links] /\ icount' \in [RcNodes -> Rc!InternalCounts]
        /\ ecount' \in [RcNodes -> 0 .. 3] /\ r_nd' \in [Rc!Callers -> RcNodes \cup {Null}]
        /\ r_free' \subseteq RcNodes
    <3>1. Rc!Counted(1, r_nd[t]) \in Rc!Links
      BY <2>1 DEF Rc!Counted, Rc!Links
    <3>2. CASE r_next[r_o[t].ptr] = Rc!NullPtr
      <4>1. PICK x \in r_free :
              /\ r_free' = r_free \ {x} /\ r_nd' = [r_nd EXCEPT ![t] = x]
              /\ icount' = [icount EXCEPT ![x] = 0] /\ ecount' = [ecount EXCEPT ![x] = 2]
              /\ r_next' = [r_next EXCEPT ![r_o[t].ptr] = Rc!Counted(1, r_nd[t]),
                                          ![x] = Rc!NullPtr]
        BY <3>2, <1>10 DEF Rc!HelpLink
      <4>2. icount' \in [RcNodes -> Rc!InternalCounts]
        BY <4>1, <1>4, <1>5, Zenon
      <4>3. ecount' \in [RcNodes -> 0 .. 3] /\ r_free' \subseteq RcNodes
        BY <4>1 DEF Rc!TypeOK
      <4>4. r_nd' \in [Rc!Callers -> RcNodes \cup {Null}]
        BY <4>1 DEF Rc!TypeOK
      <4>5. r_next \in [RcNodes -> Rc!Links]
        BY DEF Rc!TypeOK
      <4>6. r_next' \in [RcNodes -> Rc!Links]
        BY <1>3, <3>1, <4>1, <4>5
      <4> QED
        BY <4>2, <4>3, <4>4, <4>6
    <3>3. CASE r_next[r_o[t].ptr] # Rc!NullPtr
      BY <3>3, <1>10 DEF Rc!HelpLink, Rc!TypeOK, Rc!node
    <3> QED
      BY <3>2, <3>3
  <2>3. r_nx' \in [Rc!Callers -> Rc!Links]
    BY <1>10, <2>1, <2>2 DEF Rc!HelpLink, Rc!TypeOK
  <2> QED
    BY <1>1, <1>10, <2>2, <2>3 DEF Rc!TypeOK, Rc!HelpLink
<1>11. CASE Rc!SetNewTail(t)
  <2>1. r_tail' \in [cnt : Nat, ptr : RcNodes]
    <3>1. CASE r_tail.ptr = r_o[t].ptr
      <4>1. r_pc[t] \in {"p_tail", "h_tail"} /\ r_tail' = r_nx[t]
        BY <1>11, <3>1 DEF Rc!SetNewTail, Rc!Goto
      <4>2. r_nx[t] # Rc!NullPtr /\ r_nx[t] \in Rc!Links
        BY <4>1 DEF Rc!LocalsOK, Rc!TypeOK
      <4> QED
        BY <4>1, <4>2 DEF Rc!Links
    <3>2. CASE r_tail.ptr # r_o[t].ptr
      BY <1>11, <3>2 DEF Rc!SetNewTail, Rc!TypeOK
    <3> QED
      BY <3>1, <3>2
  <2>2. r_o' \in [Rc!Callers -> [cnt : Nat, ptr : RcNodes \cup {Null}]]
    BY <1>11 DEF Rc!SetNewTail, Rc!TypeOK
  <2> QED
    BY <1>1, <1>11, <2>1, <2>2 DEF Rc!TypeOK, Rc!SetNewTail, Rc!node
<1>12. CASE Rc!PushFinish(t) \/ Rc!HelpFinish(t)
  <2>1. r_pc[t] \in Rc!Referring
    BY <1>12 DEF Rc!PushFinish, Rc!HelpFinish, Rc!Goto, Rc!Referring, Rc!PC
  <2>2. r_o[t].ptr \in RcNodes /\ r_o[t].cnt \in Nat
    BY <2>1, <1>2 DEF Rc!TypeOK
  <2>3. \E i, e \in Int : Rc!SetCounts(r_o[t].ptr, i, e)
    <3>1. icount[r_o[t].ptr] \in Int /\ ecount[r_o[t].ptr] \in Int
      BY <2>2, RcCountsAreInts
    <3>2. CASE Rc!FreeExternalCounter(r_o[t])
      <4>1. /\ icount[r_o[t].ptr] + r_o[t].cnt - 2 \in Int
            /\ ecount[r_o[t].ptr] - 1 \in Int
        BY <2>2, <3>1
      <4> QED
        BY <3>2, <4>1 DEF Rc!FreeExternalCounter
    <3>3. CASE Rc!ReleaseRef(r_o[t].ptr)
      <4>1. icount[r_o[t].ptr] - 1 \in Int
        BY <3>1
      <4> QED
        BY <3>1, <3>3, <4>1 DEF Rc!ReleaseRef
    <3> QED
      BY <1>12, <3>2, <3>3 DEF Rc!PushFinish, Rc!HelpFinish
  <2>4. /\ icount' \in [RcNodes -> Rc!InternalCounts] /\ ecount' \in [RcNodes -> 0 .. 3]
        /\ r_next' = r_next /\ r_free' \subseteq RcNodes
    BY <2>2, <2>3, RcSetCountsType
  <2>5. r_o' = [r_o EXCEPT ![t] = Rc!NullPtr] /\ r_nx' = [r_nx EXCEPT ![t] = Rc!NullPtr]
    BY <1>12 DEF Rc!PushFinish, Rc!HelpFinish
  <2>6. r_o' \in [Rc!Callers -> [cnt : Nat, ptr : RcNodes \cup {Null}]]
    BY <1>3, <2>5 DEF Rc!TypeOK
  <2>7. r_nx' \in [Rc!Callers -> Rc!Links]
    BY <1>3, <2>5 DEF Rc!TypeOK
  <2> QED
    BY <1>1, <1>12, <2>4, <2>6, <2>7 DEF Rc!TypeOK, Rc!PushFinish, Rc!HelpFinish
<1> QED
  BY <1>6, <1>7, <1>8, <1>9, <1>10, <1>11, <1>12 DEF Rc!Push

\* A pop keeps the types.
LEMMA RcPopTypeOK ==
    ASSUME Rc!TypeOK, Rc!LocalsOK, Rc!Shape, NEW t \in Rc!Callers, Rc!Pop(t), r_team' = r_team
    PROVE  Rc!TypeOK'
<1>1. r_pc' \in [Rc!Callers -> Rc!PC]
  BY RcStepPc DEF RcStepOf
<1>2. r_pc[t] \in Rc!Referring => r_o[t].ptr \in RcNodes
  BY RcHolds
<1>3. Rc!NullPtr \in Rc!Links /\ Rc!NullPtr \in [cnt : Nat, ptr : RcNodes \cup {Null}]
  BY DEF Rc!Links, Rc!NullPtr, Rc!Counted
<1>4. CASE Rc!PopStart(t) \/ Rc!PopTestTail(t) \/ Rc!PopData(t)
  BY <1>1, <1>4 DEF Rc!TypeOK, Rc!PopStart, Rc!PopTestTail, Rc!PopData, Rc!node
<1>5. CASE Rc!PopIncrease(t)
  <2>1. r_head' \in [cnt : Nat, ptr : RcNodes] /\ r_o' = [r_o EXCEPT ![t] = r_head']
    BY <1>5 DEF Rc!PopIncrease, Rc!TypeOK
  <2>2. r_o' \in [Rc!Callers -> [cnt : Nat, ptr : RcNodes \cup {Null}]]
    BY <2>1 DEF Rc!TypeOK
  <2> QED
    BY <1>1, <1>5, <2>1, <2>2 DEF Rc!TypeOK, Rc!PopIncrease, Rc!node
<1>6. CASE Rc!PopLoadNext(t)
  <2>1. r_pc[t] \in Rc!Referring
    BY <1>6 DEF Rc!PopLoadNext, Rc!Goto, Rc!Referring, Rc!PC
  <2>2. r_nx' \in [Rc!Callers -> Rc!Links]
    BY <2>1, <1>2, <1>6 DEF Rc!PopLoadNext, Rc!TypeOK
  <2> QED
    BY <1>1, <1>6, <2>2 DEF Rc!TypeOK, Rc!PopLoadNext, Rc!node
<1>7. CASE Rc!PopCas(t)
  <2>1. r_pc[t] = "o_cas" /\ r_pc[t] \in Rc!Referring
    BY <1>7 DEF Rc!PopCas, Rc!Goto, Rc!Referring, Rc!PC
  <2>2. r_nx' \in [Rc!Callers -> Rc!Links]
    BY <1>3, <1>7 DEF Rc!PopCas, Rc!TypeOK
  <2>3. r_head' \in [cnt : Nat, ptr : RcNodes]
    <3>1. r_nx[t] \in Rc!Links /\ r_nx[t] # Rc!NullPtr
      BY <2>1, RcHasNext DEF Rc!TypeOK, Rc!LocalsOK
    <3>2. r_nx[t] \in [cnt : Nat, ptr : RcNodes]
      BY <3>1 DEF Rc!Links
    <3> QED
      BY <1>7, <3>2 DEF Rc!PopCas, Rc!TypeOK
  <2> QED
    BY <1>1, <1>7, <2>2, <2>3 DEF Rc!TypeOK, Rc!PopCas, Rc!node
<1>8. CASE Rc!PopEmpty(t) \/ Rc!PopRetry(t) \/ Rc!PopFinish(t)
  <2>1. r_pc[t] \in Rc!Referring
    BY <1>8 DEF Rc!PopEmpty, Rc!PopRetry, Rc!PopFinish, Rc!Goto, Rc!Referring, Rc!PC
  <2>2. r_o[t].ptr \in RcNodes /\ r_o[t].cnt \in Nat
    BY <2>1, <1>2 DEF Rc!TypeOK
  <2>3. \E i, e \in Int : Rc!SetCounts(r_o[t].ptr, i, e)
    <3>1. icount[r_o[t].ptr] \in Int /\ ecount[r_o[t].ptr] \in Int
      BY <2>2, RcCountsAreInts
    <3>2. CASE Rc!FreeExternalCounter(r_o[t])
      <4>1. /\ icount[r_o[t].ptr] + r_o[t].cnt - 2 \in Int
            /\ ecount[r_o[t].ptr] - 1 \in Int
        BY <2>2, <3>1
      <4> QED
        BY <3>2, <4>1 DEF Rc!FreeExternalCounter
    <3>3. CASE Rc!ReleaseRef(r_o[t].ptr)
      <4>1. icount[r_o[t].ptr] - 1 \in Int
        BY <3>1
      <4> QED
        BY <3>1, <3>3, <4>1 DEF Rc!ReleaseRef
    <3> QED
      BY <1>8, <3>2, <3>3 DEF Rc!PopEmpty, Rc!PopRetry, Rc!PopFinish
  <2>4. /\ icount' \in [RcNodes -> Rc!InternalCounts] /\ ecount' \in [RcNodes -> 0 .. 3]
        /\ r_next' = r_next /\ r_free' \subseteq RcNodes
    BY <2>2, <2>3, RcSetCountsType
  <2>5. r_o' \in [Rc!Callers -> [cnt : Nat, ptr : RcNodes \cup {Null}]]
    BY <1>3, <1>8 DEF Rc!PopEmpty, Rc!PopRetry, Rc!PopFinish, Rc!TypeOK
  <2> QED
    BY <1>1, <1>8, <2>4, <2>5 DEF Rc!TypeOK, Rc!PopEmpty, Rc!PopRetry, Rc!PopFinish
<1> QED
  BY <1>4, <1>5, <1>6, <1>7, <1>8 DEF Rc!Pop

-----------------------------------------------------------------------------
(* What a step does to the queue *)

\* A step of one thread leaves the locals of the others alone.
LEMMA RcStepOthers ==
    ASSUME Rc!TypeOK, NEW t \in Rc!Callers, RcStepOf(t)
    PROVE  RcOthers(t)
<1> USE DEF Rc!TypeOK, RcOthers, Rc!Goto
<1>1. CASE \E v \in Values : Rc!PushStart(t, v)
  BY <1>1 DEF Rc!PushStart
<1>2. CASE Rc!PushIncrease(t) \/ Rc!PushData(t) \/ Rc!PushLink(t) \/ Rc!HelpLink(t)
  BY <1>2 DEF Rc!PushIncrease, Rc!PushData, Rc!PushLink, Rc!HelpLink
<1>3. CASE Rc!SetNewTail(t) \/ Rc!PushFinish(t) \/ Rc!HelpFinish(t)
  BY <1>3 DEF Rc!SetNewTail, Rc!PushFinish, Rc!HelpFinish
<1>4. CASE Rc!PopStart(t) \/ Rc!PopIncrease(t) \/ Rc!PopTestTail(t) \/ Rc!PopEmpty(t)
  BY <1>4 DEF Rc!PopStart, Rc!PopIncrease, Rc!PopTestTail, Rc!PopEmpty
<1>5. CASE \/ Rc!PopLoadNext(t) \/ Rc!PopCas(t) \/ Rc!PopRetry(t) \/ Rc!PopData(t)
           \/ Rc!PopFinish(t)
  BY <1>5 DEF Rc!PopLoadNext, Rc!PopCas, Rc!PopRetry, Rc!PopData, Rc!PopFinish
<1> QED
  BY <1>1, <1>2, <1>3, <1>4, <1>5 DEF RcStepOf, Rc!Push, Rc!Pop

\* A reference to a node that is not to be folded.
RcHolding == Rc!Referring \ (Rc!TailFolding \cup Rc!HeadFolding)

\* The thread keeps the reference it has, or has none, and folds what it was to fold.
RcSameReference(t) ==
    /\ r_pc'[t] \in Rc!Referring <=> r_pc[t] \in Rc!Referring
    /\ r_pc'[t] \in Rc!TailFolding <=> r_pc[t] \in Rc!TailFolding
    /\ r_pc'[t] \in Rc!HeadFolding <=> r_pc[t] \in Rc!HeadFolding
    /\ r_pc[t] \in Rc!Referring => r_o'[t] = r_o[t]

RcSameHeap ==
    /\ r_next' = r_next /\ icount' = icount /\ ecount' = ecount
    /\ r_free' = r_free /\ r_nd' = r_nd

RcSameNode(x) ==
    r_next'[x] = r_next[x] /\ icount'[x] = icount[x] /\ ecount'[x] = ecount[x]

\* The queue stays as it is,
RcKeep(t) ==
      /\ r_head' = r_head /\ r_tail' = r_tail /\ RcSameReference(t)
      /\ Rc!Placed' = Rc!Placed /\ \A x \in Rc!Placed : RcSameNode(x)

\* a new node y is linked at its end,
RcLink(t, y) ==
      /\ r_head' = r_head /\ r_tail' = r_tail /\ RcSameReference(t)
      /\ y \in RcNodes \ Rc!Placed /\ Rc!Placed' = Rc!Placed \cup {y}
      /\ RcSameNode(y) /\ r_next[y] = Rc!NullPtr /\ icount[y] = 0 /\ ecount[y] = 2
      /\ r_next[r_tail.ptr] = Rc!NullPtr /\ r_next'[r_tail.ptr] = Rc!Counted(1, y)
      /\ icount'[r_tail.ptr] = icount[r_tail.ptr] /\ ecount'[r_tail.ptr] = ecount[r_tail.ptr]
      /\ \A x \in Rc!Placed \ {r_tail.ptr} : RcSameNode(x)

\* a reference is taken through tail, or through head,
RcTakeTail(t) ==
    /\ r_head' = r_head /\ r_tail' = [r_tail EXCEPT !.cnt = @ + 1] /\ RcSameHeap
    /\ r_pc[t] \notin Rc!Referring /\ r_pc'[t] \in RcHolding /\ r_o'[t] = r_tail'

RcTakeHead(t) ==
    /\ r_tail' = r_tail /\ r_head' = [r_head EXCEPT !.cnt = @ + 1] /\ RcSameHeap
    /\ r_pc[t] \notin Rc!Referring /\ r_pc'[t] \in RcHolding /\ r_o'[t] = r_head'

\* tail moves to the next node, or head does,
RcAdvanceTail(t) ==
    /\ r_head' = r_head /\ r_next[r_tail.ptr] # Rc!NullPtr
    /\ r_tail' = r_next[r_tail.ptr] /\ RcSameHeap
    /\ r_pc[t] \in RcHolding /\ r_o[t].ptr = r_tail.ptr
    /\ r_pc'[t] \in Rc!TailFolding /\ r_o'[t] = r_tail

RcAdvanceHead(t) ==
    /\ r_tail' = r_tail /\ r_next[r_head.ptr] # Rc!NullPtr
    /\ r_head' = r_next[r_head.ptr] /\ RcSameHeap
    /\ r_head.ptr # r_tail.ptr
    /\ r_pc[t] \in RcHolding /\ r_o[t] = r_head
    /\ r_pc'[t] \in Rc!HeadFolding /\ r_o'[t] = r_head

\* or a reference to x is given up, alone, or with the counter that was tail's or head's.
RcSetsCounts(x, i, e) ==
    /\ r_next' = r_next /\ r_nd' = r_nd
    /\ icount'[x] = Rc!Bits(i) /\ ecount'[x] = e % 4
    /\ \A z \in RcNodes \ {x} : icount'[z] = icount[z] /\ ecount'[z] = ecount[z]
    /\ r_free' = IF icount'[x] = 0 /\ ecount'[x] = 0 THEN r_free \cup {x} ELSE r_free

RcLeaves(t, x) ==
    r_head' = r_head /\ r_tail' = r_tail /\ r_o[t].ptr = x /\ r_pc'[t] \notin Rc!Referring

RcRelease(t, x) ==
    RcLeaves(t, x) /\ r_pc[t] \in RcHolding /\ RcSetsCounts(x, icount[x] - 1, ecount[x])

RcFoldTail(t, x) ==
    RcLeaves(t, x) /\ r_pc[t] \in Rc!TailFolding
    /\ RcSetsCounts(x, icount[x] + r_o[t].cnt - 2, ecount[x] - 1)

RcFoldHead(t, x) ==
    RcLeaves(t, x) /\ r_pc[t] \in Rc!HeadFolding
    /\ RcSetsCounts(x, icount[x] + r_o[t].cnt - 2, ecount[x] - 1)

\* The node at tail, and the one behind it, have been linked.
LEMMA RcTailPlaced ==
    ASSUME Rc!TypeOK, Rc!Shape
    PROVE  /\ r_tail.ptr \in Rc!Placed /\ r_head.ptr \in Rc!Live /\ r_head.ptr \in Rc!Placed
           /\ Rc!After[r_tail.ptr] \in Rc!Live \cup {Null}
           /\ \A x \in Rc!Live : Rc!After[x] \in Rc!Live \cup {Null} /\ Rc!After[x] # r_head.ptr
           /\ Rc!Live \subseteq RcNodes
<1>1. Null \notin RcNodes /\ r_head.ptr \in RcNodes /\ r_head.ptr # Null
  BY RcConstantsHold DEF Rc!TypeOK
<1>2. /\ Rc!List \in Seq(RcNodes) /\ Chain(Rc!List, r_head.ptr, Rc!After, Null)
      /\ Rc!Live = Elements(Rc!List)
  BY RcListsAre DEF Rc!Shape, IsLinked, Rc!List, Rc!Live, OnList
<1>3. /\ r_head.ptr \in Rc!Live /\ Rc!Live \subseteq RcNodes
      /\ \A x \in Rc!Live : Rc!After[x] \in Rc!Live \cup {Null} /\ Rc!After[x] # r_head.ptr
  BY <1>1, <1>2, ChainShape
<1> QED
  BY <1>3, RcListsAre DEF Rc!Shape

\* What setting the counts of a node with a reference to it does.
LEMMA RcSetsCountsOf ==
    ASSUME Rc!TypeOK, NEW x \in RcNodes, NEW i \in Int, NEW e \in Int, Rc!SetCounts(x, i, e),
           r_nd' = r_nd
    PROVE  RcSetsCounts(x, i, e)
BY RcSetCountsType DEF RcSetsCounts

\* The counts of a node are integers.
LEMMA RcCountsAreInt ==
    ASSUME Rc!TypeOK, NEW x \in RcNodes
    PROVE  icount[x] \in Rc!InternalCounts /\ icount[x] \in Int /\ ecount[x] \in 0 .. 3
BY RcWrapType DEF Rc!TypeOK

\* What a push does.
LEMMA RcPushMoves ==
    ASSUME Rc!TypeOK, Rc!LocalsOK, Rc!Apart, Rc!Shape, NEW t \in Rc!Callers, Rc!Push(t)
    PROVE  \/ RcKeep(t) \/ (\E y \in RcNodes : RcLink(t, y)) \/ RcTakeTail(t) \/ RcAdvanceTail(t)
           \/ \E x \in Rc!Placed : RcRelease(t, x) \/ RcFoldTail(t, x)
<1>0. /\ r_pc[t] \in Rc!Allocated => r_nd[t] \in RcNodes
      /\ r_pc[t] \in Rc!Referring => r_o[t].ptr \in Rc!Placed /\ r_o[t].ptr \in RcNodes \ r_free
  BY RcHolds
<1>a. r_tail.ptr \in RcNodes
  BY DEF Rc!TypeOK
<1>1. CASE \E v \in Values : Rc!PushStart(t, v)
  <2>1. PICK x \in r_free : /\ r_free' = r_free \ {x} /\ r_nd' = [r_nd EXCEPT ![t] = x]
                            /\ Rc!Fresh(x)
    BY <1>1 DEF Rc!PushStart
  <2>2. r_nd[t] = Null /\ x \in RcNodes
    BY <1>1 DEF Rc!PushStart, Rc!Goto, Rc!LocalsOK, Rc!Allocated, Rc!TypeOK
  <2>3. Rc!Placed' = Rc!Placed
    BY <2>1, <2>2, RcConstantsHold DEF Rc!Placed, Rc!TypeOK
  <2>4. \A z \in Rc!Placed : RcSameNode(z)
    BY <2>1, <2>2 DEF Rc!Placed, RcSameNode, Rc!Fresh, Rc!TypeOK
  <2>5. RcSameReference(t) /\ r_head' = r_head /\ r_tail' = r_tail
    BY <1>1
    DEF Rc!PushStart, Rc!Goto, Rc!TypeOK, RcSameReference, Rc!Referring, Rc!TailFolding,
        Rc!HeadFolding, Rc!PC
  <2> QED
    BY <2>3, <2>4, <2>5 DEF RcKeep
<1>2. CASE Rc!PushIncrease(t)
  <2>1. /\ r_pc[t] = "p_inc" /\ r_pc'[t] = "p_data" /\ r_o'[t] = r_tail'
        /\ r_tail' = [r_tail EXCEPT !.cnt = @ + 1] /\ r_head' = r_head /\ RcSameHeap
    BY <1>2 DEF Rc!PushIncrease, Rc!Goto, Rc!TypeOK, RcSameHeap, Rc!node
  <2> QED
    BY <2>1 DEF RcTakeTail, RcHolding, Rc!Referring, Rc!TailFolding, Rc!HeadFolding, Rc!PC
<1>3. CASE Rc!PushData(t)
  <2>1. RcSameReference(t) /\ r_head' = r_head /\ r_tail' = r_tail
    BY <1>3
    DEF Rc!PushData, Rc!Goto, Rc!TypeOK, RcSameReference, Rc!Referring, Rc!TailFolding,
        Rc!HeadFolding, Rc!PC
  <2>2. Rc!Placed' = Rc!Placed /\ \A z \in Rc!Placed : RcSameNode(z)
    BY <1>3 DEF Rc!PushData, Rc!Placed, RcSameNode
  <2> QED
    BY <2>1, <2>2 DEF RcKeep
<1>4. CASE Rc!PushLink(t)
  <2>1. r_nd[t] \in RcNodes /\ r_o[t].ptr \in Rc!Placed /\ r_o[t].ptr \in RcNodes
    BY <1>0, <1>4 DEF Rc!PushLink, Rc!Goto, Rc!Allocated, Rc!Referring, Rc!PC
  <2>2. RcSameReference(t) /\ r_head' = r_head /\ r_tail' = r_tail
    BY <1>4
    DEF Rc!PushLink, Rc!Goto, Rc!TypeOK, RcSameReference, Rc!Referring, Rc!TailFolding,
        Rc!HeadFolding, Rc!PC
  <2>3. CASE r_next[r_o[t].ptr] # Rc!NullPtr
    <3>1. r_next' = r_next /\ icount' = icount /\ ecount' = ecount
          /\ r_free' = r_free \cup {r_nd[t]} /\ r_nd' = [r_nd EXCEPT ![t] = Null]
      BY <2>3, <1>4 DEF Rc!PushLink
    <3>2. Rc!Placed' = Rc!Placed
      BY <2>1, <3>1, RcConstantsHold DEF Rc!Placed, Rc!TypeOK
    <3> QED
      BY <2>2, <3>1, <3>2 DEF RcKeep, RcSameNode
  <2>4. CASE r_next[r_o[t].ptr] = Rc!NullPtr
    <3>1. r_next' = [r_next EXCEPT ![r_o[t].ptr] = Rc!Counted(1, r_nd[t])]
          /\ icount' = icount /\ ecount' = ecount
          /\ r_free' = r_free /\ r_nd' = [r_nd EXCEPT ![t] = Null]
      BY <2>4, <1>4 DEF Rc!PushLink
    <3>2. /\ r_nd[t] \notin r_free /\ r_nd[t] \notin Rc!Placed
          /\ \A u \in Rc!Callers : r_nd[u] = r_nd[t] => u = t
      BY <2>1, RcConstantsHold DEF Rc!Apart, Rc!Placed
    <3>3. Rc!Placed' = Rc!Placed \cup {r_nd[t]}
      BY <2>1, <3>1, <3>2, RcConstantsHold DEF Rc!Placed, Rc!TypeOK
    <3>4. r_o[t].ptr = r_tail.ptr
      <4>1. r_pc[t] \in Rc!Referring
        BY <1>4 DEF Rc!PushLink, Rc!Goto, Rc!Referring, Rc!PC
      <4> QED
        BY <4>1, <2>4, RcHasNext
    <3>5. /\ r_next[r_nd[t]] = Rc!NullPtr /\ icount[r_nd[t]] = 0 /\ ecount[r_nd[t]] = 2
          /\ r_nd[t] # r_o[t].ptr
      BY <2>1, <3>2, RcConstantsHold DEF Rc!Apart
    <3>6. RcLink(t, r_nd[t])
      BY <2>1, <2>2, <2>4, <3>1, <3>2, <3>3, <3>4, <3>5
      DEF RcLink, RcSameNode, Rc!TypeOK, Rc!Placed
    <3> QED
      BY <2>1, <3>6
  <2> QED
    BY <2>3, <2>4
<1>5. CASE Rc!HelpLink(t)
  <2>1. r_nd[t] \in RcNodes /\ r_o[t].ptr \in Rc!Placed /\ r_o[t].ptr \in RcNodes
    BY <1>0, <1>5 DEF Rc!HelpLink, Rc!Goto, Rc!Allocated, Rc!Referring, Rc!PC
  <2>2. RcSameReference(t) /\ r_head' = r_head /\ r_tail' = r_tail
    BY <1>5
    DEF Rc!HelpLink, Rc!Goto, Rc!TypeOK, RcSameReference, Rc!Referring, Rc!TailFolding,
        Rc!HeadFolding, Rc!PC
  <2>3. CASE r_next[r_o[t].ptr] # Rc!NullPtr
    <3>1. UNCHANGED <<r_next, icount, ecount, r_free, r_nd>>
      BY <2>3, <1>5 DEF Rc!HelpLink, Rc!node
    <3> QED
      BY <2>2, <3>1 DEF RcKeep, RcSameNode, Rc!Placed
  <2>4. CASE r_next[r_o[t].ptr] = Rc!NullPtr
    <3>1. PICK x \in r_free :
            /\ r_free' = r_free \ {x} /\ r_nd' = [r_nd EXCEPT ![t] = x]
            /\ icount' = [icount EXCEPT ![x] = 0] /\ ecount' = [ecount EXCEPT ![x] = 2]
            /\ r_next' = [r_next EXCEPT ![r_o[t].ptr] = Rc!Counted(1, r_nd[t]),
                                        ![x] = Rc!NullPtr]
      BY <2>4, <1>5 DEF Rc!HelpLink
    <3>2. /\ r_nd[t] \notin r_free /\ r_nd[t] \notin Rc!Placed
          /\ \A u \in Rc!Callers : r_nd[u] = r_nd[t] => u = t
      BY <2>1, RcConstantsHold DEF Rc!Apart, Rc!Placed
    <3>3. Rc!Placed' = Rc!Placed \cup {r_nd[t]}
      BY <2>1, <3>1, <3>2, RcConstantsHold DEF Rc!Placed, Rc!TypeOK
    <3>4. r_o[t].ptr = r_tail.ptr
      <4>1. r_pc[t] \in Rc!Referring
        BY <1>5 DEF Rc!HelpLink, Rc!Goto, Rc!Referring, Rc!PC
      <4> QED
        BY <4>1, <2>4, RcHasNext
    <3>5. /\ r_next[r_nd[t]] = Rc!NullPtr /\ icount[r_nd[t]] = 0 /\ ecount[r_nd[t]] = 2
          /\ r_nd[t] # r_o[t].ptr
      BY <2>1, <3>2, RcConstantsHold DEF Rc!Apart
    <3>6. x \in RcNodes /\ x # r_nd[t] /\ x \notin Rc!Placed
      BY <3>1, <3>2 DEF Rc!Placed, Rc!TypeOK
    <3>7. \A z \in RcNodes : z # x =>
            /\ icount'[z] = icount[z] /\ ecount'[z] = ecount[z]
            /\ r_next'[z] = IF z = r_tail.ptr THEN Rc!Counted(1, r_nd[t]) ELSE r_next[z]
      BY <3>1, <3>4 DEF Rc!TypeOK
    <3>8. RcLink(t, r_nd[t])
      BY <2>1, <2>2, <2>4, <3>2, <3>3, <3>4, <3>5, <3>6, <3>7
      DEF RcLink, RcSameNode, Rc!Placed
    <3> QED
      BY <2>1, <3>8
  <2> QED
    BY <2>3, <2>4
<1>6. CASE Rc!SetNewTail(t)
  <2>1. /\ r_pc[t] \in {"p_tail", "h_tail"} /\ r_pc[t] \in Rc!Referring
        /\ r_o[t].ptr \in RcNodes /\ RcSameHeap
        /\ r_head' = r_head
    BY <1>0, <1>6 DEF Rc!SetNewTail, Rc!Goto, Rc!Referring, Rc!PC, RcSameHeap, Rc!node
  <2>2. CASE r_tail.ptr = r_o[t].ptr
    <3>1. /\ r_tail' = r_nx[t] /\ r_o'[t] = r_tail /\ r_pc'[t] \in {"p_free", "h_free"}
      BY <1>6, <2>2 DEF Rc!SetNewTail, Rc!Goto, Rc!TypeOK
    <3>2. r_nx[t] = r_next[r_tail.ptr] /\ r_next[r_tail.ptr] # Rc!NullPtr
      BY <2>1, <2>2 DEF Rc!LocalsOK
    <3> QED
      BY <2>1, <2>2, <3>1, <3>2
      DEF RcAdvanceTail, RcHolding, Rc!Referring, Rc!TailFolding, Rc!HeadFolding, Rc!PC
  <2>3. CASE r_tail.ptr # r_o[t].ptr
    <3>1. r_tail' = r_tail /\ r_o' = r_o /\ r_pc'[t] \in {"p_release", "h_release"}
      BY <1>6, <2>3 DEF Rc!SetNewTail, Rc!Goto, Rc!TypeOK
    <3>2. RcSameReference(t)
      BY <2>1, <3>1 DEF RcSameReference, Rc!Referring, Rc!TailFolding, Rc!HeadFolding, Rc!PC
    <3> QED
      BY <2>1, <3>1, <3>2 DEF RcKeep, RcSameHeap, RcSameNode, Rc!Placed
  <2> QED
    BY <2>2, <2>3
<1>7. CASE Rc!PushFinish(t) \/ Rc!HelpFinish(t)
  <2>1. /\ r_pc[t] \in {"p_free", "p_release", "h_free", "h_release"}
        /\ r_pc'[t] \in {"idle", "p_inc"} /\ r_head' = r_head /\ r_tail' = r_tail /\ r_nd' = r_nd
    BY <1>7 DEF Rc!PushFinish, Rc!HelpFinish, Rc!Goto, Rc!TypeOK
  <2>2. r_o[t].ptr \in Rc!Placed /\ r_o[t].ptr \in RcNodes /\ r_o[t].cnt \in Nat
    BY <1>0, <2>1 DEF Rc!Referring, Rc!PC, Rc!TypeOK
  <2>3. /\ icount[r_o[t].ptr] - 1 \in Int /\ icount[r_o[t].ptr] + r_o[t].cnt - 2 \in Int
        /\ ecount[r_o[t].ptr] \in Int /\ ecount[r_o[t].ptr] - 1 \in Int
    BY <2>2, RcCountsAreInt
  <2>4. CASE r_pc[t] \in {"p_free", "h_free"}
    <3>1. Rc!SetCounts(r_o[t].ptr, icount[r_o[t].ptr] + r_o[t].cnt - 2, ecount[r_o[t].ptr] - 1)
      BY <1>7, <2>4 DEF Rc!PushFinish, Rc!HelpFinish, Rc!Goto, Rc!FreeExternalCounter
    <3>2. RcSetsCounts(r_o[t].ptr, icount[r_o[t].ptr] + r_o[t].cnt - 2, ecount[r_o[t].ptr] - 1)
      BY <2>1, <2>2, <2>3, <3>1, RcSetsCountsOf, Zenon
    <3>3. RcFoldTail(t, r_o[t].ptr)
      BY <2>1, <2>4, <3>2 DEF RcFoldTail, RcLeaves, Rc!Referring, Rc!TailFolding, Rc!PC
    <3> QED
      BY <2>2, <3>3
  <2>5. CASE r_pc[t] \in {"p_release", "h_release"}
    <3>1. Rc!SetCounts(r_o[t].ptr, icount[r_o[t].ptr] - 1, ecount[r_o[t].ptr])
      BY <1>7, <2>5 DEF Rc!PushFinish, Rc!HelpFinish, Rc!Goto, Rc!ReleaseRef
    <3>2. RcSetsCounts(r_o[t].ptr, icount[r_o[t].ptr] - 1, ecount[r_o[t].ptr])
      BY <2>1, <2>2, <2>3, <3>1, RcSetsCountsOf, Zenon
    <3>3. RcRelease(t, r_o[t].ptr)
      BY <2>1, <2>5, <3>2
      DEF RcRelease, RcLeaves, RcHolding, Rc!Referring, Rc!TailFolding, Rc!HeadFolding,
          Rc!PC
    <3> QED
      BY <2>2, <3>3
  <2> QED
    BY <2>1, <2>4, <2>5
<1> QED
  BY <1>1, <1>2, <1>3, <1>4, <1>5, <1>6, <1>7 DEF Rc!Push

\* What a pop does.
LEMMA RcPopMoves ==
    ASSUME Rc!TypeOK, Rc!LocalsOK, Rc!Shape, NEW t \in Rc!Callers, Rc!Pop(t)
    PROVE  \/ RcKeep(t) \/ RcTakeHead(t) \/ RcAdvanceHead(t)
           \/ \E x \in Rc!Placed : RcRelease(t, x) \/ RcFoldHead(t, x)
<1>0. r_pc[t] \in Rc!Referring => r_o[t].ptr \in Rc!Placed /\ r_o[t].ptr \in RcNodes \ r_free
  BY RcHolds
<1>1. CASE Rc!PopStart(t) \/ Rc!PopTestTail(t) \/ Rc!PopLoadNext(t) \/ Rc!PopData(t)
  <2>1. RcSameReference(t)
    BY <1>1
    DEF Rc!PopStart, Rc!PopTestTail, Rc!PopLoadNext, Rc!PopData, Rc!Goto, Rc!TypeOK,
        RcSameReference, Rc!Referring, Rc!TailFolding, Rc!HeadFolding, Rc!PC
  <2>2. UNCHANGED <<r_head, r_tail, icount, ecount, r_next, r_free, r_nd>>
    BY <1>1 DEF Rc!PopStart, Rc!PopTestTail, Rc!PopLoadNext, Rc!PopData, Rc!node
  <2> QED
    BY <2>1, <2>2 DEF RcKeep, RcSameNode, Rc!Placed
<1>2. CASE Rc!PopIncrease(t)
  <2>1. /\ r_pc[t] = "o_inc" /\ r_pc'[t] = "o_tail" /\ r_o'[t] = r_head'
        /\ r_head' = [r_head EXCEPT !.cnt = @ + 1] /\ r_tail' = r_tail /\ RcSameHeap
    BY <1>2 DEF Rc!PopIncrease, Rc!Goto, Rc!TypeOK, RcSameHeap, Rc!node
  <2> QED
    BY <2>1 DEF RcTakeHead, RcHolding, Rc!Referring, Rc!TailFolding, Rc!HeadFolding, Rc!PC
<1>3. CASE Rc!PopCas(t)
  <2>1. /\ r_pc[t] = "o_cas" /\ r_pc[t] \in Rc!Referring /\ RcSameHeap
        /\ r_tail' = r_tail /\ r_o' = r_o
    BY <1>3 DEF Rc!PopCas, Rc!Goto, Rc!Referring, Rc!PC, RcSameHeap, Rc!node
  <2>2. CASE r_head = r_o[t]
    <3>1. r_head' = r_nx[t] /\ r_pc'[t] = "o_data"
      BY <1>3, <2>2 DEF Rc!PopCas, Rc!Goto, Rc!TypeOK
    <3>2. r_nx[t] = r_next[r_head.ptr] /\ r_head.ptr # r_tail.ptr
      BY <2>1, <2>2 DEF Rc!LocalsOK
    <3>3. r_next[r_head.ptr] # Rc!NullPtr
      BY <2>1, <2>2, <3>2, RcHasNext
    <3> QED
      BY <2>1, <2>2, <3>1, <3>2, <3>3
      DEF RcAdvanceHead, RcHolding, Rc!Referring, Rc!TailFolding, Rc!HeadFolding, Rc!PC
  <2>3. CASE r_head # r_o[t]
    <3>1. r_head' = r_head /\ r_pc'[t] = "o_retry"
      BY <1>3, <2>3 DEF Rc!PopCas, Rc!Goto, Rc!TypeOK
    <3>2. RcSameReference(t)
      BY <2>1, <3>1 DEF RcSameReference, Rc!Referring, Rc!TailFolding, Rc!HeadFolding, Rc!PC
    <3> QED
      BY <2>1, <3>1, <3>2 DEF RcKeep, RcSameHeap, RcSameNode, Rc!Placed
  <2> QED
    BY <2>2, <2>3
<1>4. CASE Rc!PopEmpty(t) \/ Rc!PopRetry(t) \/ Rc!PopFinish(t)
  <2>1. /\ r_pc[t] \in {"o_empty", "o_retry", "o_free"}
        /\ r_pc'[t] \in {"idle", "o_inc"} /\ r_head' = r_head /\ r_tail' = r_tail /\ r_nd' = r_nd
    BY <1>4 DEF Rc!PopEmpty, Rc!PopRetry, Rc!PopFinish, Rc!Goto, Rc!TypeOK
  <2>2. r_o[t].ptr \in Rc!Placed /\ r_o[t].ptr \in RcNodes /\ r_o[t].cnt \in Nat
    BY <1>0, <2>1 DEF Rc!Referring, Rc!PC, Rc!TypeOK
  <2>3. /\ icount[r_o[t].ptr] - 1 \in Int /\ icount[r_o[t].ptr] + r_o[t].cnt - 2 \in Int
        /\ ecount[r_o[t].ptr] \in Int /\ ecount[r_o[t].ptr] - 1 \in Int
    BY <2>2, RcCountsAreInt
  <2>4. CASE r_pc[t] = "o_free"
    <3>1. Rc!SetCounts(r_o[t].ptr, icount[r_o[t].ptr] + r_o[t].cnt - 2, ecount[r_o[t].ptr] - 1)
      BY <1>4, <2>4
      DEF Rc!PopEmpty, Rc!PopRetry, Rc!PopFinish, Rc!Goto, Rc!FreeExternalCounter
    <3>2. RcSetsCounts(r_o[t].ptr, icount[r_o[t].ptr] + r_o[t].cnt - 2, ecount[r_o[t].ptr] - 1)
      BY <2>1, <2>2, <2>3, <3>1, RcSetsCountsOf, Zenon
    <3>3. RcFoldHead(t, r_o[t].ptr)
      BY <2>1, <2>4, <3>2 DEF RcFoldHead, RcLeaves, Rc!Referring, Rc!HeadFolding, Rc!PC
    <3> QED
      BY <2>2, <3>3
  <2>5. CASE r_pc[t] \in {"o_empty", "o_retry"}
    <3>1. Rc!SetCounts(r_o[t].ptr, icount[r_o[t].ptr] - 1, ecount[r_o[t].ptr])
      BY <1>4, <2>5 DEF Rc!PopEmpty, Rc!PopRetry, Rc!PopFinish, Rc!Goto, Rc!ReleaseRef
    <3>2. RcSetsCounts(r_o[t].ptr, icount[r_o[t].ptr] - 1, ecount[r_o[t].ptr])
      BY <2>1, <2>2, <2>3, <3>1, RcSetsCountsOf, Zenon
    <3>3. RcRelease(t, r_o[t].ptr)
      BY <2>1, <2>5, <3>2
      DEF RcRelease, RcLeaves, RcHolding, Rc!Referring, Rc!TailFolding, Rc!HeadFolding,
          Rc!PC
    <3> QED
      BY <2>2, <3>3
  <2> QED
    BY <2>1, <2>4, <2>5
<1> QED
  BY <1>1, <1>2, <1>3, <1>4 DEF Rc!Pop

-----------------------------------------------------------------------------
(* Who refers to a node after a step *)

\* Who is to fold a counter has a reference, and folds one counter.
LEMMA RcClasses ==
    /\ Rc!TailFolding \subseteq Rc!Referring /\ Rc!HeadFolding \subseteq Rc!Referring
    /\ Rc!TailFolding \cap Rc!HeadFolding = {}
    /\ RcHolding \subseteq Rc!Referring
    /\ RcHolding \cap (Rc!TailFolding \cup Rc!HeadFolding) = {}
BY DEF Rc!TailFolding, Rc!HeadFolding, Rc!Referring, RcHolding, Rc!PC

\* The references to x, and the calls that are to fold a counter of x, stay.
RcSameRefs(x) ==
    Rc!At(Rc!Referring, x)' = Rc!At(Rc!Referring, x)
RcSameTailFolds(x) ==
    /\ Rc!At(Rc!TailFolding, x)' = Rc!At(Rc!TailFolding, x)
    /\ \A u \in Rc!At(Rc!TailFolding, x) : r_o'[u] = r_o[u]
RcSameHeadFolds(x) ==
    /\ Rc!At(Rc!HeadFolding, x)' = Rc!At(Rc!HeadFolding, x)
    /\ \A u \in Rc!At(Rc!HeadFolding, x) : r_o'[u] = r_o[u]
RcSameFolds(x) == RcSameTailFolds(x) /\ RcSameHeadFolds(x)
RcSameFolders ==
    \A u \in Rc!Callers :
        /\ r_pc'[u] \in Rc!TailFolding <=> r_pc[u] \in Rc!TailFolding
        /\ r_pc'[u] \in Rc!HeadFolding <=> r_pc[u] \in Rc!HeadFolding
        /\ r_pc[u] \in Rc!TailFolding \cup Rc!HeadFolding => r_o'[u] = r_o[u]

\* Where no call begins or ends to fold, the calls that fold are the same for each node.
LEMMA RcFoldersStay ==
    ASSUME RcSameFolders
    PROVE  \A x : RcSameFolds(x)
BY DEF RcSameFolders, RcSameFolds, RcSameTailFolds, RcSameHeadFolds, Rc!At

\* A step that keeps the caller's reference changes who refers to what nowhere.
LEMMA RcReferenceStays ==
    ASSUME NEW t \in Rc!Callers, RcOthers(t), RcSameReference(t)
    PROVE  RcSameFolders /\ \A x : RcSameRefs(x) /\ RcSameFolds(x)
<1>1. RcSameFolders
  BY RcClasses DEF RcSameFolders, RcOthers, RcSameReference
<1>2. \A u \in Rc!Callers : /\ r_pc'[u] \in Rc!Referring <=> r_pc[u] \in Rc!Referring
                            /\ r_pc[u] \in Rc!Referring => r_o'[u] = r_o[u]
  BY DEF RcOthers, RcSameReference
<1>3. \A x : RcSameRefs(x)
  BY <1>2 DEF RcSameRefs, Rc!At
<1> QED
  BY <1>1, <1>3, RcFoldersStay

\* A step in which the caller takes a reference adds it to those of its node only.
LEMMA RcReferenceTaken ==
    ASSUME NEW t \in Rc!Callers, RcOthers(t), r_pc[t] \notin Rc!Referring,
           r_pc'[t] \in RcHolding
    PROVE  /\ RcSameFolders /\ \A x : RcSameFolds(x) /\ (x # r_o'[t].ptr => RcSameRefs(x))
           /\ \A x : x = r_o'[t].ptr =>
                /\ Rc!At(Rc!Referring, x)' = Rc!At(Rc!Referring, x) \cup {t}
                /\ t \notin Rc!At(Rc!Referring, x)
<1>1. RcSameFolders
  BY RcClasses DEF RcSameFolders, RcOthers
<1>2. \A x : x # r_o'[t].ptr => RcSameRefs(x)
  BY RcClasses DEF RcSameRefs, Rc!At, RcOthers
<1>3. \A x : x = r_o'[t].ptr =>
                /\ Rc!At(Rc!Referring, x)' = Rc!At(Rc!Referring, x) \cup {t}
                /\ t \notin Rc!At(Rc!Referring, x)
  BY RcClasses DEF Rc!At, RcOthers
<1> QED
  BY <1>1, <1>2, <1>3, RcFoldersStay

\* A step in which the caller gives its reference up takes it from those of its node only.
LEMMA RcReferenceLeft ==
    ASSUME NEW t \in Rc!Callers, RcOthers(t), r_pc[t] \in Rc!Referring,
           r_pc'[t] \notin Rc!Referring
    PROVE  /\ \A x : x # r_o[t].ptr => RcSameRefs(x)
           /\ \A x : x = r_o[t].ptr =>
                /\ Rc!At(Rc!Referring, x)' = Rc!At(Rc!Referring, x) \ {t}
                /\ t \in Rc!At(Rc!Referring, x)
BY DEF RcSameRefs, Rc!At, RcOthers

-----------------------------------------------------------------------------
(* The accounts of a node *)

RcSameTail(x) == Rc!TailOpen(x)' = Rc!TailOpen(x) /\ Rc!TailOwed(x)' = Rc!TailOwed(x)
RcSameHead(x) == Rc!HeadOpen(x)' = Rc!HeadOpen(x) /\ Rc!HeadOwed(x)' = Rc!HeadOwed(x)

\* The account of a node does not change while its folders do not, nor its counter.
LEMMA RcTailOwedStays ==
    ASSUME Rc!Folding, NEW x, RcSameTailFolds(x), r_tail'.ptr = x <=> r_tail.ptr = x,
           r_tail.ptr = x => r_tail'.cnt = r_tail.cnt
    PROVE  Rc!TailOwed(x)' = Rc!TailOwed(x)
<1>1. Rc!At(Rc!TailFolding, x)' = Rc!At(Rc!TailFolding, x)
  BY DEF RcSameTailFolds
<1>2. CASE r_tail.ptr = x
  BY <1>2, RcTailOwedIs
<1>3. CASE r_tail.ptr # x /\ Rc!At(Rc!TailFolding, x) = {}
  BY <1>1, <1>3, RcTailOwedIs
<1>4. ASSUME NEW u \in Rc!Callers, r_tail.ptr # x, Rc!At(Rc!TailFolding, x) = {u}
      PROVE  Rc!TailOwed(x)' = Rc!TailOwed(x)
  <2>1. r_o'[u] = r_o[u]
    BY <1>4 DEF RcSameTailFolds
  <2> QED
    BY <1>1, <1>4, <2>1, RcTailOwedIs
<1> QED
  BY <1>2, <1>3, <1>4, RcFoldsAlone

\* Likewise what head's counter owes.
LEMMA RcHeadOwedStays ==
    ASSUME Rc!Folding, NEW x, RcSameHeadFolds(x), r_head'.ptr = x <=> r_head.ptr = x,
           r_head.ptr = x => r_head'.cnt = r_head.cnt
    PROVE  Rc!HeadOwed(x)' = Rc!HeadOwed(x)
<1>1. Rc!At(Rc!HeadFolding, x)' = Rc!At(Rc!HeadFolding, x)
  BY DEF RcSameHeadFolds
<1>2. CASE r_head.ptr = x
  BY <1>2, RcHeadOwedIs
<1>3. CASE r_head.ptr # x /\ Rc!At(Rc!HeadFolding, x) = {}
  BY <1>1, <1>3, RcHeadOwedIs
<1>4. ASSUME NEW u \in Rc!Callers, r_head.ptr # x, Rc!At(Rc!HeadFolding, x) = {u}
      PROVE  Rc!HeadOwed(x)' = Rc!HeadOwed(x)
  <2>1. r_o'[u] = r_o[u]
    BY <1>4 DEF RcSameHeadFolds
  <2> QED
    BY <1>1, <1>4, <2>1, RcHeadOwedIs
<1> QED
  BY <1>2, <1>3, <1>4, RcFoldsAlone

\* A counter is open as long as its nodes and folders are the same.
LEMMA RcOpenStays ==
    ASSUME NEW x
    PROVE  /\ RcSameTailFolds(x)
                /\ (x \in {r_tail'.ptr, Rc!After'[r_tail'.ptr]}
                       <=> x \in {r_tail.ptr, Rc!After[r_tail.ptr]})
                => Rc!TailOpen(x)' = Rc!TailOpen(x)
           /\ RcSameHeadFolds(x) /\ (x \in Rc!Live' <=> x \in Rc!Live)
                => Rc!HeadOpen(x)' = Rc!HeadOpen(x)
BY DEF RcSameTailFolds, RcSameHeadFolds, Rc!TailOpen, Rc!HeadOpen

RcCountsHold(x) == Rc!CountsOf(x) /\ (ecount[x] = 0 => Rc!Refs(x) # {})

\* The counts of a node are right as long as its account does not change.
LEMMA RcCountsStay ==
    ASSUME NEW x, RcCountsHold(x), RcSameRefs(x), RcSameTail(x), RcSameHead(x),
           icount'[x] = icount[x], ecount'[x] = ecount[x]
    PROVE  RcCountsHold(x)'
BY RcSetsAre DEF RcCountsHold, Rc!CountsOf, RcSameRefs, RcSameTail, RcSameHead, Rc!Refs

\* The list stays while its links and its first node do.
LEMMA RcListStays ==
    ASSUME Rc!TypeOK, Rc!TypeOK', Rc!Shape, r_head'.ptr = r_head.ptr,
           \A x \in Rc!Live : r_next'[x] = r_next[x]
    PROVE  /\ IsLinked(r_head'.ptr, Rc!After', Null, RcNodes) /\ Rc!Live' = Rc!Live
           /\ \A x \in Rc!Live : Rc!After'[x] = Rc!After[x]
<1>1. IsFiniteSet(RcNodes) /\ Null \notin RcNodes
  BY RcConstantsHold
<1>2. IsLinked(r_head.ptr, Rc!After, Null, RcNodes)
  BY RcListsAre DEF Rc!Shape
<1>3. \A x \in Rc!Live : Rc!After'[x] = Rc!After[x]
  BY RcTailPlaced DEF Rc!After
<1>4. /\ IsLinked(r_head.ptr, Rc!After', Null, RcNodes)
      /\ OnList(r_head.ptr, Rc!After', Null, RcNodes)
           = OnList(r_head.ptr, Rc!After, Null, RcNodes)
  BY <1>1, <1>2, <1>3, ListFrame, RcListsAre DEF Rc!Live
<1> QED
  BY <1>3, <1>4, RcListsAre DEF Rc!Live

-----------------------------------------------------------------------------
(* What each kind of step preserves *)

RcQueueOK == Rc!Shape /\ Rc!Folding /\ Rc!Counts

\* Counts is about each node that was placed.
LEMMA RcCountsIs == Rc!Counts <=> \A x \in Rc!Placed : RcCountsHold(x)
BY DEF Rc!Counts, RcCountsHold

\* No more calls are to fold a counter, and those that are have the references they had.
RcNoNewFolders ==
    \A u \in Rc!Callers :
        /\ r_pc'[u] \in Rc!TailFolding => r_pc[u] \in Rc!TailFolding /\ r_o'[u] = r_o[u]
        /\ r_pc'[u] \in Rc!HeadFolding => r_pc[u] \in Rc!HeadFolding /\ r_o'[u] = r_o[u]

\* The folders stay apart from tail, head and each other.
LEMMA RcFoldersApart ==
    ASSUME Rc!TypeOK, Rc!LocalsOK, Rc!Folding, RcNoNewFolders,
           \A x \in Rc!Placed : x \in {r_tail'.ptr, Rc!After'[r_tail'.ptr]}
                                     => x \in {r_tail.ptr, Rc!After[r_tail.ptr]},
           \A x \in Rc!Placed : x \in Rc!Live' => x \in Rc!Live
    PROVE  Rc!Folding'
<1>1. \A u \in Rc!Callers : r_pc[u] \in Rc!Referring => r_o[u].ptr \in Rc!Placed
  BY RcHolds
<1>2. \A u \in Rc!Callers :
         /\ r_pc'[u] \in Rc!TailFolding => r_pc[u] \in Rc!TailFolding /\ r_o'[u] = r_o[u]
         /\ r_pc'[u] \in Rc!HeadFolding => r_pc[u] \in Rc!HeadFolding /\ r_o'[u] = r_o[u]
  BY DEF RcNoNewFolders
<1>3. ASSUME NEW a \in Rc!Callers, NEW u \in Rc!Callers, r_pc'[a] \in Rc!TailFolding
      PROVE  /\ r_o'[a].ptr \notin {r_tail'.ptr, Rc!After'[r_tail'.ptr]}
             /\ r_pc'[u] \in Rc!TailFolding /\ r_o'[u].ptr = r_o'[a].ptr => u = a
  <2>1. r_pc[a] \in Rc!TailFolding /\ r_o'[a] = r_o[a] /\ r_o[a].ptr \in Rc!Placed
    BY <1>1, <1>2, <1>3, RcClasses
  <2>2. r_o[a].ptr \notin {r_tail.ptr, Rc!After[r_tail.ptr]}
    BY <2>1 DEF Rc!Folding
  <2>3. r_pc'[u] \in Rc!TailFolding /\ r_o'[u].ptr = r_o'[a].ptr => u = a
    BY <2>1, <1>2 DEF Rc!Folding
  <2> QED
    BY <2>1, <2>2, <2>3
<1>4. ASSUME NEW a \in Rc!Callers, NEW u \in Rc!Callers, r_pc'[a] \in Rc!HeadFolding
      PROVE  /\ r_o'[a].ptr \notin Rc!Live'
             /\ r_pc'[u] \in Rc!HeadFolding /\ r_o'[u].ptr = r_o'[a].ptr => u = a
  <2>1. r_pc[a] \in Rc!HeadFolding /\ r_o'[a] = r_o[a] /\ r_o[a].ptr \in Rc!Placed
    BY <1>1, <1>2, <1>4, RcClasses
  <2>2. r_o[a].ptr \notin Rc!Live
    BY <2>1 DEF Rc!Folding
  <2>3. r_pc'[u] \in Rc!HeadFolding /\ r_o'[u].ptr = r_o'[a].ptr => u = a
    BY <2>1, <1>2 DEF Rc!Folding
  <2> QED
    BY <2>1, <2>2, <2>3
<1> QED
  BY <1>3, <1>4 DEF Rc!Folding

\* The shape of the queue stays while its links and its ends do.
LEMMA RcShapeStays ==
    ASSUME Rc!TypeOK, Rc!TypeOK', Rc!Shape, Rc!Placed' \subseteq Rc!Placed,
           Rc!Live \subseteq Rc!Placed',
           \A x \in Rc!Placed : r_next'[x] = r_next[x],
           r_head'.ptr = r_head.ptr, r_tail'.ptr = r_tail.ptr,
           \A x \in RcNodes : x = Rc!After[r_tail.ptr] => Rc!Refs(x)' \subseteq Rc!Refs(x)
    PROVE  Rc!Shape' /\ Rc!Live' = Rc!Live /\ Rc!After'[r_tail'.ptr] = Rc!After[r_tail.ptr]
<1>1. /\ r_tail.ptr \in Rc!Live /\ Rc!Live \subseteq Rc!Placed
      /\ Rc!After[r_tail.ptr] \in Rc!Live \cup {Null}
      /\ r_tail.ptr \in Rc!Placed /\ Rc!Placed \subseteq RcNodes
  BY RcTailPlaced, RcListsAre DEF Rc!Shape, Rc!Placed
<1>2. /\ IsLinked(r_head'.ptr, Rc!After', Null, RcNodes) /\ Rc!Live' = Rc!Live
      /\ \A x \in Rc!Live : Rc!After'[x] = Rc!After[x]
  BY <1>1, RcListStays
<1>3. Rc!After'[r_tail'.ptr] = Rc!After[r_tail.ptr] /\ r_tail'.ptr \in Rc!Live'
  BY <1>1, <1>2
<1>4. \A x \in Rc!Placed' : r_next'[x] = Rc!NullPtr
          => x \in {r_tail'.ptr, Rc!After'[r_tail'.ptr]}
  BY <1>3, RcListsAre DEF Rc!Shape
<1>5. ASSUME NEW x \in RcNodes, x = Rc!After'[r_tail'.ptr]
      PROVE  r_next'[x] = Rc!NullPtr /\ Rc!Refs(x)' = {}
  <2>1. x = Rc!After[r_tail.ptr] /\ x \in Rc!Placed
    BY <1>1, <1>3, <1>5, RcConstantsHold
  <2>2. Rc!Refs(x)' \subseteq Rc!Refs(x) /\ Rc!Refs(x) = {} /\ r_next[x] = Rc!NullPtr
    BY <2>1, RcListsAre DEF Rc!Shape
  <2> QED
    BY <2>1, <2>2
<1> QED
  BY <1>2, <1>3, <1>4, <1>5, RcListsAre DEF Rc!Shape

\* A step that keeps the queue.
LEMMA RcKeepOK ==
    ASSUME Rc!TypeOK, Rc!TypeOK', Rc!LocalsOK, RcQueueOK, NEW t \in Rc!Callers, RcOthers(t),
           RcKeep(t)
    PROVE  RcQueueOK'
<1> USE DEF RcQueueOK
<1>1. /\ r_head' = r_head /\ r_tail' = r_tail /\ RcSameReference(t)
      /\ Rc!Placed' = Rc!Placed /\ \A x \in Rc!Placed : RcSameNode(x)
  BY DEF RcKeep
<1>2. RcSameFolders /\ \A x : RcSameRefs(x) /\ RcSameFolds(x)
  BY <1>1, RcReferenceStays
<1>3. Rc!Shape' /\ Rc!Live' = Rc!Live /\ Rc!After'[r_tail'.ptr] = Rc!After[r_tail.ptr]
  BY <1>1, <1>2, RcShapeStays, RcListsAre DEF Rc!Shape, RcSameNode, RcSameRefs, Rc!Refs
<1>4. Rc!Folding'
  BY <1>1, <1>2, <1>3, RcFoldersApart DEF RcSameFolders, RcNoNewFolders
<1>5. Rc!Counts'
  <2>1. ASSUME NEW x \in Rc!Placed
        PROVE  RcCountsHold(x)'
    <3>1. RcSameTail(x) /\ RcSameHead(x)
      BY <1>1, <1>2, <1>3, RcTailOwedStays, RcHeadOwedStays, RcOpenStays
      DEF RcSameTail, RcSameHead, RcSameFolds
    <3>2. RcCountsHold(x)
      BY RcCountsIs
    <3> QED
      BY <1>1, <1>2, <3>1, <3>2, RcCountsStay DEF RcSameNode
  <2> QED
    BY <1>1, <2>1 DEF Rc!Counts, RcCountsHold
<1> QED
  BY <1>3, <1>4, <1>5

\* The list with one more node at its end.
LEMMA RcListGrows ==
    ASSUME Rc!TypeOK, Rc!TypeOK', Rc!LocalsOK, Rc!Shape, NEW t \in Rc!Callers,
           NEW y \in RcNodes, RcLink(t, y)
    PROVE  /\ IsLinked(r_head'.ptr, Rc!After', Null, RcNodes) /\ Rc!Live' = Rc!Live \cup {y}
           /\ Rc!After[r_tail.ptr] = Null /\ Rc!After'[r_tail.ptr] = y /\ Rc!After'[y] = Null
           /\ \A x \in Rc!Live \ {r_tail.ptr} : Rc!After'[x] = Rc!After[x]
<1>1. IsFiniteSet(RcNodes) /\ Null \notin RcNodes
  BY RcConstantsHold
<1>2. /\ r_tail.ptr \in Rc!Live /\ Rc!Live \subseteq Rc!Placed /\ r_tail.ptr \in Rc!Placed
      /\ r_tail.ptr \in RcNodes
      /\ r_head.ptr \in RcNodes /\ IsLinked(r_head.ptr, Rc!After, Null, RcNodes)
  BY RcTailPlaced, RcListsAre DEF Rc!Shape, Rc!Placed, Rc!TypeOK
<1>3. y \notin Rc!Live /\ y # r_tail.ptr
  BY <1>2 DEF RcLink
<1>4. /\ Rc!After[r_tail.ptr] = Null /\ Rc!After'[r_tail.ptr] = y /\ Rc!After'[y] = Null
      /\ Rc!After[y] = Null
  BY <1>2 DEF RcLink, Rc!After, Rc!NullPtr, Rc!Counted, RcSameNode
<1>5. \A x \in Rc!Live \ {r_tail.ptr} : Rc!After'[x] = Rc!After[x]
  BY <1>2 DEF RcLink, RcSameNode, Rc!After, Rc!Placed
<1>6. IsLinked(y, Rc!After, Null, RcNodes) /\ OnList(y, Rc!After, Null, RcNodes) = {y}
  <2>1. IsLinked(Null, Rc!After, Null, RcNodes) /\ OnList(Null, Rc!After, Null, RcNodes) = {}
    BY <1>1, ListEmpty
  <2>2. InFront(y, Null, Rc!After, Rc!After, OnList(Null, Rc!After, Null, RcNodes))
    BY <1>4 DEF InFront
  <2> QED
    BY <1>1, <2>1, <2>2, ListPush
<1>7. r_tail.ptr = LastOf(Rc!List)
  <2>1. LastOf(Rc!List) \in Rc!Live
    BY <1>1, <1>2, LastOnList, RcListsAre DEF Rc!List, Rc!Live
  <2>2. Rc!After[LastOf(Rc!List)] = Null
    <3>1. /\ Rc!List \in Seq(RcNodes) /\ Chain(Rc!List, r_head.ptr, Rc!After, Null)
          /\ Rc!List # <<>>
      BY <1>1, <1>2, ListNodes, RcListsAre DEF IsLinked, Rc!List
    <3>2. Len(Rc!List) \in 1 .. Len(Rc!List)
      BY <3>1
    <3> QED
      BY <3>1, <3>2 DEF Chain, LastOf
  <2>3. LastOf(Rc!List) \in Rc!Placed /\ LastOf(Rc!List) \in RcNodes
    BY <2>1, <1>2 DEF Rc!Placed
  <2>4. r_next[LastOf(Rc!List)] = Rc!NullPtr
    BY <2>2, <2>3, RcAfterIs
  <2>5. LastOf(Rc!List) # Null
    BY <2>3, <1>1
  <2> QED
    BY <1>4, <2>3, <2>4, <2>5, RcListsAre DEF Rc!Shape
<1>8. /\ IsLinked(r_head.ptr, Rc!After', Null, RcNodes)
      /\ OnList(r_head.ptr, Rc!After', Null, RcNodes)
           = OnList(r_head.ptr, Rc!After, Null, RcNodes) \cup OnList(y, Rc!After, Null, RcNodes)
  <2>1. OnList(r_head.ptr, Rc!After, Null, RcNodes) \cap OnList(y, Rc!After, Null, RcNodes) = {}
    BY <1>3, <1>6, RcListsAre DEF Rc!Live
  <2>2. \A k \in OnList(r_head.ptr, Rc!After, Null, RcNodes)
                   \cup OnList(y, Rc!After, Null, RcNodes) :
            k # r_tail.ptr => Rc!After'[k] = Rc!After[k]
    BY <1>4, <1>5, <1>6, RcListsAre DEF Rc!Live
  <2>3. r_head.ptr # Null /\ r_tail.ptr = LastOf(ListOf(r_head.ptr, Rc!After, Null, RcNodes))
    BY <1>1, <1>2, <1>7, RcListsAre DEF Rc!List
  <2>4. /\ IsFiniteSet(RcNodes) /\ Null \notin RcNodes /\ Rc!After'[r_tail.ptr] = y
        /\ IsLinked(r_head.ptr, Rc!After, Null, RcNodes) /\ IsLinked(y, Rc!After, Null, RcNodes)
    BY <1>1, <1>2, <1>4, <1>6
  <2> QED
    BY ONLY <2>1, <2>2, <2>3, <2>4, ListAppend
<1>9. r_head' = r_head
  BY DEF RcLink
<1> QED
  BY <1>4, <1>5, <1>6, <1>8, <1>9, RcListsAre DEF Rc!Live

\* Nobody refers to a node that is not placed.
LEMMA RcNobodyAt ==
    ASSUME Rc!TypeOK, Rc!LocalsOK, NEW y, y \notin Rc!Placed
    PROVE  /\ Rc!At(Rc!Referring, y) = {} /\ Rc!At(Rc!TailFolding, y) = {}
           /\ Rc!At(Rc!HeadFolding, y) = {}
BY RcHolds, RcClasses DEF Rc!At

\* A step that links a node.
LEMMA RcLinkOK ==
    ASSUME Rc!TypeOK, Rc!TypeOK', Rc!LocalsOK, RcQueueOK, NEW t \in Rc!Callers, RcOthers(t),
           NEW y \in RcNodes, RcLink(t, y)
    PROVE  RcQueueOK'
<1> USE DEF RcQueueOK
<1>1. /\ r_head' = r_head /\ r_tail' = r_tail /\ RcSameReference(t)
      /\ y \notin Rc!Placed /\ Rc!Placed' = Rc!Placed \cup {y}
      /\ r_next'[y] = Rc!NullPtr /\ icount'[y] = 0 /\ ecount'[y] = 2
      /\ r_next'[r_tail.ptr] = Rc!Counted(1, y)
      /\ icount'[r_tail.ptr] = icount[r_tail.ptr] /\ ecount'[r_tail.ptr] = ecount[r_tail.ptr]
      /\ \A x \in Rc!Placed \ {r_tail.ptr} : RcSameNode(x)
  BY DEF RcLink, RcSameNode
<1>2. RcSameFolders /\ \A x : RcSameRefs(x) /\ RcSameFolds(x)
  BY <1>1, RcReferenceStays
<1>3. /\ r_tail.ptr \in Rc!Live /\ Rc!Live \subseteq Rc!Placed /\ r_head.ptr \in Rc!Placed
      /\ r_tail.ptr \in Rc!Placed /\ Rc!Placed \subseteq RcNodes
  BY RcTailPlaced, RcListsAre DEF Rc!Shape, Rc!Placed
<1>4. /\ IsLinked(r_head'.ptr, Rc!After', Null, RcNodes) /\ Rc!Live' = Rc!Live \cup {y}
      /\ Rc!After[r_tail.ptr] = Null /\ Rc!After'[r_tail.ptr] = y /\ Rc!After'[y] = Null
  BY RcListGrows
<1>5. /\ Rc!At(Rc!Referring, y) = {} /\ Rc!At(Rc!TailFolding, y) = {}
      /\ Rc!At(Rc!HeadFolding, y) = {}
  BY <1>1, RcNobodyAt
<1>6. Rc!Shape'
  <2>1. \A x \in Rc!Placed' : r_next'[x] = Rc!NullPtr
            => x \in {r_tail'.ptr, Rc!After'[r_tail'.ptr]}
    <3>1. \A x \in Rc!Placed \ {r_tail.ptr} : r_next'[x] # Rc!NullPtr
      BY <1>1, <1>3, <1>4, RcConstantsHold, RcListsAre DEF Rc!Shape, RcSameNode
    <3> QED
      BY <1>1, <1>4, <3>1
  <2>2. \A x \in RcNodes : x = Rc!After'[r_tail'.ptr]
            => r_next'[x] = Rc!NullPtr /\ Rc!Refs(x)' = {}
    BY <1>1, <1>2, <1>4, <1>5 DEF RcSameRefs, Rc!Refs
  <2> QED
    BY <1>1, <1>3, <1>4, <2>1, <2>2, RcListsAre DEF Rc!Shape
<1>7. Rc!Folding'
  BY <1>1, <1>2, <1>4, RcFoldersApart DEF RcSameFolders, RcNoNewFolders
<1>8. Rc!Counts'
  <2>1. ASSUME NEW x \in Rc!Placed
        PROVE  RcCountsHold(x)'
    <3>1. x # y /\ x \in RcNodes /\ x # Null /\ icount'[x] = icount[x] /\ ecount'[x] = ecount[x]
      BY <1>1, <1>3, RcConstantsHold DEF RcSameNode
    <3>2. RcSameTail(x) /\ RcSameHead(x)
      BY <1>1, <1>2, <1>4, <3>1, RcTailOwedStays, RcHeadOwedStays, RcOpenStays
      DEF RcSameTail, RcSameHead, RcSameFolds
    <3>3. RcCountsHold(x)
      BY RcCountsIs
    <3>4. RcSameRefs(x)
      BY <1>2
    <3> QED
      BY ONLY <3>1, <3>2, <3>3, <3>4, RcCountsStay
  <2>2. RcCountsHold(y)'
    <3>1. Rc!Refs(y)' = {} /\ Rc!At(Rc!TailFolding, y)' = {} /\ Rc!At(Rc!HeadFolding, y)' = {}
      BY <1>2, <1>5 DEF RcSameRefs, RcSameFolds, RcSameTailFolds, RcSameHeadFolds, Rc!Refs
    <3>2. Cardinality(Rc!Refs(y)') = 0
      BY <3>1, FS_EmptySet
    <3>3. Rc!TailOwed(y)' = 0 /\ Rc!HeadOwed(y)' = 0
      BY <1>1, <1>3, <3>1, RcTailOwedIs, RcHeadOwedIs
    <3>4. Rc!TailOpen(y)' = 1 /\ Rc!HeadOpen(y)' = 1
      BY <1>1, <1>4 DEF Rc!TailOpen, Rc!HeadOpen
    <3>5. Rc!Bits(0) = 0
      <4>1. 0 < 2^30
        OBVIOUS
      <4> QED
        BY <4>1, RcWrapZero
    <3>6. Rc!CountsOf(y)'
      <4>1. ecount'[y] = Rc!TailOpen(y)' + Rc!HeadOpen(y)'
        BY <1>1, <3>4
      <4>2. icount'[y] = Rc!Bits(Cardinality(Rc!Refs(y)') - Rc!TailOwed(y)' - Rc!HeadOwed(y)')
        BY <1>1, <3>2, <3>3, <3>5
      <4> QED
        BY <4>1, <4>2, RcSetsAre DEF Rc!CountsOf
    <3>7. ecount'[y] # 0
      BY <1>1
    <3> QED
      BY <3>6, <3>7 DEF RcCountsHold
  <2>3. \A x \in Rc!Placed' : RcCountsHold(x)'
    BY <1>1, <2>1, <2>2
  <2> QED
    BY <2>3 DEF Rc!Counts, RcCountsHold
<1> QED
  BY <1>6, <1>7, <1>8

\* One more reference makes one more to count.
LEMMA RcOneMore ==
    ASSUME NEW x, NEW t, t \notin Rc!Refs(x), Rc!Refs(x)' = Rc!Refs(x) \cup {t}
    PROVE  /\ Cardinality(Rc!Refs(x)') = Cardinality(Rc!Refs(x)) + 1
           /\ Cardinality(Rc!Refs(x)) \in Nat
BY RcAtCounted, FS_AddElement DEF Rc!Refs

\* One reference less makes one less to count.
LEMMA RcOneLess ==
    ASSUME NEW x, NEW t, t \in Rc!Refs(x), Rc!Refs(x)' = Rc!Refs(x) \ {t}
    PROVE  /\ Cardinality(Rc!Refs(x)') = Cardinality(Rc!Refs(x)) - 1
           /\ Cardinality(Rc!Refs(x)) \in Nat
BY RcAtCounted, FS_RemoveElement DEF Rc!Refs

\* A step that takes a reference through tail.
LEMMA RcTakeTailOK ==
    ASSUME Rc!TypeOK, Rc!TypeOK', Rc!LocalsOK, RcQueueOK, NEW t \in Rc!Callers, RcOthers(t),
           RcTakeTail(t)
    PROVE  RcQueueOK'
<1> USE DEF RcQueueOK
<1>1. /\ r_head' = r_head /\ r_tail' = [r_tail EXCEPT !.cnt = @ + 1]
      /\ r_next' = r_next /\ icount' = icount /\ ecount' = ecount
      /\ r_pc[t] \notin Rc!Referring /\ r_pc'[t] \in RcHolding /\ r_o'[t] = r_tail'
      /\ Rc!Placed' = Rc!Placed
  BY DEF RcTakeTail, RcSameHeap, Rc!Placed
<1>2. /\ r_tail'.ptr = r_tail.ptr /\ r_tail'.cnt = r_tail.cnt + 1 /\ r_tail.cnt \in Nat
      /\ r_o'[t].ptr = r_tail.ptr
  BY <1>1 DEF Rc!TypeOK
<1>3. /\ RcSameFolders /\ \A x : RcSameFolds(x) /\ (x # r_tail.ptr => RcSameRefs(x))
      /\ \A x : x = r_tail.ptr => Rc!Refs(x)' = Rc!Refs(x) \cup {t} /\ t \notin Rc!Refs(x)
  BY <1>1, <1>2, RcReferenceTaken DEF Rc!Refs
<1>4. Rc!Shape' /\ Rc!Live' = Rc!Live /\ Rc!After'[r_tail'.ptr] = Rc!After[r_tail.ptr]
  <2>1. Rc!After[r_tail.ptr] # r_tail.ptr
    BY RcAfterIs, RcConstantsHold, RcListsAre DEF Rc!Shape, Rc!TypeOK
  <2>2. \A x \in RcNodes : x = Rc!After[r_tail.ptr] => Rc!Refs(x)' \subseteq Rc!Refs(x)
    BY <1>3, <2>1 DEF RcSameRefs, Rc!Refs
  <2> QED
    BY <1>1, <1>2, <2>2, RcShapeStays, RcListsAre DEF Rc!Shape
<1>5. Rc!Folding'
  BY <1>2, <1>3, <1>4, RcFoldersApart DEF RcSameFolders, RcNoNewFolders
<1>6. ASSUME NEW x \in Rc!Placed
      PROVE  RcCountsHold(x)'
  <2>1. RcCountsHold(x) /\ x \in RcNodes
    BY RcCountsIs DEF Rc!Placed
  <2>2. Rc!TailOpen(x)' = Rc!TailOpen(x) /\ RcSameHead(x)
    BY <1>1, <1>2, <1>3, <1>4, RcHeadOwedStays, RcOpenStays DEF RcSameHead, RcSameFolds
  <2>3. CASE x # r_tail.ptr
    <3>1. RcSameTail(x)
      BY <1>2, <1>3, <2>2, <2>3, RcTailOwedStays DEF RcSameTail, RcSameFolds
    <3>2. RcSameRefs(x) /\ icount'[x] = icount[x] /\ ecount'[x] = ecount[x]
      BY <1>1, <1>3, <2>3
    <3> QED
      BY ONLY <2>1, <2>2, <3>1, <3>2, RcCountsStay
  <2>4. CASE x = r_tail.ptr
    <3>1. Rc!Refs(x)' = Rc!Refs(x) \cup {t} /\ t \notin Rc!Refs(x)
      BY <1>3, <2>4
    <3>2. /\ Cardinality(Rc!Refs(x)') = Cardinality(Rc!Refs(x)) + 1
          /\ Cardinality(Rc!Refs(x)) \in Nat
      BY <3>1, RcOneMore
    <3>3. Rc!TailOwed(x)' = Rc!TailOwed(x) + 1
      BY <1>2, <2>4, RcTailOwedIs
    <3>4. Rc!TailOwed(x) \in Int /\ Rc!HeadOwed(x) \in Int
      BY RcOwedType
    <3>5. Cardinality(Rc!Refs(x)') - Rc!TailOwed(x)' - Rc!HeadOwed(x)'
            = Cardinality(Rc!Refs(x)) - Rc!TailOwed(x) - Rc!HeadOwed(x)
      BY <2>2, <3>2, <3>3, <3>4 DEF RcSameHead
    <3>6. icount'[x] = icount[x] /\ ecount'[x] = ecount[x]
      BY <1>1
    <3>7. Rc!CountsOf(x)'
      BY <2>1, <2>2, <3>5, <3>6, RcSetsAre DEF RcCountsHold, Rc!CountsOf, RcSameHead
    <3> QED
      BY <3>1, <3>7 DEF RcCountsHold
  <2> QED
    BY <2>3, <2>4
<1>7. Rc!Counts'
  BY <1>1, <1>6 DEF Rc!Counts, RcCountsHold
<1> QED
  BY <1>4, <1>5, <1>7

\* A step that takes a reference through head.
LEMMA RcTakeHeadOK ==
    ASSUME Rc!TypeOK, Rc!TypeOK', Rc!LocalsOK, RcQueueOK, NEW t \in Rc!Callers, RcOthers(t),
           RcTakeHead(t)
    PROVE  RcQueueOK'
<1> USE DEF RcQueueOK
<1>1. /\ r_tail' = r_tail /\ r_head' = [r_head EXCEPT !.cnt = @ + 1]
      /\ r_next' = r_next /\ icount' = icount /\ ecount' = ecount
      /\ r_pc[t] \notin Rc!Referring /\ r_pc'[t] \in RcHolding /\ r_o'[t] = r_head'
      /\ Rc!Placed' = Rc!Placed
  BY DEF RcTakeHead, RcSameHeap, Rc!Placed
<1>2. /\ r_head'.ptr = r_head.ptr /\ r_head'.cnt = r_head.cnt + 1 /\ r_head.cnt \in Nat
      /\ r_o'[t].ptr = r_head.ptr
  BY <1>1 DEF Rc!TypeOK
<1>3. /\ RcSameFolders /\ \A x : RcSameFolds(x) /\ (x # r_head.ptr => RcSameRefs(x))
      /\ \A x : x = r_head.ptr => Rc!Refs(x)' = Rc!Refs(x) \cup {t} /\ t \notin Rc!Refs(x)
  BY <1>1, <1>2, RcReferenceTaken DEF Rc!Refs
<1>4. Rc!Shape' /\ Rc!Live' = Rc!Live /\ Rc!After'[r_tail'.ptr] = Rc!After[r_tail.ptr]
  <2>1. Rc!After[r_tail.ptr] # r_head.ptr
    BY RcTailPlaced, RcListsAre DEF Rc!Shape
  <2>2. \A x \in RcNodes : x = Rc!After[r_tail.ptr] => Rc!Refs(x)' \subseteq Rc!Refs(x)
    BY <1>3, <2>1 DEF RcSameRefs, Rc!Refs
  <2> QED
    BY <1>1, <1>2, <2>2, RcShapeStays, RcListsAre DEF Rc!Shape
<1>5. Rc!Folding'
  BY <1>1, <1>3, <1>4, RcFoldersApart DEF RcSameFolders, RcNoNewFolders
<1>6. ASSUME NEW x \in Rc!Placed
      PROVE  RcCountsHold(x)'
  <2>1. RcCountsHold(x) /\ x \in RcNodes
    BY RcCountsIs DEF Rc!Placed
  <2>2. Rc!HeadOpen(x)' = Rc!HeadOpen(x) /\ RcSameTail(x)
    BY <1>1, <1>2, <1>3, <1>4, RcTailOwedStays, RcOpenStays DEF RcSameTail, RcSameFolds
  <2>3. CASE x # r_head.ptr
    <3>1. RcSameHead(x)
      BY <1>2, <1>3, <2>2, <2>3, RcHeadOwedStays DEF RcSameHead, RcSameFolds
    <3>2. RcSameRefs(x) /\ icount'[x] = icount[x] /\ ecount'[x] = ecount[x]
      BY <1>1, <1>3, <2>3
    <3> QED
      BY ONLY <2>1, <2>2, <3>1, <3>2, RcCountsStay
  <2>4. CASE x = r_head.ptr
    <3>1. Rc!Refs(x)' = Rc!Refs(x) \cup {t} /\ t \notin Rc!Refs(x)
      BY <1>3, <2>4
    <3>2. /\ Cardinality(Rc!Refs(x)') = Cardinality(Rc!Refs(x)) + 1
          /\ Cardinality(Rc!Refs(x)) \in Nat
      BY <3>1, RcOneMore
    <3>3. Rc!HeadOwed(x)' = Rc!HeadOwed(x) + 1
      BY <1>2, <2>4, RcHeadOwedIs
    <3>4. Rc!TailOwed(x) \in Int /\ Rc!HeadOwed(x) \in Int
      BY RcOwedType
    <3>5. Cardinality(Rc!Refs(x)') - Rc!TailOwed(x)' - Rc!HeadOwed(x)'
            = Cardinality(Rc!Refs(x)) - Rc!TailOwed(x) - Rc!HeadOwed(x)
      BY <2>2, <3>2, <3>3, <3>4 DEF RcSameTail
    <3>6. icount'[x] = icount[x] /\ ecount'[x] = ecount[x]
      BY <1>1
    <3>7. Rc!CountsOf(x)'
      BY <2>1, <2>2, <3>5, <3>6, RcSetsAre DEF RcCountsHold, Rc!CountsOf, RcSameTail
    <3> QED
      BY <3>1, <3>7 DEF RcCountsHold
  <2> QED
    BY <2>3, <2>4
<1>7. Rc!Counts'
  BY <1>1, <1>6 DEF Rc!Counts, RcCountsHold
<1> QED
  BY <1>4, <1>5, <1>7

\* A step that makes tail move on.
LEMMA RcAdvanceTailOK ==
    ASSUME Rc!TypeOK, Rc!TypeOK', Rc!LocalsOK, RcQueueOK, NEW t \in Rc!Callers, RcOthers(t),
           RcAdvanceTail(t)
    PROVE  RcQueueOK'
<1> DEFINE y == Rc!After[r_tail.ptr]
<1> USE DEF RcQueueOK
<1>1. /\ r_head' = r_head /\ r_next[r_tail.ptr] # Rc!NullPtr /\ r_tail' = r_next[r_tail.ptr]
      /\ r_next' = r_next /\ icount' = icount /\ ecount' = ecount
      /\ r_pc[t] \in RcHolding /\ r_o[t].ptr = r_tail.ptr /\ r_pc'[t] \in Rc!TailFolding
      /\ r_o'[t] = r_tail
      /\ Rc!Placed' = Rc!Placed
  BY DEF RcAdvanceTail, RcSameHeap, Rc!Placed
<1>2. /\ y \in RcNodes /\ r_tail'.ptr = y /\ r_tail'.cnt = 1 /\ r_tail.ptr \in RcNodes
      /\ r_next[y] = Rc!NullPtr /\ Rc!Refs(y) = {} /\ y \in Rc!Live /\ y # r_tail.ptr
      /\ Rc!After[y] = Null
      /\ Rc!After'[y] = Null
  <2>1. y \in RcNodes /\ r_tail'.ptr = y /\ r_tail'.cnt = 1 /\ r_tail.ptr \in RcNodes
    BY <1>1, RcAfterIs DEF Rc!TypeOK
  <2>2. r_next[y] = Rc!NullPtr /\ Rc!Refs(y) = {}
    BY <2>1, RcListsAre DEF Rc!Shape
  <2>3. y \in Rc!Live
    BY <2>1, RcTailPlaced, RcConstantsHold
  <2>4. Rc!After[y] = Null /\ Rc!After'[y] = Null
    BY <1>1, <2>1, <2>2 DEF Rc!After, Rc!NullPtr, Rc!Counted
  <2> QED
    BY <1>1, <2>1, <2>2, <2>3, <2>4
<1> HIDE DEF y
<1>3. /\ IsLinked(r_head'.ptr, Rc!After', Null, RcNodes) /\ Rc!Live' = Rc!Live
  BY <1>1, RcListStays
<1>4. /\ \A x : RcSameRefs(x) /\ RcSameHeadFolds(x) /\ (x # r_tail.ptr => RcSameTailFolds(x))
      /\ \A x : x = r_tail.ptr => Rc!At(Rc!TailFolding, x)' = Rc!At(Rc!TailFolding, x) \cup {t}
  <2>1. \A x : RcSameRefs(x)
    BY <1>1, RcClasses DEF RcSameRefs, Rc!At, RcOthers
  <2>2. \A x : RcSameHeadFolds(x)
    BY <1>1, RcClasses DEF RcSameHeadFolds, Rc!At, RcOthers
  <2>3. \A x : x # r_tail.ptr => RcSameTailFolds(x)
    BY <1>1, RcClasses DEF RcSameTailFolds, Rc!At, RcOthers
  <2>4. \A x : x = r_tail.ptr => Rc!At(Rc!TailFolding, x)' = Rc!At(Rc!TailFolding, x) \cup {t}
    BY <1>1, RcClasses DEF Rc!At, RcOthers
  <2> QED
    BY <2>1, <2>2, <2>3, <2>4
<1>5. Rc!Shape'
  <2>1. \A x \in Rc!Placed' : r_next'[x] = Rc!NullPtr
            => x \in {r_tail'.ptr, Rc!After'[r_tail'.ptr]}
    BY <1>1, <1>2, RcListsAre DEF Rc!Shape, y
  <2>2. \A x \in RcNodes : x # Rc!After'[r_tail'.ptr]
    BY <1>2, RcConstantsHold
  <2> QED
    BY <1>1, <1>2, <1>3, <2>1, <2>2, RcListsAre DEF Rc!Shape
<1>6. Rc!Folding'
  <2>1. ASSUME NEW a \in Rc!Callers, a # t
        PROVE  /\ r_pc'[a] = r_pc[a] /\ r_o'[a] = r_o[a]
               /\ r_pc[a] \in Rc!TailFolding \cup Rc!HeadFolding => r_o[a].ptr \in RcNodes
    BY <2>1, RcHolds, RcClasses DEF RcOthers
  <2>2. r_pc'[t] \notin Rc!HeadFolding /\ r_pc[t] \notin Rc!HeadFolding \cup Rc!TailFolding
    BY <1>1, RcClasses
  <2>3. \A a \in Rc!Callers : r_pc[a] \in Rc!TailFolding => r_o[a].ptr \notin {r_tail.ptr, y}
    BY DEF Rc!Folding, y
  <2>4. ASSUME NEW a \in Rc!Callers, NEW u \in Rc!Callers, r_pc'[a] \in Rc!TailFolding
        PROVE  /\ r_o'[a].ptr \notin {r_tail'.ptr, Rc!After'[r_tail'.ptr]}
               /\ r_pc'[u] \in Rc!TailFolding /\ r_o'[u].ptr = r_o'[a].ptr => u = a
    <3>1. CASE a = t
      BY <1>1, <1>2, <2>1, <2>3, <3>1, RcConstantsHold
    <3>2. CASE a # t
      <4>1. r_pc[a] \in Rc!TailFolding /\ r_o'[a] = r_o[a] /\ r_o[a].ptr \in RcNodes
        BY <2>1, <2>4, <3>2
      <4>2. r_o[a].ptr \notin {r_tail.ptr, y}
        BY <2>3, <4>1
      <4>3. r_pc'[u] \in Rc!TailFolding /\ r_o'[u].ptr = r_o'[a].ptr => u = a
        <5>1. CASE u = t
          BY <1>1, <4>1, <4>2, <5>1
        <5>2. CASE u # t
          BY <2>1, <4>1, <5>2 DEF Rc!Folding
        <5> QED
          BY <5>1, <5>2
      <4> QED
        BY <1>2, <4>1, <4>2, <4>3, RcConstantsHold
    <3> QED
      BY <3>1, <3>2
  <2>5. ASSUME NEW a \in Rc!Callers, NEW u \in Rc!Callers, r_pc'[a] \in Rc!HeadFolding
        PROVE  /\ r_o'[a].ptr \notin Rc!Live'
               /\ r_pc'[u] \in Rc!HeadFolding /\ r_o'[u].ptr = r_o'[a].ptr => u = a
    BY <1>3, <2>1, <2>2, <2>5 DEF Rc!Folding
  <2> QED
    BY <2>4, <2>5 DEF Rc!Folding
<1>7. ASSUME NEW x \in Rc!Placed
      PROVE  RcCountsHold(x)'
  <2>1. RcCountsHold(x) /\ x \in RcNodes /\ x # Null
    BY RcCountsIs, RcConstantsHold DEF Rc!Placed
  <2>2. RcSameHead(x)
    BY <1>1, <1>3, <1>4, RcHeadOwedStays, RcOpenStays DEF RcSameHead
  <2>3. RcSameTail(x)
    <3>1. CASE x = r_tail.ptr
      <4>1. Rc!At(Rc!TailFolding, x) = {}
        BY <3>1 DEF Rc!Folding, Rc!At
      <4>2. Rc!At(Rc!TailFolding, x)' = {t}
        BY <1>4, <3>1, <4>1 DEF Rc!At
      <4>3. Rc!TailOpen(x)' = 1 /\ Rc!TailOpen(x) = 1
        BY <3>1, <4>2 DEF Rc!TailOpen
      <4>4. Rc!TailOwed(x)' = Rc!TailOwed(x)
        BY <1>1, <1>2, <3>1, <4>2, RcTailOwedIs
      <4> QED
        BY <4>3, <4>4 DEF RcSameTail
    <3>2. CASE x = y
      <4>1. Rc!TailOpen(x)' = 1 /\ Rc!TailOpen(x) = 1
        BY <1>2, <3>2 DEF Rc!TailOpen, y
      <4>2. Rc!At(Rc!TailFolding, x) = {}
        BY <3>2 DEF Rc!Folding, Rc!At, y
      <4>3. Rc!TailOwed(x)' = Rc!TailOwed(x)
        BY <1>2, <3>2, <4>2, RcTailOwedIs
      <4> QED
        BY <4>1, <4>3 DEF RcSameTail
    <3>3. CASE x # r_tail.ptr /\ x # y
      <4>1. Rc!TailOwed(x)' = Rc!TailOwed(x)
        BY <1>2, <1>4, <3>3, RcTailOwedStays
      <4>2. Rc!TailOpen(x)' = Rc!TailOpen(x)
        BY <1>2, <1>4, <2>1, <3>3, RcOpenStays DEF y
      <4> QED
        BY <4>1, <4>2 DEF RcSameTail
    <3> QED
      BY <3>1, <3>2, <3>3
  <2>4. RcSameRefs(x) /\ icount'[x] = icount[x] /\ ecount'[x] = ecount[x]
    BY <1>1, <1>4
  <2> QED
    BY ONLY <2>1, <2>2, <2>3, <2>4, RcCountsStay
<1>8. Rc!Counts'
  BY <1>1, <1>7 DEF Rc!Counts, RcCountsHold
<1> QED
  BY <1>5, <1>6, <1>8

\* A step that makes head move on.
LEMMA RcAdvanceHeadOK ==
    ASSUME Rc!TypeOK, Rc!TypeOK', Rc!LocalsOK, RcQueueOK, NEW t \in Rc!Callers, RcOthers(t),
           RcAdvanceHead(t)
    PROVE  RcQueueOK'
<1> DEFINE y == Rc!After[r_head.ptr]
<1> USE DEF RcQueueOK
<1>1. /\ r_tail' = r_tail /\ r_next[r_head.ptr] # Rc!NullPtr /\ r_head' = r_next[r_head.ptr]
      /\ r_next' = r_next /\ icount' = icount /\ ecount' = ecount /\ r_head.ptr # r_tail.ptr
      /\ r_pc[t] \in RcHolding /\ r_o[t] = r_head /\ r_pc'[t] \in Rc!HeadFolding
      /\ r_o'[t] = r_head
      /\ Rc!Placed' = Rc!Placed
  BY DEF RcAdvanceHead, RcSameHeap, Rc!Placed
<1>2. /\ y \in RcNodes /\ r_head'.ptr = y /\ r_head'.cnt = 1 /\ r_head.ptr \in RcNodes
      /\ y \in Rc!Live /\ y # r_head.ptr /\ Rc!After' = Rc!After /\ r_head.ptr \in Rc!Live
  <2>1. y \in RcNodes /\ r_head'.ptr = y /\ r_head'.cnt = 1 /\ r_head.ptr \in RcNodes
    BY <1>1, RcAfterIs DEF Rc!TypeOK
  <2>2. y \in Rc!Live /\ y # r_head.ptr /\ r_head.ptr \in Rc!Live
    BY <2>1, RcTailPlaced, RcConstantsHold
  <2>3. Rc!After' = Rc!After
    BY <1>1 DEF Rc!After
  <2> QED
    BY <2>1, <2>2, <2>3
<1>3. IsLinked(r_head'.ptr, Rc!After', Null, RcNodes) /\ Rc!Live' = Rc!Live \ {r_head.ptr}
  <2>1. IsFiniteSet(RcNodes) /\ Null \notin RcNodes /\ r_head.ptr # Null
    BY <1>2, RcConstantsHold
  <2>2. IsLinked(r_head.ptr, Rc!After, Null, RcNodes)
    BY RcListsAre DEF Rc!Shape
  <2>3. DropsFirst(r_head.ptr, Rc!After, Null, RcNodes)
    BY ONLY <2>1, <2>2, ListDrop
  <2> QED
    BY <1>2, <2>3, RcListsAre DEF DropsFirst, Rc!Live
<1> HIDE DEF y
<1>4. /\ \A x : RcSameRefs(x) /\ RcSameTailFolds(x) /\ (x # r_head.ptr => RcSameHeadFolds(x))
      /\ \A x : x = r_head.ptr => Rc!At(Rc!HeadFolding, x)' = Rc!At(Rc!HeadFolding, x) \cup {t}
  <2>1. \A x : RcSameRefs(x)
    BY <1>1, RcClasses DEF RcSameRefs, Rc!At, RcOthers
  <2>2. \A x : RcSameTailFolds(x)
    BY <1>1, RcClasses DEF RcSameTailFolds, Rc!At, RcOthers
  <2>3. \A x : x # r_head.ptr => RcSameHeadFolds(x)
    BY <1>1, RcClasses DEF RcSameHeadFolds, Rc!At, RcOthers
  <2>4. \A x : x = r_head.ptr => Rc!At(Rc!HeadFolding, x)' = Rc!At(Rc!HeadFolding, x) \cup {t}
    BY <1>1, RcClasses DEF Rc!At, RcOthers
  <2> QED
    BY <2>1, <2>2, <2>3, <2>4
<1>5. Rc!Shape'
  <2>1. r_tail'.ptr \in Rc!Live' /\ Rc!Live' \subseteq Rc!Placed'
    BY <1>1, <1>3, RcListsAre DEF Rc!Shape
  <2>2. /\ \A x \in Rc!Placed' : r_next'[x] = Rc!NullPtr
               => x \in {r_tail'.ptr, Rc!After'[r_tail'.ptr]}
        /\ \A x \in RcNodes : x = Rc!After'[r_tail'.ptr]
               => r_next'[x] = Rc!NullPtr /\ Rc!Refs(x)' = {}
    BY <1>1, <1>2, <1>4, RcListsAre DEF Rc!Shape, RcSameRefs, Rc!Refs
  <2> QED
    BY <1>3, <2>1, <2>2, RcListsAre DEF Rc!Shape
<1>6. Rc!Folding'
  <2>1. \A a \in Rc!Callers : a # t => r_pc'[a] = r_pc[a] /\ r_o'[a] = r_o[a]
    BY DEF RcOthers
  <2>2. r_pc'[t] \notin Rc!TailFolding /\ r_pc[t] \notin Rc!HeadFolding \cup Rc!TailFolding
    BY <1>1, RcClasses
  <2>3. \A a \in Rc!Callers : r_pc[a] \in Rc!HeadFolding => r_o[a].ptr \notin Rc!Live
    BY DEF Rc!Folding
  <2>4. ASSUME NEW a \in Rc!Callers, NEW u \in Rc!Callers, r_pc'[a] \in Rc!HeadFolding
        PROVE  /\ r_o'[a].ptr \notin Rc!Live'
               /\ r_pc'[u] \in Rc!HeadFolding /\ r_o'[u].ptr = r_o'[a].ptr => u = a
    <3>1. CASE a = t
      BY <1>1, <1>2, <1>3, <2>1, <2>3, <3>1
    <3>2. CASE a # t
      <4>1. r_pc[a] \in Rc!HeadFolding /\ r_o'[a] = r_o[a] /\ r_o[a].ptr \notin Rc!Live
        BY <2>1, <2>3, <2>4, <3>2
      <4>2. r_pc'[u] \in Rc!HeadFolding /\ r_o'[u].ptr = r_o'[a].ptr => u = a
        <5>1. CASE u = t
          BY <1>1, <1>2, <4>1, <5>1
        <5>2. CASE u # t
          BY <2>1, <4>1, <5>2 DEF Rc!Folding
        <5> QED
          BY <5>1, <5>2
      <4> QED
        BY <1>3, <4>1, <4>2
    <3> QED
      BY <3>1, <3>2
  <2>5. ASSUME NEW a \in Rc!Callers, NEW u \in Rc!Callers, r_pc'[a] \in Rc!TailFolding
        PROVE  /\ r_o'[a].ptr \notin {r_tail'.ptr, Rc!After'[r_tail'.ptr]}
               /\ r_pc'[u] \in Rc!TailFolding /\ r_o'[u].ptr = r_o'[a].ptr => u = a
    BY <1>1, <1>2, <2>1, <2>2, <2>5 DEF Rc!Folding
  <2> QED
    BY <2>4, <2>5 DEF Rc!Folding
<1>7. ASSUME NEW x \in Rc!Placed
      PROVE  RcCountsHold(x)'
  <2>1. RcCountsHold(x) /\ x \in RcNodes /\ x # Null
    BY RcCountsIs, RcConstantsHold DEF Rc!Placed
  <2>2. RcSameTail(x)
    BY <1>1, <1>2, <1>4, RcTailOwedStays, RcOpenStays DEF RcSameTail
  <2>3. RcSameHead(x)
    <3>1. CASE x = r_head.ptr
      <4>1. Rc!At(Rc!HeadFolding, x) = {}
        BY <1>2, <3>1 DEF Rc!Folding, Rc!At
      <4>2. Rc!At(Rc!HeadFolding, x)' = {t}
        BY <1>4, <3>1, <4>1 DEF Rc!At
      <4>3. Rc!HeadOpen(x)' = 1 /\ Rc!HeadOpen(x) = 1
        BY <1>2, <3>1, <4>2 DEF Rc!HeadOpen
      <4>4. Rc!HeadOwed(x)' = Rc!HeadOwed(x)
        BY <1>1, <1>2, <3>1, <4>2, RcHeadOwedIs
      <4> QED
        BY <4>3, <4>4 DEF RcSameHead
    <3>2. CASE x = y
      <4>1. Rc!HeadOpen(x)' = 1 /\ Rc!HeadOpen(x) = 1
        BY <1>2, <1>3, <3>2 DEF Rc!HeadOpen
      <4>2. Rc!At(Rc!HeadFolding, x) = {}
        BY <1>2, <3>2 DEF Rc!Folding, Rc!At
      <4>3. Rc!HeadOwed(x)' = Rc!HeadOwed(x)
        BY <1>2, <3>2, <4>2, RcHeadOwedIs
      <4> QED
        BY <4>1, <4>3 DEF RcSameHead
    <3>3. CASE x # r_head.ptr /\ x # y
      <4>1. Rc!HeadOwed(x)' = Rc!HeadOwed(x)
        BY <1>2, <1>4, <3>3, RcHeadOwedStays
      <4>2. Rc!HeadOpen(x)' = Rc!HeadOpen(x)
        BY <1>3, <1>4, <3>3, RcOpenStays
      <4> QED
        BY <4>1, <4>2 DEF RcSameHead
    <3> QED
      BY <3>1, <3>2, <3>3
  <2>4. RcSameRefs(x) /\ icount'[x] = icount[x] /\ ecount'[x] = ecount[x]
    BY <1>1, <1>4
  <2> QED
    BY ONLY <2>1, <2>2, <2>3, <2>4, RcCountsStay
<1>8. Rc!Counts'
  BY <1>1, <1>7 DEF Rc!Counts, RcCountsHold
<1> QED
  BY <1>5, <1>6, <1>8

\* What is the same when a reference to x is given up.
LEMMA RcLeftSame ==
    ASSUME Rc!TypeOK, Rc!TypeOK', Rc!LocalsOK, Rc!Shape, NEW t \in Rc!Callers, RcOthers(t),
           NEW x \in Rc!Placed,
           RcLeaves(t, x), r_pc[t] \in Rc!Referring, r_next' = r_next
    PROVE  /\ \A z : z # x => RcSameRefs(z)
           /\ Rc!Refs(x)' = Rc!Refs(x) \ {t} /\ t \in Rc!Refs(x)
           /\ r_head' = r_head /\ r_tail' = r_tail /\ Rc!Live' = Rc!Live
           /\ Rc!After'[r_tail'.ptr] = Rc!After[r_tail.ptr]
<1>1. r_head' = r_head /\ r_tail' = r_tail /\ r_o[t].ptr = x /\ r_pc'[t] \notin Rc!Referring
  BY DEF RcLeaves
<1>2. /\ \A z : z # x => RcSameRefs(z)
      /\ Rc!Refs(x)' = Rc!Refs(x) \ {t} /\ t \in Rc!Refs(x)
  BY <1>1, RcReferenceLeft DEF Rc!Refs
<1>3. Rc!Live' = Rc!Live
  BY <1>1, RcListStays
<1>4. Rc!After' = Rc!After
  BY DEF Rc!After
<1> QED
  BY <1>1, <1>2, <1>3, <1>4

\* If the counts of x are right then, x is deleted if nobody refers to it any more and
\* no counter stands for it, and the queue is as it was.
LEMMA RcLeftOK ==
    ASSUME Rc!TypeOK, Rc!TypeOK', Rc!LocalsOK, RcQueueOK, NEW t \in Rc!Callers, RcOthers(t),
           NEW x \in Rc!Placed,
           RcLeaves(t, x), r_pc[t] \in Rc!Referring,
           NEW i, NEW e, RcSetsCounts(x, i, e), RcNoNewFolders,
           \A z \in Rc!Placed : z # x => RcSameFolds(z),
           Rc!CountsOf(x)'
    PROVE  RcQueueOK' /\ (x \notin Rc!Placed' => Rc!Refs(x)' = {})
<1> USE DEF RcQueueOK
<1>1. /\ r_next' = r_next /\ r_nd' = r_nd
      /\ \A z \in RcNodes \ {x} : icount'[z] = icount[z] /\ ecount'[z] = ecount[z]
      /\ r_free' = IF icount'[x] = 0 /\ ecount'[x] = 0 THEN r_free \cup {x} ELSE r_free
      /\ x \in RcNodes /\ x # Null
  BY RcConstantsHold DEF RcSetsCounts, Rc!Placed
<1>2. /\ \A z : z # x => RcSameRefs(z)
      /\ Rc!Refs(x)' = Rc!Refs(x) \ {t} /\ t \in Rc!Refs(x)
      /\ r_head' = r_head /\ r_tail' = r_tail /\ Rc!Live' = Rc!Live
      /\ Rc!After'[r_tail'.ptr] = Rc!After[r_tail.ptr]
  BY <1>1, RcLeftSame
<1>3. ASSUME ecount'[x] = 0
      PROVE  x \notin Rc!Live /\ (icount'[x] = 0 <=> Rc!Refs(x)' = {})
  <2>1. ecount'[x] = Rc!TailOpen(x)' + Rc!HeadOpen(x)'
        /\ icount'[x] = Rc!Bits(Cardinality(Rc!Refs(x)') - Rc!TailOwed(x)' - Rc!HeadOwed(x)')
    BY RcSetsAre DEF Rc!CountsOf
  <2>2. Rc!TailOpen(x)' \in {0, 1} /\ Rc!HeadOpen(x)' \in {0, 1}
    BY DEF Rc!TailOpen, Rc!HeadOpen
  <2>3. Rc!TailOpen(x)' = 0 /\ Rc!HeadOpen(x)' = 0
    BY <1>3, <2>1, <2>2
  <2>4. /\ x # r_tail'.ptr /\ Rc!At(Rc!TailFolding, x)' = {} /\ x \notin Rc!Live'
        /\ Rc!At(Rc!HeadFolding, x)' = {}
    BY <2>3 DEF Rc!TailOpen, Rc!HeadOpen
  <2>5. x # r_head'.ptr
    BY <1>2, <2>4, RcTailPlaced
  <2>6. Rc!TailOwed(x)' = 0 /\ Rc!HeadOwed(x)' = 0
    BY <2>4, <2>5, RcTailOwedIs, RcHeadOwedIs
  <2>7. /\ IsFiniteSet(Rc!Refs(x)') /\ Cardinality(Rc!Refs(x)') \in Nat
        /\ Cardinality(Rc!Refs(x)') < 2^30
    <3>1. /\ IsFiniteSet(Rc!Refs(x)) /\ Cardinality(Rc!Refs(x)) \in Nat
          /\ Cardinality(Rc!Refs(x)) < 2^30
      BY RcAtCounted DEF Rc!Refs
    <3>2. IsFiniteSet(Rc!Refs(x)') /\ Cardinality(Rc!Refs(x)') = Cardinality(Rc!Refs(x)) - 1
      BY <1>2, <3>1, FS_RemoveElement
    <3>3. Cardinality(Rc!Refs(x)') \in Nat
      BY <3>2, FS_CardinalityType
    <3>4. 2^30 \in Nat
      OBVIOUS
    <3> QED
      BY <3>1, <3>2, <3>3, <3>4
  <2>8. icount'[x] = Rc!Bits(Cardinality(Rc!Refs(x)'))
    BY <2>1, <2>6, <2>7
  <2>9. icount'[x] = 0 <=> Cardinality(Rc!Refs(x)') = 0
    BY <2>7, <2>8, RcWrapZero
  <2> QED
    BY <1>2, <2>4, <2>7, <2>9, FS_EmptySet
<1>4. /\ Rc!Placed' \subseteq Rc!Placed /\ \A z \in Rc!Placed : z # x => z \in Rc!Placed'
      /\ x \notin Rc!Placed' => icount'[x] = 0 /\ ecount'[x] = 0
      /\ x \in Rc!Placed' => ~(icount'[x] = 0 /\ ecount'[x] = 0)
  BY <1>1 DEF Rc!Placed
<1>5. Rc!Live \subseteq Rc!Placed'
  BY <1>3, <1>4, RcListsAre DEF Rc!Shape
<1>6. Rc!Shape'
  <2>1. \A z : Rc!Refs(z)' \subseteq Rc!Refs(z)
    BY <1>2 DEF RcSameRefs, Rc!Refs
  <2> QED
    BY <1>1, <1>2, <1>4, <1>5, <2>1, RcShapeStays
<1>7. Rc!Folding'
  BY <1>2, RcFoldersApart
<1>8. ASSUME NEW z \in Rc!Placed'
      PROVE  RcCountsHold(z)'
  <2>1. CASE z = x
    BY <1>3, <1>4, <2>1 DEF RcCountsHold
  <2>2. CASE z # x
    <3>1. z \in Rc!Placed /\ z \in RcNodes /\ icount'[z] = icount[z] /\ ecount'[z] = ecount[z]
      BY <1>1, <1>4, <2>2 DEF Rc!Placed
    <3>2. RcSameTail(z) /\ RcSameHead(z)
      BY <1>2, <2>2, <3>1, RcTailOwedStays, RcHeadOwedStays, RcOpenStays
      DEF RcSameTail, RcSameHead, RcSameFolds
    <3>3. RcCountsHold(z) /\ RcSameRefs(z)
      BY <1>2, <2>2, <3>1, RcCountsIs
    <3> QED
      BY ONLY <3>1, <3>2, <3>3, RcCountsStay
  <2> QED
    BY <2>1, <2>2
<1>9. Rc!Counts'
  BY <1>8 DEF Rc!Counts, RcCountsHold
<1> QED
  BY <1>3, <1>4, <1>6, <1>7, <1>9

\* A step that gives a reference up.
LEMMA RcReleaseOK ==
    ASSUME Rc!TypeOK, Rc!TypeOK', Rc!LocalsOK, RcQueueOK, NEW t \in Rc!Callers, RcOthers(t),
           NEW x \in Rc!Placed,
           RcRelease(t, x)
    PROVE  RcQueueOK' /\ (x \notin Rc!Placed' => Rc!Refs(x)' = {})
<1> USE DEF RcQueueOK
<1>1. /\ RcLeaves(t, x) /\ r_pc[t] \in RcHolding /\ RcSetsCounts(x, icount[x] - 1, ecount[x])
      /\ r_next' = r_next /\ icount'[x] = Rc!Bits(icount[x] - 1) /\ ecount'[x] = ecount[x] % 4
      /\ r_pc'[t] \notin Rc!Referring /\ x \in RcNodes
  BY DEF RcRelease, RcSetsCounts, RcLeaves, Rc!Placed
<1>2. RcSameFolders /\ \A z : RcSameFolds(z)
  <2>1. RcSameFolders
    BY <1>1, RcClasses DEF RcSameFolders, RcOthers
  <2> QED
    BY <2>1, RcFoldersStay
<1>3. /\ Rc!Refs(x)' = Rc!Refs(x) \ {t} /\ t \in Rc!Refs(x)
      /\ r_head' = r_head /\ r_tail' = r_tail /\ Rc!Live' = Rc!Live
      /\ Rc!After'[r_tail'.ptr] = Rc!After[r_tail.ptr]
  BY <1>1, RcLeftSame, RcClasses
<1>4. RcSameTail(x) /\ RcSameHead(x)
  BY <1>2, <1>3, RcTailOwedStays, RcHeadOwedStays, RcOpenStays
  DEF RcSameTail, RcSameHead, RcSameFolds
<1>5. Cardinality(Rc!Refs(x)') = Cardinality(Rc!Refs(x)) - 1 /\ Cardinality(Rc!Refs(x)) \in Nat
  BY <1>3, RcOneLess
<1>6. Rc!CountsOf(x) /\ Rc!TailOwed(x) \in Int /\ Rc!HeadOwed(x) \in Int
  BY RcOwedType DEF Rc!Counts
<1>7. Rc!CountsOf(x)'
  <2> DEFINE c == Cardinality(Rc!Refs(x)) - Rc!TailOwed(x) - Rc!HeadOwed(x)
  <2>1. c \in Int /\ icount[x] = Rc!Bits(c)
    BY <1>5, <1>6, RcSetsAre DEF Rc!CountsOf
  <2>2. icount'[x] = Rc!Bits(c - 1)
    <3>1. c - 1 = c + (-1) /\ icount[x] - 1 = Rc!Bits(c) + (-1)
      BY <2>1, <1>1, RcCountsAreInt
    <3> QED
      BY <1>1, <2>1, <3>1, RcWrapAgain
  <2>3. Cardinality(Rc!Refs(x)') - Rc!TailOwed(x)' - Rc!HeadOwed(x)' = c - 1
    BY <1>4, <1>5, <1>6 DEF RcSameTail, RcSameHead
  <2>4. ecount'[x] = ecount[x]
    <3>1. ecount[x] \in 0 .. 3
      BY <1>1 DEF Rc!TypeOK
    <3> QED
      BY <1>1, <3>1
  <2>5. ecount'[x] = Rc!TailOpen(x)' + Rc!HeadOpen(x)'
    BY <1>4, <1>6, <2>4, RcSetsAre DEF Rc!CountsOf, RcSameTail, RcSameHead
  <2> QED
    BY <2>2, <2>3, <2>5, RcSetsAre DEF Rc!CountsOf
<1> QED
  BY <1>1, <1>2, <1>7, RcLeftOK, RcClasses DEF RcSameFolders, RcNoNewFolders

\* A step that folds what was tail's counter.
LEMMA RcFoldTailOK ==
    ASSUME Rc!TypeOK, Rc!TypeOK', Rc!LocalsOK, RcQueueOK, NEW t \in Rc!Callers, RcOthers(t),
           NEW x \in Rc!Placed,
           RcFoldTail(t, x)
    PROVE  RcQueueOK' /\ (x \notin Rc!Placed' => Rc!Refs(x)' = {})
<1> USE DEF RcQueueOK
<1>1. /\ RcLeaves(t, x) /\ r_pc[t] \in Rc!TailFolding /\ r_o[t].ptr = x
      /\ RcSetsCounts(x, icount[x] + r_o[t].cnt - 2, ecount[x] - 1)
      /\ r_next' = r_next /\ icount'[x] = Rc!Bits(icount[x] + r_o[t].cnt - 2)
      /\ ecount'[x] = (ecount[x] - 1) % 4
      /\ r_pc'[t] \notin Rc!Referring /\ x \in RcNodes /\ r_o[t].cnt \in Nat
  BY DEF RcFoldTail, RcSetsCounts, RcLeaves, Rc!Placed, Rc!TypeOK
<1>2. /\ RcNoNewFolders
      /\ \A z : RcSameHeadFolds(z) /\ (z # x => RcSameTailFolds(z))
      /\ Rc!At(Rc!TailFolding, x)' = Rc!At(Rc!TailFolding, x) \ {t}
  <2>1. RcNoNewFolders
    BY <1>1, RcClasses DEF RcNoNewFolders, RcOthers
  <2>2. \A z : RcSameHeadFolds(z)
    BY <1>1, RcClasses DEF RcSameHeadFolds, Rc!At, RcOthers
  <2>3. \A z : z # x => RcSameTailFolds(z)
    BY <1>1, RcClasses DEF RcSameTailFolds, Rc!At, RcOthers
  <2>4. Rc!At(Rc!TailFolding, x)' = Rc!At(Rc!TailFolding, x) \ {t}
    BY <1>1, RcClasses DEF Rc!At, RcOthers
  <2> QED
    BY <2>1, <2>2, <2>3, <2>4
<1>3. /\ Rc!Refs(x)' = Rc!Refs(x) \ {t} /\ t \in Rc!Refs(x)
      /\ r_head' = r_head /\ r_tail' = r_tail /\ Rc!Live' = Rc!Live
      /\ Rc!After'[r_tail'.ptr] = Rc!After[r_tail.ptr]
  BY <1>1, RcLeftSame, RcClasses
<1>4. RcSameHead(x)
  BY <1>2, <1>3, RcHeadOwedStays, RcOpenStays DEF RcSameHead
<1>5. x \notin {r_tail.ptr, Rc!After[r_tail.ptr]} /\ Rc!At(Rc!TailFolding, x) = {t}
  BY <1>1 DEF Rc!Folding, Rc!At
<1>6. Rc!At(Rc!TailFolding, x)' = {}
  BY <1>2, <1>5
<1>7. /\ Rc!TailOpen(x) = 1 /\ Rc!TailOwed(x) = r_o[t].cnt - 1
      /\ Rc!TailOpen(x)' = 0 /\ Rc!TailOwed(x)' = 0
  <2>1. Rc!TailOpen(x) = 1 /\ Rc!TailOpen(x)' = 0
    BY <1>3, <1>5, <1>6 DEF Rc!TailOpen
  <2> QED
    BY <2>1, <1>3, <1>5, <1>6, RcTailOwedIs
<1>8. Cardinality(Rc!Refs(x)') = Cardinality(Rc!Refs(x)) - 1 /\ Cardinality(Rc!Refs(x)) \in Nat
  BY <1>3, RcOneLess
<1>9. Rc!CountsOf(x) /\ Rc!TailOwed(x) \in Int /\ Rc!HeadOwed(x) \in Int
  BY RcOwedType DEF Rc!Counts
<1>10. Rc!CountsOf(x)'
  <2> DEFINE c == Cardinality(Rc!Refs(x)) - Rc!TailOwed(x) - Rc!HeadOwed(x)
             k == r_o[t].cnt - 2
  <2>1. c \in Int /\ k \in Int /\ icount[x] = Rc!Bits(c) /\ Rc!Bits(c) \in Int
    BY <1>1, <1>8, <1>9, RcCountsAreInt, RcSetsAre DEF Rc!CountsOf
  <2>2. icount'[x] = Rc!Bits(c + k)
    <3>1. icount[x] + r_o[t].cnt - 2 = Rc!Bits(c) + k
      BY <1>1, <2>1
    <3>2. Rc!Bits(Rc!Bits(c) + k) = Rc!Bits(c + k)
      <4> HIDE DEF c, k
      <4> QED
        BY ONLY <2>1, RcWrapAgain
    <3> QED
      BY <1>1, <3>1, <3>2
  <2>3. Cardinality(Rc!Refs(x)') - Rc!TailOwed(x)' - Rc!HeadOwed(x)' = c + k
    BY <1>1, <1>4, <1>7, <1>8, <1>9 DEF RcSameHead
  <2>4. Rc!HeadOpen(x) \in {0, 1}
    BY DEF Rc!HeadOpen
  <2>5. ecount'[x] = Rc!TailOpen(x)' + Rc!HeadOpen(x)'
    <3>1. ecount[x] = 1 + Rc!HeadOpen(x) /\ Rc!HeadOpen(x)' = Rc!HeadOpen(x)
      BY <1>4, <1>7, <1>9, RcSetsAre DEF Rc!CountsOf, RcSameHead
    <3>2. ecount'[x] = Rc!HeadOpen(x)
      BY <1>1, <2>4, <3>1
    <3> QED
      BY <1>7, <2>4, <3>1, <3>2
  <2> QED
    BY <2>2, <2>3, <2>5, RcSetsAre DEF Rc!CountsOf
<1> QED
  BY <1>1, <1>2, <1>10, RcLeftOK, RcClasses DEF RcSameFolds

\* A step that folds what was head's counter.
LEMMA RcFoldHeadOK ==
    ASSUME Rc!TypeOK, Rc!TypeOK', Rc!LocalsOK, RcQueueOK, NEW t \in Rc!Callers, RcOthers(t),
           NEW x \in Rc!Placed,
           RcFoldHead(t, x)
    PROVE  RcQueueOK' /\ (x \notin Rc!Placed' => Rc!Refs(x)' = {})
<1> USE DEF RcQueueOK
<1>1. /\ RcLeaves(t, x) /\ r_pc[t] \in Rc!HeadFolding /\ r_o[t].ptr = x
      /\ RcSetsCounts(x, icount[x] + r_o[t].cnt - 2, ecount[x] - 1)
      /\ r_next' = r_next /\ icount'[x] = Rc!Bits(icount[x] + r_o[t].cnt - 2)
      /\ ecount'[x] = (ecount[x] - 1) % 4
      /\ r_pc'[t] \notin Rc!Referring /\ x \in RcNodes /\ r_o[t].cnt \in Nat
  BY DEF RcFoldHead, RcSetsCounts, RcLeaves, Rc!Placed, Rc!TypeOK
<1>2. /\ RcNoNewFolders
      /\ \A z : RcSameTailFolds(z) /\ (z # x => RcSameHeadFolds(z))
      /\ Rc!At(Rc!HeadFolding, x)' = Rc!At(Rc!HeadFolding, x) \ {t}
  <2>1. RcNoNewFolders
    BY <1>1, RcClasses DEF RcNoNewFolders, RcOthers
  <2>2. \A z : RcSameTailFolds(z)
    BY <1>1, RcClasses DEF RcSameTailFolds, Rc!At, RcOthers
  <2>3. \A z : z # x => RcSameHeadFolds(z)
    BY <1>1, RcClasses DEF RcSameHeadFolds, Rc!At, RcOthers
  <2>4. Rc!At(Rc!HeadFolding, x)' = Rc!At(Rc!HeadFolding, x) \ {t}
    BY <1>1, RcClasses DEF Rc!At, RcOthers
  <2> QED
    BY <2>1, <2>2, <2>3, <2>4
<1>3. /\ Rc!Refs(x)' = Rc!Refs(x) \ {t} /\ t \in Rc!Refs(x)
      /\ r_head' = r_head /\ r_tail' = r_tail /\ Rc!Live' = Rc!Live
      /\ Rc!After'[r_tail'.ptr] = Rc!After[r_tail.ptr]
  BY <1>1, RcLeftSame, RcClasses
<1>4. RcSameTail(x)
  BY <1>2, <1>3, RcTailOwedStays, RcOpenStays DEF RcSameTail
<1>5. x \notin Rc!Live /\ x # r_head.ptr /\ Rc!At(Rc!HeadFolding, x) = {t}
  <2>1. x \notin Rc!Live /\ Rc!At(Rc!HeadFolding, x) = {t}
    BY <1>1 DEF Rc!Folding, Rc!At
  <2> QED
    BY <2>1, RcTailPlaced
<1>6. Rc!At(Rc!HeadFolding, x)' = {}
  BY <1>2, <1>5
<1>7. /\ Rc!HeadOpen(x) = 1 /\ Rc!HeadOwed(x) = r_o[t].cnt - 1
      /\ Rc!HeadOpen(x)' = 0 /\ Rc!HeadOwed(x)' = 0
  <2>1. Rc!HeadOpen(x) = 1 /\ Rc!HeadOpen(x)' = 0
    BY <1>3, <1>5, <1>6 DEF Rc!HeadOpen
  <2> QED
    BY <2>1, <1>3, <1>5, <1>6, RcHeadOwedIs
<1>8. Cardinality(Rc!Refs(x)') = Cardinality(Rc!Refs(x)) - 1 /\ Cardinality(Rc!Refs(x)) \in Nat
  BY <1>3, RcOneLess
<1>9. Rc!CountsOf(x) /\ Rc!TailOwed(x) \in Int /\ Rc!HeadOwed(x) \in Int
  BY RcOwedType DEF Rc!Counts
<1>10. Rc!CountsOf(x)'
  <2> DEFINE c == Cardinality(Rc!Refs(x)) - Rc!TailOwed(x) - Rc!HeadOwed(x)
             k == r_o[t].cnt - 2
  <2>1. c \in Int /\ k \in Int /\ icount[x] = Rc!Bits(c) /\ Rc!Bits(c) \in Int
    BY <1>1, <1>8, <1>9, RcCountsAreInt, RcSetsAre DEF Rc!CountsOf
  <2>2. icount'[x] = Rc!Bits(c + k)
    <3>1. icount[x] + r_o[t].cnt - 2 = Rc!Bits(c) + k
      BY <1>1, <2>1
    <3>2. Rc!Bits(Rc!Bits(c) + k) = Rc!Bits(c + k)
      <4> HIDE DEF c, k
      <4> QED
        BY ONLY <2>1, RcWrapAgain
    <3> QED
      BY <1>1, <3>1, <3>2
  <2>3. Cardinality(Rc!Refs(x)') - Rc!TailOwed(x)' - Rc!HeadOwed(x)' = c + k
    BY <1>1, <1>4, <1>7, <1>8, <1>9 DEF RcSameTail
  <2>4. Rc!TailOpen(x) \in {0, 1}
    BY DEF Rc!TailOpen
  <2>5. ecount'[x] = Rc!TailOpen(x)' + Rc!HeadOpen(x)'
    <3>1. ecount[x] = Rc!TailOpen(x) + 1 /\ Rc!TailOpen(x)' = Rc!TailOpen(x)
      BY <1>4, <1>7, <1>9, RcSetsAre DEF Rc!CountsOf, RcSameTail
    <3>2. ecount'[x] = Rc!TailOpen(x)
      BY <1>1, <2>4, <3>1
    <3> QED
      BY <1>7, <2>4, <3>1, <3>2
  <2> QED
    BY <2>2, <2>3, <2>5, RcSetsAre DEF Rc!CountsOf
<1> QED
  BY <1>1, <1>2, <1>10, RcLeftOK, RcClasses DEF RcSameFolds

\* What the other calls have to know of a step.
RcRespects(t) ==
    /\ \A x \in Rc!Placed : x \in Rc!Placed' \/ Rc!Refs(x)' = {}
    /\ \A x \in Rc!Placed : r_next[x] # Rc!NullPtr => r_next'[x] = r_next[x]
    /\ r_tail'.ptr = r_tail.ptr \/ \A x \in RcNodes : x = r_tail'.ptr => Rc!Refs(x) = {}
    /\ r_pc'[t] \in Rc!Referring => r_o'[t].ptr \in Rc!Placed

\* A step preserves what the invariant says of the queue.
LEMMA RcStepQueueOK ==
    ASSUME Rc!TypeOK, Rc!TypeOK', Rc!LocalsOK, Rc!Apart, RcQueueOK, NEW t \in Rc!Callers,
           RcStepOf(t)
    PROVE  RcQueueOK' /\ RcRespects(t)
<1> USE DEF RcQueueOK
<1>1. RcOthers(t)
  BY RcStepOthers
<1>2. r_pc[t] \in Rc!Referring => r_o[t].ptr \in Rc!Placed
  BY RcHolds
<1>3. r_tail.ptr \in Rc!Placed /\ r_head.ptr \in Rc!Placed
  BY RcTailPlaced
<1>4. CASE RcKeep(t)
  BY <1>1, <1>2, <1>4, RcKeepOK DEF RcKeep, RcSameNode, RcSameReference, RcRespects
<1>5. ASSUME NEW y \in RcNodes, RcLink(t, y) PROVE RcQueueOK' /\ RcRespects(t)
  BY <1>1, <1>2, <1>5, RcLinkOK DEF RcLink, RcSameNode, RcSameReference, RcRespects
<1>6. CASE RcTakeTail(t)
  <2>1. r_o'[t].ptr = r_tail.ptr /\ r_tail'.ptr = r_tail.ptr
    BY <1>6 DEF RcTakeTail, Rc!TypeOK
  <2> QED
    BY <1>1, <1>3, <1>6, <2>1, RcTakeTailOK
    DEF RcTakeTail, RcSameHeap, Rc!Placed, RcRespects
<1>7. CASE RcTakeHead(t)
  <2>1. r_o'[t].ptr = r_head.ptr
    BY <1>7 DEF RcTakeHead, Rc!TypeOK
  <2> QED
    BY <1>1, <1>3, <1>7, <2>1, RcTakeHeadOK
    DEF RcTakeHead, RcSameHeap, Rc!Placed, RcRespects
<1>8. CASE RcAdvanceTail(t)
  <2>1. \A x \in RcNodes : x = r_tail'.ptr => Rc!Refs(x) = {}
    BY <1>8, RcListsAre DEF RcAdvanceTail, Rc!Shape, Rc!After, Rc!TypeOK
  <2> QED
    BY <1>1, <1>3, <1>8, <2>1, RcAdvanceTailOK
    DEF RcAdvanceTail, RcSameHeap, Rc!Placed, RcRespects
<1>9. CASE RcAdvanceHead(t)
  BY <1>1, <1>3, <1>9, RcAdvanceHeadOK DEF RcAdvanceHead, RcSameHeap, Rc!Placed, RcRespects
<1>10. ASSUME NEW x \in Rc!Placed, RcRelease(t, x) \/ RcFoldTail(t, x) \/ RcFoldHead(t, x)
       PROVE  RcQueueOK' /\ RcRespects(t)
  <2>1. /\ r_next' = r_next /\ r_nd' = r_nd /\ r_tail' = r_tail /\ r_pc'[t] \notin Rc!Referring
        /\ r_free' = r_free \/ r_free' = r_free \cup {x}
    BY <1>10 DEF RcRelease, RcFoldTail, RcFoldHead, RcLeaves, RcSetsCounts
  <2>2. RcQueueOK' /\ (x \notin Rc!Placed' => Rc!Refs(x)' = {})
    BY <1>1, <1>10, RcReleaseOK, RcFoldTailOK, RcFoldHeadOK
  <2>3. \A z \in Rc!Placed : z # x => z \in Rc!Placed'
    BY <2>1 DEF Rc!Placed
  <2> QED
    BY <2>1, <2>2, <2>3 DEF RcRespects
<1> QED
  BY <1>4, <1>5, <1>6, <1>7, <1>8, <1>9, <1>10, RcPushMoves, RcPopMoves DEF RcStepOf

\* The other calls know after a step what they knew before.
LEMMA RcOthersLocals ==
    ASSUME Rc!TypeOK, Rc!TypeOK', Rc!LocalsOK, RcQueueOK, NEW t \in Rc!Callers, RcOthers(t),
           RcRespects(t),
           NEW u \in Rc!Callers, u # t
    PROVE  /\ r_nd'[u] # Null <=> r_pc'[u] \in Rc!Allocated
           /\ r_pc'[u] \in Rc!Referring => r_o'[u].ptr \in Rc!Placed'
           /\ r_pc'[u] \in {"p_tail", "h_tail"} =>
                    r_nx'[u] = r_next'[r_o'[u].ptr] /\ r_next'[r_o'[u].ptr] # Rc!NullPtr
           /\ r_pc'[u] \in {"o_next", "o_cas"} => r_tail'.ptr # r_o'[u].ptr
           /\ r_pc'[u] = "o_cas" => r_nx'[u] = r_next'[r_o'[u].ptr]
<1>1. r_pc'[u] = r_pc[u] /\ r_nd'[u] = r_nd[u] /\ r_o'[u] = r_o[u] /\ r_nx'[u] = r_nx[u]
  BY DEF RcOthers
<1>2. r_nd'[u] # Null <=> r_pc'[u] \in Rc!Allocated
  BY <1>1 DEF Rc!LocalsOK
<1>3. ASSUME r_pc[u] \in Rc!Referring
      PROVE  /\ r_o[u].ptr \in Rc!Placed /\ r_o[u].ptr \in Rc!Placed'
             /\ u \in Rc!Refs(r_o[u].ptr)
             /\ r_tail.ptr # r_o[u].ptr => r_tail'.ptr # r_o[u].ptr
  <2>1. r_o[u].ptr \in Rc!Placed /\ r_o[u].ptr \in RcNodes
    BY <1>3, RcHolds
  <2>2. u \in Rc!Refs(r_o[u].ptr)
    BY <1>3 DEF Rc!Refs, Rc!At
  <2>3. ASSUME NEW x, x = r_o[u].ptr PROVE u \in Rc!Refs(x)'
    BY <1>1, <1>3, <2>3 DEF Rc!Refs, Rc!At
  <2> QED
    BY <2>1, <2>2, <2>3 DEF RcRespects
<1>4. {"p_tail", "h_tail", "o_next", "o_cas"} \subseteq Rc!Referring
  BY DEF Rc!Referring, Rc!PC
<1>5. ASSUME r_pc[u] \in {"p_tail", "h_tail"}
      PROVE  r_nx'[u] = r_next'[r_o'[u].ptr] /\ r_next'[r_o'[u].ptr] # Rc!NullPtr
  <2>1. r_nx[u] = r_next[r_o[u].ptr] /\ r_next[r_o[u].ptr] # Rc!NullPtr
    BY <1>5 DEF Rc!LocalsOK
  <2> QED
    BY <1>1, <1>3, <1>4, <1>5, <2>1 DEF RcRespects
<1>6. ASSUME r_pc[u] \in {"o_next", "o_cas"}
      PROVE  r_tail'.ptr # r_o'[u].ptr
  BY <1>1, <1>3, <1>4, <1>6 DEF Rc!LocalsOK
<1>7. ASSUME r_pc[u] = "o_cas"
      PROVE  r_nx'[u] = r_next'[r_o'[u].ptr]
  <2>1. r_nx[u] = r_next[r_o[u].ptr] /\ r_tail.ptr # r_o[u].ptr /\ r_pc[u] \in Rc!Referring
    BY <1>4, <1>7 DEF Rc!LocalsOK
  <2>2. r_next[r_o[u].ptr] # Rc!NullPtr
    BY <2>1, RcHasNext DEF RcQueueOK
  <2> QED
    BY <1>1, <1>3, <2>1, <2>2 DEF RcRespects
<1> QED
  BY <1>1, <1>2, <1>3, <1>5, <1>6, <1>7

\* Whether the thread that takes a step has a new node.
LEMMA RcOwnNode ==
    ASSUME Rc!TypeOK, Rc!LocalsOK, NEW t \in Rc!Callers, RcStepOf(t)
    PROVE  r_nd'[t] # Null <=> r_pc'[t] \in Rc!Allocated
<1> USE DEF Rc!TypeOK, Rc!LocalsOK, Rc!Allocated, Rc!Goto
<1>1. CASE \E v \in Values : Rc!PushStart(t, v)
  BY <1>1, RcConstantsHold DEF Rc!PushStart
<1>2. CASE Rc!PushIncrease(t) \/ Rc!PushData(t) \/ Rc!PushLink(t)
  BY <1>2 DEF Rc!PushIncrease, Rc!PushData, Rc!PushLink
<1>3. CASE Rc!HelpLink(t)
  <2>1. r_pc[t] = "h_link" /\ r_pc'[t] = "h_tail" /\ r_nd[t] # Null
    BY <1>3 DEF Rc!HelpLink
  <2>2. r_nd'[t] = r_nd[t] \/ \E x \in r_free : r_nd' = [r_nd EXCEPT ![t] = x]
    BY <1>3 DEF Rc!HelpLink
  <2>3. r_nd'[t] # Null
    BY <2>1, <2>2, RcConstantsHold
  <2> QED
    BY <2>1, <2>3
<1>4. CASE Rc!SetNewTail(t)
  BY <1>4 DEF Rc!SetNewTail
<1>5. CASE Rc!PushFinish(t) \/ Rc!HelpFinish(t)
  BY <1>5 DEF Rc!PushFinish, Rc!HelpFinish
<1>6. CASE Rc!PopStart(t) \/ Rc!PopIncrease(t) \/ Rc!PopTestTail(t) \/ Rc!PopEmpty(t)
  BY <1>6 DEF Rc!PopStart, Rc!PopIncrease, Rc!PopTestTail, Rc!PopEmpty
<1>7. CASE \/ Rc!PopLoadNext(t) \/ Rc!PopCas(t) \/ Rc!PopRetry(t) \/ Rc!PopData(t)
           \/ Rc!PopFinish(t)
  BY <1>7 DEF Rc!PopLoadNext, Rc!PopCas, Rc!PopRetry, Rc!PopData, Rc!PopFinish
<1> QED
  BY <1>1, <1>2, <1>3, <1>4, <1>5, <1>6, <1>7 DEF RcStepOf, Rc!Push, Rc!Pop

\* What the thread that takes a step knows of the node it holds.
LEMMA RcOwnLocals ==
    ASSUME Rc!TypeOK, Rc!TypeOK', Rc!LocalsOK, RcQueueOK, NEW t \in Rc!Callers, RcStepOf(t),
           RcRespects(t)
    PROVE  /\ r_pc'[t] \in Rc!Referring => r_o'[t].ptr \in Rc!Placed'
           /\ r_pc'[t] \in {"p_tail", "h_tail"} =>
                    r_nx'[t] = r_next'[r_o'[t].ptr] /\ r_next'[r_o'[t].ptr] # Rc!NullPtr
           /\ r_pc'[t] \in {"o_next", "o_cas"} => r_tail'.ptr # r_o'[t].ptr
           /\ r_pc'[t] = "o_cas" => r_nx'[t] = r_next'[r_o'[t].ptr]
<1>1. ASSUME r_pc'[t] \in Rc!Referring
      PROVE  r_o'[t].ptr \in Rc!Placed'
  <2>1. ASSUME NEW x, x = r_o'[t].ptr PROVE t \in Rc!Refs(x)'
    BY <1>1, <2>1 DEF Rc!Refs, Rc!At
  <2> QED
    BY <1>1, <2>1 DEF RcRespects
<1>2. r_pc[t] \in Rc!Allocated => r_nd[t] \in RcNodes
  BY RcHolds
<1>3. r_pc[t] \in Rc!Referring => r_o[t].ptr \in RcNodes
  BY RcHolds
<1> USE DEF Rc!Goto
<1>4. ASSUME r_pc'[t] \in {"p_tail", "h_tail"}
      PROVE  r_nx'[t] = r_next'[r_o'[t].ptr] /\ r_next'[r_o'[t].ptr] # Rc!NullPtr
  <2>1. Rc!PushLink(t) \/ Rc!HelpLink(t)
    <3>1. \/ Rc!PushLink(t) \/ Rc!HelpLink(t)
          \/ r_pc'[t] \notin {"p_tail", "h_tail"}
      <4>1. CASE \E v \in Values : Rc!PushStart(t, v)
        BY <4>1 DEF Rc!PushStart, Rc!TypeOK
      <4>2. CASE \/ Rc!PushIncrease(t) \/ Rc!PushData(t) \/ Rc!SetNewTail(t)
                 \/ Rc!PushFinish(t) \/ Rc!HelpFinish(t)
        BY <4>2
        DEF Rc!PushIncrease, Rc!PushData, Rc!SetNewTail, Rc!PushFinish, Rc!HelpFinish,
            Rc!TypeOK
      <4>3. CASE Rc!PopStart(t) \/ Rc!PopIncrease(t) \/ Rc!PopTestTail(t) \/ Rc!PopEmpty(t)
        BY <4>3 DEF Rc!PopStart, Rc!PopIncrease, Rc!PopTestTail, Rc!PopEmpty, Rc!TypeOK
      <4>4. CASE \/ Rc!PopLoadNext(t) \/ Rc!PopCas(t) \/ Rc!PopRetry(t) \/ Rc!PopData(t)
                 \/ Rc!PopFinish(t)
        BY <4>4
        DEF Rc!PopLoadNext, Rc!PopCas, Rc!PopRetry, Rc!PopData, Rc!PopFinish, Rc!TypeOK
      <4> QED
        BY <4>1, <4>2, <4>3, <4>4 DEF RcStepOf, Rc!Push, Rc!Pop
    <3> QED
      BY <1>4, <3>1
  <2>2. r_nx'[t] = r_next'[r_o[t].ptr] /\ r_o' = r_o
    BY <2>1 DEF Rc!PushLink, Rc!HelpLink, Rc!TypeOK
  <2>3. r_next'[r_o[t].ptr] # Rc!NullPtr
    <3>1. CASE Rc!PushLink(t)
      <4>1. r_o[t].ptr \in RcNodes /\ r_nd[t] \in RcNodes
        BY <1>2, <1>3, <3>1 DEF Rc!PushLink, Rc!Referring, Rc!Allocated, Rc!PC
      <4> QED
        BY <3>1, <4>1 DEF Rc!PushLink, Rc!TypeOK, Rc!Counted, Rc!NullPtr
    <3>2. CASE Rc!HelpLink(t)
      <4>1. r_pc[t] \in Rc!Referring /\ r_pc[t] \in Rc!Allocated
        BY <3>2 DEF Rc!HelpLink, Rc!Referring, Rc!Allocated, Rc!PC
      <4>2. r_o[t].ptr \in RcNodes \ r_free /\ r_nd[t] \in RcNodes
        BY <1>2, <4>1, RcHolds
      <4>3. CASE r_next[r_o[t].ptr] = Rc!NullPtr
        <5>1. PICK x \in r_free :
                r_next' = [r_next EXCEPT ![r_o[t].ptr] = Rc!Counted(1, r_nd[t]),
                                         ![x] = Rc!NullPtr]
          BY <3>2, <4>3 DEF Rc!HelpLink
        <5>2. r_next'[r_o[t].ptr] = Rc!Counted(1, r_nd[t])
          BY <4>2, <5>1 DEF Rc!TypeOK
        <5> QED
          BY <5>2 DEF Rc!Counted, Rc!NullPtr
      <4>4. CASE r_next[r_o[t].ptr] # Rc!NullPtr
        BY <3>2, <4>4 DEF Rc!HelpLink, Rc!node
      <4> QED
        BY <4>3, <4>4
    <3> QED
      BY <2>1, <3>1, <3>2
  <2> QED
    BY <2>2, <2>3
<1>5. ASSUME r_pc'[t] \in {"o_next", "o_cas"}
      PROVE  /\ r_tail'.ptr # r_o'[t].ptr
             /\ r_pc'[t] = "o_cas" => r_nx'[t] = r_next'[r_o'[t].ptr]
  <2>1. Rc!PopTestTail(t) \/ Rc!PopLoadNext(t)
    <3>1. \/ Rc!PopTestTail(t) \/ Rc!PopLoadNext(t)
          \/ r_pc'[t] \notin {"o_next", "o_cas"}
      <4>1. CASE \E v \in Values : Rc!PushStart(t, v)
        BY <4>1 DEF Rc!PushStart, Rc!TypeOK
      <4>2. CASE Rc!PushIncrease(t) \/ Rc!PushData(t) \/ Rc!PushLink(t) \/ Rc!HelpLink(t)
        BY <4>2 DEF Rc!PushIncrease, Rc!PushData, Rc!PushLink, Rc!HelpLink, Rc!TypeOK
      <4>3. CASE Rc!SetNewTail(t) \/ Rc!PushFinish(t) \/ Rc!HelpFinish(t)
        BY <4>3 DEF Rc!SetNewTail, Rc!PushFinish, Rc!HelpFinish, Rc!TypeOK
      <4>4. CASE Rc!PopStart(t) \/ Rc!PopIncrease(t) \/ Rc!PopEmpty(t)
        BY <4>4 DEF Rc!PopStart, Rc!PopIncrease, Rc!PopEmpty, Rc!TypeOK
      <4>5. CASE Rc!PopCas(t) \/ Rc!PopRetry(t) \/ Rc!PopData(t) \/ Rc!PopFinish(t)
        BY <4>5 DEF Rc!PopCas, Rc!PopRetry, Rc!PopData, Rc!PopFinish, Rc!TypeOK
      <4> QED
        BY <4>1, <4>2, <4>3, <4>4, <4>5 DEF RcStepOf, Rc!Push, Rc!Pop
    <3> QED
      BY <1>5, <3>1
  <2>2. CASE Rc!PopTestTail(t)
    BY <1>5, <2>2 DEF Rc!PopTestTail, Rc!TypeOK
  <2>3. CASE Rc!PopLoadNext(t)
    BY <2>3 DEF Rc!PopLoadNext, Rc!TypeOK, Rc!LocalsOK, Rc!node
  <2> QED
    BY <2>1, <2>2, <2>3
<1> QED
  BY <1>1, <1>4, <1>5

\* A step preserves what the calls know.
LEMMA RcStepLocalsOK ==
    ASSUME Rc!TypeOK, Rc!TypeOK', Rc!LocalsOK, RcQueueOK, NEW t \in Rc!Callers, RcStepOf(t),
           RcRespects(t)
    PROVE  Rc!LocalsOK'
<1>1. RcOthers(t)
  BY RcStepOthers
<1>2. ASSUME NEW u \in Rc!Callers
      PROVE  /\ r_nd'[u] # Null <=> r_pc'[u] \in Rc!Allocated
             /\ r_pc'[u] \in Rc!Referring => r_o'[u].ptr \in Rc!Placed'
             /\ r_pc'[u] \in {"p_tail", "h_tail"} =>
                      r_nx'[u] = r_next'[r_o'[u].ptr] /\ r_next'[r_o'[u].ptr] # Rc!NullPtr
             /\ r_pc'[u] \in {"o_next", "o_cas"} => r_tail'.ptr # r_o'[u].ptr
             /\ r_pc'[u] = "o_cas" => r_nx'[u] = r_next'[r_o'[u].ptr]
  <2>1. CASE u = t
    BY <2>1, RcOwnLocals, RcOwnNode
  <2>2. CASE u # t
    BY <1>1, <2>2, RcOthersLocals
  <2> QED
    BY <2>1, <2>2
<1> QED
  BY <1>2 DEF Rc!LocalsOK

\* A node that is set apart and left alone stays so.
LEMMA RcApartStays ==
    ASSUME Rc!Apart, r_nd' = r_nd, \A u \in Rc!Callers : r_nd[u] # Null =>
                   r_nd[u] \notin r_free' /\ RcSameNode(r_nd[u])
    PROVE  Rc!Apart'
BY DEF Rc!Apart, RcSameNode

\* A step preserves what the invariant says of the nodes set apart.
LEMMA RcStepApart ==
    ASSUME Rc!TypeOK, Rc!LocalsOK, Rc!Apart, Rc!Shape, NEW t \in Rc!Callers, RcStepOf(t)
    PROVE  Rc!Apart'
<1>1. /\ r_pc[t] \in Rc!Allocated => r_nd[t] \in RcNodes
      /\ r_pc[t] \in Rc!Referring => r_o[t].ptr \in Rc!Placed /\ r_o[t].ptr \in RcNodes
  BY RcHolds DEF Rc!Placed
<1>2. \A u \in Rc!Callers : r_nd[u] # Null =>
        /\ r_nd[u] \in RcNodes /\ r_nd[u] \notin r_free /\ r_nd[u] \notin Rc!Placed
        /\ r_next[r_nd[u]] = Rc!NullPtr /\ icount[r_nd[u]] = 0 /\ ecount[r_nd[u]] = 2
        /\ \A v \in Rc!Callers : r_nd[v] = r_nd[u] => v = u
  BY DEF Rc!Apart, Rc!Placed, Rc!TypeOK
<1>3. /\ r_nd \in [Rc!Callers -> RcNodes \cup {Null}] /\ r_free \subseteq RcNodes
      /\ Null \notin RcNodes
  BY RcConstantsHold DEF Rc!TypeOK
<1>4. CASE \E v \in Values : Rc!PushStart(t, v)
  <2>1. PICK x \in r_free : /\ r_free' = r_free \ {x} /\ r_nd' = [r_nd EXCEPT ![t] = x]
                            /\ Rc!Fresh(x)
    BY <1>4 DEF Rc!PushStart
  <2>2. x \in RcNodes /\ r_nd'[t] = x /\ \A u \in Rc!Callers : u # t => r_nd'[u] = r_nd[u]
    BY <1>3, <2>1
  <2>3. r_next'[x] = Rc!NullPtr /\ icount'[x] = 0 /\ ecount'[x] = 2
        /\ \A z \in RcNodes : z # x => RcSameNode(z)
    BY <2>1, <2>2 DEF Rc!Fresh, Rc!TypeOK, RcSameNode
  <2>4. \A u \in Rc!Callers : u # t /\ r_nd[u] # Null => r_nd[u] # x
    BY <1>2, <2>1
  <2> QED
    BY <1>2, <2>1, <2>2, <2>3, <2>4 DEF Rc!Apart, RcSameNode
<1>5. CASE Rc!PushLink(t)
  <2>1. r_nd[t] \in RcNodes /\ r_o[t].ptr \in Rc!Placed /\ r_o[t].ptr \in RcNodes
    BY <1>1, <1>5 DEF Rc!PushLink, Rc!Goto, Rc!Allocated, Rc!Referring, Rc!PC
  <2>2. r_nd'[t] = Null /\ \A u \in Rc!Callers : u # t => r_nd'[u] = r_nd[u]
    BY <1>3, <1>5 DEF Rc!PushLink
  <2>3. /\ icount' = icount /\ ecount' = ecount
        /\ \A z \in RcNodes : z # r_o[t].ptr => r_next'[z] = r_next[z]
        /\ r_free' = r_free \/ r_free' = r_free \cup {r_nd[t]}
    BY <1>5 DEF Rc!PushLink, Rc!TypeOK
  <2>4. \A u \in Rc!Callers : u # t /\ r_nd[u] # Null
            => r_nd[u] # r_o[t].ptr /\ r_nd[u] # r_nd[t]
    BY <1>2, <2>1
  <2> QED
    BY <1>2, <2>2, <2>3, <2>4 DEF Rc!Apart
<1>6. CASE Rc!HelpLink(t)
  <2>1. r_nd[t] \in RcNodes /\ r_o[t].ptr \in Rc!Placed /\ r_o[t].ptr \in RcNodes
    BY <1>1, <1>6 DEF Rc!HelpLink, Rc!Goto, Rc!Allocated, Rc!Referring, Rc!PC
  <2>2. CASE r_next[r_o[t].ptr] # Rc!NullPtr
    <3>1. UNCHANGED <<r_next, icount, ecount, r_free, r_nd>>
      BY <1>6, <2>2 DEF Rc!HelpLink, Rc!node
    <3> QED
      BY <1>2, <3>1, RcApartStays DEF RcSameNode
  <2>3. CASE r_next[r_o[t].ptr] = Rc!NullPtr
    <3>1. PICK x \in r_free :
            /\ r_free' = r_free \ {x} /\ r_nd' = [r_nd EXCEPT ![t] = x]
            /\ icount' = [icount EXCEPT ![x] = 0] /\ ecount' = [ecount EXCEPT ![x] = 2]
            /\ r_next' = [r_next EXCEPT ![r_o[t].ptr] = Rc!Counted(1, r_nd[t]),
                                        ![x] = Rc!NullPtr]
      BY <1>6, <2>3 DEF Rc!HelpLink
    <3>2. x \in RcNodes /\ r_nd'[t] = x /\ \A u \in Rc!Callers : u # t => r_nd'[u] = r_nd[u]
      BY <1>3, <3>1
    <3>3. r_next'[x] = Rc!NullPtr /\ icount'[x] = 0 /\ ecount'[x] = 2
          /\ \A z \in RcNodes : z # x /\ z # r_o[t].ptr => RcSameNode(z)
      BY <3>1, <3>2 DEF Rc!TypeOK, RcSameNode
    <3>4. \A u \in Rc!Callers : u # t /\ r_nd[u] # Null => r_nd[u] # x /\ r_nd[u] # r_o[t].ptr
      BY <1>2, <2>1, <3>1
    <3>5. ASSUME NEW u \in Rc!Callers, r_nd'[u] # Null
          PROVE  /\ r_nd'[u] \notin r_free'
                 /\ \A w \in Rc!Callers : r_nd'[w] = r_nd'[u] => w = u
                 /\ r_next'[r_nd'[u]] = Rc!NullPtr /\ icount'[r_nd'[u]] = 0
                 /\ ecount'[r_nd'[u]] = 2
      <4>1. CASE u = t
        <5>1. \A w \in Rc!Callers : r_nd'[w] = x => w = t
          BY <1>2, <3>1, <3>2, <3>4, RcConstantsHold
        <5> QED
          BY <3>1, <3>2, <3>3, <4>1, <5>1
      <4>2. CASE u # t
        <5>1. r_nd'[u] = r_nd[u] /\ r_nd[u] # x /\ r_nd[u] # r_o[t].ptr
          BY <3>2, <3>4, <3>5, <4>2
        <5>2. /\ r_nd[u] \notin r_free /\ r_nd[u] \in RcNodes
              /\ \A w \in Rc!Callers : r_nd[w] = r_nd[u] => w = u
              /\ r_next[r_nd[u]] = Rc!NullPtr /\ icount[r_nd[u]] = 0 /\ ecount[r_nd[u]] = 2
          BY <1>2, <3>5, <5>1 DEF Rc!Apart, Rc!TypeOK
        <5>3. RcSameNode(r_nd[u])
          BY <3>3, <5>1, <5>2
        <5>4. \A w \in Rc!Callers : r_nd'[w] = r_nd[u] => w = u
          BY <3>2, <5>1, <5>2
        <5> QED
          BY <3>1, <5>1, <5>2, <5>3, <5>4 DEF RcSameNode
      <4> QED
        BY <4>1, <4>2
    <3> QED
      BY <3>5 DEF Rc!Apart
  <2> QED
    BY <2>2, <2>3
<1>7. CASE \/ Rc!PushFinish(t) \/ Rc!HelpFinish(t) \/ Rc!PopEmpty(t) \/ Rc!PopRetry(t)
           \/ Rc!PopFinish(t)
  <2>1. /\ r_pc[t] \in Rc!Referring /\ r_nd' = r_nd
        /\ \E i, e \in Int : Rc!SetCounts(r_o[t].ptr, i, e)
    <3>1. r_pc[t] \in Rc!Referring /\ r_nd' = r_nd
      BY <1>7
      DEF Rc!PushFinish, Rc!HelpFinish, Rc!PopEmpty, Rc!PopRetry, Rc!PopFinish, Rc!Goto,
          Rc!Referring, Rc!PC
    <3>2. /\ icount[r_o[t].ptr] \in Int /\ ecount[r_o[t].ptr] \in Int
          /\ r_o[t].cnt \in Nat
      BY <1>1, <3>1, RcCountsAreInt DEF Rc!TypeOK
    <3> QED
      BY <1>7, <3>1, <3>2
      DEF Rc!PushFinish, Rc!HelpFinish, Rc!PopEmpty, Rc!PopRetry, Rc!PopFinish,
          Rc!FreeExternalCounter, Rc!ReleaseRef
  <2>2. r_o[t].ptr \in Rc!Placed /\ r_o[t].ptr \in RcNodes
    BY <1>1, <2>1
  <2>3. /\ r_next' = r_next /\ r_free' \subseteq r_free \cup {r_o[t].ptr}
        /\ \A z \in RcNodes \ {r_o[t].ptr} : icount'[z] = icount[z] /\ ecount'[z] = ecount[z]
    <3>1. PICK i, e \in Int : Rc!SetCounts(r_o[t].ptr, i, e)
      BY <2>1
    <3> QED
      BY <2>2, <3>1, RcSetCountsType
  <2> QED
    BY <1>2, <2>1, <2>2, <2>3, RcApartStays DEF RcSameNode
<1>8. CASE Rc!PushIncrease(t) \/ Rc!PushData(t) \/ Rc!SetNewTail(t)
  <2>1. UNCHANGED <<r_next, icount, ecount, r_free, r_nd>>
    BY <1>8 DEF Rc!PushIncrease, Rc!PushData, Rc!SetNewTail, Rc!node
  <2> QED
    BY <1>2, <2>1, RcApartStays DEF RcSameNode
<1>9. CASE \/ Rc!PopStart(t) \/ Rc!PopIncrease(t) \/ Rc!PopTestTail(t)
           \/ Rc!PopLoadNext(t) \/ Rc!PopCas(t)
           \/ Rc!PopData(t)
  <2>1. UNCHANGED <<r_next, icount, ecount, r_free, r_nd>>
    BY <1>9
    DEF Rc!PopStart, Rc!PopIncrease, Rc!PopTestTail, Rc!PopLoadNext, Rc!PopCas, Rc!PopData,
        Rc!node
  <2> QED
    BY <1>2, <2>1, RcApartStays DEF RcSameNode
<1> QED
  BY <1>4, <1>5, <1>6, <1>7, <1>8, <1>9 DEF RcStepOf, Rc!Push, Rc!Pop

-----------------------------------------------------------------------------
(* The invariant *)

\* It holds of a new queue: the dummy node is head and tail, and nobody has seen it.
LEMMA RcInitIInv == Rc!Init => Rc!IInv
<1> SUFFICES ASSUME Rc!Init PROVE Rc!IInv
  OBVIOUS
<1>1. Rc!TypeOK
  BY RcInitTypeOK
<1>2. PICK d \in RcNodes : /\ r_head = Rc!Counted(1, d) /\ r_tail = Rc!Counted(1, d)
                           /\ r_free = RcNodes \ {d}
  BY DEF Rc!Init
<1>3. /\ \A x \in RcNodes : r_next[x] = Rc!NullPtr /\ icount[x] = 0 /\ ecount[x] = 2
             /\ Rc!After[x] = Null
      /\ \A t \in Rc!Callers : r_pc[t] = "idle" /\ r_nd[t] = Null
  BY DEF Rc!Init, Rc!After, Rc!NullPtr, Rc!Counted
<1>4. r_head.ptr = d /\ r_tail.ptr = d /\ r_head.cnt = 1 /\ r_tail.cnt = 1
  BY <1>2 DEF Rc!Counted
<1>5. IsFiniteSet(RcNodes) /\ Null \notin RcNodes
  BY RcConstantsHold
<1>6. Rc!Placed = {d}
  BY <1>2, <1>3, <1>5 DEF Rc!Placed
<1>7. \A S \in {Rc!Referring, Rc!TailFolding, Rc!HeadFolding} : \A x : Rc!At(S, x) = {}
  BY <1>3 DEF Rc!At, Rc!Referring, Rc!TailFolding, Rc!HeadFolding
<1>8. Rc!LocalsOK
  BY <1>3 DEF Rc!LocalsOK, Rc!Allocated, Rc!Referring
<1>9. Rc!Apart
  BY <1>3 DEF Rc!Apart
<1>10. IsLinked(d, Rc!After, Null, RcNodes) /\ Rc!Live = {d}
  <2>1. IsLinked(Null, Rc!After, Null, RcNodes) /\ OnList(Null, Rc!After, Null, RcNodes) = {}
    BY <1>5, ListEmpty
  <2>2. InFront(d, Null, Rc!After, Rc!After, OnList(Null, Rc!After, Null, RcNodes))
    BY <1>3 DEF InFront
  <2>3. IsLinked(d, Rc!After, Null, RcNodes) /\ OnList(d, Rc!After, Null, RcNodes) = {d}
    BY <1>5, <2>1, <2>2, ListPush
  <2> QED
    BY <1>4, <2>3, RcListsAre DEF Rc!Live
<1>11. Rc!Shape
  BY <1>3, <1>4, <1>5, <1>6, <1>10, RcListsAre DEF Rc!Shape
<1>12. Rc!Folding
  BY <1>3 DEF Rc!Folding, Rc!TailFolding, Rc!HeadFolding
<1>13. Rc!Counts
  <2>1. Cardinality(Rc!Refs(d)) = 0 /\ Rc!Refs(d) = {}
    BY <1>7, FS_EmptySet DEF Rc!Refs
  <2>2. Rc!TailOwed(d) = 0 /\ Rc!HeadOwed(d) = 0
    BY <1>4, RcTailOwedIs, RcHeadOwedIs
  <2>3. Rc!TailOpen(d) = 1 /\ Rc!HeadOpen(d) = 1
    BY <1>4, <1>10 DEF Rc!TailOpen, Rc!HeadOpen
  <2>4. Rc!Bits(0) = 0
    <3>1. 0 < 2^30
      OBVIOUS
    <3> QED
      BY <3>1, RcWrapZero
  <2>5. Rc!CountsOf(d) /\ ecount[d] # 0
    <3>1. ecount[d] = 2 /\ icount[d] = 0
      BY <1>3
    <3>2. Cardinality(Rc!Refs(d)) - Rc!TailOwed(d) - Rc!HeadOwed(d) = 0
      BY <2>1, <2>2
    <3> QED
      BY <2>3, <2>4, <3>1, <3>2, RcSetsAre DEF Rc!CountsOf
  <2> QED
    BY <1>6, <2>5 DEF Rc!Counts
<1> QED
  BY <1>1, <1>8, <1>9, <1>11, <1>12, <1>13 DEF Rc!IInv

\* A step of any thread preserves it.
LEMMA RcNextIInv == Rc!IInv /\ [Rc!Next]_(Rc!vars) => Rc!IInv'
<1> SUFFICES ASSUME Rc!IInv, [Rc!Next]_(Rc!vars) PROVE Rc!IInv'
  OBVIOUS
<1>1. Rc!TypeOK /\ Rc!LocalsOK /\ Rc!Apart /\ RcQueueOK /\ Rc!Shape
  BY DEF Rc!IInv, RcQueueOK
<1>2. CASE Rc!Next
  <2>1. PICK t \in r_team : RcStepOf(t)
    BY <1>2 DEF Rc!Next, RcStepOf
  <2>2. t \in Rc!Callers /\ r_team' = r_team
    BY <1>1, <1>2 DEF Rc!TypeOK, Rc!Next
  <2>3. Rc!TypeOK'
    BY <1>1, <2>1, <2>2, RcPushTypeOK, RcPopTypeOK DEF RcStepOf
  <2>4. RcQueueOK' /\ RcRespects(t)
    BY <1>1, <2>1, <2>2, <2>3, RcStepQueueOK
  <2>5. Rc!LocalsOK' /\ Rc!Apart'
    BY <1>1, <2>1, <2>2, <2>3, <2>4, RcStepLocalsOK, RcStepApart
  <2> QED
    BY <2>3, <2>4, <2>5 DEF Rc!IInv, RcQueueOK
<1>3. CASE UNCHANGED Rc!vars
  <2>1. Rc!Placed' = Rc!Placed /\ Rc!After' = Rc!After /\ Rc!Live' = Rc!Live
    BY <1>3, RcListsAre DEF Rc!vars, Rc!node, Rc!Placed, Rc!After, Rc!Live
  <2>2. Rc!TypeOK'
    BY <1>1, <1>3 DEF Rc!vars, Rc!node, Rc!TypeOK
  <2>3. Rc!LocalsOK'
    BY <1>1, <1>3, <2>1 DEF Rc!vars, Rc!node, Rc!LocalsOK
  <2>4. Rc!Apart'
    BY <1>1, <1>3 DEF Rc!vars, Rc!node, Rc!Apart
  <2>5. ASSUME NEW x \in RcNodes PROVE Rc!Refs(x)' = Rc!Refs(x)
    BY <1>3 DEF Rc!vars, Rc!Refs, Rc!At
  <2>6. Rc!Shape'
    BY <1>1, <1>3, <2>1, <2>5, RcListsAre DEF Rc!vars, Rc!node, Rc!Shape
  <2>7. Rc!Folding'
    <3>1. /\ r_pc' = r_pc /\ r_o' = r_o /\ r_tail' = r_tail /\ Rc!Live' = Rc!Live
          /\ Rc!After' = Rc!After
      BY <1>3, <2>1 DEF Rc!vars
    <3> QED
      BY <1>1, <3>1, RcListsAre DEF Rc!Shape, RcQueueOK, Rc!Folding
  <2>8. ASSUME NEW x \in Rc!Placed PROVE Rc!CountsOf(x)' /\ (ecount'[x] = 0 => Rc!Refs(x)' # {})
    <3>1. Rc!TailOpen(x)' = Rc!TailOpen(x) /\ Rc!HeadOpen(x)' = Rc!HeadOpen(x)
      BY <1>3, <2>1 DEF Rc!vars, Rc!TailOpen, Rc!HeadOpen, Rc!At
    <3>2. Rc!TailOwed(x)' = Rc!TailOwed(x) /\ Rc!HeadOwed(x)' = Rc!HeadOwed(x)
      BY <1>3 DEF Rc!vars, Rc!TailOwed, Rc!HeadOwed, Rc!Owed, Rc!At
    <3>3. Rc!Refs(x)' = Rc!Refs(x)
      BY <1>3 DEF Rc!vars, Rc!Refs, Rc!At
    <3>4. icount' = icount /\ ecount' = ecount
      BY <1>3 DEF Rc!vars, Rc!node
    <3>5. Rc!CountsOf(x) /\ (ecount[x] = 0 => Rc!Refs(x) # {})
      BY <1>1 DEF Rc!IInv, Rc!Counts
    <3> QED
      BY <3>1, <3>2, <3>3, <3>4, <3>5, RcSetsAre DEF Rc!CountsOf
  <2>9. Rc!Counts'
    BY <2>1, <2>8 DEF Rc!Counts
  <2> QED
    BY <2>2, <2>3, <2>4, <2>6, <2>7, <2>9 DEF Rc!IInv
<1> QED
  BY <1>2, <1>3

\* mpmc_refcount_queue: the counts of every node are the references and the external
\* counters there are to it, and the queue is one line from head past tail.
THEOREM RcInvariance == Rc!Spec => []Rc!IInv
BY RcInitIInv, RcNextIInv, PTL DEF Rc!Spec

\* No push or pop touches a node that has been deleted.
THEOREM RcMemorySafety == Rc!Spec => []Rc!NoUseAfterFree
<1>1. Rc!IInv => Rc!NoUseAfterFree
  <2> SUFFICES ASSUME Rc!IInv, NEW t \in Rc!Callers, r_pc[t] \notin {"idle", "p_inc", "o_inc"}
               PROVE  r_o[t].ptr \notin r_free
    BY DEF Rc!NoUseAfterFree
  <2>1. r_pc[t] \in Rc!Referring
    BY DEF Rc!IInv, Rc!TypeOK, Rc!Referring
  <2> QED
    BY <2>1, RcHolds DEF Rc!IInv
<1> QED
  BY <1>1, RcInvariance, PTL

\* With no call running, every node that has left the queue has been deleted.
THEOREM RcAllDeleted == Rc!Spec => []Rc!NothingLeaked
<1>1. Rc!IInv => Rc!NothingLeaked
  <2> SUFFICES ASSUME Rc!IInv, \A t \in Rc!Callers : r_pc[t] = "idle"
               PROVE  r_free = RcNodes \ Rc!Live
    BY DEF Rc!NothingLeaked
  <2>1. \A t \in Rc!Callers : r_nd[t] = Null
    BY DEF Rc!IInv, Rc!LocalsOK, Rc!Allocated
  <2>2. Rc!Placed = RcNodes \ r_free
    BY <2>1, RcConstantsHold DEF Rc!Placed
  <2>3. \A S, x : Rc!At(S, x) # {} => S \cap {"idle"} # {}
    BY DEF Rc!At
  <2>4. \A x : Rc!Refs(x) = {} /\ Rc!At(Rc!TailFolding, x) = {} /\ Rc!At(Rc!HeadFolding, x) = {}
    BY <2>3 DEF Rc!Refs, Rc!Referring, Rc!TailFolding, Rc!HeadFolding
  <2>5. \A x \in Rc!Placed : x \in Rc!Live
    <3>1. ASSUME NEW x \in Rc!Placed, x \notin Rc!Live
          PROVE  FALSE
      <4>1. x \notin {r_tail.ptr, Rc!After[r_tail.ptr]} /\ x # Null
        BY <3>1, RcTailPlaced, RcConstantsHold, RcListsAre DEF Rc!IInv, Rc!Shape, Rc!Placed
      <4>2. Rc!TailOpen(x) = 0 /\ Rc!HeadOpen(x) = 0
        BY <2>4, <3>1, <4>1 DEF Rc!TailOpen, Rc!HeadOpen
      <4>3. ecount[x] = 0
        BY <4>2, RcSetsAre DEF Rc!IInv, Rc!Counts, Rc!CountsOf
      <4> QED
        BY <2>4, <4>3 DEF Rc!IInv, Rc!Counts
    <3> QED
      BY <3>1
  <2>6. Rc!Live \subseteq Rc!Placed /\ r_free \subseteq RcNodes
    BY RcListsAre DEF Rc!IInv, Rc!Shape, Rc!TypeOK
  <2> QED
    BY <2>2, <2>5, <2>6
<1> QED
  BY <1>1, RcInvariance, PTL

-----------------------------------------------------------------------------
(* mpmc_refcount_queue: the values in the queue *)

\* Its lists up to any node are those of the lemmas on linked lists.
LEMMA RcListsUpTo ==
    \A m, f, e :
        /\ Rc!ListOf(m, f, e, RcNodes) = ListOf(m, f, e, RcNodes)
        /\ Rc!IsLinked(m, f, e, RcNodes) <=> IsLinked(m, f, e, RcNodes)
        /\ \A c : Rc!Elements(c) = Elements(c)
<1>1. \A m, f, e, k : Rc!Reached(m, f, e, k) = Reached(m, f, e, k)
  BY DEF Rc!Reached, Reached
<1>2. \A m, f, e : Rc!ListOf(m, f, e, RcNodes) = ListOf(m, f, e, RcNodes)
  <2> SUFFICES ASSUME NEW m, NEW f, NEW e
               PROVE  Rc!ListOf(m, f, e, RcNodes) = ListOf(m, f, e, RcNodes)
    OBVIOUS
  <2>1. Rc!Cardinality(RcNodes) = Cardinality(RcNodes)
    BY RcSetsAre
  <2> QED
    BY <1>1, <2>1, Zenon DEF Rc!ListOf, ListOf
<1>3. \A c : Rc!Elements(c) = Elements(c)
  BY DEF Rc!Elements, Elements
<1>4. \A c, m, f, e : Rc!Chain(c, m, f, e) <=> Chain(c, m, f, e)
  BY DEF Rc!Chain, Chain
<1> QED
  BY <1>2, <1>3, <1>4, Zenon DEF Rc!IsLinked, IsLinked

\* The nodes with a value: linked from head to tail, tail's not among them.
LEMMA RcFrontIs ==
    ASSUME Rc!Filled
    PROVE  /\ Rc!Front \in Seq(RcNodes)
           /\ Chain(Rc!Front, r_head.ptr, Rc!After, r_tail.ptr)
           /\ r_tail.ptr \notin Elements(Rc!Front)
           /\ \A x \in Elements(Rc!Front) :
                  x \in Rc!Live /\ x # r_tail.ptr /\ r_data[x] # Null
           /\ Rc!Queued = Contents(r_data, Rc!Front)
<1>1. IsLinked(r_head.ptr, Rc!After, r_tail.ptr, RcNodes)
  BY RcListsUpTo DEF Rc!Filled
<1>2. Rc!Front = ListOf(r_head.ptr, Rc!After, r_tail.ptr, RcNodes)
  BY RcListsUpTo DEF Rc!Front
<1>3. \A x \in Elements(Rc!Front) : x \in Rc!Live /\ x # r_tail.ptr /\ r_data[x] # Null
  BY RcListsUpTo DEF Rc!Filled
<1>4. Rc!Queued = Contents(r_data, Rc!Front)
  BY DEF Rc!Queued, Contents
<1> QED
  BY <1>1, <1>2, <1>3, <1>4 DEF IsLinked

\* A chain from head to tail is what a step makes of them.
LEMMA RcFrontBecomes ==
    ASSUME NEW c \in Seq(RcNodes), Chain(c, r_head'.ptr, Rc!After', r_tail'.ptr),
           r_tail'.ptr \notin Elements(c)
    PROVE  /\ Rc!Front' = c /\ Rc!Elements(Rc!Front)' = Elements(c)
           /\ Rc!IsLinked(r_head.ptr, Rc!After, r_tail.ptr, RcNodes)'
           /\ Rc!Queued' = Contents(r_data', c)
<1>1. /\ ListOf(r_head'.ptr, Rc!After', r_tail'.ptr, RcNodes) = c
      /\ IsLinked(r_head'.ptr, Rc!After', r_tail'.ptr, RcNodes)
  BY RcConstantsHold, UpToIs
<1>2. Rc!Front' = c
  BY <1>1, RcListsUpTo DEF Rc!Front
<1> QED
  BY <1>1, <1>2, RcListsUpTo DEF Rc!Queued, Contents

\* While head and tail point where they do, and the links and the values of the nodes
\* stay, the queue does.
LEMMA RcFrontStays ==
    ASSUME Rc!Filled, r_head'.ptr = r_head.ptr, r_tail'.ptr = r_tail.ptr,
           \A x \in Elements(Rc!Front) :
               Rc!After'[x] = Rc!After[x] /\ r_data'[x] = r_data[x]
    PROVE  /\ Rc!Front' = Rc!Front /\ Rc!Queued' = Rc!Queued
           /\ Rc!Elements(Rc!Front)' = Elements(Rc!Front)
           /\ Rc!IsLinked(r_head.ptr, Rc!After, r_tail.ptr, RcNodes)'
<1> DEFINE c == Rc!Front
<1>1. c \in Seq(RcNodes) /\ Chain(c, r_head.ptr, Rc!After, r_tail.ptr)
      /\ r_tail.ptr \notin Elements(c) /\ Rc!Queued = Contents(r_data, c)
  BY RcFrontIs
<1>2. Chain(c, r_head'.ptr, Rc!After', r_tail'.ptr)
  BY <1>1, ChainFrame
<1>3. Rc!Front' = c /\ Rc!Elements(Rc!Front)' = Elements(c)
      /\ Rc!IsLinked(r_head.ptr, Rc!After, r_tail.ptr, RcNodes)'
      /\ Rc!Queued' = Contents(r_data', c)
  BY <1>1, <1>2, RcFrontBecomes
<1>4. Contents(r_data', c) = Contents(r_data, c)
  <2>1. \A i \in DOMAIN c : c[i] \in Elements(c)
    BY <1>1 DEF Elements
  <2> QED
    BY <2>1 DEF Contents
<1> QED
  BY <1>1, <1>3, <1>4

\* tail moves on: the queue has the value of the node it leaves behind the others.
LEMMA RcFrontGrows ==
    ASSUME Rc!TypeOK, Rc!Shape, Rc!Filled, NEW t, RcAdvanceTail(t), r_data' = r_data
    PROVE  /\ Rc!Elements(Rc!Front)' = Elements(Rc!Front) \cup {r_tail.ptr}
           /\ Rc!Queued' = Append(Rc!Queued, r_data[r_tail.ptr])
           /\ Rc!IsLinked(r_head.ptr, Rc!After, r_tail.ptr, RcNodes)'
<1> DEFINE c == Rc!Front
           e == r_tail.ptr
<1>1. c \in Seq(RcNodes) /\ Chain(c, r_head.ptr, Rc!After, e)
      /\ e \notin Elements(c) /\ Rc!Queued = Contents(r_data, c)
      /\ \A x \in Elements(c) : x \in Rc!Live /\ x # e
  BY RcFrontIs
<1>2. /\ e \in RcNodes /\ e \in Rc!Live /\ Rc!After' = Rc!After /\ r_head' = r_head
      /\ r_tail'.ptr = Rc!After[e] /\ Rc!After[e] # Null /\ Rc!After[e] \in RcNodes
  BY RcAfterIs, RcListsAre DEF RcAdvanceTail, RcSameHeap, Rc!After, Rc!TypeOK, Rc!Shape
<1>3. Rc!After[e] # e
  BY <1>2, RcAfterIs, RcListsAre DEF Rc!Shape
<1>4. Rc!After[e] \notin Elements(c)
  <2>1. \A x \in Elements(c) : Rc!After[x] # Null
    <3>1. ASSUME NEW i \in 1 .. Len(c) PROVE Rc!After[c[i]] \in RcNodes
      <4>1. Rc!After[c[i]] = IF i = Len(c) THEN e ELSE c[i + 1]
        BY <1>1 DEF Chain
      <4>2. i # Len(c) => c[i + 1] \in RcNodes
        BY <1>1
      <4> QED
        BY <1>2, <4>1, <4>2
    <3> QED
      BY <3>1, RcConstantsHold DEF Elements
  <2>2. Rc!After[Rc!After[e]] = Null
    BY <1>2, RcAfterIs, RcListsAre DEF Rc!Shape
  <2> QED
    BY <2>1, <2>2
<1>5. /\ c \o <<e>> \in Seq(RcNodes) /\ Chain(c \o <<e>>, r_head.ptr, Rc!After, Rc!After[e])
      /\ Elements(c \o <<e>>) = Elements(c) \cup {e}
  BY <1>1, <1>2, <1>3, <1>4, UpToNext
<1>6. /\ Rc!Elements(Rc!Front)' = Elements(c \o <<e>>)
      /\ Rc!IsLinked(r_head.ptr, Rc!After, r_tail.ptr, RcNodes)'
      /\ Rc!Queued' = Contents(r_data', c \o <<e>>)
  BY <1>2, <1>3, <1>4, <1>5, RcFrontBecomes
<1>7. Contents(r_data, c \o <<e>>) = Append(Contents(r_data, c), r_data[e])
  <2>1. Contents(r_data, c \o <<e>>) = Contents(r_data, c) \o <<ValueOf(r_data, e)>>
    BY <1>1, <1>2, ContentsAppend
  <2>2. ASSUME NEW S, NEW s \in Seq(S), NEW v \in S PROVE s \o <<v>> = Append(s, v)
    OBVIOUS
  <2>3. /\ Contents(r_data, c) \in Seq({ValueOf(r_data, n) : n \in RcNodes})
        /\ r_data[e] \in {ValueOf(r_data, n) : n \in RcNodes}
    BY <1>1, <1>2, ContentsType DEF AreContents, ValueOf
  <2>4. Contents(r_data, c) \o <<r_data[e]>> = Append(Contents(r_data, c), r_data[e])
    BY ONLY <2>2, <2>3
  <2> QED
    BY <2>1, <2>4 DEF ValueOf
<1> QED
  BY <1>1, <1>5, <1>6, <1>7

\* head moves on: the queue has lost its first value.
LEMMA RcFrontDrops ==
    ASSUME Rc!TypeOK, Rc!Shape, Rc!Filled, NEW t, RcAdvanceHead(t), r_data' = r_data
    PROVE  /\ Rc!Elements(Rc!Front)' = Elements(Rc!Front) \ {r_head.ptr}
           /\ Rc!Queued # <<>> /\ Head(Rc!Queued) = r_data[r_head.ptr]
           /\ Rc!Queued' = Tail(Rc!Queued)
           /\ r_head.ptr \in Elements(Rc!Front)
           /\ Rc!IsLinked(r_head.ptr, Rc!After, r_tail.ptr, RcNodes)'
<1> DEFINE c == Rc!Front
           n == r_head.ptr
<1>1. c \in Seq(RcNodes) /\ Chain(c, n, Rc!After, r_tail.ptr)
      /\ r_tail.ptr \notin Elements(c) /\ Rc!Queued = Contents(r_data, c)
  BY RcFrontIs
<1>2. /\ n \in RcNodes /\ n # r_tail.ptr /\ Rc!After' = Rc!After /\ r_tail' = r_tail
      /\ r_head'.ptr = Rc!After[n]
  BY DEF RcAdvanceHead, RcSameHeap, Rc!After, Rc!TypeOK
<1>3. /\ c # <<>> /\ c[1] = n /\ n \in Elements(c) /\ Tail(c) \in Seq(RcNodes)
      /\ Chain(Tail(c), Rc!After[n], Rc!After, r_tail.ptr)
      /\ Elements(Tail(c)) = Elements(c) \ {n}
  <2> HIDE DEF c, n
  <2>1. /\ c \in Seq(RcNodes) /\ Chain(c, n, Rc!After, r_tail.ptr)
        /\ r_tail.ptr \notin Elements(c) /\ n # r_tail.ptr
    BY <1>1, <1>2
  <2> QED
    BY ONLY <2>1, UpToDrop
<1>4. /\ Rc!Elements(Rc!Front)' = Elements(Tail(c))
      /\ Rc!IsLinked(r_head.ptr, Rc!After, r_tail.ptr, RcNodes)'
      /\ Rc!Queued' = Contents(r_data', Tail(c))
  BY <1>1, <1>2, <1>3, RcFrontBecomes
<1>5. /\ Contents(r_data, c) # <<>> /\ Head(Contents(r_data, c)) = ValueOf(r_data, c[1])
      /\ Contents(r_data, Tail(c)) = Tail(Contents(r_data, c))
  BY <1>1, <1>3, ContentsPop
<1>6. r_data' = r_data
  OBVIOUS
<1> QED
  BY ONLY <1>1, <1>3, <1>4, <1>5, <1>6 DEF ValueOf

\* Where head and tail point to one node, the queue is empty; it holds fewer values
\* than there are nodes.
LEMMA RcFrontSize ==
    ASSUME Rc!TypeOK, Rc!Filled
    PROVE  /\ r_head.ptr = r_tail.ptr => Rc!Queued = <<>>
           /\ Len(Rc!Queued) < Cardinality(RcNodes)
<1>1. Rc!Front \in Seq(RcNodes) /\ Chain(Rc!Front, r_head.ptr, Rc!After, r_tail.ptr)
      /\ r_tail.ptr \notin Elements(Rc!Front) /\ Rc!Queued = Contents(r_data, Rc!Front)
  BY RcFrontIs
<1>2. /\ Rc!Queued \in Seq({ValueOf(r_data, n) : n \in RcNodes})
      /\ Len(Rc!Queued) = Len(Rc!Front)
  BY <1>1, ContentsType DEF AreContents
<1>3. r_tail.ptr \in RcNodes
  BY DEF Rc!TypeOK
<1>4. Len(Rc!Front) < Cardinality(RcNodes)
  BY <1>1, <1>3, RcConstantsHold, UpToShort
<1>5. r_head.ptr = r_tail.ptr => Rc!Front = <<>>
  <2>1. Rc!Front # <<>> => 1 \in 1 .. Len(Rc!Front) /\ r_head.ptr = Rc!Front[1]
    BY <1>1 DEF Chain
  <2> QED
    BY <1>1, <2>1 DEF Elements
<1>6. ASSUME NEW S, NEW s \in Seq(S), Len(s) = 0 PROVE s = <<>>
  BY <1>6
<1>7. r_head.ptr = r_tail.ptr => Rc!Queued = <<>>
  <2>1. Rc!Front = <<>> => Len(Rc!Front) = 0
    OBVIOUS
  <2> QED
    BY ONLY <1>2, <1>5, <1>6, <2>1
<1>8. Len(Rc!Queued) < Cardinality(RcNodes)
  BY ONLY <1>2, <1>4
<1> QED
  BY <1>7, <1>8

-----------------------------------------------------------------------------
(* What a step does to the values and the links *)

\* It leaves what the other threads push and have popped alone.
RcOthersCalls(t) ==
    \A u \in Rc!Callers : u # t => r_val'[u] = r_val[u] /\ r_res'[u] = r_res[u]

\* A step of one thread does so.
LEMMA RcStepOthersCalls ==
    ASSUME Rc!CallsOK, NEW t \in Rc!Callers, RcStepOf(t)
    PROVE  RcOthersCalls(t)
<1> USE DEF Rc!CallsOK, RcOthersCalls
<1>1. CASE \E v \in Values : Rc!PushStart(t, v)
  BY <1>1 DEF Rc!PushStart
<1>2. CASE Rc!PushIncrease(t) \/ Rc!PushData(t) \/ Rc!PushLink(t) \/ Rc!HelpLink(t)
  BY <1>2 DEF Rc!PushIncrease, Rc!PushData, Rc!PushLink, Rc!HelpLink
<1>3. CASE Rc!SetNewTail(t) \/ Rc!PushFinish(t) \/ Rc!HelpFinish(t)
  BY <1>3 DEF Rc!SetNewTail, Rc!PushFinish, Rc!HelpFinish
<1>4. CASE Rc!PopStart(t) \/ Rc!PopIncrease(t) \/ Rc!PopTestTail(t) \/ Rc!PopEmpty(t)
  BY <1>4 DEF Rc!PopStart, Rc!PopIncrease, Rc!PopTestTail, Rc!PopEmpty
<1>5. CASE \/ Rc!PopLoadNext(t) \/ Rc!PopCas(t) \/ Rc!PopRetry(t) \/ Rc!PopData(t)
           \/ Rc!PopFinish(t)
  BY <1>5 DEF Rc!PopLoadNext, Rc!PopCas, Rc!PopRetry, Rc!PopData, Rc!PopFinish
<1> QED
  BY <1>1, <1>2, <1>3, <1>4, <1>5 DEF RcStepOf, Rc!Push, Rc!Pop

\* Each value stays, but in a node just allocated, in one that a push finds empty, and in
\* the one a pop has taken.
RcDataKept(t) ==
    \A x \in RcNodes :
        \/ r_data'[x] = r_data[x]
        \/ r_data'[x] = Null /\ x \in r_free
        \/ r_data'[x] = Null /\ x = r_o[t].ptr /\ r_pc[t] = "o_data"
        \/ /\ r_data[x] = Null /\ x = r_o[t].ptr /\ r_data'[x] = r_val[t]
           /\ r_pc[t] = "p_data" /\ r_pc'[t] = "p_link"

\* A step keeps the values so.
LEMMA RcStepData ==
    ASSUME Rc!TypeOK, Rc!CallsOK, NEW t \in Rc!Callers, RcStepOf(t)
    PROVE  RcDataKept(t) /\ r_data' \in [RcNodes -> Values \cup {Null}]
<1>0. /\ r_data \in [RcNodes -> Values \cup {Null}] /\ r_val[t] \in Values \cup {Null}
      /\ r_free \subseteq RcNodes
  BY DEF Rc!CallsOK, Rc!TypeOK
<1>1. CASE \E v \in Values : Rc!PushStart(t, v)
  <2>1. PICK x \in r_free : r_data' = [r_data EXCEPT ![x] = Null]
    BY <1>1 DEF Rc!PushStart, Rc!Fresh
  <2> QED
    BY <1>0, <2>1 DEF RcDataKept
<1>2. CASE Rc!HelpLink(t)
  <2>1. r_data' = r_data \/ \E x \in r_free : r_data' = [r_data EXCEPT ![x] = Null]
    BY <1>2 DEF Rc!HelpLink, Rc!node
  <2> QED
    BY <1>0, <2>1 DEF RcDataKept
<1>3. CASE Rc!PushData(t)
  <2>1. /\ r_pc[t] = "p_data"
        /\ \/ r_data' = r_data
           \/ /\ r_data' = [r_data EXCEPT ![r_o[t].ptr] = r_val[t]] /\ r_pc'[t] = "p_link"
              /\ r_data[r_o[t].ptr] = Null
    BY <1>3 DEF Rc!PushData, Rc!Goto, Rc!TypeOK
  <2> QED
    BY <1>0, <2>1 DEF RcDataKept
<1>4. CASE Rc!PopData(t)
  <2>1. r_pc[t] = "o_data" /\ r_data' = [r_data EXCEPT ![r_o[t].ptr] = Null]
    BY <1>4 DEF Rc!PopData, Rc!Goto
  <2> QED
    BY <1>0, <2>1 DEF RcDataKept
<1>5. CASE \/ Rc!PushIncrease(t) \/ Rc!PushLink(t) \/ Rc!SetNewTail(t) \/ Rc!PushFinish(t)
           \/ Rc!HelpFinish(t)
  <2>1. r_data' = r_data
    BY <1>5
    DEF Rc!PushIncrease, Rc!PushLink, Rc!SetNewTail, Rc!PushFinish, Rc!HelpFinish, Rc!node,
        Rc!FreeExternalCounter, Rc!ReleaseRef, Rc!SetCounts
  <2> QED
    BY <1>0, <2>1 DEF RcDataKept
<1>6. CASE \/ Rc!PopStart(t) \/ Rc!PopIncrease(t) \/ Rc!PopTestTail(t) \/ Rc!PopEmpty(t)
           \/ Rc!PopLoadNext(t) \/ Rc!PopCas(t) \/ Rc!PopRetry(t) \/ Rc!PopFinish(t)
  <2>1. r_data' = r_data
    BY <1>6
    DEF Rc!PopStart, Rc!PopIncrease, Rc!PopTestTail, Rc!PopEmpty, Rc!PopLoadNext, Rc!PopCas,
        Rc!PopRetry, Rc!PopFinish, Rc!node,
        Rc!FreeExternalCounter, Rc!ReleaseRef, Rc!SetCounts
  <2> QED
    BY <1>0, <2>1 DEF RcDataKept
<1> QED
  BY <1>1, <1>2, <1>3, <1>4, <1>5, <1>6 DEF RcStepOf, Rc!Push, Rc!Pop

\* Each link stays, but that of a node just allocated, and of the one at tail, which is
\* set to the new node of the thread.
RcLinksKept(t) ==
    \A x \in RcNodes :
        \/ Rc!After'[x] = Rc!After[x]
        \/ Rc!After'[x] = Null /\ x \in r_free
        \/ x = r_tail.ptr /\ Rc!After'[x] = r_nd[t] /\ r_nd[t] # Null

\* A step keeps the links so.
LEMMA RcStepLinks ==
    ASSUME Rc!TypeOK, Rc!LocalsOK, Rc!Shape, NEW t \in Rc!Callers, RcStepOf(t)
    PROVE  RcLinksKept(t)
<1>0. \A x \in RcNodes : Rc!After[x] = r_next[x].ptr /\ Rc!After'[x] = r_next'[x].ptr
  BY DEF Rc!After
<1>1. \A x : Rc!Counted(1, x).ptr = x /\ Rc!NullPtr.ptr = Null
  BY DEF Rc!Counted, Rc!NullPtr
<1>2. r_next \in [RcNodes -> Rc!Links] /\ r_free \subseteq RcNodes
  BY DEF Rc!TypeOK
<1>3. CASE \E v \in Values : Rc!PushStart(t, v)
  <2>1. PICK x \in r_free : r_next' = [r_next EXCEPT ![x] = Rc!NullPtr]
    BY <1>3 DEF Rc!PushStart, Rc!Fresh
  <2> QED
    BY <1>0, <1>1, <1>2, <2>1 DEF RcLinksKept
<1>4. CASE Rc!PushLink(t) \/ Rc!HelpLink(t)
  <2>1. r_pc[t] \in Rc!Referring /\ r_nd[t] # Null
    BY <1>4
    DEF Rc!PushLink, Rc!HelpLink, Rc!Goto, Rc!Referring, Rc!PC, Rc!LocalsOK, Rc!Allocated
  <2>2. CASE r_next[r_o[t].ptr] = Rc!NullPtr
    <3>1. r_o[t].ptr = r_tail.ptr
      BY <2>1, <2>2, RcHasNext
    <3>2. \/ r_next' = [r_next EXCEPT ![r_tail.ptr] = Rc!Counted(1, r_nd[t])]
          \/ \E x \in r_free :
                r_next' = [r_next EXCEPT ![r_tail.ptr] = Rc!Counted(1, r_nd[t]),
                                         ![x] = Rc!NullPtr]
      BY <1>4, <2>2, <3>1 DEF Rc!PushLink, Rc!HelpLink
    <3> QED
      BY <1>0, <1>1, <1>2, <2>1, <3>2 DEF RcLinksKept
  <2>3. CASE r_next[r_o[t].ptr] # Rc!NullPtr
    <3>1. r_next' = r_next
      BY <1>4, <2>3 DEF Rc!PushLink, Rc!HelpLink, Rc!node
    <3> QED
      BY <1>0, <3>1 DEF RcLinksKept
  <2> QED
    BY <2>2, <2>3
<1>5. CASE \/ Rc!PushIncrease(t) \/ Rc!PushData(t) \/ Rc!SetNewTail(t) \/ Rc!PushFinish(t)
           \/ Rc!HelpFinish(t)
  <2>1. r_next' = r_next
    BY <1>5
    DEF Rc!PushIncrease, Rc!PushData, Rc!SetNewTail, Rc!PushFinish, Rc!HelpFinish, Rc!node,
        Rc!FreeExternalCounter, Rc!ReleaseRef, Rc!SetCounts
  <2> QED
    BY <1>0, <2>1 DEF RcLinksKept
<1>6. CASE Rc!Pop(t)
  <2>1. r_next' = r_next
    BY <1>6
    DEF Rc!Pop, Rc!PopStart, Rc!PopIncrease, Rc!PopTestTail, Rc!PopEmpty, Rc!PopLoadNext,
        Rc!PopCas, Rc!PopRetry, Rc!PopData, Rc!PopFinish, Rc!node,
        Rc!FreeExternalCounter, Rc!ReleaseRef, Rc!SetCounts
  <2> QED
    BY <1>0, <2>1 DEF RcLinksKept
<1> QED
  BY <1>3, <1>4, <1>5, <1>6 DEF RcStepOf, Rc!Push

\* The nodes in the line from head on stay there, unless head moves.
RcLiveKept(t) ==
    \/ /\ r_head'.ptr = r_head.ptr /\ Rc!Live \subseteq Rc!Live'
       /\ \A x \in Rc!Placed : x \in Rc!Live' => x \in Rc!Live
    \/ RcAdvanceHead(t) /\ Rc!Live' = Rc!Live \ {r_head.ptr}

\* A step adds nodes behind it that were not placed, or takes the first one from it.
LEMMA RcStepLive ==
    ASSUME Rc!TypeOK, Rc!TypeOK', Rc!LocalsOK, Rc!Apart, Rc!Shape, NEW t \in Rc!Callers,
           RcStepOf(t)
    PROVE  RcLiveKept(t)
<1>0. Rc!Live \subseteq Rc!Placed
  BY RcListsAre DEF Rc!Shape
<1>1. ASSUME r_head'.ptr = r_head.ptr, \A x \in Rc!Live : r_next'[x] = r_next[x]
      PROVE  RcLiveKept(t)
  BY <1>1, RcListStays DEF RcLiveKept
<1>2. CASE RcKeep(t)
  BY <1>0, <1>1, <1>2 DEF RcKeep, RcSameNode
<1>3. ASSUME NEW y \in RcNodes, RcLink(t, y) PROVE RcLiveKept(t)
  BY <1>3, RcListGrows DEF RcLink, RcLiveKept
<1>4. CASE RcTakeTail(t) \/ RcTakeHead(t) \/ RcAdvanceTail(t)
  <2>1. r_head'.ptr = r_head.ptr /\ r_next' = r_next
    BY <1>4 DEF RcTakeTail, RcTakeHead, RcAdvanceTail, RcSameHeap, Rc!TypeOK
  <2> QED
    BY <1>1, <2>1
<1>5. CASE \E x \in Rc!Placed : RcRelease(t, x) \/ RcFoldTail(t, x) \/ RcFoldHead(t, x)
  <2>1. r_head' = r_head /\ r_next' = r_next
    BY <1>5 DEF RcRelease, RcFoldTail, RcFoldHead, RcLeaves, RcSetsCounts
  <2> QED
    BY <1>1, <2>1
<1>6. CASE RcAdvanceHead(t)
  <2>1. Rc!After' = Rc!After /\ r_head'.ptr = Rc!After[r_head.ptr] /\ r_head.ptr # Null
    BY <1>6, RcConstantsHold DEF RcAdvanceHead, RcSameHeap, Rc!After, Rc!TypeOK
  <2>2. IsFiniteSet(RcNodes) /\ Null \notin RcNodes /\ r_head.ptr # Null
    BY <2>1, RcConstantsHold
  <2>3. IsLinked(r_head.ptr, Rc!After, Null, RcNodes)
    BY RcListsAre DEF Rc!Shape
  <2>4. DropsFirst(r_head.ptr, Rc!After, Null, RcNodes)
    BY ONLY <2>2, <2>3, ListDrop
  <2>5. Rc!Live' = Rc!Live \ {r_head.ptr}
    BY <2>1, <2>4, RcListsAre DEF DropsFirst, Rc!Live
  <2> QED
    BY <1>6, <2>5 DEF RcLiveKept
<1> QED
  BY <1>2, <1>3, <1>4, <1>5, <1>6, RcPushMoves, RcPopMoves DEF RcStepOf

\* Its new node was on the heap, and is empty.
LEMMA RcStepNode ==
    ASSUME Rc!TypeOK, Rc!CallsOK, NEW t \in Rc!Callers, RcStepOf(t)
    PROVE  \/ r_nd'[t] \in {r_nd[t], Null}
           \/ r_nd'[t] \in r_free /\ r_data'[r_nd'[t]] = Null
<1>0. /\ r_data \in [RcNodes -> Values \cup {Null}]
      /\ r_nd \in [Rc!Callers -> RcNodes \cup {Null}]
      /\ r_free \subseteq RcNodes
  BY DEF Rc!CallsOK, Rc!TypeOK
<1>1. CASE (\E v \in Values : Rc!PushStart(t, v)) \/ Rc!HelpLink(t)
  <2>1. \/ r_nd' = r_nd
        \/ \E x \in r_free :
              r_nd' = [r_nd EXCEPT ![t] = x] /\ r_data' = [r_data EXCEPT ![x] = Null]
    BY <1>1 DEF Rc!PushStart, Rc!HelpLink, Rc!Fresh
  <2> QED
    BY <1>0, <2>1
<1>2. CASE Rc!PushLink(t)
  BY <1>0, <1>2 DEF Rc!PushLink
<1>3. CASE \/ Rc!PushIncrease(t) \/ Rc!PushData(t) \/ Rc!SetNewTail(t) \/ Rc!PushFinish(t)
           \/ Rc!HelpFinish(t)
  BY <1>3
  DEF Rc!PushIncrease, Rc!PushData, Rc!SetNewTail, Rc!PushFinish, Rc!HelpFinish
<1>4. CASE Rc!Pop(t)
  BY <1>4
  DEF Rc!Pop, Rc!PopStart, Rc!PopIncrease, Rc!PopTestTail, Rc!PopEmpty, Rc!PopLoadNext,
      Rc!PopCas, Rc!PopRetry, Rc!PopData, Rc!PopFinish
<1> QED
  BY <1>1, <1>2, <1>3, <1>4 DEF RcStepOf, Rc!Push

\* A SetNewTail that finds tail where it was moves it.
LEMMA RcTailMoves ==
    ASSUME Rc!TypeOK, Rc!LocalsOK, NEW t \in Rc!Callers, Rc!SetNewTail(t),
           r_tail.ptr = r_o[t].ptr
    PROVE  /\ RcAdvanceTail(t) /\ UNCHANGED <<r_data, r_val, r_res>>
           /\ \/ r_pc[t] = "p_tail" /\ r_pc'[t] = "p_free"
              \/ r_pc[t] = "h_tail" /\ r_pc'[t] = "h_free"
<1>1. /\ \/ r_pc[t] = "p_tail" /\ r_pc'[t] = "p_free"
         \/ r_pc[t] = "h_tail" /\ r_pc'[t] = "h_free"
      /\ r_tail' = r_nx[t] /\ r_o'[t] = r_tail /\ r_head' = r_head /\ RcSameHeap
      /\ r_data' = r_data /\ r_val' = r_val /\ r_res' = r_res
  BY DEF Rc!SetNewTail, Rc!Goto, Rc!TypeOK, Rc!node, RcSameHeap
<1>2. r_nx[t] = r_next[r_tail.ptr] /\ r_next[r_tail.ptr] # Rc!NullPtr
  BY <1>1 DEF Rc!LocalsOK
<1> QED
  BY <1>1, <1>2 DEF RcAdvanceTail, RcHolding, Rc!Referring, Rc!TailFolding, Rc!HeadFolding, Rc!PC

\* A PopCas that finds head as it was moves it.
LEMMA RcHeadMoves ==
    ASSUME Rc!TypeOK, Rc!LocalsOK, Rc!Shape, NEW t \in Rc!Callers, Rc!PopCas(t),
           r_head = r_o[t]
    PROVE  /\ RcAdvanceHead(t) /\ UNCHANGED <<r_data, r_val, r_res, r_o>>
           /\ r_pc[t] = "o_cas" /\ r_pc'[t] = "o_data"
<1>1. /\ r_pc[t] = "o_cas" /\ r_pc'[t] = "o_data" /\ r_pc[t] \in Rc!Referring
      /\ r_head' = r_nx[t] /\ r_o' = r_o /\ r_tail' = r_tail /\ RcSameHeap
      /\ r_data' = r_data /\ r_val' = r_val /\ r_res' = r_res
  BY DEF Rc!PopCas, Rc!Goto, Rc!TypeOK, Rc!Referring, Rc!PC, Rc!node, RcSameHeap
<1>2. r_nx[t] = r_next[r_head.ptr] /\ r_head.ptr # r_tail.ptr
  BY <1>1 DEF Rc!LocalsOK
<1>3. r_next[r_head.ptr] # Rc!NullPtr
  BY <1>1, <1>2, RcHasNext
<1> QED
  BY <1>1, <1>2, <1>3
  DEF RcAdvanceHead, RcHolding, Rc!Referring, Rc!TailFolding, Rc!HeadFolding, Rc!PC

\* Otherwise both point to the nodes they did.
LEMMA RcStepEnds ==
    ASSUME Rc!TypeOK, NEW t \in Rc!Callers, RcStepOf(t)
    PROVE  \/ r_head'.ptr = r_head.ptr /\ r_tail'.ptr = r_tail.ptr
           \/ Rc!SetNewTail(t) /\ r_tail.ptr = r_o[t].ptr
           \/ Rc!PopCas(t) /\ r_head = r_o[t]
<1>1. CASE \E v \in Values : Rc!PushStart(t, v)
  BY <1>1 DEF Rc!PushStart
<1>2. CASE Rc!PushIncrease(t) \/ Rc!PopIncrease(t)
  BY <1>2 DEF Rc!PushIncrease, Rc!PopIncrease, Rc!TypeOK
<1>3. CASE \/ Rc!PushData(t) \/ Rc!PushLink(t) \/ Rc!HelpLink(t) \/ Rc!PushFinish(t)
           \/ Rc!HelpFinish(t)
  BY <1>3 DEF Rc!PushData, Rc!PushLink, Rc!HelpLink, Rc!PushFinish, Rc!HelpFinish
<1>4. CASE Rc!SetNewTail(t) \/ Rc!PopCas(t)
  BY <1>4 DEF Rc!SetNewTail, Rc!PopCas
<1>5. CASE Rc!PopStart(t) \/ Rc!PopTestTail(t) \/ Rc!PopEmpty(t) \/ Rc!PopLoadNext(t)
  BY <1>5 DEF Rc!PopStart, Rc!PopTestTail, Rc!PopEmpty, Rc!PopLoadNext
<1>6. CASE Rc!PopRetry(t) \/ Rc!PopData(t) \/ Rc!PopFinish(t)
  BY <1>6 DEF Rc!PopRetry, Rc!PopData, Rc!PopFinish
<1> QED
  BY <1>1, <1>2, <1>3, <1>4, <1>5, <1>6 DEF RcStepOf, Rc!Push, Rc!Pop

\* The nodes with a value keep it and their links.
LEMMA RcFrontKept ==
    ASSUME Rc!IInv, Rc!CallsOK, Rc!Filled, NEW t \in Rc!Callers, RcStepOf(t)
    PROVE  \A x \in Elements(Rc!Front) : Rc!After'[x] = Rc!After[x] /\ r_data'[x] = r_data[x]
<1>1. /\ Rc!TypeOK /\ Rc!LocalsOK /\ Rc!Shape /\ Rc!Folding
  BY DEF Rc!IInv
<1>2. RcLinksKept(t) /\ RcDataKept(t)
  BY <1>1, RcStepLinks, RcStepData
<1>3. ASSUME NEW x \in Elements(Rc!Front)
      PROVE  Rc!After'[x] = Rc!After[x] /\ r_data'[x] = r_data[x]
  <2>1. x \in Rc!Live /\ x # r_tail.ptr /\ r_data[x] # Null
    BY RcFrontIs
  <2>2. x \in RcNodes /\ x \notin r_free
    BY <1>1, <2>1, RcListsAre DEF Rc!Shape, Rc!Placed
  <2>3. r_pc[t] = "o_data" => x # r_o[t].ptr
    BY <1>1, <2>1 DEF Rc!Folding, Rc!HeadFolding
  <2> QED
    BY <1>2, <2>1, <2>2, <2>3 DEF RcLinksKept, RcDataKept
<1> QED
  BY <1>3

-----------------------------------------------------------------------------
(* What a step preserves of the calls *)

\* The caller's own part of CallsOK.
LEMMA RcOwnCall ==
    ASSUME Rc!TypeOK, Rc!CallsOK, NEW t \in Rc!Callers, RcStepOf(t)
    PROVE  /\ r_pc'[t] \in Rc!InPush => t \in RcProducers
           /\ r_pc'[t] \notin Rc!InPush \cup {"idle"} => t \in RcConsumers
           /\ r_pc'[t] \in Rc!InPush \ Rc!Returning => r_val'[t] # Null
<1> USE DEF Rc!InPush, Rc!Returning, Rc!Goto
<1>0. /\ r_pc \in [Rc!Callers -> Rc!PC] /\ r_val \in [Rc!Callers -> Values \cup {Null}]
      /\ Null \notin Values
      /\ r_pc[t] \in Rc!InPush => t \in RcProducers
      /\ r_pc[t] \notin Rc!InPush \cup {"idle"} => t \in RcConsumers
      /\ r_pc[t] \in Rc!InPush \ Rc!Returning => r_val[t] # Null
  BY RcConstantsHold DEF Rc!TypeOK, Rc!CallsOK
<1>1. CASE \E v \in Values : Rc!PushStart(t, v)
  BY <1>0, <1>1 DEF Rc!PushStart
<1>2. CASE Rc!PushIncrease(t) \/ Rc!PushData(t) \/ Rc!PushLink(t) \/ Rc!HelpLink(t)
  BY <1>0, <1>2 DEF Rc!PushIncrease, Rc!PushData, Rc!PushLink, Rc!HelpLink
<1>3. CASE Rc!SetNewTail(t) \/ Rc!PushFinish(t) \/ Rc!HelpFinish(t)
  BY <1>0, <1>3 DEF Rc!SetNewTail, Rc!PushFinish, Rc!HelpFinish
<1>4. CASE Rc!PopStart(t) \/ Rc!PopIncrease(t) \/ Rc!PopTestTail(t) \/ Rc!PopEmpty(t)
  BY <1>0, <1>4 DEF Rc!PopStart, Rc!PopIncrease, Rc!PopTestTail, Rc!PopEmpty
<1>5. CASE \/ Rc!PopLoadNext(t) \/ Rc!PopCas(t) \/ Rc!PopRetry(t) \/ Rc!PopData(t)
           \/ Rc!PopFinish(t)
  BY <1>0, <1>5 DEF Rc!PopLoadNext, Rc!PopCas, Rc!PopRetry, Rc!PopData, Rc!PopFinish
<1> QED
  BY <1>1, <1>2, <1>3, <1>4, <1>5 DEF RcStepOf, Rc!Push, Rc!Pop

\* What is pushed, and what has been popped, are values.
LEMMA RcStepVals ==
    ASSUME Rc!TypeOK, Rc!LocalsOK, Rc!CallsOK, NEW t \in Rc!Callers, RcStepOf(t)
    PROVE  /\ r_val' \in [Rc!Callers -> Values \cup {Null}]
           /\ r_res' \in [Rc!Callers -> Values \cup {Null}]
<1>0. /\ r_val \in [Rc!Callers -> Values \cup {Null}]
      /\ r_res \in [Rc!Callers -> Values \cup {Null}]
      /\ r_data \in [RcNodes -> Values \cup {Null}]
  BY DEF Rc!CallsOK
<1>1. CASE Rc!Push(t)
  <2>1. /\ r_res' = r_res
        /\ \/ r_val' = r_val
           \/ \E v \in Values \cup {Null} : r_val' = [r_val EXCEPT ![t] = v]
    BY <1>1
    DEF Rc!Push, Rc!PushStart, Rc!PushIncrease, Rc!PushData, Rc!PushLink, Rc!HelpLink,
        Rc!SetNewTail, Rc!PushFinish, Rc!HelpFinish
  <2> QED
    BY <1>0, <2>1
<1>2. CASE Rc!PopData(t)
  <2>1. r_pc[t] = "o_data" /\ r_val' = r_val /\ r_res' = [r_res EXCEPT ![t] = r_data[r_o[t].ptr]]
    BY <1>2 DEF Rc!PopData, Rc!Goto
  <2>2. r_o[t].ptr \in RcNodes
    BY <2>1, RcHolds DEF Rc!Referring, Rc!PC
  <2> QED
    BY <1>0, <2>1, <2>2
<1>3. CASE \/ Rc!PopStart(t) \/ Rc!PopIncrease(t) \/ Rc!PopTestTail(t) \/ Rc!PopEmpty(t)
           \/ Rc!PopLoadNext(t) \/ Rc!PopCas(t) \/ Rc!PopRetry(t) \/ Rc!PopFinish(t)
  <2>1. r_val' = r_val /\ (r_res' = r_res \/ r_res' = [r_res EXCEPT ![t] = Null])
    BY <1>3
    DEF Rc!PopStart, Rc!PopIncrease, Rc!PopTestTail, Rc!PopEmpty, Rc!PopLoadNext,
        Rc!PopCas, Rc!PopRetry, Rc!PopFinish
  <2> QED
    BY <1>0, <2>1
<1> QED
  BY <1>1, <1>2, <1>3 DEF RcStepOf, Rc!Pop

\* So a step preserves what each call is about.
LEMMA RcStepCallsOK ==
    ASSUME Rc!TypeOK, Rc!LocalsOK, Rc!CallsOK, NEW t \in Rc!Callers, t \in r_team,
           r_team' = r_team, RcStepOf(t)
    PROVE  Rc!CallsOK'
<1>1. /\ r_data' \in [RcNodes -> Values \cup {Null}]
      /\ r_val' \in [Rc!Callers -> Values \cup {Null}]
      /\ r_res' \in [Rc!Callers -> Values \cup {Null}]
  BY RcStepData, RcStepVals
<1>2. RcOthers(t) /\ RcOthersCalls(t)
  BY RcStepOthers, RcStepOthersCalls
<1>3. ASSUME NEW u \in Rc!Callers
      PROVE  /\ r_pc'[u] # "idle" => u \in r_team'
             /\ r_pc'[u] \in Rc!InPush => u \in RcProducers
             /\ r_pc'[u] \notin Rc!InPush \cup {"idle"} => u \in RcConsumers
             /\ r_pc'[u] \in Rc!InPush \ Rc!Returning => r_val'[u] # Null
  <2>1. CASE u = t
    BY <2>1, RcOwnCall
  <2>2. CASE u # t
    BY <1>2, <2>2 DEF RcOthers, RcOthersCalls, Rc!CallsOK
  <2> QED
    BY <2>1, <2>2
<1> QED
  BY <1>1, <1>3 DEF Rc!CallsOK

-----------------------------------------------------------------------------
(* What a step preserves of the values in the queue *)

\* What tail leaves is filled.
LEMMA RcTailFilled ==
    ASSUME Rc!IInv, Rc!CallsOK, Rc!TailOK, NEW t \in Rc!Callers, Rc!SetNewTail(t),
           r_tail.ptr = r_o[t].ptr
    PROVE  r_data[r_tail.ptr] # Null
<1>1. r_pc[t] \in {"p_tail", "h_tail"}
  BY DEF Rc!SetNewTail, Rc!Goto
<1>2. CASE r_pc[t] = "p_tail"
  <2>1. Rc!Stored(t) /\ r_val[t] # Null
    BY <1>2 DEF Rc!Stored, Rc!CallsOK, Rc!InPush, Rc!Returning
  <2> QED
    BY <2>1 DEF Rc!TailOK
<1>3. CASE r_pc[t] = "h_tail"
  BY <1>3 DEF Rc!TailOK
<1> QED
  BY <1>1, <1>2, <1>3

\* The node behind tail, and a new node, are empty.
LEMMA RcBehindEmpty ==
    ASSUME Rc!IInv, Rc!CallsOK, Rc!Filled, NEW t \in Rc!Callers, RcStepOf(t),
           NEW x \in RcNodes,
           x = Rc!After'[r_tail'.ptr] \/ \E u \in Rc!Callers : r_nd'[u] = x
    PROVE  r_data'[x] = Null
<1>1. /\ Rc!TypeOK /\ Rc!LocalsOK /\ Rc!Shape /\ Rc!Apart
  BY DEF Rc!IInv
<1>2. RcOthers(t) /\ RcLinksKept(t) /\ RcDataKept(t) /\ Null \notin RcNodes
  BY <1>1, RcStepOthers, RcStepLinks, RcStepData, RcConstantsHold
<1>3. \A z \in RcNodes : z = Rc!After[r_tail.ptr] \/ (\E u \in Rc!Callers : r_nd[u] = z)
                             => r_data[z] = Null
  BY DEF Rc!Filled
<1>4. r_tail.ptr \in RcNodes /\ r_tail.ptr \notin r_free
  BY <1>1, RcTailPlaced DEF Rc!Placed
<1>5. ASSUME NEW z \in RcNodes, r_data[z] = Null,
             z = Rc!After[r_tail.ptr] \/ (\E u \in Rc!Callers : r_nd[u] = z)
      PROVE  r_data'[z] = Null
  <2>1. r_pc[t] = "p_data" => z # r_o[t].ptr
    <3>1. CASE r_pc[t] = "p_data" /\ z = r_o[t].ptr
      <4>1. t \in Rc!Refs(z) /\ z \in Rc!Placed
        BY <1>1, <3>1, RcHolds DEF Rc!Refs, Rc!At, Rc!Referring, Rc!PC
      <4> QED
        BY <1>1, <1>5, <4>1, RcListsAre DEF Rc!Shape, Rc!Placed
    <3> QED
      BY <3>1
  <2> QED
    BY <1>2, <1>5, <2>1 DEF RcDataKept
<1>6. CASE \E u \in Rc!Callers : r_nd'[u] = x
  <2>1. PICK u \in Rc!Callers : r_nd'[u] = x
    BY <1>6
  <2>2. r_nd[u] = x \/ (u = t /\ x \in r_free /\ r_data'[x] = Null)
    BY <1>1, <1>2, <2>1, RcStepNode DEF RcOthers
  <2> QED
    BY <1>3, <1>5, <2>2
<1>7. CASE x = Rc!After'[r_tail'.ptr] /\ r_tail'.ptr = r_tail.ptr
  <2>1. x = Rc!After[r_tail.ptr] \/ x = r_nd[t]
    BY <1>2, <1>4, <1>7 DEF RcLinksKept
  <2> QED
    BY <1>3, <1>5, <2>1
<1>8. CASE x = Rc!After'[r_tail'.ptr] /\ r_tail'.ptr # r_tail.ptr
  <2>1. RcAdvanceTail(t) \/ RcAdvanceHead(t)
    BY <1>1, <1>8, RcStepEnds, RcTailMoves, RcHeadMoves
  <2>2. RcAdvanceTail(t)
    BY <1>8, <2>1 DEF RcAdvanceHead
  <2>3. r_tail'.ptr = Rc!After[r_tail.ptr] /\ Rc!After' = Rc!After /\ r_tail'.ptr \in RcNodes
    BY <1>1, <1>4, <2>2, RcAfterIs DEF RcAdvanceTail, RcSameHeap, Rc!After
  <2>4. Rc!After[r_tail'.ptr] = Null
    BY <1>1, <2>3, RcAfterIs, RcListsAre DEF Rc!Shape
  <2> QED
    BY <1>2, <1>8, <2>3, <2>4
<1> QED
  BY <1>6, <1>7, <1>8

\* So a step preserves that the nodes before tail are filled, and those behind it empty.
LEMMA RcStepFilled ==
    ASSUME Rc!IInv, Rc!TypeOK', Rc!CallsOK, Rc!Filled, Rc!TailOK, NEW t \in Rc!Callers,
           RcStepOf(t)
    PROVE  Rc!Filled'
<1>1. /\ Rc!TypeOK /\ Rc!LocalsOK /\ Rc!Shape /\ Rc!Apart
  BY DEF Rc!IInv
<1>2. RcLiveKept(t)
  BY <1>1, RcStepLive
<1>3. \A x \in RcNodes : x = Rc!After'[r_tail'.ptr] \/ (\E u \in Rc!Callers : r_nd'[u] = x)
                             => r_data'[x] = Null
  BY RcBehindEmpty
<1>4. \A x \in Elements(Rc!Front) : x \in Rc!Live /\ x # r_tail.ptr /\ r_data[x] # Null
  BY RcFrontIs
<1>5. r_tail.ptr \in Rc!Live
  BY <1>1, RcListsAre DEF Rc!Shape
<1>6. ASSUME Rc!IsLinked(r_head.ptr, Rc!After, r_tail.ptr, RcNodes)',
             \A x \in Rc!Elements(Rc!Front)' :
                 x \in Rc!Live' /\ x # r_tail'.ptr /\ r_data'[x] # Null
      PROVE  Rc!Filled'
  BY <1>3, <1>6 DEF Rc!Filled
<1>7. CASE r_head'.ptr = r_head.ptr /\ r_tail'.ptr = r_tail.ptr
  <2>1. \A x \in Elements(Rc!Front) : Rc!After'[x] = Rc!After[x] /\ r_data'[x] = r_data[x]
    BY RcFrontKept
  <2>2. /\ Rc!Elements(Rc!Front)' = Elements(Rc!Front)
        /\ Rc!IsLinked(r_head.ptr, Rc!After, r_tail.ptr, RcNodes)'
    BY <1>7, <2>1, RcFrontStays
  <2>3. Rc!Live \subseteq Rc!Live'
    BY <1>1, <1>2, <1>7, RcTailPlaced, RcAfterIs DEF RcLiveKept, RcAdvanceHead, Rc!TypeOK
  <2> QED
    BY <1>4, <1>6, <1>7, <2>1, <2>2, <2>3
<1>8. CASE Rc!SetNewTail(t) /\ r_tail.ptr = r_o[t].ptr
  <2>1. RcAdvanceTail(t) /\ r_data' = r_data
    BY <1>1, <1>8, RcTailMoves
  <2>2. /\ Rc!Elements(Rc!Front)' = Elements(Rc!Front) \cup {r_tail.ptr}
        /\ Rc!IsLinked(r_head.ptr, Rc!After, r_tail.ptr, RcNodes)'
    BY <1>1, <2>1, RcFrontGrows
  <2>3. r_data[r_tail.ptr] # Null
    BY <1>8, RcTailFilled
  <2>4. r_head' = r_head /\ r_tail'.ptr = Rc!After[r_tail.ptr] /\ r_tail'.ptr \in RcNodes
        /\ r_tail.ptr \in RcNodes
    BY <1>1, <2>1, RcAfterIs DEF RcAdvanceTail, Rc!TypeOK
  <2>5. Rc!Live \subseteq Rc!Live'
    BY <1>1, <1>2, <2>4, RcTailPlaced, RcAfterIs DEF RcLiveKept, RcAdvanceHead, Rc!TypeOK
  <2>6. r_data[r_tail'.ptr] = Null
    BY <2>4 DEF Rc!Filled
  <2> QED
    BY <1>4, <1>5, <1>6, <2>1, <2>2, <2>3, <2>5, <2>6
<1>9. CASE Rc!PopCas(t) /\ r_head = r_o[t]
  <2>1. RcAdvanceHead(t) /\ r_data' = r_data /\ r_tail' = r_tail
    BY <1>1, <1>9, RcHeadMoves DEF RcAdvanceHead
  <2>2. /\ Rc!Elements(Rc!Front)' = Elements(Rc!Front) \ {r_head.ptr}
        /\ Rc!IsLinked(r_head.ptr, Rc!After, r_tail.ptr, RcNodes)'
    BY <1>1, <2>1, RcFrontDrops
  <2>3. Rc!Live \ {r_head.ptr} \subseteq Rc!Live'
    BY <1>2 DEF RcLiveKept
  <2> QED
    BY <1>4, <1>6, <2>1, <2>2, <2>3
<1> QED
  BY <1>1, <1>7, <1>8, <1>9, RcStepEnds

\* The references pops have taken are to the first node, or to none in the queue.
LEMMA RcStepPopsOK ==
    ASSUME Rc!IInv, Rc!TypeOK', Rc!PopsOK, NEW t \in Rc!Callers, RcStepOf(t)
    PROVE  Rc!PopsOK'
<1>1. /\ Rc!TypeOK /\ Rc!LocalsOK /\ Rc!Shape /\ Rc!Apart
  BY DEF Rc!IInv
<1>2. RcLiveKept(t) /\ RcOthers(t)
  BY <1>1, RcStepLive, RcStepOthers
<1>3. ASSUME NEW u \in Rc!Callers, r_pc'[u] = "o_tail", r_o'[u].ptr \in Rc!Live'
      PROVE  r_o'[u].ptr = r_head'.ptr
  <2>1. CASE u # t
    <3>1. r_pc[u] = "o_tail" /\ r_o'[u] = r_o[u]
      BY <1>2, <1>3, <2>1 DEF RcOthers
    <3>2. r_o[u].ptr \in Rc!Placed
      BY <1>1, <3>1, RcHolds DEF Rc!Referring, Rc!PC
    <3> QED
      BY <1>2, <1>3, <3>1, <3>2 DEF RcLiveKept, Rc!PopsOK
  <2>2. CASE u = t
    <3>1. Rc!PopIncrease(t)
      <4>1. CASE Rc!Push(t)
        BY <1>1, <1>3, <2>2, <4>1
        DEF Rc!Push, Rc!PushStart, Rc!PushIncrease, Rc!PushData, Rc!PushLink, Rc!HelpLink,
            Rc!SetNewTail, Rc!PushFinish, Rc!HelpFinish, Rc!Goto, Rc!TypeOK
      <4>2. CASE Rc!Pop(t)
        BY <1>1, <1>3, <2>2, <4>2
        DEF Rc!Pop, Rc!PopStart, Rc!PopTestTail, Rc!PopEmpty, Rc!PopLoadNext,
            Rc!PopCas, Rc!PopRetry, Rc!PopData, Rc!PopFinish, Rc!Goto, Rc!TypeOK
      <4> QED
        BY <4>1, <4>2 DEF RcStepOf
    <3> QED
      BY <1>1, <2>2, <3>1 DEF Rc!PopIncrease, Rc!TypeOK
  <2> QED
    BY <2>1, <2>2
<1> QED
  BY <1>3 DEF Rc!PopsOK

-----------------------------------------------------------------------------
(* What a step preserves of the node at tail *)

\* A push finds its node empty, and stores its value there.
RcStores(t) == Rc!PushData(t) /\ r_data[r_o[t].ptr] = Null

\* That node is at tail.
LEMMA RcStoresIs ==
    ASSUME Rc!TypeOK, Rc!LocalsOK, Rc!CallsOK, Rc!TailOK, NEW t \in Rc!Callers, RcStores(t)
    PROVE  /\ r_o[t].ptr = r_tail.ptr /\ r_pc[t] = "p_data" /\ r_pc'[t] = "p_link"
           /\ r_data'[r_tail.ptr] = r_val[t] /\ r_val[t] # Null
           /\ r_val' = r_val /\ r_o' = r_o /\ r_tail' = r_tail
<1>1. /\ r_pc[t] = "p_data" /\ r_pc'[t] = "p_link"
      /\ r_data' = [r_data EXCEPT ![r_o[t].ptr] = r_val[t]]
      /\ r_val' = r_val /\ r_o' = r_o /\ r_tail' = r_tail
  BY DEF RcStores, Rc!PushData, Rc!Goto, Rc!TypeOK
<1>2. r_o[t].ptr = r_tail.ptr
  BY <1>1 DEF RcStores, Rc!TailOK
<1>3. r_tail.ptr \in RcNodes /\ r_val[t] # Null
  BY <1>1 DEF Rc!TypeOK, Rc!CallsOK, Rc!InPush, Rc!Returning
<1> QED
  BY <1>1, <1>2, <1>3 DEF Rc!CallsOK

\* In any other step that leaves tail where it is, the thread's own relation to the
\* node at tail stays, unless it takes a reference to it or finds a value there.
LEMMA RcOwnTail ==
    ASSUME Rc!TypeOK, Rc!CallsOK, NEW t \in Rc!Callers, RcStepOf(t), r_tail'.ptr = r_tail.ptr,
           ~RcStores(t), ~(Rc!SetNewTail(t) /\ r_tail.ptr = r_o[t].ptr)
    PROVE  /\ Rc!Stored(t)' <=> Rc!Stored(t)
           /\ Rc!Stored(t) => r_val'[t] = r_val[t]
           /\ r_pc'[t] \in {"h_link", "h_tail"} =>
                  /\ r_o'[t] = r_o[t]
                  /\ r_pc[t] \in {"h_link", "h_tail"} \/ r_data[r_o[t].ptr] # Null
           /\ r_pc'[t] = "p_data" => r_o'[t].ptr = r_tail.ptr
<1> USE DEF Rc!Stored, Rc!Goto, Rc!TypeOK
<1>1. CASE \E v \in Values : Rc!PushStart(t, v)
  BY <1>1 DEF Rc!PushStart
<1>2. CASE Rc!PushIncrease(t)
  BY <1>2 DEF Rc!PushIncrease
<1>3. CASE Rc!PushData(t)
  BY <1>3 DEF Rc!PushData, RcStores
<1>4. CASE Rc!PushLink(t) \/ Rc!HelpLink(t)
  BY <1>4 DEF Rc!PushLink, Rc!HelpLink
<1>5. CASE Rc!SetNewTail(t) \/ Rc!PushFinish(t) \/ Rc!HelpFinish(t)
  BY <1>5 DEF Rc!SetNewTail, Rc!PushFinish, Rc!HelpFinish
<1>6. CASE Rc!PopStart(t) \/ Rc!PopIncrease(t) \/ Rc!PopTestTail(t) \/ Rc!PopEmpty(t)
  BY <1>6 DEF Rc!PopStart, Rc!PopIncrease, Rc!PopTestTail, Rc!PopEmpty
<1>7. CASE \/ Rc!PopLoadNext(t) \/ Rc!PopCas(t) \/ Rc!PopRetry(t) \/ Rc!PopData(t)
           \/ Rc!PopFinish(t)
  BY <1>7 DEF Rc!PopLoadNext, Rc!PopCas, Rc!PopRetry, Rc!PopData, Rc!PopFinish
<1> QED
  BY <1>1, <1>2, <1>3, <1>4, <1>5, <1>6, <1>7 DEF RcStepOf, Rc!Push, Rc!Pop

\* Of the others, each is to the node at tail what it was, while tail stays.
LEMMA RcOthersTail ==
    ASSUME NEW t \in Rc!Callers, RcOthers(t), RcOthersCalls(t), r_tail'.ptr = r_tail.ptr,
           NEW u \in Rc!Callers, u # t
    PROVE  (Rc!Stored(u)' <=> Rc!Stored(u)) /\ r_val'[u] = r_val[u] /\ r_pc'[u] = r_pc[u]
           /\ r_o'[u] = r_o[u]
BY DEF RcOthers, RcOthersCalls, Rc!Stored

\* A push that comes late finds the value still there.
LEMMA RcLateStays ==
    ASSUME Rc!TypeOK, Rc!LocalsOK, Rc!CallsOK, Rc!TailOK, NEW t \in Rc!Callers, t \in r_team,
           r_team' = r_team, RcStepOf(t),
           NEW u \in Rc!Callers, u # t, r_pc[u] = "p_data", r_o[u].ptr # r_tail.ptr
    PROVE  r_team' \cap RcConsumers = {} /\ r_data'[r_o'[u].ptr] # Null
<1>1. RcOthers(t) /\ RcDataKept(t)
  BY RcStepOthers, RcStepData
<1>2. r_team \cap RcConsumers = {} /\ r_data[r_o[u].ptr] # Null
  BY DEF Rc!TailOK
<1>3. r_o[u].ptr \in RcNodes \ r_free
  BY RcHolds DEF Rc!Referring, Rc!PC
<1>4. r_pc[t] # "o_data"
  BY <1>2 DEF Rc!CallsOK, Rc!InPush
<1> QED
  BY <1>1, <1>2, <1>3, <1>4 DEF RcDataKept, RcOthers

\* While tail stays and nothing is stored there.
LEMMA RcTailOKStays ==
    ASSUME Rc!IInv, Rc!CallsOK, Rc!TailOK, NEW t \in Rc!Callers, t \in r_team,
           r_team' = r_team, RcStepOf(t), r_tail'.ptr = r_tail.ptr,
           ~RcStores(t), ~(Rc!SetNewTail(t) /\ r_tail.ptr = r_o[t].ptr)
    PROVE  Rc!TailOK'
<1>1. Rc!TypeOK /\ Rc!LocalsOK /\ Rc!Shape /\ Rc!Folding
  BY DEF Rc!IInv
<1>2. RcOthers(t) /\ RcOthersCalls(t) /\ RcDataKept(t)
  BY <1>1, RcStepOthers, RcStepOthersCalls, RcStepData
<1>3. r_data'[r_tail.ptr] = r_data[r_tail.ptr]
  <2>1. r_tail.ptr \in RcNodes /\ r_tail.ptr \notin r_free
    BY <1>1, RcTailPlaced DEF Rc!Placed
  <2>2. r_pc[t] = "o_data" => r_o[t].ptr # r_tail.ptr
    BY <1>1, RcListsAre DEF Rc!Folding, Rc!HeadFolding, Rc!Shape
  <2>3. ~(r_pc[t] = "p_data" /\ r_pc'[t] = "p_link" /\ r_data[r_o[t].ptr] = Null)
    <3>1. CASE r_pc[t] = "p_data"
      <4>1. Rc!PushData(t)
        <5>1. CASE Rc!Push(t)
          BY <3>1, <5>1
          DEF Rc!Push, Rc!PushStart, Rc!PushIncrease, Rc!PushData, Rc!PushLink, Rc!HelpLink,
              Rc!SetNewTail, Rc!PushFinish, Rc!HelpFinish, Rc!Goto
        <5>2. CASE Rc!Pop(t)
          BY <3>1, <5>2
          DEF Rc!Pop, Rc!PopStart, Rc!PopIncrease, Rc!PopTestTail, Rc!PopEmpty,
              Rc!PopLoadNext, Rc!PopCas, Rc!PopRetry, Rc!PopData, Rc!PopFinish, Rc!Goto
        <5> QED
          BY <5>1, <5>2 DEF RcStepOf
      <4> QED
        BY <4>1 DEF RcStores
    <3> QED
      BY <3>1
  <2> QED
    BY <1>2, <2>1, <2>2, <2>3 DEF RcDataKept
<1>4. ASSUME NEW u \in Rc!Callers
      PROVE  /\ Rc!Stored(u)' <=> Rc!Stored(u)
             /\ Rc!Stored(u) => r_val'[u] = r_val[u]
             /\ r_pc'[u] \in {"h_link", "h_tail"} /\ r_o'[u].ptr = r_tail.ptr
                    => r_data[r_tail.ptr] # Null
             /\ r_pc'[u] = "p_data" /\ r_o'[u].ptr # r_tail.ptr =>
                    r_team' \cap RcConsumers = {} /\ r_data'[r_o'[u].ptr] # Null
  <2>1. CASE u = t
    BY <1>1, <2>1, RcOwnTail DEF Rc!TailOK
  <2>2. CASE u # t
    <3>1. (Rc!Stored(u)' <=> Rc!Stored(u)) /\ r_val'[u] = r_val[u] /\ r_pc'[u] = r_pc[u]
          /\ r_o'[u] = r_o[u]
      BY <1>2, <2>2, RcOthersTail
    <3>2. r_pc[u] = "p_data" /\ r_o[u].ptr # r_tail.ptr =>
              r_team' \cap RcConsumers = {} /\ r_data'[r_o'[u].ptr] # Null
      BY <1>1, <2>2, RcLateStays
    <3> QED
      BY <3>1, <3>2 DEF Rc!TailOK
  <2> QED
    BY <2>1, <2>2
<1>5. r_data'[r_tail'.ptr] # Null => \E u \in Rc!Callers : Rc!Stored(u)'
  BY <1>3, <1>4 DEF Rc!TailOK
<1>6. ASSUME NEW u \in Rc!Callers, Rc!Stored(u)'
      PROVE  r_data'[r_tail'.ptr] = r_val'[u] /\ \A w \in Rc!Callers : Rc!Stored(w)' => w = u
  BY <1>3, <1>4, <1>6 DEF Rc!TailOK
<1> QED
  BY <1>3, <1>4, <1>5, <1>6 DEF Rc!TailOK

\* When a value is stored there, it is the caller's.
LEMMA RcTailOKStored ==
    ASSUME Rc!IInv, Rc!CallsOK, Rc!TailOK, NEW t \in Rc!Callers, t \in r_team,
           r_team' = r_team, RcStores(t)
    PROVE  Rc!TailOK'
<1>0. RcStepOf(t)
  BY DEF RcStores, RcStepOf, Rc!Push
<1>1. Rc!TypeOK /\ Rc!LocalsOK
  BY DEF Rc!IInv
<1>2. RcOthers(t) /\ RcOthersCalls(t)
  BY <1>0, <1>1, RcStepOthers, RcStepOthersCalls
<1>3. /\ r_o[t].ptr = r_tail.ptr /\ r_pc[t] = "p_data" /\ r_pc'[t] = "p_link"
      /\ r_data'[r_tail.ptr] = r_val[t] /\ r_val[t] # Null
      /\ r_val' = r_val /\ r_o' = r_o /\ r_tail' = r_tail
  BY <1>1, RcStoresIs
<1>4. r_data[r_tail.ptr] = Null
  BY <1>3 DEF RcStores
<1>5. \A u \in Rc!Callers : ~Rc!Stored(u)
  <2>1. \A u \in Rc!Callers : Rc!Stored(u) => r_val[u] # Null
    BY DEF Rc!Stored, Rc!CallsOK, Rc!InPush, Rc!Returning
  <2> QED
    BY <1>4, <2>1 DEF Rc!TailOK
<1>6. \A u \in Rc!Callers : Rc!Stored(u)' <=> u = t
  <2>1. Rc!Stored(t)'
    BY <1>3 DEF Rc!Stored
  <2>2. \A u \in Rc!Callers : u # t => ~Rc!Stored(u)'
    BY <1>2, <1>3, <1>5, RcOthersTail
  <2> QED
    BY <2>1, <2>2
<1>7. ASSUME NEW u \in Rc!Callers, r_pc'[u] = "p_data", r_o'[u].ptr # r_tail'.ptr
      PROVE  r_team' \cap RcConsumers = {} /\ r_data'[r_o'[u].ptr] # Null
  <2>1. u # t /\ r_pc[u] = "p_data" /\ r_o[u].ptr # r_tail.ptr
    BY <1>2, <1>3, <1>7 DEF RcOthers
  <2> QED
    BY <1>0, <1>1, <2>1, RcLateStays
<1> QED
  BY <1>3, <1>6, <1>7 DEF Rc!TailOK

\* When tail moves, nobody has been at the node it comes to; and where two push, nobody
\* pops.
LEMMA RcTailOKMoves ==
    ASSUME Rc!IInv, Rc!CallsOK, Rc!Filled, Rc!TailOK, NEW t \in Rc!Callers, t \in r_team,
           r_team' = r_team, Rc!OneSided, Rc!SetNewTail(t), r_tail.ptr = r_o[t].ptr
    PROVE  Rc!TailOK'
<1>0. RcStepOf(t)
  BY DEF RcStepOf, Rc!Push
<1>1. Rc!TypeOK /\ Rc!LocalsOK /\ Rc!Shape
  BY DEF Rc!IInv
<1>2. RcOthers(t) /\ RcOthersCalls(t)
  BY <1>0, <1>1, RcStepOthers, RcStepOthersCalls
<1>3. /\ RcAdvanceTail(t) /\ r_data' = r_data
      /\ r_pc[t] \in {"p_tail", "h_tail"} /\ r_pc'[t] \in {"p_free", "h_free"}
  BY <1>1, RcTailMoves
<1>4. /\ r_tail'.ptr = Rc!After[r_tail.ptr] /\ r_tail'.ptr \in RcNodes
      /\ r_data[r_tail'.ptr] = Null /\ \A x \in RcNodes : x = r_tail'.ptr => Rc!Refs(x) = {}
  <2>1. r_tail'.ptr = Rc!After[r_tail.ptr] /\ r_tail'.ptr \in RcNodes
    BY <1>1, <1>3, RcAfterIs DEF RcAdvanceTail, Rc!TypeOK
  <2>2. r_data[r_tail'.ptr] = Null
    BY <2>1 DEF Rc!Filled
  <2>3. \A x \in RcNodes : x = r_tail'.ptr => Rc!Refs(x) = {}
    BY <1>1, <2>1, RcListsAre DEF Rc!Shape
  <2> QED
    BY <2>1, <2>2, <2>3
<1>5. ASSUME NEW u \in Rc!Callers, r_pc'[u] \in {"p_data", "p_link", "p_tail", "h_link", "h_tail"}
      PROVE  u # t /\ r_pc[u] = r_pc'[u] /\ r_o'[u] = r_o[u] /\ r_o[u].ptr # r_tail'.ptr
  <2>1. u # t
    BY <1>3, <1>5
  <2>2. r_pc[u] = r_pc'[u] /\ r_o'[u] = r_o[u]
    BY <1>2, <2>1 DEF RcOthers
  <2>3. r_pc[u] \in Rc!Referring
    BY <1>5, <2>2 DEF Rc!Referring, Rc!PC
  <2>4. r_o[u].ptr # r_tail'.ptr
    BY <1>4, <2>3 DEF Rc!Refs, Rc!At
  <2> QED
    BY <2>1, <2>2, <2>4
<1>6. ASSUME NEW u \in Rc!Callers, r_pc'[u] = "p_data"
      PROVE  r_team' \cap RcConsumers = {} /\ r_data'[r_o'[u].ptr] # Null
  <2>1. u # t /\ r_pc[u] = "p_data" /\ r_o'[u] = r_o[u]
    BY <1>5, <1>6
  <2>2. CASE r_o[u].ptr # r_tail.ptr
    BY <1>0, <1>1, <2>1, <2>2, RcLateStays
  <2>3. CASE r_o[u].ptr = r_tail.ptr
    <3>1. r_data[r_tail.ptr] # Null
      BY RcTailFilled
    <3>2. {t, u} \subseteq r_team \cap RcProducers
      BY <1>3, <2>1 DEF Rc!CallsOK, Rc!InPush
    <3>3. Cardinality(r_team \cap RcProducers) # 1
      <4>1. IsFiniteSet(r_team \cap RcProducers)
        BY <1>1, RcConstantsHold, FS_Subset DEF Rc!TypeOK
      <4>2. Cardinality(r_team \cap RcProducers) = 1
                => \E x : r_team \cap RcProducers = {x}
        BY <4>1, FS_Singleton
      <4> QED
        BY <2>1, <3>2, <4>2
    <3>4. r_team \cap RcConsumers = {}
      BY <3>3, RcSetsAre DEF Rc!OneSided
    <3> QED
      BY <1>3, <2>1, <2>3, <3>1, <3>4
  <2> QED
    BY <2>2, <2>3
<1>7. \A u \in Rc!Callers : ~Rc!Stored(u)'
  BY <1>5 DEF Rc!Stored
<1> QED
  BY <1>3, <1>4, <1>5, <1>6, <1>7 DEF Rc!TailOK

\* So a step preserves what the node at tail holds, and all of it.
LEMMA RcStepValues ==
    ASSUME Rc!IInv, Rc!TypeOK', Rc!ValuesInv, Rc!OneSided, NEW t \in Rc!Callers, t \in r_team,
           r_team' = r_team, RcStepOf(t)
    PROVE  Rc!ValuesInv'
<1>1. Rc!TypeOK /\ Rc!LocalsOK /\ Rc!Shape
  BY DEF Rc!IInv
<1>2. Rc!CallsOK /\ Rc!Filled /\ Rc!TailOK /\ Rc!PopsOK
  BY DEF Rc!ValuesInv
<1>3. Rc!CallsOK' /\ Rc!Filled' /\ Rc!PopsOK'
  BY <1>1, <1>2, RcStepCallsOK, RcStepFilled, RcStepPopsOK
<1>4. Rc!TailOK'
  <2>1. r_tail'.ptr = r_tail.ptr \/ (Rc!SetNewTail(t) /\ r_tail.ptr = r_o[t].ptr)
    BY <1>1, RcStepEnds, RcHeadMoves DEF RcAdvanceHead
  <2> QED
    BY <1>2, <2>1, RcTailOKStays, RcTailOKStored, RcTailOKMoves
<1> QED
  BY <1>3, <1>4 DEF Rc!ValuesInv

-----------------------------------------------------------------------------
(* The abstract queue *)

\* What the callers are doing.
RcCalls == [t \in Rc!Callers |-> Rc!CallOf(t)]

\* A step that takes one thread from one call to another is a step of that caller.
LEMMA RcCallStep ==
    ASSUME NEW t \in Rc!Callers, NEW from, NEW to,
           Rc!CallOf(t) = from, Rc!CallOf(t)' = to,
           \A u \in Rc!Callers \ {t} : Rc!CallOf(u)' = Rc!CallOf(u)
    PROVE  Rc!Abstract!Step(t, from, to)
<1>1. RcCalls[t] = from
  BY DEF RcCalls
<1>2. RcCalls' = [RcCalls EXCEPT ![t] = to]
  BY DEF RcCalls
<1> QED
  BY <1>1, <1>2 DEF Rc!Abstract!Step, RcCalls

\* A step that changes neither the values nor any call is none of the queue.
LEMMA RcNoStep ==
    ASSUME Rc!Queued' = Rc!Queued, \A t \in Rc!Callers : Rc!CallOf(t)' = Rc!CallOf(t)
    PROVE  UNCHANGED Rc!Abstract!vars
BY DEF Rc!Abstract!vars

\* The others' calls stay, but of a push whose value tail moves past.
LEMMA RcOtherCall ==
    ASSUME Rc!IInv, Rc!CallsOK, Rc!TailOK, NEW t \in Rc!Callers, RcStepOf(t),
           NEW u \in Rc!Callers, u # t, r_tail'.ptr = r_tail.ptr \/ ~Rc!Stored(u)
    PROVE  Rc!CallOf(u)' = Rc!CallOf(u)
<1>1. Rc!TypeOK /\ Rc!LocalsOK /\ Rc!Shape /\ Rc!Folding
  BY DEF Rc!IInv
<1>2. RcOthers(t) /\ RcOthersCalls(t) /\ RcDataKept(t)
  BY <1>1, RcStepOthers, RcStepOthersCalls, RcStepData
<1>3. r_pc'[u] = r_pc[u] /\ r_o'[u] = r_o[u] /\ r_val'[u] = r_val[u] /\ r_res'[u] = r_res[u]
  BY <1>2 DEF RcOthers, RcOthersCalls
<1>4. ASSUME r_pc[u] \in {"p_link", "p_tail"}
      PROVE  r_tail'.ptr = r_o[u].ptr <=> r_tail.ptr = r_o[u].ptr
  <2>1. CASE r_tail'.ptr = r_tail.ptr
    BY <2>1
  <2>2. CASE r_tail'.ptr # r_tail.ptr
    <3>1. RcAdvanceTail(t)
      BY <1>1, <2>2, RcStepEnds, RcTailMoves, RcHeadMoves DEF RcAdvanceHead
    <3>2. r_tail'.ptr = Rc!After[r_tail.ptr] /\ r_tail'.ptr \in RcNodes
      BY <1>1, <3>1, RcAfterIs DEF RcAdvanceTail, Rc!TypeOK
    <3>3. \A x \in RcNodes : x = r_tail'.ptr => Rc!Refs(x) = {}
      BY <1>1, <3>2, RcListsAre DEF Rc!Shape
    <3>4. r_o[u].ptr # r_tail'.ptr
      BY <1>4, <3>2, <3>3 DEF Rc!Refs, Rc!At, Rc!Referring, Rc!PC
    <3>5. r_o[u].ptr # r_tail.ptr
      BY <1>4, <2>2 DEF Rc!Stored
    <3> QED
      BY <3>4, <3>5
  <2> QED
    BY <2>1, <2>2
<1>5. ASSUME r_pc[u] = "o_data"
      PROVE  r_data'[r_o[u].ptr] = r_data[r_o[u].ptr]
  <2>1. r_o[u].ptr \in RcNodes \ r_free
    BY <1>1, <1>5, RcHolds DEF Rc!Referring, Rc!PC
  <2>2. ~(r_pc[t] = "o_data" /\ r_o[t].ptr = r_o[u].ptr)
    BY <1>1, <1>5 DEF Rc!Folding, Rc!HeadFolding
  <2>3. ~(r_pc[t] = "p_data" /\ r_data[r_o[u].ptr] = Null /\ r_o[t].ptr = r_o[u].ptr)
    <3>1. r_o[u].ptr # r_tail.ptr
      BY <1>1, <1>5, RcListsAre DEF Rc!Folding, Rc!HeadFolding, Rc!Shape
    <3> QED
      BY <3>1 DEF Rc!TailOK
  <2> QED
    BY <1>2, <2>1, <2>2, <2>3 DEF RcDataKept
<1> QED
  BY <1>3, <1>4, <1>5 DEF Rc!CallOf

\* While head and tail stay, so do the values.
LEMMA RcQueuedStays ==
    ASSUME Rc!IInv, Rc!CallsOK, Rc!Filled, NEW t \in Rc!Callers, RcStepOf(t),
           r_head'.ptr = r_head.ptr, r_tail'.ptr = r_tail.ptr
    PROVE  Rc!Queued' = Rc!Queued
BY RcFrontKept, RcFrontStays

\* A call begins, returns, or finds the queue empty.
LEMMA RcCallRefines ==
    ASSUME Rc!IInv, Rc!ValuesInv, NEW t \in Rc!Callers,
           \/ \E v \in Values : Rc!PushStart(t, v)
           \/ Rc!PopStart(t) \/ Rc!PopEmpty(t) \/ Rc!PopFinish(t)
           \/ Rc!PopTestTail(t) /\ r_o[t].ptr = r_tail.ptr
    PROVE  Rc!Abstract!Next
<1>0. RcStepOf(t)
  BY DEF RcStepOf, Rc!Push, Rc!Pop
<1>1. /\ Rc!TypeOK /\ Rc!LocalsOK /\ Rc!Shape
      /\ Rc!CallsOK /\ Rc!Filled /\ Rc!TailOK /\ Rc!PopsOK
  BY DEF Rc!IInv, Rc!ValuesInv
<1>2. r_head'.ptr = r_head.ptr /\ r_tail'.ptr = r_tail.ptr
  BY DEF Rc!PushStart, Rc!PopStart, Rc!PopEmpty, Rc!PopFinish, Rc!PopTestTail
<1>3. Rc!Queued' = Rc!Queued
  BY <1>0, <1>1, <1>2, RcQueuedStays
<1>4. \A u \in Rc!Callers \ {t} : Rc!CallOf(u)' = Rc!CallOf(u)
  BY <1>0, <1>1, <1>2, RcOtherCall
<1>5. ASSUME NEW v \in Values, Rc!PushStart(t, v) PROVE Rc!Abstract!Next
  <2>1. r_pc[t] = "idle" /\ r_pc'[t] = "p_inc" /\ r_val'[t] = v
    BY <1>1, <1>5 DEF Rc!PushStart, Rc!Goto, Rc!TypeOK, Rc!CallsOK
  <2>2. Rc!CallOf(t) = <<"idle">> /\ Rc!CallOf(t)' = <<"push", v>>
    BY <2>1 DEF Rc!CallOf
  <2>3. Rc!Abstract!CallPush(t, v)
    BY <1>3, <1>4, <2>2, RcCallStep
    DEF Rc!Abstract!CallPush, Rc!Abstract!Idle, Rc!Abstract!Pushing
  <2> QED
    BY <2>3 DEF Rc!Abstract!Next
<1>6. CASE Rc!PopStart(t)
  <2>1. r_pc[t] = "idle" /\ r_pc'[t] = "o_inc"
    BY <1>1, <1>6 DEF Rc!PopStart, Rc!Goto, Rc!TypeOK
  <2>2. Rc!CallOf(t) = <<"idle">> /\ Rc!CallOf(t)' = <<"pop">>
    BY <2>1 DEF Rc!CallOf
  <2>3. Rc!Abstract!CallPop(t)
    BY <1>3, <1>4, <2>2, RcCallStep
    DEF Rc!Abstract!CallPop, Rc!Abstract!Idle, Rc!Abstract!Popping
  <2> QED
    BY <2>3 DEF Rc!Abstract!Next
<1>7. CASE Rc!PopEmpty(t) \/ Rc!PopFinish(t)
  <2>1. /\ r_pc'[t] = "idle"
        /\ r_pc[t] = "o_empty" \/ r_pc[t] = "o_free"
    BY <1>1, <1>7 DEF Rc!PopEmpty, Rc!PopFinish, Rc!Goto, Rc!TypeOK
  <2>2. /\ Rc!CallOf(t)' = <<"idle">>
        /\ Rc!CallOf(t) = <<"got", Null>> \/ Rc!CallOf(t) = <<"got", r_res[t]>>
    BY <2>1 DEF Rc!CallOf
  <2>3. r_res[t] \in Values \cup {Null}
    BY <1>1 DEF Rc!CallsOK
  <2>4. \/ Rc!Abstract!Step(t, <<"got", Null>>, <<"idle">>)
        \/ Rc!Abstract!Step(t, <<"got", r_res[t]>>, <<"idle">>)
    BY <1>4, <2>2, RcCallStep
  <2>5. Rc!Abstract!Return(t)
    BY <1>3, <2>3, <2>4
    DEF Rc!Abstract!Return, Rc!Abstract!Refused, Rc!Abstract!Got, Rc!Abstract!Idle
  <2> QED
    BY <2>5 DEF Rc!Abstract!Next
<1>8. CASE Rc!PopTestTail(t) /\ r_o[t].ptr = r_tail.ptr
  <2>1. r_pc[t] = "o_tail" /\ r_pc'[t] = "o_empty"
    BY <1>1, <1>8 DEF Rc!PopTestTail, Rc!TypeOK
  <2>2. r_head.ptr = r_tail.ptr
    BY <1>1, <1>8, <2>1, RcListsAre DEF Rc!PopsOK, Rc!Shape
  <2>3. Rc!Queued = <<>>
    BY <1>1, <2>2, RcFrontSize
  <2>4. Rc!CallOf(t) = <<"pop">> /\ Rc!CallOf(t)' = <<"got", Null>>
    BY <2>1 DEF Rc!CallOf
  <2>5. Rc!Abstract!PopEmpty(t)
    BY <1>3, <1>4, <2>3, <2>4, RcCallStep
    DEF Rc!Abstract!PopEmpty, Rc!Abstract!Popping, Rc!Abstract!Got
  <2> QED
    BY <2>5 DEF Rc!Abstract!Next
<1> QED
  BY <1>5, <1>6, <1>7, <1>8

\* Tail moves past the node of a push, whoever moves it: the value joins the queue.
LEMMA RcPushRefines ==
    ASSUME Rc!IInv, Rc!ValuesInv, NEW t \in Rc!Callers, Rc!SetNewTail(t),
           r_tail.ptr = r_o[t].ptr
    PROVE  Rc!Abstract!Next
<1>0. RcStepOf(t)
  BY DEF RcStepOf, Rc!Push
<1>1. /\ Rc!TypeOK /\ Rc!LocalsOK /\ Rc!Shape
      /\ Rc!CallsOK /\ Rc!Filled /\ Rc!TailOK
  BY DEF Rc!IInv, Rc!ValuesInv
<1>2. /\ RcAdvanceTail(t) /\ r_data' = r_data /\ r_val' = r_val
      /\ \/ r_pc[t] = "p_tail" /\ r_pc'[t] = "p_free"
         \/ r_pc[t] = "h_tail" /\ r_pc'[t] = "h_free"
  BY <1>1, RcTailMoves
<1>3. r_data[r_tail.ptr] # Null
  BY <1>1, RcTailFilled
<1>4. PICK w \in Rc!Callers : Rc!Stored(w)
  BY <1>1, <1>3 DEF Rc!TailOK
<1>5. r_data[r_tail.ptr] = r_val[w] /\ \A u \in Rc!Callers : Rc!Stored(u) => u = w
  BY <1>1, <1>4 DEF Rc!TailOK
<1>6. r_val[w] \in Values
  BY <1>1, <1>3, <1>5 DEF Rc!CallsOK
<1>7. r_tail'.ptr # r_tail.ptr
  <2>1. r_tail.ptr \in RcNodes
    BY <1>1 DEF Rc!TypeOK
  <2> QED
    BY <1>1, <1>2, <2>1, RcAfterIs, RcListsAre DEF RcAdvanceTail, Rc!Shape
<1>8. Rc!CallOf(w) = <<"push", r_val[w]>> /\ Rc!CallOf(w)' = <<"idle">>
  <2>1. r_pc[w] \in {"p_link", "p_tail"} /\ r_o[w].ptr = r_tail.ptr
    BY <1>4 DEF Rc!Stored
  <2>2. Rc!CallOf(w) = <<"push", r_val[w]>>
    BY <2>1 DEF Rc!CallOf
  <2>3. \/ r_pc'[w] = "p_free"
        \/ r_pc'[w] \in {"p_link", "p_tail"} /\ r_o'[w].ptr # r_tail'.ptr
    <3>1. CASE w = t
      BY <1>2, <2>1, <3>1
    <3>2. CASE w # t
      BY <1>0, <1>1, <1>7, <2>1, <3>2, RcStepOthers DEF RcOthers
    <3> QED
      BY <3>1, <3>2
  <2>4. Rc!CallOf(w)' = <<"idle">>
    BY <2>3 DEF Rc!CallOf
  <2> QED
    BY <2>2, <2>4
<1>9. ASSUME NEW u \in Rc!Callers \ {w} PROVE Rc!CallOf(u)' = Rc!CallOf(u)
  <2>1. CASE u = t
    <3>1. r_pc[t] = "h_tail" /\ r_pc'[t] = "h_free"
      BY <1>2, <1>5, <1>9, <2>1 DEF Rc!Stored
    <3> QED
      BY <1>2, <2>1, <3>1 DEF Rc!CallOf
  <2>2. CASE u # t
    BY <1>0, <1>1, <1>5, <1>9, <2>2, RcOtherCall
  <2> QED
    BY <2>1, <2>2
<1>10. Rc!Queued' = Append(Rc!Queued, r_val[w])
  BY <1>1, <1>2, <1>5, RcFrontGrows
<1>11. Len(Rc!Queued) < Rc!Cardinality(RcNodes)
  BY <1>1, RcFrontSize, RcSetsAre
<1>12. Rc!Abstract!Push(w, r_val[w])
  BY <1>8, <1>9, <1>10, <1>11, RcCallStep
  DEF Rc!Abstract!Push, Rc!Abstract!Pushing, Rc!Abstract!Idle
<1> QED
  BY <1>6, <1>12 DEF Rc!Abstract!Next

\* A pop moves head: the first value leaves the queue.
LEMMA RcPopRefines ==
    ASSUME Rc!IInv, Rc!ValuesInv, NEW t \in Rc!Callers, Rc!PopCas(t), r_head = r_o[t]
    PROVE  Rc!Abstract!Next
<1>0. RcStepOf(t)
  BY DEF RcStepOf, Rc!Pop
<1>1. /\ Rc!TypeOK /\ Rc!LocalsOK /\ Rc!Shape
      /\ Rc!CallsOK /\ Rc!Filled /\ Rc!TailOK
  BY DEF Rc!IInv, Rc!ValuesInv
<1>2. /\ RcAdvanceHead(t) /\ r_data' = r_data /\ r_o' = r_o
      /\ r_pc[t] = "o_cas" /\ r_pc'[t] = "o_data"
  BY <1>1, RcHeadMoves
<1>3. /\ Rc!Queued # <<>> /\ Head(Rc!Queued) = r_data[r_head.ptr]
      /\ Rc!Queued' = Tail(Rc!Queued)
  BY <1>1, <1>2, RcFrontDrops
<1>4. r_tail'.ptr = r_tail.ptr
  BY <1>2 DEF RcAdvanceHead
<1>5. \A u \in Rc!Callers \ {t} : Rc!CallOf(u)' = Rc!CallOf(u)
  BY <1>0, <1>1, <1>4, RcOtherCall
<1>6. Rc!CallOf(t) = <<"pop">> /\ Rc!CallOf(t)' = <<"got", Head(Rc!Queued)>>
  BY <1>2, <1>3 DEF Rc!CallOf
<1>7. Rc!Abstract!Pop(t)
  BY <1>3, <1>5, <1>6, RcCallStep
  DEF Rc!Abstract!Pop, Rc!Abstract!Popping, Rc!Abstract!Got
<1> QED
  BY <1>7 DEF Rc!Abstract!Next

\* The other steps of a push are nothing to its callers.
LEMMA RcPushHidden ==
    ASSUME Rc!IInv, Rc!ValuesInv, NEW t \in Rc!Callers,
           \/ Rc!PushIncrease(t) \/ Rc!PushData(t) \/ Rc!PushLink(t) \/ Rc!HelpLink(t)
           \/ Rc!PushFinish(t) \/ Rc!HelpFinish(t)
           \/ Rc!SetNewTail(t) /\ r_tail.ptr # r_o[t].ptr
    PROVE  Rc!CallOf(t)' = Rc!CallOf(t)
<1>1. Rc!TypeOK /\ Rc!LocalsOK /\ Rc!CallsOK /\ Rc!TailOK
  BY DEF Rc!IInv, Rc!ValuesInv
<1> USE DEF Rc!Goto
<1>2. CASE Rc!PushIncrease(t)
  <2>1. r_pc[t] = "p_inc" /\ r_pc'[t] = "p_data" /\ r_val' = r_val
    BY <1>1, <1>2 DEF Rc!PushIncrease, Rc!TypeOK
  <2> QED
    BY <2>1 DEF Rc!CallOf
<1>3. CASE RcStores(t)
  <2>1. /\ r_o[t].ptr = r_tail.ptr /\ r_pc[t] = "p_data" /\ r_pc'[t] = "p_link"
        /\ r_val' = r_val /\ r_o' = r_o /\ r_tail' = r_tail
    BY <1>1, <1>3, RcStoresIs
  <2> QED
    BY <2>1 DEF Rc!CallOf
<1>4. CASE Rc!PushData(t) /\ ~RcStores(t)
  <2>1. r_pc[t] = "p_data" /\ r_pc'[t] = "h_link" /\ r_val' = r_val
    BY <1>1, <1>4 DEF Rc!PushData, RcStores, Rc!TypeOK
  <2> QED
    BY <2>1 DEF Rc!CallOf
<1>5. CASE Rc!PushLink(t)
  <2>1. /\ r_pc[t] = "p_link" /\ r_pc'[t] = "p_tail" /\ r_val' = r_val
        /\ r_o' = r_o /\ r_tail' = r_tail
    BY <1>1, <1>5 DEF Rc!PushLink, Rc!TypeOK
  <2> QED
    BY <2>1 DEF Rc!CallOf
<1>6. CASE Rc!HelpLink(t)
  <2>1. r_pc[t] = "h_link" /\ r_pc'[t] = "h_tail" /\ r_val' = r_val
    BY <1>1, <1>6 DEF Rc!HelpLink, Rc!TypeOK
  <2> QED
    BY <2>1 DEF Rc!CallOf
<1>7. CASE Rc!PushFinish(t)
  <2>1. r_pc[t] \in {"p_free", "p_release"} /\ r_pc'[t] = "idle"
    BY <1>1, <1>7 DEF Rc!PushFinish, Rc!TypeOK
  <2> QED
    BY <2>1 DEF Rc!CallOf
<1>8. CASE Rc!HelpFinish(t)
  <2>1. r_pc[t] \in {"h_free", "h_release"} /\ r_pc'[t] = "p_inc" /\ r_val' = r_val
    BY <1>1, <1>8 DEF Rc!HelpFinish, Rc!TypeOK
  <2> QED
    BY <2>1 DEF Rc!CallOf
<1>9. CASE Rc!SetNewTail(t) /\ r_tail.ptr # r_o[t].ptr
  <2>1. /\ r_val' = r_val
        /\ \/ r_pc[t] = "p_tail" /\ r_pc'[t] = "p_release"
           \/ r_pc[t] = "h_tail" /\ r_pc'[t] = "h_release"
    BY <1>1, <1>9 DEF Rc!SetNewTail, Rc!TypeOK
  <2> QED
    BY <1>9, <2>1 DEF Rc!CallOf
<1> QED
  BY <1>2, <1>3, <1>4, <1>5, <1>6, <1>7, <1>8, <1>9

\* Nor are those of a pop.
LEMMA RcPopHidden ==
    ASSUME Rc!IInv, Rc!ValuesInv, NEW t \in Rc!Callers,
           \/ Rc!PopIncrease(t) \/ Rc!PopLoadNext(t) \/ Rc!PopRetry(t) \/ Rc!PopData(t)
           \/ Rc!PopTestTail(t) /\ r_o[t].ptr # r_tail.ptr
           \/ Rc!PopCas(t) /\ r_head # r_o[t]
    PROVE  Rc!CallOf(t)' = Rc!CallOf(t)
<1>1. Rc!TypeOK /\ Rc!CallsOK
  BY DEF Rc!IInv, Rc!ValuesInv
<1>2. CASE Rc!PopData(t)
  <2>1. r_pc[t] = "o_data" /\ r_pc'[t] = "o_free" /\ r_res'[t] = r_data[r_o[t].ptr]
    BY <1>1, <1>2 DEF Rc!PopData, Rc!Goto, Rc!TypeOK, Rc!CallsOK
  <2> QED
    BY <2>1 DEF Rc!CallOf
<1>3. CASE \/ Rc!PopIncrease(t) \/ Rc!PopLoadNext(t) \/ Rc!PopRetry(t)
           \/ Rc!PopTestTail(t) /\ r_o[t].ptr # r_tail.ptr
           \/ Rc!PopCas(t) /\ r_head # r_o[t]
  <2>1. /\ r_pc[t] \in {"o_inc", "o_tail", "o_next", "o_cas", "o_retry"}
        /\ r_pc'[t] \in {"o_inc", "o_tail", "o_next", "o_cas", "o_retry"}
    BY <1>1, <1>3
    DEF Rc!PopIncrease, Rc!PopLoadNext, Rc!PopRetry, Rc!PopTestTail, Rc!PopCas, Rc!Goto,
        Rc!TypeOK
  <2>2. \A p : p \in {"o_inc", "o_tail", "o_next", "o_cas", "o_retry"} =>
            p \notin {"p_inc", "p_data", "h_link", "h_tail", "h_free", "h_release",
                      "p_link", "p_tail"}
    OBVIOUS
  <2>3. Rc!CallOf(t) = <<"pop">>
    BY <2>1, <2>2 DEF Rc!CallOf
  <2>4. Rc!CallOf(t)' = <<"pop">>
    BY <2>1, <2>2 DEF Rc!CallOf
  <2> QED
    BY <2>3, <2>4
<1> QED
  BY <1>2, <1>3

\* Every step is a step of the queue, or none.
LEMMA RcStepRefines ==
    ASSUME Rc!IInv, Rc!ValuesInv, NEW t \in Rc!Callers, RcStepOf(t)
    PROVE  Rc!Abstract!Next \/ UNCHANGED Rc!Abstract!vars
<1>1. Rc!TypeOK /\ Rc!CallsOK /\ Rc!Filled /\ Rc!TailOK
  BY DEF Rc!IInv, Rc!ValuesInv
<1>2. ASSUME r_head'.ptr = r_head.ptr /\ r_tail'.ptr = r_tail.ptr, Rc!CallOf(t)' = Rc!CallOf(t)
      PROVE  UNCHANGED Rc!Abstract!vars
  <2>1. Rc!Queued' = Rc!Queued
    BY <1>1, <1>2, RcQueuedStays
  <2>2. \A u \in Rc!Callers : Rc!CallOf(u)' = Rc!CallOf(u)
    BY <1>1, <1>2, RcOtherCall
  <2> QED
    BY <2>1, <2>2, RcNoStep
<1>3. CASE Rc!Push(t)
  <2>1. CASE (Rc!SetNewTail(t) /\ r_tail.ptr = r_o[t].ptr) \/ \E v \in Values : Rc!PushStart(t, v)
    BY <2>1, RcPushRefines, RcCallRefines
  <2>2. CASE \/ Rc!PushIncrease(t) \/ Rc!PushData(t) \/ Rc!PushLink(t) \/ Rc!HelpLink(t)
             \/ Rc!PushFinish(t) \/ Rc!HelpFinish(t)
             \/ Rc!SetNewTail(t) /\ r_tail.ptr # r_o[t].ptr
    <3>1. r_head'.ptr = r_head.ptr /\ r_tail'.ptr = r_tail.ptr
      BY <1>1, <2>2
      DEF Rc!PushIncrease, Rc!PushData, Rc!PushLink, Rc!HelpLink, Rc!PushFinish, Rc!HelpFinish,
          Rc!SetNewTail, Rc!TypeOK
    <3> QED
      BY <1>2, <2>2, <3>1, RcPushHidden
  <2> QED
    BY <1>3, <2>1, <2>2 DEF Rc!Push
<1>4. CASE Rc!Pop(t)
  <2>1. CASE \/ Rc!PopStart(t) \/ Rc!PopEmpty(t) \/ Rc!PopFinish(t)
             \/ Rc!PopTestTail(t) /\ r_o[t].ptr = r_tail.ptr
             \/ Rc!PopCas(t) /\ r_head = r_o[t]
    BY <2>1, RcPopRefines, RcCallRefines
  <2>2. CASE \/ Rc!PopIncrease(t) \/ Rc!PopLoadNext(t) \/ Rc!PopRetry(t) \/ Rc!PopData(t)
             \/ Rc!PopTestTail(t) /\ r_o[t].ptr # r_tail.ptr
             \/ Rc!PopCas(t) /\ r_head # r_o[t]
    <3>1. r_head'.ptr = r_head.ptr /\ r_tail'.ptr = r_tail.ptr
      BY <1>1, <2>2
      DEF Rc!PopIncrease, Rc!PopLoadNext, Rc!PopRetry, Rc!PopData, Rc!PopTestTail, Rc!PopCas,
          Rc!TypeOK
    <3> QED
      BY <1>2, <2>2, <3>1, RcPopHidden
  <2> QED
    BY <1>4, <2>1, <2>2 DEF Rc!Pop
<1> QED
  BY <1>3, <1>4 DEF RcStepOf

-----------------------------------------------------------------------------
(* The start *)

\* A new queue is empty, and nobody has called.
LEMMA RcInitValues == Rc!Init => Rc!ValuesInv /\ Rc!Abstract!Init
<1> SUFFICES ASSUME Rc!Init PROVE Rc!ValuesInv /\ Rc!Abstract!Init
  OBVIOUS
<1>1. PICK d \in RcNodes : r_head = Rc!Counted(1, d) /\ r_tail = Rc!Counted(1, d)
  BY DEF Rc!Init
<1>2. r_head.ptr = d /\ r_tail.ptr = d
  BY <1>1 DEF Rc!Counted
<1>3. /\ \A x \in RcNodes : r_data[x] = Null
      /\ \A t \in Rc!Callers : r_pc[t] = "idle"
      /\ r_data \in [RcNodes -> Values \cup {Null}]
      /\ r_val \in [Rc!Callers -> Values \cup {Null}]
      /\ r_res \in [Rc!Callers -> Values \cup {Null}]
  BY DEF Rc!Init
<1>4. Rc!CallsOK
  BY <1>3 DEF Rc!CallsOK, Rc!InPush
<1>5. Rc!Front = <<>> /\ Rc!IsLinked(r_head.ptr, Rc!After, r_tail.ptr, RcNodes)
  <2>1. /\ <<>> \in Seq(RcNodes) /\ Chain(<<>>, r_head.ptr, Rc!After, r_tail.ptr)
        /\ Elements(<<>>) = {}
    BY <1>2 DEF Chain, Elements
  <2>2. /\ ListOf(r_head.ptr, Rc!After, r_tail.ptr, RcNodes) = <<>>
        /\ IsLinked(r_head.ptr, Rc!After, r_tail.ptr, RcNodes)
    BY <2>1, RcConstantsHold, UpToIs
  <2> QED
    BY <2>2, RcListsUpTo DEF Rc!Front
<1>6. Rc!Filled
  <2>1. Rc!Elements(Rc!Front) = {}
    BY <1>5 DEF Rc!Elements
  <2> QED
    BY <1>3, <1>5, <2>1 DEF Rc!Filled
<1>7. Rc!TailOK /\ Rc!PopsOK
  BY <1>1, <1>2, <1>3 DEF Rc!TailOK, Rc!PopsOK, Rc!Stored
<1>8. Rc!Queued = <<>>
  BY <1>5 DEF Rc!Queued
<1>9. \A t \in Rc!Callers : Rc!CallOf(t) = <<"idle">>
  BY <1>3 DEF Rc!CallOf
<1> QED
  BY <1>4, <1>6, <1>7, <1>8, <1>9 DEF Rc!ValuesInv, Rc!Abstract!Init, Rc!Abstract!Idle

\* What holds of every queue, and what holds where one thread pushes or nobody pops.
RcValuesSafe == Rc!IInv /\ (Rc!OneSided => Rc!ValuesInv)

\* A step of any thread preserves it, and is there a step of the abstract queue, or none.
LEMMA RcNextValues ==
    RcValuesSafe /\ [Rc!Next]_(Rc!vars)
        => RcValuesSafe' /\ (Rc!OneSided => [Rc!Abstract!Next]_(Rc!Abstract!vars))
<1> SUFFICES ASSUME RcValuesSafe, [Rc!Next]_(Rc!vars)
             PROVE  RcValuesSafe'
                    /\ (Rc!OneSided => Rc!Abstract!Next \/ UNCHANGED Rc!Abstract!vars)
  OBVIOUS
<1>1. Rc!IInv /\ Rc!IInv' /\ Rc!TypeOK /\ Rc!TypeOK'
  BY RcNextIInv DEF RcValuesSafe, Rc!IInv
<1>2. r_team' = r_team
  BY DEF Rc!Next, Rc!vars
<1>3. Rc!OneSided' = Rc!OneSided
  BY <1>2 DEF Rc!OneSided
<1>4. ASSUME Rc!OneSided
      PROVE  Rc!ValuesInv' /\ (Rc!Abstract!Next \/ UNCHANGED Rc!Abstract!vars)
  <2>1. Rc!ValuesInv
    BY <1>4 DEF RcValuesSafe
  <2>2. CASE Rc!Next
    <3>1. PICK t \in r_team : RcStepOf(t)
      BY <2>2 DEF Rc!Next, RcStepOf
    <3>2. t \in Rc!Callers
      BY <1>1 DEF Rc!TypeOK
    <3> QED
      BY <1>1, <1>2, <1>4, <2>1, <3>1, <3>2, RcStepValues, RcStepRefines
  <2>3. CASE UNCHANGED Rc!vars
    <3>1. /\ r_team' = r_team /\ r_head' = r_head /\ r_tail' = r_tail /\ r_data' = r_data
          /\ r_next' = r_next /\ r_pc' = r_pc /\ r_val' = r_val /\ r_nd' = r_nd
          /\ r_o' = r_o /\ r_res' = r_res
      BY <2>3 DEF Rc!vars, Rc!node
    <3>2. Rc!After' = Rc!After
      BY <3>1 DEF Rc!After
    <3>3. Rc!Live' = Rc!Live /\ Rc!Front' = Rc!Front
          /\ Rc!IsLinked(r_head.ptr, Rc!After, r_tail.ptr, RcNodes)'
               = Rc!IsLinked(r_head.ptr, Rc!After, r_tail.ptr, RcNodes)
      BY <3>1, <3>2, RcListsUpTo, RcListsAre DEF Rc!Live, Rc!Front
    <3>4. Rc!Queued' = Rc!Queued /\ Rc!Elements(Rc!Front)' = Rc!Elements(Rc!Front)
      BY <3>1, <3>3 DEF Rc!Queued, Rc!Elements
    <3>5. \A t \in Rc!Callers : Rc!CallOf(t)' = Rc!CallOf(t)
      BY <3>1 DEF Rc!CallOf
    <3>6. \A t \in Rc!Callers : Rc!Stored(t)' = Rc!Stored(t)
      BY <3>1 DEF Rc!Stored
    <3>7. Rc!CallsOK'
      BY <2>1, <3>1 DEF Rc!ValuesInv, Rc!CallsOK
    <3>8. Rc!Filled'
      BY <2>1, <3>1, <3>2, <3>3, <3>4 DEF Rc!ValuesInv, Rc!Filled
    <3>9. Rc!TailOK'
      BY <2>1, <3>1, <3>6 DEF Rc!ValuesInv, Rc!TailOK
    <3>10. Rc!PopsOK'
      BY <2>1, <3>1, <3>3 DEF Rc!ValuesInv, Rc!PopsOK
    <3> QED
      BY <3>4, <3>5, <3>7, <3>8, <3>9, <3>10, RcNoStep DEF Rc!ValuesInv
  <2> QED
    BY <2>2, <2>3
<1> QED
  BY <1>1, <1>3, <1>4 DEF RcValuesSafe

\* mpmc_refcount_queue, where one thread pushes or nobody pops: the nodes before tail
\* hold the values, and the one at tail that of the push that has stored there.
THEOREM RcValues == Rc!Spec => []RcValuesSafe
<1>1. Rc!Init => RcValuesSafe
  BY RcInitIInv, RcInitValues DEF RcValuesSafe
<1> QED
  BY <1>1, RcNextValues, PTL DEF Rc!Spec

\* There it is linearizable: each step is a step of the abstract queue, or none.
THEOREM RcLinearizable ==
    Rc!Spec => Rc!Abstract!Init
                   /\ [][Rc!OneSided => [Rc!Abstract!Next]_(Rc!Abstract!vars)]_(Rc!vars)
BY RcInitValues, RcNextValues, RcValues, PTL DEF Rc!Spec

-----------------------------------------------------------------------------
(* MCReclaim: the three side by side *)

\* A step of one leaves the others alone.
LEMMA StepOfEach ==
    [StackStep \/ QueueStep \/ RcStep \/ OnlyPushed]_<<vars, q_vars, r_vars>>
        => [Next]_vars /\ [Queue!Next]_(Queue!vars) /\ [Rc!Next]_(Rc!vars)
<1>1. UNCHANGED q_vars => UNCHANGED Queue!vars
  BY DEF q_vars, Queue!vars, Queue!queue, Queue!hazard, Queue!history
<1>2. UNCHANGED r_vars => UNCHANGED Rc!vars
  BY DEF r_vars, Rc!vars, Rc!node
<1> QED
  BY <1>1, <1>2 DEF StackStep, QueueStep, RcStep, OnlyPushed

\* A behaviour of MCReclaim is a behaviour of each.
THEOREM BehavesAsEach == ReclaimSpec => Spec /\ Queue!Spec /\ Rc!Spec
<1>1. ReclaimInit => Init /\ Queue!Init /\ Rc!Init
  BY DEF ReclaimInit
<1> QED
  BY <1>1, StepOfEach, PTL DEF ReclaimSpec, Spec, Queue!Spec, Rc!Spec

\* mpmc_lockfree_queue, where no other thread pushes or no thread pops (QueueOneSided):
\* no thread reads or writes a node that has been deleted.
THEOREM QueueMemorySafe == QueueOneSided => (ReclaimSpec => []QueueNoUseAfterFree)
BY QueueMemorySafety, BehavesAsEach, PTL DEF QueueNoUseAfterFree

\* mpmc_lockfree_queue, under the same condition: until a pop stores nullptr into head_,
\* no value is lost, duplicated or reordered.
THEOREM QueueKeepsOrder == QueueOneSided => (ReclaimSpec => []QueueFifoUntilNull)
BY QueueInOrder, BehavesAsEach, PTL DEF QueueFifoUntilNull

\* mpmc_lockfree_queue, under the same condition: every node is in one place, a record
\* that was checked protects its node, and from head_ the links lead to null.
THEOREM QueueInductive == QueueOneSided => (ReclaimSpec => []QueueIInv)
<1>1. QueueSafe => QueueIInv
  BY DEF QueueSafe, QueueIInv
<1> QED
  BY <1>1, QueueInvariance, BehavesAsEach, PTL

\* mpmc_refcount_queue, with any threads fewer than internal_count can count: no push or
\* pop reads or writes a node that has been deleted.
THEOREM RcMemorySafe == ReclaimSpec => []RcNoUseAfterFree
BY RcMemorySafety, BehavesAsEach, PTL DEF RcNoUseAfterFree

\* mpmc_refcount_queue: with no call running, the nodes that are not deleted are those
\* of the queue; at all times the counts of every node are exact; and where one thread
\* pushes or nobody pops, the nodes before tail hold the values.
THEOREM RcCountsExact == ReclaimSpec => []RcNothingLeaked
<1>1. Rc!NothingLeaked /\ RcValuesSafe => RcNothingLeaked
  BY DEF RcNothingLeaked, RcValuesSafe
<1> QED
  BY <1>1, RcAllDeleted, RcValues, BehavesAsEach, PTL

\* mpmc_refcount_queue: where one thread pushes or nobody pops, every step is a step of
\* the abstract queue, or none: no value is lost, popped twice or out of order, and pop
\* says "empty" only of an empty queue.
THEOREM RcOneSidedLinearizable == ReclaimSpec => RcOneSidedImplementsFifo
<1>1. UNCHANGED r_vars <=> UNCHANGED Rc!vars
  BY DEF r_vars, Rc!vars, Rc!node
<1> QED
  BY <1>1, RcLinearizable, BehavesAsEach, PTL DEF RcOneSidedImplementsFifo
=============================================================================
