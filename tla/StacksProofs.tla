---------------------------- MODULE StacksProofs ----------------------------
(***************************************************************************)
(* Proofs, for every value of the constants, about the stacks of MCStacks  *)
(* that count who looks at a node, and about MCStacks itself.              *)
(*                                                                         *)
(* First the stack with split reference counts (RefCountStack), then the   *)
(* one with a count of the threads in pop (ThreadCountStack, Tc! in        *)
(* MCStacks); the proofs about the lists are in LockedListProofs, which    *)
(* MCStacks instantiates.  Then MCStacks: its behaviours are behaviours of *)
(* each, so what is proved of them holds of it.                            *)
(***************************************************************************)
EXTENDS MCStacks, LinkedListTheorems

-----------------------------------------------------------------------------
(* RefCountStack: no pop touches a deleted node, every node popped is      *)
(* deleted in the end, and the stack is linearizable.                      *)

\* The two names of the elements of a sequence.
LEMMA ToSetElements ==
    ASSUME NEW S, NEW c \in Seq(S)
    PROVE  ToSet(c) = Elements(c)
BY DEF ToSet, Elements

\* The shape of the stack.
LEMMA StackShape ==
    ASSUME ConstantsAssumption, TypeOK, Linked
    PROVE  /\ InStack \subseteq Nodes
           /\ head.ptr \in InStack \cup {Null}
           /\ StackNodes = <<>> <=> head.ptr = Null
           /\ \A m \in InStack :
                /\ next[m].ptr \in InStack \cup {Null}
                /\ next[m].ptr # head.ptr
                /\ \A l \in InStack :
                    l # m => next[l].ptr = Null \/ next[l].ptr # next[m].ptr
<1>1. InStack = Elements(StackNodes)
  BY ToSetElements DEF InStack, Linked
<1>2. StackNodes \in Seq(Nodes) /\ Chain(StackNodes, head.ptr, Ptrs, Null)
  BY DEF Linked
<1>3. Null \notin Nodes
  BY DEF ConstantsAssumption
<1>4. /\ Elements(StackNodes) \subseteq Nodes
      /\ head.ptr \in Elements(StackNodes) \cup {Null}
      /\ StackNodes = <<>> <=> head.ptr = Null
      /\ \A m \in Elements(StackNodes) :
            /\ Ptrs[m] \in Elements(StackNodes) \cup {Null}
            /\ Ptrs[m] # head.ptr
            /\ \A l \in Elements(StackNodes) :
                l # m => Ptrs[l] = Null \/ Ptrs[l] # Ptrs[m]
  BY <1>2, <1>3, ChainShape
<1>5. \A m \in InStack : m \in Nodes /\ Ptrs[m] = next[m].ptr
  BY <1>1, <1>4 DEF Ptrs
<1> QED
  BY <1>1, <1>4, <1>5

\* A step that leaves the links and the pointer to the top alone.
LEMMA SameList ==
    ASSUME head'.ptr = head.ptr, next' = next
    PROVE  StackNodes' = StackNodes /\ InStack' = InStack /\ (Linked => Linked')
<1>1. Ptrs' = Ptrs
  BY DEF Ptrs
<1>2. StackNodes' = StackNodes
  BY <1>1 DEF StackNodes
<1> QED
  BY <1>1, <1>2 DEF InStack, Linked

\* A push puts its node on top.
LEMMA PushList ==
    ASSUME ConstantsAssumption, TypeOK, Linked, NEW n \in Nodes \ InStack,
           next' = [next EXCEPT ![n] = head], head'.ptr = n
    PROVE  /\ StackNodes' = <<n>> \o StackNodes
           /\ InStack' = InStack \cup {n}
           /\ Linked'
<1>1. InStack = Elements(StackNodes)
  BY ToSetElements DEF InStack, Linked
<1>2. StackNodes \in Seq(Nodes) /\ Chain(StackNodes, head.ptr, Ptrs, Null)
  BY DEF Linked
<1>3. Ptrs'[n] = head.ptr /\ \A m \in Elements(StackNodes) : Ptrs'[m] = Ptrs[m]
  BY <1>1, StackShape DEF Ptrs, TypeOK
<1> DEFINE d == <<n>> \o StackNodes
<1>4. d \in Seq(Nodes) /\ Chain(d, n, Ptrs', Null)
          /\ Elements(d) = Elements(StackNodes) \cup {n}
  BY <1>1, <1>2, <1>3, ChainPush
<1> HIDE DEF d
<1>5. StackNodes' = d
  BY <1>4, ReachedIs DEF StackNodes, ConstantsAssumption
<1>6. InStack' = Elements(d)
  BY <1>4, <1>5, ToSetElements DEF InStack
<1>7. Linked'
  BY <1>4, <1>5 DEF Linked
<1> QED
  BY <1>1, <1>4, <1>5, <1>6, <1>7 DEF d

\* A pop takes the top.
LEMMA PopList ==
    ASSUME ConstantsAssumption, TypeOK, Linked, head.ptr # Null,
           next' = next, head'.ptr = next[head.ptr].ptr
    PROVE  /\ StackNodes # <<>> /\ StackNodes[1] = head.ptr
           /\ StackNodes' = Tail(StackNodes)
           /\ InStack' = InStack \ {head.ptr}
           /\ Linked'
<1>1. InStack = Elements(StackNodes)
  BY ToSetElements DEF InStack, Linked
<1> DEFINE c == StackNodes
           h == head.ptr
           f == Ptrs
<1>2. c \in Seq(Nodes) /\ Chain(c, h, f, Null) /\ Null \notin Nodes /\ h # Null
  BY DEF Linked, ConstantsAssumption
<1> DEFINE d == Tail(c)
<1>3. /\ c # <<>> /\ c[1] = h /\ h \in Nodes
      /\ d \in Seq(Nodes)
      /\ Chain(d, f[h], f, Null)
      /\ Elements(d) = Elements(c) \ {h}
  <2> HIDE DEF c, h, f
  <2> QED
    BY <1>2, ChainPop
<1> HIDE DEF d
<1>4. Ptrs' = Ptrs /\ Ptrs[head.ptr] = head'.ptr
  BY <1>3 DEF Ptrs
<1>5. StackNodes' = d
  BY <1>2, <1>3, <1>4, ReachedIs DEF StackNodes, ConstantsAssumption
<1>6. InStack' = Elements(d)
  BY <1>3, <1>5, ToSetElements DEF InStack
<1>7. Linked'
  BY <1>3, <1>4, <1>5 DEF Linked
<1> QED
  BY <1>1, <1>3, <1>5, <1>6, <1>7 DEF d

-----------------------------------------------------------------------------
(* Types and locals *)

\* The steps of one thread.
Steps(t) == (\E v \in Values : PushAlloc(t, v)) \/ PushCas(t) \/ Pop(t)

\* What a step leaves alone of the other threads.
LEMMA OthersKept ==
    ASSUME TypeOK, NEW t \in Threads, Steps(t), NEW u \in Threads, u # t
    PROVE  /\ pc'[u] = pc[u] /\ new'[u] = new[u] /\ old_head'[u] = old_head[u]
           /\ nxt'[u] = nxt[u] /\ res'[u] = res[u]
BY DEF Steps, Pop, PushAlloc, PushCas, PopStart, IncreaseHeadCount, ReturnEmpty, ReadNext,
       PopCas, SwapData, FoldCount, ReleaseRef, Goto, TypeOK

\* The fields of a pair.
LEMMA PairFields ==
    ASSUME NEW p \in Pairs
    PROVE  p.ptr \in NodeOrNull /\ p.external_count \in Int
BY DEF Pairs

\* The fields of a counted pointer.
LEMMA CountedFields ==
    ASSUME NEW c \in Int, NEW n \in NodeOrNull
    PROVE  Counted(c, n) \in Pairs /\ Counted(c, n).ptr = n /\ Counted(c, n).external_count = c
BY DEF Pairs, Counted

\* The counted pointer that increase_head_count stores.
LEMMA IncreasedFields ==
    ASSUME NEW p \in Pairs
    PROVE  /\ [p EXCEPT !.external_count = @ + 1] \in Pairs
           /\ [p EXCEPT !.external_count = @ + 1].ptr = p.ptr
           /\ [p EXCEPT !.external_count = @ + 1].external_count = p.external_count + 1
BY DEF Pairs

\* Every step keeps the types.
LEMMA StepTypeOK ==
    ASSUME ConstantsAssumption, TypeOK, LocalsOK, NEW t \in Threads, Steps(t)
    PROVE  TypeOK'
<1>0. NoHead \in Pairs
  BY CountedFields DEF NoHead, NodeOrNull
<1> USE DEF TypeOK, PC, Goto, node
<1>1. ASSUME NEW v \in Values, PushAlloc(t, v)
      PROVE  TypeOK'
  BY <1>1 DEF PushAlloc, NodeOrNull, ValueOrNull
<1>2. CASE PushCas(t)
  <2>1. new[t] \in Nodes
    BY <1>2 DEF PushCas, LocalsOK, NodeOrNull
  <2>2. Counted(1, new[t]) \in Pairs
    BY <2>1, CountedFields DEF NodeOrNull
  <2>3. head' \in Pairs
    BY <1>2, <2>2 DEF PushCas
  <2>5. next' \in [Nodes -> Pairs]
    <3>1. next' = [next EXCEPT ![new[t]] = head]
      BY <1>2 DEF PushCas
    <3> QED
      BY <3>1
  <2>4. new' \in [Threads -> NodeOrNull] /\ pc' \in [Threads -> PC]
    BY <1>2 DEF PushCas, NodeOrNull
  <2> QED
    BY <1>2, <2>3, <2>4, <2>5 DEF PushCas
<1>3. CASE PopStart(t)
  BY <1>3 DEF PopStart
<1>n. CASE ReadNext(t)
  <2>1. old_head[t].ptr \in Nodes
    BY <1>n, PairFields DEF ReadNext, LocalsOK, Seeing, NodeOrNull
  <2> QED
    BY <1>n, <2>1 DEF ReadNext
<1>4. CASE IncreaseHeadCount(t)
  <2>1. [head EXCEPT !.external_count = @ + 1] \in Pairs
    BY IncreasedFields
  <2>2. head' \in Pairs
    BY <1>4, <2>1 DEF IncreaseHeadCount
  <2>3. old_head' \in [Threads -> Pairs]
    <3>1. old_head' = [old_head EXCEPT ![t] = head']
      BY <1>4 DEF IncreaseHeadCount
    <3> QED
      BY <2>2, <3>1
  <2>4. pc' \in [Threads -> PC]
    BY <1>4 DEF IncreaseHeadCount
  <2> QED
    BY <1>4, <2>2, <2>3, <2>4 DEF IncreaseHeadCount
<1>5. CASE ReturnEmpty(t)
  BY <1>0, <1>5 DEF ReturnEmpty
<1>p. CASE PopCas(t)
  <2>1. head' \in Pairs /\ pc' \in [Threads -> PC] /\ nxt' \in [Threads -> Pairs]
    BY <1>0, <1>p DEF PopCas
  <2> QED
    BY <1>p, <2>1 DEF PopCas
<1>6. CASE SwapData(t)
  <2>1. old_head[t].ptr \in Nodes
    BY <1>6, PairFields DEF SwapData, LocalsOK, Owning, NodeOrNull
  <2> QED
    BY <1>6, <2>1 DEF SwapData, ValueOrNull
<1>7. CASE FoldCount(t) \/ ReleaseRef(t)
  <2>1. old_head[t].ptr \in Nodes /\ old_head[t].external_count \in Int
    BY <1>7, PairFields DEF LocalsOK, FoldCount, ReleaseRef, Owning, Seeing, NodeOrNull
  <2>2. PICK k \in Int : AddInternal(old_head[t].ptr, k)
    <3>1. old_head[t].external_count - 2 \in Int /\ -1 \in Int
      BY <2>1
    <3> QED
      BY <1>7, <3>1 DEF FoldCount, ReleaseRef
  <2>3. internal_count' \in [Nodes -> Int] /\ free' \subseteq Nodes
    BY <2>1, <2>2 DEF AddInternal
  <2>4. pc' \in [Threads -> PC] /\ old_head' \in [Threads -> Pairs]
        /\ res' \in [Threads -> ValueOrNull]
    BY <1>0, <1>7 DEF FoldCount, ReleaseRef, ValueOrNull
  <2> QED
    BY <1>7, <2>3, <2>4 DEF FoldCount, ReleaseRef
<1> QED
  BY <1>1, <1>2, <1>3, <1>n, <1>4, <1>5, <1>p, <1>6, <1>7 DEF Steps, Pop


-----------------------------------------------------------------------------
(* What each step moves *)

\* The node t looks at with a reference of its own.
Sees(t, n) == pc[t] \in Seeing /\ old_head[t].ptr = n

\* Only t changes who looks at a node.
LEMMA RefsOf ==
    ASSUME TypeOK, NEW t \in Threads, Steps(t), NEW n
    PROVE  Refs(n)' = IF Sees(t, n)' THEN Refs(n) \cup {t} ELSE Refs(n) \ {t}
<1>1. \A u \in Threads : u # t => (Sees(u, n)' <=> Sees(u, n))
  BY OthersKept DEF Sees
<1>2. Refs(n) = {u \in Threads : Sees(u, n)} /\ Refs(n)' = {u \in Threads : Sees(u, n)'}
  BY DEF Refs, Sees
<1> QED
  BY <1>1, <1>2

\* A step that nobody comes to look at n in, or leaves it in.
LEMMA RefsKept ==
    ASSUME TypeOK, NEW t \in Threads, Steps(t), NEW n, Sees(t, n)' <=> Sees(t, n)
    PROVE  Refs(n)' = Refs(n) /\ Lookers(n)' = Lookers(n)
<1>1. t \in Refs(n) <=> Sees(t, n)
  BY DEF Refs, Sees
<1>2. Refs(n)' = Refs(n)
  BY <1>1, RefsOf
<1> QED
  BY <1>2, Zenon DEF Lookers

\* The number of those who look at a node.
LEMMA LookersType ==
    ASSUME ConstantsAssumption, NEW n
    PROVE  Lookers(n) \in Nat /\ (Lookers(n) = 0 <=> Refs(n) = {}) /\ IsFiniteSet(Refs(n))
<1>1. IsFiniteSet(Refs(n))
  <2>1. Refs(n) \subseteq Threads /\ IsFiniteSet(Threads)
    BY DEF Refs, ConstantsAssumption
  <2> QED
    BY <2>1, FS_Subset
<1>2. Cardinality(Refs(n)) \in Nat
  BY <1>1, FS_CardinalityType
<1>3. Cardinality(Refs(n)) = 0 <=> Refs(n) = {}
  BY <1>1, FS_EmptySet
<1> QED
  BY <1>1, <1>2, <1>3 DEF Lookers

\* t comes to look at n.
LEMMA LookersMore ==
    ASSUME ConstantsAssumption, TypeOK, NEW t \in Threads, Steps(t), NEW n,
           ~Sees(t, n), Sees(t, n)'
    PROVE  Lookers(n)' = Lookers(n) + 1 /\ Refs(n)' # {}
<1>1. Refs(n)' = Refs(n) \cup {t} /\ t \notin Refs(n)
  BY RefsOf DEF Refs, Sees
<1>2. Cardinality(Refs(n) \cup {t}) = Cardinality(Refs(n)) + 1
  BY <1>1, LookersType, FS_AddElement
<1>3. Cardinality(Refs(n)') = Cardinality(Refs(n) \cup {t})
  BY <1>1, Zenon
<1> QED
  BY <1>1, <1>2, <1>3 DEF Lookers

\* t leaves n.
LEMMA LookersLess ==
    ASSUME ConstantsAssumption, TypeOK, NEW t \in Threads, Steps(t), NEW n,
           Sees(t, n), ~Sees(t, n)'
    PROVE  /\ Refs(n) # {}
           /\ Lookers(n)' = Lookers(n) - 1
           /\ Lookers(n)' = 0 <=> Refs(n)' = {}
<1>1. Refs(n)' = Refs(n) \ {t} /\ t \in Refs(n)
  BY RefsOf DEF Refs, Sees
<1>2. Cardinality(Refs(n) \ {t}) = Cardinality(Refs(n)) - 1
  BY <1>1, LookersType, FS_RemoveElement
<1>3. Cardinality(Refs(n)') = Cardinality(Refs(n) \ {t})
  BY <1>1, Zenon
<1>4. IsFiniteSet(Refs(n) \ {t})
  <2>1. IsFiniteSet(Refs(n)) /\ Refs(n) \ {t} \subseteq Refs(n)
    BY LookersType
  <2> QED
    BY <2>1, FS_Subset
<1>5. Cardinality(Refs(n) \ {t}) = 0 <=> Refs(n) \ {t} = {}
  BY <1>4, FS_EmptySet
<1> QED
  BY <1>1, <1>2, <1>3, <1>5 DEF Lookers

\* What a thread holds changes with its own steps only.
LEMMA HeldKept ==
    ASSUME TypeOK, NEW t \in Threads, Steps(t), NEW u \in Threads, u # t
    PROVE  Held(u)' = Held(u)
BY OthersKept DEF Held

\* Nothing moves, and nobody comes to look at a node or leaves it.
Still(t) ==
    /\ head'.ptr = head.ptr /\ (head.ptr # Null => head' = head)
    /\ next' = next /\ internal_count' = internal_count /\ free' = free
    /\ Held(t)' = Held(t)
    /\ \A n \in Nodes : Sees(t, n)' <=> Sees(t, n)
    /\ pc'[t] # "push_cas" /\ (pc'[t] \in Owning
           => pc[t] \in Owning /\ old_head'[t] = old_head[t])

\* The steps that move no node and change no count.
LEMMA QuietIsStill ==
    ASSUME TypeOK, LocalsOK, NEW t \in Threads,
           \/ PopStart(t) \/ ReturnEmpty(t) \/ ReadNext(t) \/ SwapData(t)
           \/ IncreaseHeadCount(t) /\ head.ptr = Null
           \/ PopCas(t) /\ pc'[t] = "release"
    PROVE  Still(t)
<1> USE DEF Still, Held, Sees, Seeing, Owning, TypeOK, Goto, node
<1>1. CASE PopStart(t) \/ ReturnEmpty(t)
  BY <1>1 DEF PopStart, ReturnEmpty
<1>2. CASE ReadNext(t)
  BY <1>2 DEF ReadNext
<1>3. CASE SwapData(t)
  BY <1>3 DEF SwapData
<1>4. CASE IncreaseHeadCount(t) /\ head.ptr = Null
  <2>1. head'.ptr = Null
    BY <1>4, IncreasedFields DEF IncreaseHeadCount
  <2>2. pc[t] = "increase" /\ pc'[t] = "empty"
    BY <1>4 DEF IncreaseHeadCount
  <2> QED
    BY <1>4, <2>1, <2>2 DEF IncreaseHeadCount
<1>5. CASE PopCas(t) /\ pc'[t] = "release"
  BY <1>5 DEF PopCas
<1> QED
  BY <1>1, <1>2, <1>3, <1>4, <1>5

\* What the other steps move.  push takes a node from the heap,
LEMMA PushAllocMoves ==
    ASSUME TypeOK, NEW t \in Threads, NEW v \in Values, PushAlloc(t, v)
    PROVE  \E n \in free :
              /\ free' = free \ {n} /\ new'[t] = n /\ pc'[t] = "push_cas" /\ pc[t] = "idle"
              /\ Held(t) = {} /\ Held(t)' = {n}
              /\ data' = [data EXCEPT ![n] = v]
              /\ internal_count' = [internal_count EXCEPT ![n] = 0]
              /\ head' = head /\ next' = next
              /\ \A m \in Nodes : ~Sees(t, m) /\ ~Sees(t, m)'
BY DEF PushAlloc, TypeOK, Goto, Held, Sees, Seeing, Owning

\* puts it on top,
LEMMA PushCasMoves ==
    ASSUME TypeOK, LocalsOK, NEW t \in Threads, PushCas(t)
    PROVE  /\ new[t] \in Nodes /\ pc[t] = "push_cas" /\ pc'[t] = "idle"
           /\ Held(t) = {new[t]} /\ Held(t)' = {}
           /\ next' = [next EXCEPT ![new[t]] = head]
           /\ head'.ptr = new[t] /\ head'.external_count = 1
           /\ free' = free /\ internal_count' = internal_count /\ data' = data
           /\ \A m \in Nodes : ~Sees(t, m) /\ ~Sees(t, m)'
<1>1. new[t] \in Nodes /\ new[t] # Null
  BY DEF PushCas, Goto, TypeOK, LocalsOK, NodeOrNull
<1>2. head'.ptr = new[t] /\ head'.external_count = 1
  BY <1>1, CountedFields DEF PushCas, NodeOrNull
<1> QED
  BY <1>1, <1>2 DEF PushCas, TypeOK, Goto, Held, Sees, Seeing, Owning

\* a pop takes a reference to the top,
LEMMA IncreaseMoves ==
    ASSUME TypeOK, NEW t \in Threads, IncreaseHeadCount(t), head.ptr # Null
    PROVE  /\ pc[t] = "increase" /\ pc'[t] = "read_next"
           /\ Held(t) = {} /\ Held(t)' = {}
           /\ head'.ptr = head.ptr /\ head'.external_count = head.external_count + 1
           /\ old_head'[t] = head'
           /\ UNCHANGED <<next, data, internal_count, free>>
           /\ \A m \in Nodes : ~Sees(t, m) /\ (Sees(t, m)' <=> m = head.ptr)
<1>1. head'.ptr = head.ptr /\ head'.external_count = head.external_count + 1
  BY IncreasedFields DEF IncreaseHeadCount, TypeOK
<1>2. /\ pc[t] = "increase" /\ pc'[t] = "read_next" /\ old_head'[t] = head'
      /\ UNCHANGED <<next, data, internal_count, free>>
  BY DEF IncreaseHeadCount, TypeOK, node
<1> QED
  BY <1>1, <1>2 DEF Held, Sees, Seeing, Owning

\* takes the node off,
LEMMA PopCasMoves ==
    ASSUME TypeOK, LocalsOK, NEW t \in Threads, PopCas(t), pc'[t] = "swap"
    PROVE  /\ pc[t] = "pop_cas"
           /\ head = old_head[t] /\ old_head' = old_head /\ head.ptr \in Nodes
           /\ head' = next[head.ptr]
           /\ Held(t) = {} /\ Held(t)' = {head.ptr}
           /\ UNCHANGED <<next, data, internal_count, free>>
           /\ \A m \in Nodes : ~Sees(t, m)' /\ (Sees(t, m) <=> m = head.ptr)
<1>1. pc[t] = "pop_cas" /\ head = old_head[t] /\ head' = nxt[t]
  BY DEF PopCas, Goto, TypeOK
<1>2. old_head' = old_head /\ UNCHANGED <<next, data, internal_count, free>>
  BY DEF PopCas, node
<1>3. head.ptr \in Nodes /\ head' = next[head.ptr]
  BY <1>1, PairFields DEF LocalsOK, Seeing, TypeOK, NodeOrNull
<1> QED
  BY <1>1, <1>2, <1>3 DEF Held, Sees, Seeing, Owning

\* What fold and release do to a node: it is deleted when its count is zero.
LEMMA AddMoves ==
    ASSUME TypeOK, NEW n \in Nodes, NEW k \in Int, AddInternal(n, k)
    PROVE  /\ internal_count'[n] = internal_count[n] + k
           /\ \A m \in Nodes : m # n => internal_count'[m] = internal_count[m]
           /\ internal_count[n] + k = 0 => free' = free \cup {n}
           /\ internal_count[n] + k # 0 => free' = free
BY DEF AddInternal, TypeOK

\* folds the external count into the internal one,
LEMMA FoldMoves ==
    ASSUME TypeOK, LocalsOK, NEW t \in Threads, FoldCount(t)
    PROVE  /\ pc[t] = "fold" /\ pc'[t] = "idle"
           /\ old_head[t].ptr \in Nodes /\ old_head[t].external_count - 2 \in Int
           /\ AddInternal(old_head[t].ptr, old_head[t].external_count - 2)
           /\ Held(t) = {old_head[t].ptr} /\ Held(t)' = {}
           /\ UNCHANGED <<head, next, data>>
           /\ \A m \in Nodes : ~Sees(t, m) /\ ~Sees(t, m)'
<1>1. pc[t] = "fold" /\ pc'[t] = "idle" /\ UNCHANGED <<head, next, data>>
      /\ AddInternal(old_head[t].ptr, old_head[t].external_count - 2)
  BY DEF FoldCount, Goto, TypeOK
<1>2. old_head[t].ptr \in Nodes /\ old_head[t].external_count - 2 \in Int
  BY <1>1, PairFields DEF LocalsOK, Owning, TypeOK, NodeOrNull
<1> QED
  BY <1>1, <1>2 DEF Held, Sees, Seeing, Owning

\* or gives its reference up.
LEMMA ReleaseMoves ==
    ASSUME TypeOK, LocalsOK, NEW t \in Threads, ReleaseRef(t)
    PROVE  /\ pc[t] = "release" /\ pc'[t] = "increase"
           /\ old_head[t].ptr \in Nodes
           /\ AddInternal(old_head[t].ptr, -1)
           /\ Held(t) = {} /\ Held(t)' = {}
           /\ UNCHANGED <<head, next, data>>
           /\ \A m \in Nodes : ~Sees(t, m)' /\ (Sees(t, m) <=> m = old_head[t].ptr)
<1>1. pc[t] = "release" /\ pc'[t] = "increase" /\ UNCHANGED <<head, next, data>>
      /\ AddInternal(old_head[t].ptr, -1)
  BY DEF ReleaseRef, Goto, TypeOK
<1>2. old_head[t].ptr \in Nodes
  BY <1>1, PairFields DEF LocalsOK, Seeing, TypeOK, NodeOrNull
<1> QED
  BY <1>1, <1>2 DEF Held, Sees, Seeing, Owning


\* The steps, by what they move.
LEMMA StepCases ==
    ASSUME TypeOK, LocalsOK, NEW t \in Threads, Steps(t)
    PROVE  \/ Still(t)
           \/ \E v \in Values : PushAlloc(t, v)
           \/ PushCas(t)
           \/ IncreaseHeadCount(t) /\ head.ptr # Null
           \/ PopCas(t) /\ pc'[t] = "swap"
           \/ FoldCount(t)
           \/ ReleaseRef(t)
<1>1. PopCas(t) => pc'[t] \in {"swap", "release"}
  BY DEF PopCas, Goto, TypeOK
<1> QED
  BY <1>1, QuietIsStill DEF Steps, Pop

-----------------------------------------------------------------------------
(* Every step keeps the invariant *)

Inv == Linked /\ Placed /\ Counts

\* A node that a step does not concern.
Untouched(n) ==
    /\ n \in free' <=> n \in free
    /\ n \in InStack' <=> n \in InStack
    /\ \A t \in Threads : n \in Held(t)' <=> n \in Held(t)
    /\ internal_count'[n] = internal_count[n]
    /\ Refs(n)' = Refs(n) /\ Lookers(n)' = Lookers(n)
    /\ head'.ptr = n => Balance(n, head'.external_count - 1)
    /\ \A m \in InStack' : next'[m].ptr = n => Balance(n, next'[m].external_count - 1)
    /\ \A t \in Threads : n \in Held(t) =>
        /\ pc[t] = "push_cas" <=> pc'[t] = "push_cas"
        /\ pc[t] # "push_cas" => old_head'[t] = old_head[t]

\* A node of which nothing changes keeps its counts.
LEMMA UntouchedCounts ==
    ASSUME NEW n \in Nodes, CountsOf(n), Untouched(n)
    PROVE  CountsOf(n)'
BY DEF CountsOf, Untouched, Balance, Folded

\* A step that moves nothing preserves the invariant.
LEMMA StillInv ==
    ASSUME ConstantsAssumption, TypeOK, Inv, NEW t \in Threads, Steps(t), Still(t)
    PROVE  Inv'
<1>1. InStack' = InStack /\ Linked'
  BY SameList DEF Still, Inv
<1>2. \A u \in Threads : Held(u)' = Held(u)
  BY HeldKept DEF Still
<1>3. \A n \in Nodes : Refs(n)' = Refs(n) /\ Lookers(n)' = Lookers(n)
  BY RefsKept DEF Still
<1>4. Placed'
  BY <1>1, <1>2 DEF Still, Inv, Placed
<1>5. ASSUME NEW n \in Nodes
      PROVE  CountsOf(n)'
  <2>1. \A u \in Threads : n \in Held(u) =>
            /\ pc[u] = "push_cas" <=> pc'[u] = "push_cas"
            /\ pc[u] # "push_cas" => old_head'[u] = old_head[u]
    BY OthersKept DEF Still, Held, Owning
  <2>2. CountsOf(n)
    BY DEF Inv, Counts
  <2>3. Untouched(n)
    BY <1>1, <1>2, <1>3, <2>1, <2>2, StackShape
    DEF Untouched, Still, CountsOf, Inv, ConstantsAssumption
  <2> QED
    BY <2>2, <2>3, UntouchedCounts
<1> QED
  BY <1>1, <1>4, <1>5 DEF Inv, Counts

\* The other nodes: what a step of t has to do with them.
Elsewhere(t, n) ==
    /\ n \in free' <=> n \in free
    /\ n \in InStack' <=> n \in InStack
    /\ n \notin Held(t) /\ n \notin Held(t)'
    /\ internal_count'[n] = internal_count[n]
    /\ Sees(t, n)' <=> Sees(t, n)
    /\ head'.ptr = n => Balance(n, head'.external_count - 1)
    /\ \A m \in InStack' : next'[m].ptr = n => Balance(n, next'[m].external_count - 1)

\* A step on one node keeps the counts of the others.
LEMMA ElsewhereCounts ==
    ASSUME ConstantsAssumption, TypeOK, Inv, NEW t \in Threads, Steps(t),
           NEW n \in Nodes, Elsewhere(t, n)
    PROVE  CountsOf(n)'
<1>1. Refs(n)' = Refs(n) /\ Lookers(n)' = Lookers(n)
  BY RefsKept DEF Elsewhere
<1>2. \A u \in Threads : n \in Held(u)' <=> n \in Held(u)
  BY HeldKept DEF Elsewhere
<1>3. \A u \in Threads : n \in Held(u) =>
            /\ pc[u] = "push_cas" <=> pc'[u] = "push_cas"
            /\ pc[u] # "push_cas" => old_head'[u] = old_head[u]
  BY OthersKept DEF Elsewhere
<1>4. Untouched(n)
  BY <1>1, <1>2, <1>3 DEF Untouched, Elsewhere
<1> QED
  BY <1>4, UntouchedCounts DEF Inv, Counts

\* The other steps preserve it too, one by one.
LEMMA PushAllocInv ==
    ASSUME ConstantsAssumption, TypeOK, LocalsOK, Inv, NEW t \in Threads, Steps(t),
           NEW v \in Values, PushAlloc(t, v)
    PROVE  Inv'
<1>1. PICK n \in free :
        /\ free' = free \ {n} /\ new'[t] = n /\ pc'[t] = "push_cas" /\ pc[t] = "idle"
        /\ Held(t) = {} /\ Held(t)' = {n}
        /\ internal_count' = [internal_count EXCEPT ![n] = 0]
        /\ head' = head /\ next' = next
        /\ \A m \in Nodes : ~Sees(t, m) /\ ~Sees(t, m)'
  BY PushAllocMoves
<1>2. InStack' = InStack /\ Linked'
  BY <1>1, SameList DEF Inv
<1>3. n \in Nodes /\ n \notin InStack
  BY DEF Inv, Placed, TypeOK
<1>4. \A u \in Threads : u # t => Held(u)' = Held(u) /\ n \notin Held(u)
  BY HeldKept DEF Inv, Placed
<1>5. Placed'
  BY <1>1, <1>2, <1>3, <1>4 DEF Inv, Placed
<1>6. ASSUME NEW m \in Nodes, m # n
      PROVE  CountsOf(m)'
  <2>1. Elsewhere(t, m)
    BY <1>1, <1>2, <1>6 DEF Elsewhere, Inv, Counts, CountsOf, TypeOK
  <2> QED
    BY <2>1, ElsewhereCounts
<1>7. CountsOf(n)'
  <2>1. Refs(n)' = {}
    BY <1>1, <1>3, RefsKept DEF Inv, Counts, CountsOf
  <2>2. internal_count'[n] = 0
    BY <1>1, <1>3 DEF TypeOK
  <2>3. head'.ptr # n /\ \A m \in InStack' : next'[m].ptr # n
    BY <1>1, <1>2, <1>3, StackShape DEF Inv, ConstantsAssumption
  <2>4. \A u \in Threads : n \in Held(u)' => pc'[u] = "push_cas"
    BY <1>1, <1>4
  <2>5. n \notin free' /\ ~Folded(n)'
    BY <1>1 DEF Folded
  <2> QED
    BY <2>1, <2>2, <2>3, <2>4, <2>5 DEF CountsOf
<1> QED
  BY <1>2, <1>5, <1>6, <1>7 DEF Inv, Counts

\* The new node comes with one external reference, the one of head.
LEMMA PushCasInv ==
    ASSUME ConstantsAssumption, TypeOK, LocalsOK, Inv, NEW t \in Threads, Steps(t),
           PushCas(t)
    PROVE  Inv'
<1>n. PICK n : n = new[t]
  OBVIOUS
<1>1. /\ n \in Nodes /\ pc[t] = "push_cas" /\ pc'[t] = "idle"
      /\ Held(t) = {n} /\ Held(t)' = {}
      /\ next' = [next EXCEPT ![n] = head]
      /\ head'.ptr = n /\ head'.external_count = 1
      /\ free' = free /\ internal_count' = internal_count
      /\ \A m \in Nodes : ~Sees(t, m) /\ ~Sees(t, m)'
  BY <1>n, PushCasMoves
<1>2. n \notin InStack /\ n \notin free
  BY <1>1 DEF Inv, Placed
<1>3. InStack' = InStack \cup {n} /\ Linked'
  BY <1>1, <1>2, PushList DEF Inv
<1>4. \A u \in Threads : u # t => Held(u)' = Held(u) /\ n \notin Held(u)
  BY <1>1, HeldKept DEF Inv, Placed
<1>5. Placed'
  BY <1>1, <1>2, <1>3, <1>4 DEF Inv, Placed
<1>6. next'[n] = head /\ \A m \in InStack : next'[m] = next[m]
  BY <1>1, <1>2, StackShape DEF Inv, TypeOK
<1>7. ASSUME NEW m \in Nodes, m # n
      PROVE  CountsOf(m)'
  <2>1. Elsewhere(t, m)
    BY <1>1, <1>3, <1>6, <1>7 DEF Elsewhere, Inv, Counts, CountsOf
  <2> QED
    BY <2>1, ElsewhereCounts
<1>8. CountsOf(n)'
  <2>1. Refs(n) = {} /\ internal_count[n] = 0
    BY <1>1 DEF Inv, Counts, CountsOf
  <2>2. Refs(n)' = {} /\ Lookers(n)' = 0
    BY <1>1, <2>1, RefsKept, LookersType
  <2>3. \A m \in InStack' : next'[m].ptr # n
    BY <1>1, <1>2, <1>3, <1>6, StackShape DEF Inv, ConstantsAssumption
  <2>4. \A u \in Threads : n \notin Held(u)'
    BY <1>1, <1>4
  <2>5. n \notin free' /\ ~Folded(n)'
    BY <1>1, <1>2, <1>3 DEF Folded
  <2>6. Balance(n, head.external_count - 1)'
    BY <1>1, <2>1, <2>2 DEF Balance
  <2> QED
    BY <1>1, <2>1, <2>2, <2>3, <2>4, <2>5, <2>6 DEF CountsOf
<1> QED
  BY <1>3, <1>5, <1>7, <1>8 DEF Inv, Counts

\* One more external reference, one more pop that holds it.
LEMMA IncreaseInv ==
    ASSUME ConstantsAssumption, TypeOK, LocalsOK, Inv, NEW t \in Threads, Steps(t),
           IncreaseHeadCount(t), head.ptr # Null
    PROVE  Inv'
<1>n. PICK n : n = head.ptr
  OBVIOUS
<1>1. /\ pc[t] = "increase" /\ pc'[t] = "read_next"
      /\ Held(t) = {} /\ Held(t)' = {}
      /\ head'.ptr = n /\ head'.external_count = head.external_count + 1
      /\ UNCHANGED <<next, internal_count, free>>
      /\ \A m \in Nodes : ~Sees(t, m) /\ (Sees(t, m)' <=> m = n)
  BY <1>n, IncreaseMoves
<1>2. InStack' = InStack /\ Linked'
  BY <1>n, <1>1, SameList DEF Inv
<1>3. n \in Nodes /\ n \in InStack /\ n \notin free
  BY <1>n, StackShape DEF Inv, Placed
<1>4. \A u \in Threads : Held(u)' = Held(u) /\ n \notin Held(u)
  BY <1>1, <1>3, HeldKept DEF Inv, Placed
<1>5. Placed'
  BY <1>1, <1>2, <1>4 DEF Inv, Placed
<1>6. ASSUME NEW m \in Nodes, m # n
      PROVE  CountsOf(m)'
  <2>1. Elsewhere(t, m)
    BY <1>1, <1>2, <1>6 DEF Elsewhere, Inv, Counts, CountsOf
  <2> QED
    BY <2>1, ElsewhereCounts
<1>7. CountsOf(n)'
  <2>1. Lookers(n)' = Lookers(n) + 1
    BY <1>1, <1>3, LookersMore
  <2>2. /\ internal_count[n] + (head.external_count - 1) = Lookers(n)
        /\ internal_count[n] <= 0 /\ internal_count[n] \in Int
    BY <1>n, <1>3 DEF Inv, Counts, CountsOf, Balance, Folded, TypeOK
  <2>3. head.external_count \in Int
    BY PairFields DEF TypeOK
  <2>4. Balance(n, head.external_count - 1)'
    BY <1>1, <2>1, <2>2, <2>3 DEF Balance
  <2>5. \A m \in InStack' : next'[m].ptr # n
    BY <1>n, <1>1, <1>2, StackShape DEF Inv
  <2>6. n \notin free' /\ ~Folded(n)'
    BY <1>1, <1>2, <1>3 DEF Folded
  <2> QED
    BY <1>1, <1>4, <2>2, <2>4, <2>5, <2>6 DEF CountsOf
<1> QED
  BY <1>2, <1>5, <1>6, <1>7 DEF Inv, Counts

\* The node leaves the stack with the references that others hold.
LEMMA PopCasInv ==
    ASSUME ConstantsAssumption, TypeOK, LocalsOK, Inv, NEW t \in Threads, Steps(t),
           PopCas(t), pc'[t] = "swap"
    PROVE  Inv'
<1>n. PICK n : n = head.ptr
  OBVIOUS
<1>1. /\ pc[t] = "pop_cas"
      /\ head = old_head[t] /\ old_head' = old_head /\ n \in Nodes
      /\ head' = next[n]
      /\ Held(t) = {} /\ Held(t)' = {n}
      /\ UNCHANGED <<next, internal_count, free>>
      /\ \A m \in Nodes : ~Sees(t, m)' /\ (Sees(t, m) <=> m = n)
  BY <1>n, PopCasMoves
<1>2. head.ptr # Null
  BY <1>n, <1>1 DEF ConstantsAssumption
<1>3. InStack' = InStack \ {n} /\ Linked'
  BY <1>n, <1>1, <1>2, PopList DEF Inv
<1>4. n \in InStack /\ n \notin free
  BY <1>n, <1>2, StackShape DEF Inv, Placed
<1>5. \A u \in Threads : (u # t => Held(u)' = Held(u)) /\ n \notin Held(u)
  BY <1>1, <1>4, HeldKept DEF Inv, Placed
<1>6. Placed'
  BY <1>1, <1>3, <1>4, <1>5 DEF Inv, Placed
<1>7. ASSUME NEW m \in Nodes, m # n
      PROVE  CountsOf(m)'
  <2>1. Elsewhere(t, m)
    BY <1>1, <1>3, <1>4, <1>7 DEF Elsewhere, Inv, Counts, CountsOf
  <2> QED
    BY <2>1, ElsewhereCounts
<1>8. CountsOf(n)'
  <2>1. Lookers(n)' = Lookers(n) - 1
    BY <1>1, LookersLess
  <2>2. /\ internal_count[n] + (head.external_count - 1) = Lookers(n)
        /\ internal_count[n] <= 0 /\ internal_count[n] \in Int
    BY <1>n, <1>1, <1>4 DEF Inv, Counts, CountsOf, Balance, Folded, TypeOK
  <2>3. head.external_count \in Int /\ Lookers(n) \in Nat
    BY PairFields, LookersType DEF TypeOK
  <2>4. internal_count'[n] + (old_head'[t].external_count - 2) = Lookers(n)'
    BY <1>1, <2>1, <2>2, <2>3
  <2>5. \A m \in InStack' : next'[m].ptr # n
    BY <1>n, <1>1, <1>3, StackShape DEF Inv
  <2>6. n \notin free' /\ ~Folded(n)' /\ head'.ptr # n
    BY <1>n, <1>1, <1>4, StackShape DEF Folded, Inv
  <2>7. \A u \in Threads : n \in Held(u)' => u = t
    BY <1>5
  <2> QED
    BY <1>1, <2>2, <2>4, <2>5, <2>6, <2>7 DEF CountsOf, Balance
<1> QED
  BY <1>3, <1>6, <1>7, <1>8 DEF Inv, Counts

\* The references of the head and of this pop go: the other ones are counted.
LEMMA FoldInv ==
    ASSUME ConstantsAssumption, TypeOK, LocalsOK, Inv, NEW t \in Threads, Steps(t),
           FoldCount(t)
    PROVE  Inv'
<1>n. PICK n, k : n = old_head[t].ptr /\ k = old_head[t].external_count - 2
  OBVIOUS
<1>1. /\ pc[t] = "fold" /\ pc'[t] = "idle"
      /\ n \in Nodes /\ k \in Int
      /\ AddInternal(n, k)
      /\ Held(t) = {n} /\ Held(t)' = {}
      /\ UNCHANGED <<head, next>>
      /\ \A m \in Nodes : ~Sees(t, m) /\ ~Sees(t, m)'
  BY <1>n, FoldMoves
<1>2. /\ internal_count'[n] = internal_count[n] + k
      /\ \A m \in Nodes : m # n => internal_count'[m] = internal_count[m]
      /\ internal_count[n] + k = 0 => free' = free \cup {n}
      /\ internal_count[n] + k # 0 => free' = free
  BY <1>1, AddMoves
<1>3. InStack' = InStack /\ Linked'
  BY <1>1, SameList DEF Inv
<1>4. n \notin InStack /\ n \notin free
  BY <1>1 DEF Inv, Placed
<1>5. \A u \in Threads : u # t => Held(u)' = Held(u) /\ n \notin Held(u)
  BY <1>1, HeldKept DEF Inv, Placed
<1>6. Placed'
  BY <1>1, <1>2, <1>3, <1>4, <1>5 DEF Inv, Placed
<1>7. ASSUME NEW m \in Nodes, m # n
      PROVE  CountsOf(m)'
  <2>1. Elsewhere(t, m)
    BY <1>1, <1>2, <1>3, <1>7 DEF Elsewhere, Inv, Counts, CountsOf
  <2> QED
    BY <2>1, ElsewhereCounts
<1>8. CountsOf(n)'
  <2>1. Refs(n)' = Refs(n) /\ Lookers(n)' = Lookers(n)
    BY <1>1, RefsKept
  <2>2. internal_count[n] + k = Lookers(n)
    BY <1>n, <1>1 DEF Inv, Counts, CountsOf, Balance
  <2>3. Lookers(n) \in Nat /\ (Lookers(n) = 0 <=> Refs(n) = {})
    BY LookersType
  <2>4. head'.ptr # n /\ (\A m \in InStack' : next'[m].ptr # n)
            /\ \A u \in Threads : n \notin Held(u)'
    BY <1>1, <1>3, <1>4, <1>5, StackShape DEF Inv, ConstantsAssumption
  <2>5. CASE Lookers(n) = 0
    <3>1. n \in free' /\ ~Folded(n)' /\ Refs(n)' = {}
      BY <1>2, <2>1, <2>2, <2>3, <2>5 DEF Folded
    <3> QED
      BY <2>4, <3>1 DEF CountsOf
  <2>6. CASE Lookers(n) # 0
    <3>1. n \notin free' /\ Folded(n)' /\ Refs(n)' # {}
      BY <1>2, <1>3, <1>4, <2>1, <2>2, <2>3, <2>4, <2>6 DEF Folded
    <3>2. Balance(n, 0)'
      BY <1>2, <2>1, <2>2, <2>3 DEF Balance
    <3> QED
      BY <2>4, <3>1, <3>2 DEF CountsOf
  <2> QED
    BY <2>5, <2>6
<1> QED
  BY <1>3, <1>6, <1>7, <1>8 DEF Inv, Counts

\* The last one to give its reference up deletes the node.
LEMMA ReleaseInv ==
    ASSUME ConstantsAssumption, TypeOK, LocalsOK, Inv, NEW t \in Threads, Steps(t),
           ReleaseRef(t)
    PROVE  Inv'
<1>n. PICK n : n = old_head[t].ptr
  OBVIOUS
<1>1. /\ pc[t] = "release" /\ pc'[t] = "increase"
      /\ n \in Nodes
      /\ AddInternal(n, -1)
      /\ Held(t) = {} /\ Held(t)' = {}
      /\ UNCHANGED <<head, next>>
      /\ \A m \in Nodes : ~Sees(t, m)' /\ (Sees(t, m) <=> m = n)
  BY <1>n, ReleaseMoves
<1>2. /\ internal_count'[n] = internal_count[n] - 1 /\ internal_count[n] \in Int
      /\ \A m \in Nodes : m # n => internal_count'[m] = internal_count[m]
      /\ internal_count[n] - 1 = 0 => free' = free \cup {n}
      /\ internal_count[n] - 1 # 0 => free' = free
  <2>1. /\ internal_count'[n] = internal_count[n] + (-1)
        /\ \A m \in Nodes : m # n => internal_count'[m] = internal_count[m]
        /\ internal_count[n] + (-1) = 0 => free' = free \cup {n}
        /\ internal_count[n] + (-1) # 0 => free' = free
    BY <1>1, AddMoves
  <2>2. internal_count[n] \in Int
    BY <1>1 DEF TypeOK
  <2> QED
    BY <2>1, <2>2
<1>3. InStack' = InStack /\ Linked'
  BY <1>1, SameList DEF Inv
<1>4. /\ Refs(n) # {} /\ Lookers(n)' = Lookers(n) - 1 /\ (Lookers(n)' = 0 <=> Refs(n)' = {})
      /\ Lookers(n) \in Nat
  BY <1>1, LookersLess, LookersType
<1>5. CountsOf(n) /\ n \notin free
  BY <1>1, <1>4 DEF Inv, Counts, CountsOf
<1>6. \A u \in Threads : Held(u)' = Held(u)
  BY <1>1, HeldKept
<1>7. internal_count[n] - 1 = 0 => Folded(n) /\ Refs(n)' = {}
  <2> SUFFICES ASSUME internal_count[n] - 1 = 0
               PROVE  Folded(n) /\ Refs(n)' = {}
    OBVIOUS
  <2>1. Folded(n)
    BY <1>2, <1>5 DEF CountsOf
  <2>2. internal_count[n] + 0 = Lookers(n)
    BY <1>5, <2>1 DEF CountsOf, Balance
  <2> QED
    BY <1>2, <1>4, <2>1, <2>2
<1>8. Placed'
  BY <1>1, <1>2, <1>3, <1>6, <1>7 DEF Inv, Placed, Folded
<1>9. ASSUME NEW m \in Nodes, m # n
      PROVE  CountsOf(m)'
  <2>1. Elsewhere(t, m)
    BY <1>1, <1>2, <1>3, <1>9 DEF Elsewhere, Inv, Counts, CountsOf
  <2> QED
    BY <2>1, ElsewhereCounts
<1>10. CountsOf(n)'
  <2>1. ASSUME NEW k \in Int, Balance(n, k)
        PROVE  internal_count'[n] + k = Lookers(n)'
    BY <1>2, <1>4, <2>1 DEF Balance
  <2>2. head.ptr = n => internal_count'[n] + (head'.external_count - 1) = Lookers(n)'
    <3>1. head.external_count - 1 \in Int
      BY PairFields DEF TypeOK
    <3> QED
      BY <1>1, <1>5, <2>1, <3>1 DEF CountsOf
  <2>3. \A m \in InStack' :
            next'[m].ptr = n => internal_count'[n] + (next'[m].external_count - 1) = Lookers(n)'
    <3>1. \A m \in InStack : next[m].external_count - 1 \in Int
      BY StackShape, PairFields DEF TypeOK, Inv
    <3> QED
      BY <1>1, <1>3, <1>5, <2>1, <3>1 DEF CountsOf
  <2>4. ASSUME NEW u \in Threads, n \in Held(u)'
        PROVE  /\ pc'[u] # "push_cas"
               /\ internal_count'[n] + (old_head'[u].external_count - 2) = Lookers(n)'
    <3>1. n \in Held(u) /\ u # t
      BY <1>1, <1>6, <2>4
    <3>2. pc[u] # "push_cas" /\ Balance(n, old_head[u].external_count - 2)
      BY <1>4, <1>5, <3>1 DEF CountsOf
    <3>3. old_head[u].external_count - 2 \in Int
      BY PairFields DEF TypeOK
    <3> QED
      BY <2>1, <3>1, <3>2, <3>3, OthersKept
  <2>5. CASE Folded(n) /\ internal_count[n] - 1 = 0
    <3>1. n \in free' /\ Refs(n)' = {} /\ ~Folded(n)'
      BY <1>2, <1>7, <2>5 DEF Folded
    <3> QED
      BY <1>1, <2>2, <2>3, <2>4, <3>1 DEF CountsOf, Balance
  <2>6. CASE Folded(n) /\ internal_count[n] - 1 # 0
    <3>1. n \notin free' /\ Folded(n)'
      BY <1>2, <1>3, <1>5, <1>6, <2>6 DEF Folded
    <3>2. internal_count[n] + 0 = Lookers(n)
      BY <1>5, <2>6 DEF CountsOf, Balance
    <3>3. Refs(n)' # {} /\ internal_count'[n] + 0 = Lookers(n)'
      BY <1>2, <1>4, <2>6, <3>2
    <3> QED
      BY <1>1, <2>2, <2>3, <2>4, <3>1, <3>3 DEF CountsOf, Balance
  <2>7. CASE ~Folded(n)
    <3>1. internal_count[n] <= 0
      BY <1>5, <2>7 DEF CountsOf
    <3>2. n \notin free' /\ ~Folded(n)' /\ internal_count'[n] <= 0
      BY <1>2, <1>3, <1>5, <1>6, <2>7, <3>1 DEF Folded
    <3> QED
      BY <1>1, <2>2, <2>3, <2>4, <3>2 DEF CountsOf, Balance
  <2> QED
    BY <2>5, <2>6, <2>7
<1> QED
  BY <1>3, <1>8, <1>9, <1>10 DEF Inv, Counts

\* So every step does.
LEMMA StepInv ==
    ASSUME ConstantsAssumption, IInv, NEW t \in Threads, Steps(t)
    PROVE  Inv'
<1>1. TypeOK /\ LocalsOK /\ Inv
  BY DEF IInv, Inv
<1> QED
  BY <1>1, StepCases, StillInv, PushAllocInv, PushCasInv, IncreaseInv, PopCasInv, FoldInv,
     ReleaseInv

\* A node somebody looks at, or holds, keeps its next; what a push holds, its value.
LEMMA NextKept ==
    ASSUME TypeOK, LocalsOK, Inv, NEW t \in Threads, Steps(t), NEW u \in Threads, u # t,
           pc[u] = "pop_cas"
    PROVE  next'[old_head[u].ptr] = next[old_head[u].ptr]
<1>1. old_head[u].ptr \in Nodes /\ u \in Refs(old_head[u].ptr)
  BY PairFields DEF LocalsOK, TypeOK, Refs, Seeing, NodeOrNull
<1>2. CASE PushCas(t)
  <2>1. new[t] \in Nodes /\ pc[t] = "push_cas" /\ Held(t) = {new[t]}
        /\ next' = [next EXCEPT ![new[t]] = head]
    BY <1>2, PushCasMoves
  <2>2. Refs(new[t]) = {}
    BY <2>1 DEF Inv, Counts, CountsOf
  <2> QED
    BY <1>1, <2>1, <2>2 DEF TypeOK
<1>3. CASE ~PushCas(t)
  <2>1. next' = next
    BY <1>3 DEF Steps, Pop, PushAlloc, PopStart, IncreaseHeadCount, ReturnEmpty, ReadNext,
                PopCas, SwapData, FoldCount, ReleaseRef, node
  <2> QED
    BY <2>1
<1> QED
  BY <1>2, <1>3

\* The value in a node that is not free stays, until the pop that has it takes it.
LEMMA DataKept ==
    ASSUME TypeOK, LocalsOK, NEW t \in Threads, Steps(t), NEW n \in Nodes \ free,
           n \notin Held(t)
    PROVE  data'[n] = data[n]
<1>1. ASSUME NEW v \in Values, PushAlloc(t, v)
      PROVE  data'[n] = data[n]
  <2>1. PICK m \in free : data' = [data EXCEPT ![m] = v]
    BY <1>1, PushAllocMoves
  <2> QED
    BY <2>1 DEF TypeOK
<1>2. CASE SwapData(t)
  <2>1. data' = [data EXCEPT ![old_head[t].ptr] = Null] /\ Held(t) = {old_head[t].ptr}
    BY <1>2 DEF SwapData, Held, Owning, Goto
  <2> QED
    BY <2>1 DEF TypeOK
<1>3. CASE ~SwapData(t) /\ \A v \in Values : ~PushAlloc(t, v)
  <2>1. data' = data
    BY <1>3 DEF Steps, Pop, PushCas, PopStart, IncreaseHeadCount, ReturnEmpty, ReadNext,
                PopCas, FoldCount, ReleaseRef, node
  <2> QED
    BY <2>1
<1> QED
  BY <1>1, <1>2, <1>3

\* What a push has put in its node stays there.
LEMMA PushedKept ==
    ASSUME TypeOK, LocalsOK, Inv, NEW t \in Threads, Steps(t), NEW u \in Threads, u # t,
           Held(u) # {}
    PROVE  \A n \in Held(u) : n \in Nodes \ free /\ data'[n] = data[n]
<1> SUFFICES ASSUME NEW n \in Held(u)
             PROVE  n \in Nodes \ free /\ data'[n] = data[n]
  OBVIOUS
<1>1. n \in Nodes
  BY PairFields DEF Held, TypeOK, LocalsOK, NodeOrNull, Owning, Seeing
<1>2. n \notin free /\ n \notin Held(t)
  BY DEF Inv, Placed
<1> QED
  BY <1>1, <1>2, DataKept

\* What a thread knows stays true.
LEMMA StepLocalsOK ==
    ASSUME ConstantsAssumption, IInv, NEW t \in Threads, Steps(t)
    PROVE  LocalsOK'
<1>0. TypeOK /\ LocalsOK /\ Inv /\ TypeOK'
  BY StepTypeOK DEF IInv, Inv
<1> SUFFICES ASSUME NEW u \in Threads
             PROVE  /\ pc'[u] = "push_cas" => new'[u] # Null /\ data'[new'[u]] \in Values
                    /\ pc'[u] \in Seeing \cup Owning => old_head'[u].ptr # Null
                    /\ pc'[u] = "pop_cas" => nxt'[u] = next'[old_head'[u].ptr]
  BY DEF LocalsOK
<1>1. CASE u # t
  <2>1. /\ pc'[u] = pc[u] /\ new'[u] = new[u] /\ old_head'[u] = old_head[u]
        /\ nxt'[u] = nxt[u]
    BY <1>0, <1>1, OthersKept
  <2>2. pc[u] = "push_cas" => data'[new[u]] = data[new[u]]
    BY <1>0, <1>1, PushedKept DEF Held
  <2>3. pc[u] = "pop_cas" => next'[old_head[u].ptr] = next[old_head[u].ptr]
    BY <1>0, <1>1, NextKept
  <2> QED
    BY <1>0, <2>1, <2>2, <2>3 DEF LocalsOK
<1>2. CASE u = t
  <2>1. ASSUME NEW v \in Values, PushAlloc(t, v)
        PROVE  pc'[t] = "push_cas" /\ new'[t] # Null /\ data'[new'[t]] \in Values
    <3>1. PICK n \in free : new'[t] = n /\ pc'[t] = "push_cas" /\ data' = [data EXCEPT ![n] = v]
      BY <1>0, <2>1, PushAllocMoves
    <3> QED
      BY <1>0, <3>1 DEF TypeOK, ConstantsAssumption
  <2>2. CASE IncreaseHeadCount(t)
    <3>1. CASE head.ptr # Null
      BY <1>0, <1>2, <2>2, <3>1, IncreaseMoves
    <3>2. CASE head.ptr = Null
      <4>1. pc'[t] = "empty"
        BY <1>0, <2>2, <3>2 DEF IncreaseHeadCount, TypeOK
      <4> QED
        BY <1>2, <4>1 DEF Seeing, Owning
    <3> QED
      BY <1>2, <1>0, <2>2, <3>1, <3>2, IncreaseMoves
  <2>3. CASE ReadNext(t)
    BY <1>0, <1>2, <2>3 DEF ReadNext, Goto, TypeOK, LocalsOK, node, Seeing
  <2>4. CASE PopCas(t)
    BY <1>0, <1>2, <2>4 DEF PopCas, Goto, TypeOK, LocalsOK, Seeing, Owning
  <2>5. CASE SwapData(t)
    BY <1>0, <1>2, <2>5 DEF SwapData, Goto, TypeOK, LocalsOK, Owning
  <2>6. CASE PushCas(t) \/ PopStart(t) \/ ReturnEmpty(t) \/ FoldCount(t) \/ ReleaseRef(t)
    <3>1. pc'[t] \in {"idle", "increase"}
      BY <1>0, <2>6 DEF PushCas, PopStart, ReturnEmpty, FoldCount, ReleaseRef, Goto, TypeOK
    <3> QED
      BY <1>2, <3>1 DEF Seeing, Owning
  <2> QED
    BY <1>2, <2>1, <2>2, <2>3, <2>4, <2>5, <2>6 DEF Steps, Pop, Seeing, Owning
<1> QED
  BY <1>1, <1>2

\* The constructor establishes the invariant.
LEMMA InitIInv == ASSUME ConstantsAssumption, Init PROVE IInv
<1>1. NoHead \in Pairs /\ NoHead.ptr = Null
  BY CountedFields DEF NoHead, NodeOrNull
<1>2. TypeOK
  BY <1>1 DEF Init, TypeOK, PC, NodeOrNull, ValueOrNull
<1>3. LocalsOK
  BY DEF Init, LocalsOK, Seeing, Owning
<1>4. StackNodes = <<>>
  <2>1. <<>> \in Seq(Nodes) /\ Chain(<<>>, head.ptr, Ptrs, Null)
    BY <1>1 DEF Chain, Init
  <2>2. IsFiniteSet(Nodes) /\ Null \notin Nodes
    BY DEF ConstantsAssumption
  <2> QED
    BY <2>1, <2>2, ReachedIs DEF StackNodes
<1>5. Linked /\ InStack = {}
  BY <1>1, <1>4 DEF Linked, InStack, ToSet, Chain, Init
<1>6. \A t \in Threads : Held(t) = {}
  BY DEF Init, Held, Owning
<1>7. \A n \in Nodes : Refs(n) = {}
  BY DEF Init, Refs, Seeing
<1>8. Placed
  BY <1>5, <1>6 DEF Placed
<1>9. \A n \in Nodes : CountsOf(n)
  BY <1>1, <1>5, <1>6, <1>7 DEF CountsOf, Init, Folded, ConstantsAssumption
<1> QED
  BY <1>2, <1>3, <1>5, <1>8, <1>9 DEF IInv, Counts

\* Every step keeps it.
LEMMA StepIInv == ASSUME ConstantsAssumption, IInv, [Next]_vars PROVE IInv'
<1>1. CASE UNCHANGED vars
  <2>1. /\ head' = head /\ next' = next /\ data' = data /\ internal_count' = internal_count
        /\ free' = free /\ pc' = pc /\ new' = new /\ old_head' = old_head /\ nxt' = nxt
        /\ res' = res
    BY <1>1 DEF vars, node
  <2>2. InStack' = InStack /\ Linked'
    BY <2>1, SameList DEF IInv
  <2>3. \A t \in Threads : Held(t)' = Held(t)
    BY <2>1 DEF Held
  <2>4. \A n \in Nodes : Refs(n)' = Refs(n)
    BY <2>1 DEF Refs
  <2>5. \A n \in Nodes : Lookers(n)' = Lookers(n)
    BY <2>4, Zenon DEF Lookers
  <2>6. TypeOK' /\ LocalsOK'
    BY <2>1 DEF IInv, TypeOK, LocalsOK
  <2>7. Placed'
    BY <2>1, <2>2, <2>3 DEF IInv, Placed
  <2>8. \A n \in Nodes : CountsOf(n)'
    BY <2>1, <2>2, <2>3, <2>4, <2>5 DEF IInv, Counts, CountsOf, Folded, Balance
  <2> QED
    BY <2>2, <2>6, <2>7, <2>8 DEF IInv, Counts
<1>2. CASE Next
  <2>1. PICK t \in Threads : Steps(t)
    BY <1>2 DEF Next, Push, Steps
  <2>2. TypeOK'
    BY <2>1, StepTypeOK DEF IInv
  <2> QED
    BY <2>1, <2>2, StepInv, StepLocalsOK DEF IInv, Inv
<1> QED
  BY <1>1, <1>2

\* A node that somebody looks at has not been deleted.
LEMMA IInvSafe == ASSUME ConstantsAssumption, IInv PROVE NoUseAfterFree /\ NothingLeaked
<1>1. NoUseAfterFree
  <2> SUFFICES ASSUME NEW t \in Threads,
                      pc[t] \in {"read_next", "pop_cas", "swap", "fold", "release"}
               PROVE  old_head[t].ptr \notin free
    BY DEF NoUseAfterFree
  <2>1. old_head[t].ptr \in Nodes
    BY PairFields DEF IInv, TypeOK, LocalsOK, NodeOrNull, Owning, Seeing
  <2>2. CASE pc[t] \in Owning
    <3>1. old_head[t].ptr \in Held(t)
      BY <2>2 DEF Held, Owning
    <3> QED
      BY <3>1 DEF IInv, Placed
  <2>3. CASE pc[t] \in Seeing
    <3>1. t \in Refs(old_head[t].ptr)
      BY <2>3 DEF Refs
    <3> QED
      BY <2>1, <3>1 DEF IInv, Counts, CountsOf
  <2> QED
    BY <2>2, <2>3 DEF Owning, Seeing
<1>2. NothingLeaked
  <2> SUFFICES ASSUME \A t \in Threads : pc[t] = "idle"
               PROVE  free = Nodes \ InStack
    BY DEF NothingLeaked, InStack
  <2>1. \A t \in Threads : Held(t) = {}
    BY DEF Held, Owning
  <2>2. \A n \in Nodes : Refs(n) = {}
    BY DEF Refs, Seeing
  <2>3. ASSUME NEW n \in Nodes, n \notin free, n \notin InStack
        PROVE  FALSE
    <3>1. Folded(n)
      BY <2>1, <2>3 DEF Folded
    <3> QED
      BY <2>2, <3>1 DEF IInv, Counts, CountsOf
  <2> QED
    BY <2>3 DEF IInv, TypeOK, Placed
<1> QED
  BY <1>1, <1>2

\* The inductive invariant holds in every reachable state.
THEOREM Invariance == ASSUME ConstantsAssumption PROVE Spec => []IInv
BY InitIInv, StepIInv, PTL DEF Spec

\* No pop touches a node that has been deleted (lines 71-83).
THEOREM MemorySafety == ASSUME ConstantsAssumption PROVE Spec => []NoUseAfterFree
BY IInvSafe, Invariance, PTL

\* With no call running, every node that was popped has been deleted.
THEOREM AllDeleted == ASSUME ConstantsAssumption PROVE Spec => []NothingLeaked
BY IInvSafe, Invariance, PTL

-----------------------------------------------------------------------------
(* The steps of the stack are steps of Lifo *)

\* What the other threads have called, and what they have got, stays.
LEMMA OtherCalls ==
    ASSUME TypeOK, LocalsOK, Inv, NEW t \in Threads, Steps(t), NEW u \in Threads, u # t
    PROVE  CallOf(u)' = CallOf(u)
<1>1. pc'[u] = pc[u] /\ new'[u] = new[u] /\ old_head'[u] = old_head[u] /\ res'[u] = res[u]
  BY OthersKept
<1>2. pc[u] = "push_cas" => data'[new[u]] = data[new[u]]
  BY PushedKept DEF Held
<1>3. pc[u] = "swap" => data'[old_head[u].ptr] = data[old_head[u].ptr]
  BY PushedKept DEF Held, Owning
<1> QED
  BY <1>1, <1>2, <1>3 DEF CallOf

\* A step that is one step of the call of t.
LEMMA CallStep ==
    ASSUME TypeOK, LocalsOK, Inv, NEW t \in Threads, Steps(t), NEW from, NEW to,
           CallOf(t) = from, CallOf(t)' = to
    PROVE  Abstract!Step(t, from, to)
<1>1. \A u \in Threads : u # t => CallOf(u)' = CallOf(u)
  BY OtherCalls
<1>2. [u \in Threads |-> CallOf(u)]' = [[u \in Threads |-> CallOf(u)] EXCEPT ![t] = to]
  BY <1>1
<1> QED
  BY <1>2 DEF Abstract!Step

\* The values on the stack.
Stacked == Contents(data, StackNodes)

\* The nodes of the stack keep their values.
LEMMA StackedKept ==
    ASSUME TypeOK, LocalsOK, Inv, NEW t \in Threads, Steps(t)
    PROVE  Contents(data', StackNodes) = Stacked
<1>1. \A i \in DOMAIN StackNodes : StackNodes[i] \in InStack /\ StackNodes[i] \in Nodes
  BY DEF Inv, Linked, InStack, ToSet
<1>2. \A i \in DOMAIN StackNodes : data'[StackNodes[i]] = data[StackNodes[i]]
  BY <1>1, DataKept DEF Inv, Placed
<1> QED
  BY <1>2 DEF Stacked, Contents

Stuttering == UNCHANGED Abstract!vars
SameValues == Stacked' = Stacked

\* A step that keeps the list keeps the values.
LEMMA SameStack ==
    ASSUME TypeOK, LocalsOK, Inv, NEW t \in Threads, Steps(t), StackNodes' = StackNodes
    PROVE  SameValues
BY StackedKept DEF SameValues, Stacked, Contents

\* Which steps leave the list alone.
LEMMA ListStays ==
    ASSUME TypeOK, LocalsOK, Inv, NEW t \in Threads, Steps(t), ~PushCas(t),
           ~(PopCas(t) /\ pc'[t] = "swap")
    PROVE  SameValues
<1>1. head'.ptr = head.ptr
  BY IncreasedFields DEF Steps, Pop, PushAlloc, PopStart, IncreaseHeadCount, ReturnEmpty,
     ReadNext, PopCas, SwapData, FoldCount, ReleaseRef, Goto, TypeOK
<1>2. next' = next
  BY DEF Steps, Pop, PushAlloc, PopStart, IncreaseHeadCount, ReturnEmpty,
         ReadNext, PopCas, SwapData, FoldCount, ReleaseRef, node
<1>3. StackNodes' = StackNodes
  BY <1>1, <1>2, SameList
<1> QED
  BY <1>3, SameStack

\* The steps of one call between its call, its effect and its return.
LEMMA QuietRefines ==
    ASSUME TypeOK, LocalsOK, Inv, NEW t \in Threads, Steps(t), SameValues,
           CallOf(t)' = CallOf(t)
    PROVE  Stuttering
<1>1. \A u \in Threads : CallOf(u)' = CallOf(u)
  BY OtherCalls
<1> QED
  BY <1>1 DEF Stuttering, Abstract!vars, SameValues, Stacked, Contents

\* Which steps of a call it does not notice.
LEMMA OwnCall ==
    ASSUME TypeOK, LocalsOK, NEW t \in Threads,
           \/ ReadNext(t) \/ SwapData(t) \/ ReleaseRef(t)
           \/ IncreaseHeadCount(t) /\ head.ptr # Null
           \/ PopCas(t) /\ pc'[t] # "swap"
    PROVE  CallOf(t)' = CallOf(t)
<1>1. CASE ReadNext(t) \/ ReleaseRef(t) \/ (IncreaseHeadCount(t) /\ head.ptr # Null)
           \/ (PopCas(t) /\ pc'[t] # "swap")
  <2>1. /\ pc[t] \in {"increase", "read_next", "pop_cas", "release"}
        /\ pc'[t] \in {"increase", "read_next", "pop_cas", "release"}
    BY <1>1 DEF ReadNext, ReleaseRef, IncreaseHeadCount, PopCas, Goto, TypeOK
  <2> QED
    BY <2>1 DEF CallOf
<1>2. CASE SwapData(t)
  <2>1. /\ pc[t] = "swap" /\ pc'[t] = "fold"
        /\ res'[t] = data[old_head[t].ptr]
    BY <1>2 DEF SwapData, Goto, TypeOK
  <2> QED
    BY <2>1 DEF CallOf
<1> QED
  BY <1>1, <1>2

\* push and pop are called, and return.
LEMMA CallsRefine ==
    ASSUME TypeOK, LocalsOK, Inv, NEW t \in Threads, Steps(t), SameValues,
           \/ \E v \in Values : PushAlloc(t, v)
           \/ PopStart(t) \/ ReturnEmpty(t) \/ FoldCount(t)
    PROVE  Abstract!Next
<1>1. ASSUME NEW v \in Values, PushAlloc(t, v)
      PROVE  Abstract!Next
  <2>1. PICK n \in free : new'[t] = n /\ data' = [data EXCEPT ![n] = v]
                          /\ pc[t] = "idle" /\ pc'[t] = "push_cas"
    BY <1>1, PushAllocMoves
  <2>2. data'[n] = v
    BY <2>1 DEF TypeOK
  <2>3. CallOf(t) = <<"idle">> /\ CallOf(t)' = <<"push", v>>
    BY <2>1, <2>2 DEF CallOf
  <2>5. Abstract!CallPush(t, v)
    BY <2>3, CallStep
       DEF Abstract!CallPush, Abstract!Idle, Abstract!Pushing, SameValues, Stacked, Contents
  <2> QED
    BY <2>5 DEF Abstract!Next
<1>2. CASE PopStart(t)
  <2>1. pc[t] = "idle" /\ pc'[t] = "increase"
    BY <1>2 DEF PopStart, Goto, TypeOK
  <2>3. CallOf(t) = <<"idle">> /\ CallOf(t)' = <<"pop">>
    BY <2>1 DEF CallOf
  <2>4. Abstract!CallPop(t)
    BY <2>3, CallStep
       DEF Abstract!CallPop, Abstract!Idle, Abstract!Popping, SameValues, Stacked, Contents
  <2> QED
    BY <2>4 DEF Abstract!Next
<1>3. CASE ReturnEmpty(t) \/ FoldCount(t)
  <2>1. pc[t] \in {"empty", "fold"} /\ pc'[t] = "idle"
    BY <1>3 DEF ReturnEmpty, FoldCount, Goto, TypeOK
  <2>2. PICK v \in Values \cup {Null} : v = IF pc[t] = "fold" THEN res[t] ELSE Null
    BY DEF TypeOK, ValueOrNull
  <2>3. CallOf(t) = <<"got", v>> /\ CallOf(t)' = <<"idle">>
    BY <2>1, <2>2 DEF CallOf
  <2>4. Abstract!Step(t, Abstract!Got(v), Abstract!Idle)
    BY <2>3, CallStep DEF Abstract!Got, Abstract!Idle
  <2>5. Abstract!Return(t)
    BY <2>4 DEF Abstract!Return, SameValues, Stacked, Contents
  <2> QED
    BY <2>5 DEF Abstract!Next
<1> QED
  BY <1>1, <1>2, <1>3

\* A pop of an empty stack takes effect in counting itself on the null head.
LEMMA EmptyRefines ==
    ASSUME ConstantsAssumption, TypeOK, LocalsOK, Inv, NEW t \in Threads, Steps(t),
           SameValues, IncreaseHeadCount(t), head.ptr = Null
    PROVE  Abstract!Next
<1>1. pc[t] = "increase" /\ pc'[t] = "empty"
  BY DEF IncreaseHeadCount, TypeOK
<1>2. CallOf(t) = <<"pop">> /\ CallOf(t)' = <<"got", Null>>
  BY <1>1 DEF CallOf
<1>3. StackNodes = <<>>
  BY StackShape DEF Inv
<1>4. [i \in DOMAIN StackNodes |-> data[StackNodes[i]]] = <<>>
  BY <1>3
<1>5. Abstract!PopEmpty(t)
  BY <1>2, <1>4, CallStep
     DEF Abstract!PopEmpty, Abstract!Popping, Abstract!Got, SameValues, Stacked, Contents
<1> QED
  BY <1>5 DEF Abstract!Next

\* A push takes effect in its compare-exchange.
LEMMA PushRefines ==
    ASSUME ConstantsAssumption, TypeOK, LocalsOK, Inv, NEW t \in Threads, Steps(t), PushCas(t)
    PROVE  Abstract!Next
<1>n. PICK n : n = new[t]
  OBVIOUS
<1>1. /\ n \in Nodes /\ pc[t] = "push_cas" /\ pc'[t] = "idle"
      /\ Held(t) = {n}
      /\ next' = [next EXCEPT ![n] = head]
      /\ head'.ptr = n /\ data' = data
  BY <1>n, PushCasMoves
<1>2. n \notin InStack
  BY <1>1 DEF Inv, Placed
<1> DEFINE c == StackNodes
<1>3. StackNodes' = <<n>> \o c
  BY <1>1, <1>2, PushList DEF Inv
<1>4. c \in Seq(Nodes)
  BY DEF Inv, Linked
<1> HIDE DEF c
<1>5. Contents(data, <<n>> \o c) = <<data[n]>> \o Contents(data, c)
  <2>1. Contents(data, <<n>> \o c) = <<ValueOf(data, n)>> \o Contents(data, c)
    <3>1. n \in Nodes
      BY <1>1
    <3> QED
      BY <1>4, <3>1, ContentsPush, Zenon
  <2> QED
    BY <2>1 DEF ValueOf
<1>6. [i \in DOMAIN StackNodes |-> data[StackNodes[i]]]'
        = <<data[n]>> \o [i \in DOMAIN StackNodes |-> data[StackNodes[i]]]
  BY <1>1, <1>3, <1>5 DEF Contents, c
<1>7. CallOf(t) = <<"push", data[n]>> /\ CallOf(t)' = <<"idle">>
  BY <1>n, <1>1 DEF CallOf
<1>8. PICK v \in Values : v = data[n]
  BY <1>n, <1>1 DEF LocalsOK
<1>10. Abstract!Push(t, v)
  BY <1>6, <1>7, <1>8, CallStep DEF Abstract!Push, Abstract!Pushing, Abstract!Idle
<1> QED
  BY <1>10 DEF Abstract!Next

\* A pop takes effect in its compare-exchange, although it takes the value later.
LEMMA PopRefines ==
    ASSUME ConstantsAssumption, TypeOK, LocalsOK, Inv, NEW t \in Threads, Steps(t),
           PopCas(t), pc'[t] = "swap"
    PROVE  Abstract!Next
<1>n. PICK n : n = head.ptr
  OBVIOUS
<1>1. /\ pc[t] = "pop_cas" /\ n # Null /\ old_head'[t].ptr = n
      /\ next' = next /\ data' = data
      /\ head'.ptr = next[n].ptr
  BY <1>n, PopCasMoves
<1> DEFINE c == StackNodes
<1>3. c # <<>> /\ c[1] = n /\ StackNodes' = Tail(c)
  BY <1>n, <1>1, PopList DEF Inv
<1>4. c \in Seq(Nodes)
  BY DEF Inv, Linked
<1> HIDE DEF c
<1>5. /\ Contents(data, c) # <<>>
      /\ Head(Contents(data, c)) = data[n]
      /\ Contents(data, Tail(c)) = Tail(Contents(data, c))
  <2>1. /\ Contents(data, c) # <<>>
        /\ Head(Contents(data, c)) = ValueOf(data, c[1])
        /\ Contents(data, Tail(c)) = Tail(Contents(data, c))
    BY <1>3, <1>4, ContentsPop, Zenon
  <2> QED
    BY <1>3, <2>1 DEF ValueOf
<1>7. CallOf(t) = <<"pop">> /\ CallOf(t)' = <<"got", data[n]>>
  BY <1>1 DEF CallOf
<1>8. Abstract!Pop(t)
  BY <1>1, <1>3, <1>5, <1>7, CallStep
     DEF Abstract!Pop, Abstract!Popping, Abstract!Got, Contents, c
<1> QED
  BY <1>8 DEF Abstract!Next

\* A step of a thread is a step of its call, or none.
LEMMA StepRefines ==
    ASSUME ConstantsAssumption, IInv, NEW t \in Threads, Steps(t)
    PROVE  Abstract!Next \/ Stuttering
<1>0. TypeOK /\ LocalsOK /\ Inv
  BY DEF IInv, Inv
<1>1. CASE PushCas(t)
  BY <1>0, <1>1, PushRefines
<1>2. CASE PopCas(t) /\ pc'[t] = "swap"
  BY <1>0, <1>2, PopRefines
<1>3. CASE ~PushCas(t) /\ ~(PopCas(t) /\ pc'[t] = "swap")
  <2>0. SameValues
    BY <1>0, <1>3, ListStays
  <2>1. CASE (\E v \in Values : PushAlloc(t, v)) \/ PopStart(t) \/ ReturnEmpty(t)
                 \/ FoldCount(t)
    BY <1>0, <2>0, <2>1, CallsRefine
  <2>2. CASE IncreaseHeadCount(t) /\ head.ptr = Null
    BY <1>0, <2>0, <2>2, EmptyRefines
  <2>3. CASE \/ ReadNext(t) \/ SwapData(t) \/ ReleaseRef(t)
             \/ IncreaseHeadCount(t) /\ head.ptr # Null
             \/ PopCas(t) /\ pc'[t] # "swap"
    BY <1>0, <2>0, <2>3, OwnCall, QuietRefines
  <2> QED
    BY <1>3, <2>1, <2>2, <2>3 DEF Steps, Pop
<1> QED
  BY <1>1, <1>2, <1>3

\* A step of no thread changes nothing.
LEMMA StutterRefines ==
    ASSUME UNCHANGED vars
    PROVE  Stuttering
<1>1. StackNodes' = StackNodes
  BY DEF vars, node, StackNodes, Ptrs
<1> QED
  BY <1>1 DEF vars, node, Stuttering, Abstract!vars, CallOf

\* The stack starts empty.
LEMMA InitRefines == ASSUME ConstantsAssumption, Init PROVE Abstract!Init
<1>1. StackNodes = <<>>
  <2>1. TypeOK /\ Linked /\ head.ptr = Null
    BY InitIInv DEF IInv, Init, NoHead, Counted
  <2> QED
    BY <2>1, StackShape
<1>2. \A t \in Threads : CallOf(t) = <<"idle">>
  BY DEF Init, CallOf
<1> QED
  BY <1>1, <1>2 DEF Abstract!Init, Abstract!Idle

\* Every step is a step of Lifo or none.
LEMMA NextRefines ==
    ASSUME ConstantsAssumption, IInv, [Next]_vars PROVE [Abstract!Next]_(Abstract!vars)
<1> SUFFICES Abstract!Next \/ Stuttering
  BY DEF Stuttering
<1>1. CASE UNCHANGED vars
  BY <1>1, StutterRefines
<1>2. CASE Next
  <2>1. PICK t \in Threads : Steps(t)
    BY <1>2 DEF Next, Push, Steps
  <2> QED
    BY <2>1, StepRefines
<1> QED
  BY <1>1, <1>2

\* push and pop (lines 34-83) are linearizable.
THEOREM Linearizable == ASSUME ConstantsAssumption PROVE Spec => ImplementsLifo
BY InitRefines, NextRefines, Invariance, PTL DEF Spec, Abstract!Spec, ImplementsLifo

-----------------------------------------------------------------------------
(* ThreadCountStack: the same, and no node is lost *)

TcConstants ==
    /\ Null \notin AllNodes \cup Values
    /\ IsFiniteSet(Threads) /\ IsFiniteSet(AllNodes)

TcCountRight == tc_in_pop = Cardinality(Tc!InPop)

\* The operators the instance has copies of are the same.
LEMMA TcConstantsHold == TcConstants
BY StacksConstants DEF TcConstants, Tc!ConstantsAssumption, Tc!IsFiniteSet, IsFiniteSet

\* threads_in_pop, with the finite set of threads given a name.
LEMMA TcCountRightIs == TcCountRight <=> Tc!CountRight
<1>1. \A S : Tc!Cardinality(S) = Cardinality(S)
  BY DEF Tc!Cardinality, Cardinality
<1> QED
  BY <1>1, Zenon DEF TcCountRight, Tc!CountRight

\* The lists of the module are those of the lemmas on linked lists,
LEMMA TcListOf ==
    \A n, f : Tc!Reached(n, f, Null, Tc!Cardinality(AllNodes)) = ListOf(n, f, Null, AllNodes)
<1>1. \A S : Tc!Cardinality(S) = Cardinality(S)
  BY DEF Tc!Cardinality, Cardinality
<1>2. \A n, f, k : Tc!Reached(n, f, Null, k) = Reached(n, f, Null, k)
  BY DEF Tc!Reached, Reached
<1> QED
  BY <1>1, <1>2, Zenon DEF ListOf

\* and so are its chains.
LEMMA TcChain == \A c, n, f : Tc!Chain(c, n, f, Null) <=> Chain(c, n, f, Null)
BY DEF Tc!Chain, Chain


-----------------------------------------------------------------------------
(* The lists *)

\* The nodes on the list that starts at n, when f links them.
TcOn(n, f) == OnList(n, f, Null, AllNodes)
TcOk(n, f) == IsLinked(n, f, Null, AllNodes)

\* What the model calls a list is one.
LEMMA TcListFromIs ==
    ASSUME NEW n
    PROVE  /\ Tc!ListFrom(n) = ListOf(n, tc_next, Null, AllNodes)
           /\ Tc!Linked(n) <=> TcOk(n, tc_next)
           /\ TcOk(n, tc_next) => Tc!ToSet(Tc!ListFrom(n)) = TcOn(n, tc_next)
<1>1. Tc!ListFrom(n) = ListOf(n, tc_next, Null, AllNodes)
  BY TcListOf DEF Tc!ListFrom
<1>2. Tc!Linked(n) <=> TcOk(n, tc_next)
  BY <1>1, TcChain DEF Tc!Linked, TcOk, IsLinked
<1>3. ASSUME TcOk(n, tc_next)
      PROVE  Tc!ToSet(Tc!ListFrom(n)) = TcOn(n, tc_next)
  <2> DEFINE c == Tc!ListFrom(n)
  <2>1. c \in Seq(AllNodes) /\ TcOn(n, tc_next) = Elements(c)
    BY <1>1, <1>3 DEF TcOk, IsLinked, TcOn, OnList
  <2> HIDE DEF c
  <2>2. Tc!ToSet(c) = Elements(c)
    BY <2>1 DEF Tc!ToSet, Elements
  <2> QED
    BY <2>1, <2>2 DEF c
<1> QED
  BY <1>1, <1>2, <1>3

\* The facts about lists, of this heap.
LEMMA TcOkNodes ==
    ASSUME TcConstants, NEW n, NEW f, TcOk(n, f)
    PROVE  TcOn(n, f) \subseteq AllNodes /\ (n # Null => n \in TcOn(n, f))
BY ListNodes DEF TcOn, TcOk, TcConstants

\* Those lemmas for the nodes of this stack: the empty list,
LEMMA TcOkEmpty ==
    ASSUME TcConstants, NEW f
    PROVE  TcOk(Null, f) /\ TcOn(Null, f) = {}
BY ListEmpty DEF TcOn, TcOk, TcConstants

\* a list none of whose links changes,
LEMMA TcOkFrame ==
    ASSUME TcConstants, NEW n, NEW f, TcOk(n, f), NEW g,
           \A m \in TcOn(n, f) : g[m] = f[m]
    PROVE  TcOk(n, g) /\ TcOn(n, g) = TcOn(n, f)
BY ListFrame DEF TcOn, TcOk, TcConstants

\* a list without its first node,
LEMMA TcOkPop ==
    ASSUME TcConstants, NEW n, n # Null, NEW f, TcOk(n, f)
    PROVE  n \in AllNodes /\ TcOk(f[n], f) /\ TcOn(f[n], f) = TcOn(n, f) \ {n}
BY ListPop DEF TcOn, TcOk, TcConstants

\* a list with a node in front,
LEMMA TcOkPush ==
    ASSUME TcConstants, NEW h, NEW f, TcOk(h, f), NEW n \in AllNodes,
           n \notin TcOn(h, f),
           NEW g, g[n] = h, \A m \in TcOn(h, f) : g[m] = f[m]
    PROVE  TcOk(n, g) /\ TcOn(n, g) = TcOn(h, f) \cup {n}
<1>1. InFront(n, h, f, g, OnList(h, f, Null, AllNodes))
  BY DEF InFront, TcOn
<1> QED
  BY <1>1, ListPush DEF TcOn, TcOk, TcConstants

\* and a list whose last node is linked to another list.
LEMMA TcOkAppend ==
    ASSUME TcConstants, NEW n, n # Null, NEW f, TcOk(n, f), NEW m, TcOk(m, f),
           TcOn(n, f) \cap TcOn(m, f) = {},
           NEW l, l = LastOf(ListOf(n, f, Null, AllNodes)), NEW g, g[l] = m,
           \A k \in TcOn(n, f) \cup TcOn(m, f) : k # l => g[k] = f[k]
    PROVE  /\ l \in TcOn(n, f)
           /\ TcOk(n, g)
           /\ TcOn(n, g) = TcOn(n, f) \cup TcOn(m, f)
BY ListAppend, LastOnList DEF TcOn, TcOk, TcConstants

-----------------------------------------------------------------------------
(* Where the nodes are *)

TcHand(t) == IF tc_pc[t] \in Tc!Holding THEN {tc_old_head[t]} ELSE {}

TcKinds == {"free", "stack", "pending", "list", "hand"}
TcCallers == Threads \cup {Null}

\* The nodes of a place: the free ones, the stack, the pending list, and of each
\* thread the list it has taken and the node it holds.
TcPlace(k, t) ==
    IF k = "free" THEN tc_free
    ELSE IF k = "stack" THEN TcOn(tc_head, tc_next)
    ELSE IF k = "pending" THEN TcOn(tc_pending, tc_next)
    ELSE IF t \notin Threads THEN {}
    ELSE IF k = "list" THEN TcOn(tc_nodes[t], tc_next) ELSE TcHand(t)

TcSamePlace(k, t, l, u) == k = l /\ (k \in {"list", "hand"} => t = u)

\* Every node is in one place.
TcPlaced ==
    /\ \A m \in AllNodes : \E k \in TcKinds, t \in TcCallers : m \in TcPlace(k, t)
    /\ \A k, l \in TcKinds, t, u \in TcCallers :
        TcSamePlace(k, t, l, u) \/ TcPlace(k, t) \cap TcPlace(l, u) = {}

TcLists ==
    /\ TcOk(tc_head, tc_next) /\ TcOk(tc_pending, tc_next)
    /\ \A t \in Threads : TcOk(tc_nodes[t], tc_next)

\* A step that takes the nodes M from one place to another.
LEMMA TcMove ==
    ASSUME TcPlaced, NEW k \in TcKinds, NEW l \in TcKinds, NEW t \in TcCallers, k # l,
           NEW M, M \subseteq TcPlace(k, t),
           TcPlace(k, t)' = TcPlace(k, t) \ M, TcPlace(l, t)' = TcPlace(l, t) \cup M,
           \A j \in TcKinds, u \in TcCallers :
             TcSamePlace(j, u, k, t) \/ TcSamePlace(j, u, l, t)
                 \/ TcPlace(j, u)' = TcPlace(j, u)
    PROVE  TcPlaced'
<1> DEFINE From(j, u) == TcSamePlace(j, u, k, t)
           To(j, u) == TcSamePlace(j, u, l, t)
<1>1. ASSUME NEW j \in TcKinds, NEW u \in TcCallers
      PROVE  /\ From(j, u) => TcPlace(j, u)' = TcPlace(j, u) \ M
                    /\ TcPlace(j, u) = TcPlace(k, t)
             /\ To(j, u) => TcPlace(j, u)' = TcPlace(j, u) \cup M
             /\ ~From(j, u) /\ ~To(j, u) => TcPlace(j, u)' = TcPlace(j, u)
             /\ ~From(j, u) => TcPlace(j, u) \cap M = {}
             /\ ~ (From(j, u) /\ To(j, u))
  <2>1. From(j, u) => TcPlace(j, u) = TcPlace(k, t) /\ TcPlace(j, u)' = TcPlace(k, t)'
    BY DEF TcPlace, TcSamePlace, TcKinds
  <2>2. To(j, u) => TcPlace(j, u) = TcPlace(l, t) /\ TcPlace(j, u)' = TcPlace(l, t)'
    BY DEF TcPlace, TcSamePlace, TcKinds
  <2>3. ~From(j, u) => TcPlace(j, u) \cap M = {}
    BY DEF TcPlaced
  <2>4. ~ (From(j, u) /\ To(j, u))
    BY DEF TcSamePlace
  <2> QED
    BY <2>1, <2>2, <2>3, <2>4
<1>2. ASSUME NEW m \in AllNodes
      PROVE  \E j \in TcKinds, u \in TcCallers : m \in TcPlace(j, u)'
  <2>1. PICK j \in TcKinds, u \in TcCallers : m \in TcPlace(j, u)
    BY DEF TcPlaced
  <2>2. CASE m \in M
    BY <2>2
  <2>3. CASE m \notin M
    BY <1>1, <2>1, <2>3
  <2> QED
    BY <2>2, <2>3
<1>3. ASSUME NEW i \in TcKinds, NEW j \in TcKinds, NEW u \in TcCallers, NEW v \in TcCallers,
             ~TcSamePlace(i, u, j, v)
      PROVE  TcPlace(i, u)' \cap TcPlace(j, v)' = {}
  <2>1. TcPlace(i, u) \cap TcPlace(j, v) = {}
    BY <1>3 DEF TcPlaced
  <2>2. ~ (To(i, u) /\ To(j, v)) /\ ~ (From(i, u) /\ From(j, v))
    BY <1>3 DEF TcSamePlace
  <2> HIDE DEF From, To
  <2>3. CASE To(i, u)
    BY <1>1, <2>1, <2>2, <2>3
  <2>4. CASE To(j, v)
    BY <1>1, <2>1, <2>2, <2>4
  <2>5. CASE ~To(i, u) /\ ~To(j, v)
    <3>1. TcPlace(i, u)' \subseteq TcPlace(i, u)
      BY <1>1, <2>5
    <3>2. TcPlace(j, v)' \subseteq TcPlace(j, v)
      BY <1>1, <2>5
    <3> QED
      BY <2>1, <3>1, <3>2
  <2> QED
    BY <2>3, <2>4, <2>5
<1>4. \A i, j \in TcKinds, u, v \in TcCallers :
        TcSamePlace(i, u, j, v) \/ TcPlace(i, u)' \cap TcPlace(j, v)' = {}
  BY <1>3
<1> QED
  BY <1>2, <1>4 DEF TcPlaced, TcSamePlace

\* One that moves nothing.
LEMMA TcStay ==
    ASSUME TcPlaced, \A j \in TcKinds, u \in TcCallers : TcPlace(j, u)' = TcPlace(j, u)
    PROVE  TcPlaced'
BY DEF TcPlaced, TcSamePlace

-----------------------------------------------------------------------------
(* Types and locals *)

\* The steps of one thread.
TcSteps(t) == (\E v \in Values : Tc!PushAlloc(t, v)) \/ Tc!PushCas(t) \/ Tc!Pop(t)
    \/ Tc!TryReclaim(t)

\* What a step leaves alone of the other threads.
LEMMA TcOthersKept ==
    ASSUME Tc!TypeOK, NEW t \in Threads, TcSteps(t), NEW u \in Threads, u # t
    PROVE  /\ tc_pc'[u] = tc_pc[u] /\ tc_old_head'[u] = tc_old_head[u] /\ tc_nxt'[u] = tc_nxt[u]
           /\ tc_res'[u] = tc_res[u] /\ tc_nodes'[u] = tc_nodes[u]
<1> USE DEF Tc!TypeOK, Tc!Goto, Tc!node, Tc!shared
<1>1. CASE (\E v \in Values : Tc!PushAlloc(t, v)) \/ Tc!PushCas(t) \/ Tc!Pop(t)
  BY <1>1
  DEF Tc!Pop, Tc!PushAlloc, Tc!PushCas, Tc!PopEnter, Tc!LoadHead, Tc!LeaveEmpty,
      Tc!ReadNext, Tc!PopCas, Tc!SwapData
<1>2. CASE Tc!TryReclaim(t)
  BY <1>2
  DEF Tc!TryReclaim, Tc!TestCount, Tc!ExchangeList, Tc!Decrement, Tc!DeleteNodes,
      Tc!ChainBack, Tc!Delete, Tc!ChainPendingNode, Tc!Leave
<1> QED
  BY <1>1, <1>2 DEF TcSteps

\* The thread in pop is counted.
LEMMA TcInPopCount ==
    ASSUME TcConstants
    PROVE  /\ IsFiniteSet(Tc!InPop) /\ Cardinality(Tc!InPop) \in Nat
           /\ Cardinality(Tc!InPop) = 0 => Tc!InPop = {}
           /\ Cardinality(Tc!InPop) = 1 => \A t, u \in Tc!InPop : t = u
<1>1. IsFiniteSet(Tc!InPop)
  <2>1. Tc!InPop \subseteq Threads /\ IsFiniteSet(Threads)
    BY DEF Tc!InPop, TcConstants
  <2> QED
    BY <2>1, FS_Subset
<1>2. Cardinality(Tc!InPop) \in Nat
  BY <1>1, FS_CardinalityType
<1>3. Cardinality(Tc!InPop) = 0 => Tc!InPop = {}
  BY <1>1, FS_EmptySet
<1>4. Cardinality(Tc!InPop) = 1 => \E x : Tc!InPop = {x}
  BY <1>1, FS_Singleton
<1> QED
  BY <1>1, <1>2, <1>3, <1>4

\* A step that t enters pop in, leaves it in, or neither.
LEMMA TcCountStep ==
    ASSUME TcConstants, Tc!TypeOK, TcCountRight, NEW t \in Threads, TcSteps(t),
           \/ tc_pc[t] \notin Tc!Counted /\ tc_pc'[t] \in Tc!Counted
                  /\ tc_in_pop' = tc_in_pop + 1
           \/ tc_pc[t] \in Tc!Counted /\ tc_pc'[t] \notin Tc!Counted
                  /\ tc_in_pop' = tc_in_pop - 1
           \/ (tc_pc[t] \in Tc!Counted <=> tc_pc'[t] \in Tc!Counted) /\ tc_in_pop' = tc_in_pop
    PROVE  TcCountRight' /\ tc_in_pop' \in Nat /\ (tc_in_pop' = 0 => Tc!InPop' = {})
<1>1. \A u \in Threads : u # t => (tc_pc'[u] \in Tc!Counted <=> tc_pc[u] \in Tc!Counted)
  BY TcOthersKept
<1>2. Tc!InPop' = IF tc_pc'[t] \in Tc!Counted THEN Tc!InPop \cup {t} ELSE Tc!InPop \ {t}
  BY <1>1 DEF Tc!InPop
<1>3. t \in Tc!InPop <=> tc_pc[t] \in Tc!Counted
  BY DEF Tc!InPop
<1>4. IsFiniteSet(Tc!InPop) /\ Cardinality(Tc!InPop) \in Nat
  BY TcInPopCount
<1>5. CASE tc_pc[t] \notin Tc!Counted /\ tc_pc'[t] \in Tc!Counted /\ tc_in_pop' = tc_in_pop + 1
  <2>1. Tc!InPop' = Tc!InPop \cup {t} /\ t \notin Tc!InPop
    BY <1>2, <1>3, <1>5
  <2>2. Cardinality(Tc!InPop \cup {t}) = Cardinality(Tc!InPop) + 1
    BY <1>4, <2>1, FS_AddElement
  <2>3. Cardinality(Tc!InPop') = Cardinality(Tc!InPop \cup {t})
    BY <2>1, Zenon
  <2>4. tc_in_pop' = Cardinality(Tc!InPop')
    BY <1>5, <2>2, <2>3 DEF TcCountRight
  <2> QED
    BY <1>4, <1>5, <2>4 DEF TcCountRight
<1>6. CASE tc_pc[t] \in Tc!Counted /\ tc_pc'[t] \notin Tc!Counted /\ tc_in_pop' = tc_in_pop - 1
  <2>1. Tc!InPop' = Tc!InPop \ {t} /\ t \in Tc!InPop
    BY <1>2, <1>3, <1>6
  <2>2. Cardinality(Tc!InPop \ {t}) = Cardinality(Tc!InPop) - 1 /\ IsFiniteSet(Tc!InPop \ {t})
    BY <1>4, <2>1, FS_RemoveElement
  <2>3. Cardinality(Tc!InPop') = Cardinality(Tc!InPop \ {t})
    BY <2>1, Zenon
  <2>4. tc_in_pop' = Cardinality(Tc!InPop')
    BY <1>6, <2>2, <2>3 DEF TcCountRight
  <2>5. Cardinality(Tc!InPop \ {t}) \in Nat /\ (Cardinality(Tc!InPop \ {t}) = 0
            => Tc!InPop \ {t} = {})
    BY <2>2, FS_CardinalityType, FS_EmptySet
  <2> QED
    BY <2>1, <2>3, <2>4, <2>5 DEF TcCountRight
<1>7. CASE (tc_pc[t] \in Tc!Counted <=> tc_pc'[t] \in Tc!Counted) /\ tc_in_pop' = tc_in_pop
  <2>1. Tc!InPop' = Tc!InPop
    BY <1>2, <1>3, <1>7
  <2>2. Cardinality(Tc!InPop') = Cardinality(Tc!InPop)
    BY <2>1, Zenon
  <2> QED
    BY <1>4, <1>7, <2>1, <2>2, TcInPopCount DEF TcCountRight
<1> QED
  BY <1>5, <1>6, <1>7

\* Which of these a step is.
LEMMA TcCountMoves ==
    ASSUME Tc!TypeOK, NEW t \in Threads, TcSteps(t)
    PROVE  \/ tc_pc[t] \notin Tc!Counted /\ tc_pc'[t] \in Tc!Counted
                  /\ tc_in_pop' = tc_in_pop + 1
           \/ tc_pc[t] \in Tc!Counted /\ tc_pc'[t] \notin Tc!Counted
                  /\ tc_in_pop' = tc_in_pop - 1
           \/ (tc_pc[t] \in Tc!Counted <=> tc_pc'[t] \in Tc!Counted) /\ tc_in_pop' = tc_in_pop
<1> USE DEF Tc!TypeOK, Tc!Goto, Tc!node, Tc!shared, Tc!Counted
<1>1. CASE Tc!PopEnter(t)
  BY <1>1 DEF Tc!PopEnter
<1>2. CASE Tc!LeaveEmpty(t) \/ Tc!Leave(t)
  BY <1>2 DEF Tc!LeaveEmpty, Tc!Leave
<1>3. CASE Tc!Decrement(t)
  BY <1>3 DEF Tc!Decrement
<1>4. CASE (\E v \in Values : Tc!PushAlloc(t, v)) \/ Tc!PushCas(t) \/ Tc!Delete(t)
               \/ Tc!DeleteNodes(t)
           \/ Tc!ChainBack(t)
  BY <1>4
  DEF Tc!PushAlloc, Tc!PushCas, Tc!Delete, Tc!DeleteNodes, Tc!ChainBack, Tc!ChainPending
<1>5. CASE Tc!LoadHead(t) \/ Tc!ReadNext(t) \/ Tc!PopCas(t) \/ Tc!SwapData(t)
  BY <1>5 DEF Tc!LoadHead, Tc!ReadNext, Tc!PopCas, Tc!SwapData
<1>6. CASE Tc!TestCount(t) \/ Tc!ExchangeList(t) \/ Tc!ChainPendingNode(t)
  BY <1>6 DEF Tc!TestCount, Tc!ExchangeList, Tc!ChainPendingNode, Tc!ChainPending
<1> QED
  BY <1>1, <1>2, <1>3, <1>4, <1>5, <1>6 DEF TcSteps, Tc!Pop, Tc!TryReclaim

\* Every step keeps the types.
LEMMA TcStepTypeOK ==
    ASSUME TcConstants, Tc!TypeOK, Tc!LocalsOK, TcLists, TcCountRight,
           NEW t \in Threads, TcSteps(t)
    PROVE  Tc!TypeOK'
<1>0. tc_in_pop' \in Nat
  BY TcCountStep, TcCountMoves
<1>n. tc_pc[t] \in Tc!Looking \cup Tc!Holding => tc_old_head[t] \in AllNodes
  BY DEF Tc!TypeOK, Tc!LocalsOK, Tc!NodeOrNull
<1> USE DEF Tc!TypeOK, Tc!Goto, Tc!node, Tc!shared, Tc!PC, Tc!Counted, Tc!Holding, Tc!Alone,
            Tc!NodeOrNull, Tc!ValueOrNull
<1>1. ASSUME NEW v \in Values, Tc!PushAlloc(t, v)
      PROVE  Tc!TypeOK'
  BY <1>1 DEF Tc!PushAlloc
<1>2. CASE Tc!PushCas(t)
  BY <1>n, <1>2 DEF Tc!PushCas
<1>3. CASE Tc!PopEnter(t) \/ Tc!LeaveEmpty(t) \/ Tc!Leave(t)
  BY <1>0, <1>3 DEF Tc!PopEnter, Tc!LeaveEmpty, Tc!Leave
<1>4. CASE Tc!LoadHead(t)
  BY <1>4 DEF Tc!LoadHead
<1>5. CASE Tc!ReadNext(t)
  BY <1>n, <1>5 DEF Tc!ReadNext, Tc!Looking
<1>6. CASE Tc!PopCas(t)
  BY <1>6 DEF Tc!PopCas
<1>7. CASE Tc!SwapData(t)
  BY <1>n, <1>7 DEF Tc!SwapData
<1>8. CASE Tc!TestCount(t) \/ Tc!ExchangeList(t)
  BY <1>8 DEF Tc!TestCount, Tc!ExchangeList
<1>9. CASE Tc!Decrement(t)
  BY <1>0, <1>9 DEF Tc!Decrement
<1>10. CASE Tc!DeleteNodes(t)
  <2>1. tc_nodes[t] # Null => tc_nodes[t] \in AllNodes
            /\ tc_next[tc_nodes[t]] \in AllNodes \cup {Null}
    OBVIOUS
  <2> QED
    BY <1>10, <2>1 DEF Tc!DeleteNodes
<1>11. CASE Tc!ChainBack(t)
  <2> DEFINE l == Tc!Last(Tc!ListFrom(tc_nodes[t]))
  <2>1. /\ tc_pending' = tc_nodes[t] /\ tc_next' = [tc_next EXCEPT ![l] = tc_pending]
        /\ tc_nodes' = [tc_nodes EXCEPT ![t] = Null] /\ tc_pc' = [tc_pc EXCEPT ![t] = "delete"]
        /\ UNCHANGED <<tc_head, tc_in_pop, tc_data, tc_free, tc_old_head, tc_nxt, tc_res>>
    BY <1>11 DEF Tc!ChainBack, Tc!ChainPending
  <2> HIDE DEF l
  <2>2. tc_next' \in [AllNodes -> AllNodes \cup {Null}]
    BY <2>1
  <2>3. tc_pc' \in [Threads -> Tc!PC] /\ tc_nodes' \in [Threads -> Tc!NodeOrNull]
    BY <2>1
  <2> QED
    BY <2>1, <2>2, <2>3
<1>12. CASE Tc!Delete(t) \/ Tc!ChainPendingNode(t)
  BY <1>n, <1>12 DEF Tc!Delete, Tc!ChainPendingNode, Tc!ChainPending
<1> QED
  BY <1>1, <1>2, <1>3, <1>4, <1>5, <1>6, <1>7, <1>8, <1>9, <1>10, <1>11, <1>12
  DEF TcSteps, Tc!Pop, Tc!TryReclaim

-----------------------------------------------------------------------------
(* What each step moves *)

\* The places are apart, spelled out.
LEMMA TcApartFrom ==
    ASSUME TcPlaced, NEW t \in Threads
    PROVE  /\ TcHand(t) \cap (tc_free \cup TcOn(tc_head, tc_next) \cup TcOn(tc_pending, tc_next)) = {}
           /\ TcOn(tc_nodes[t], tc_next) \cap (tc_free \cup TcOn(tc_head, tc_next) \cup TcOn(tc_pending, tc_next)) = {}
           /\ \A u \in Threads : TcHand(t) \cap TcOn(tc_nodes[u], tc_next) = {}
           /\ \A u \in Threads : u # t => /\ TcHand(t) \cap TcHand(u) = {}
                                          /\ TcOn(tc_nodes[t], tc_next) \cap TcOn(tc_nodes[u], tc_next) = {}
           /\ tc_free \cap (TcOn(tc_head, tc_next) \cup TcOn(tc_pending, tc_next)) = {}
           /\ TcOn(tc_head, tc_next) \cap TcOn(tc_pending, tc_next) = {}
<1>1. \A k, l \in TcKinds, u, v \in TcCallers :
        TcSamePlace(k, u, l, v) \/ TcPlace(k, u) \cap TcPlace(l, v) = {}
  BY DEF TcPlaced
<1>2. ASSUME NEW u \in Threads
      PROVE  /\ u \in TcCallers
             /\ TcPlace("free", u) = tc_free /\ TcPlace("stack", u) = TcOn(tc_head, tc_next)
             /\ TcPlace("pending", u) = TcOn(tc_pending, tc_next)
             /\ TcPlace("list", u) = TcOn(tc_nodes[u], tc_next)
             /\ TcPlace("hand", u) = TcHand(u)
  BY DEF TcPlace, TcCallers
<1>3. /\ "free" \in TcKinds /\ "stack" \in TcKinds /\ "pending" \in TcKinds
      /\ "list" \in TcKinds
      /\ "hand" \in TcKinds
  BY DEF TcKinds
<1>4. ASSUME NEW k \in TcKinds, NEW l \in TcKinds, k # l, NEW u \in Threads
      PROVE  TcPlace(k, t) \cap TcPlace(l, u) = {}
  BY <1>1, <1>2, <1>4 DEF TcSamePlace
<1>5. /\ TcHand(t) \cap tc_free = {} /\ TcHand(t) \cap TcOn(tc_head, tc_next) = {}
      /\ TcHand(t) \cap TcOn(tc_pending, tc_next) = {}
      /\ TcOn(tc_nodes[t], tc_next) \cap tc_free = {}
      /\ TcOn(tc_nodes[t], tc_next) \cap TcOn(tc_head, tc_next) = {}
      /\ TcOn(tc_nodes[t], tc_next) \cap TcOn(tc_pending, tc_next) = {}
      /\ tc_free \cap TcOn(tc_head, tc_next) = {} /\ tc_free \cap TcOn(tc_pending, tc_next) = {}
      /\ TcOn(tc_head, tc_next) \cap TcOn(tc_pending, tc_next) = {}
  BY <1>2, <1>3, <1>4
<1>6. \A u \in Threads : TcHand(t) \cap TcOn(tc_nodes[u], tc_next) = {}
  BY <1>2, <1>3, <1>4
<1>7. ASSUME NEW u \in Threads, u # t
      PROVE  TcHand(t) \cap TcHand(u) = {}
                 /\ TcOn(tc_nodes[t], tc_next) \cap TcOn(tc_nodes[u], tc_next) = {}
  <2>1. ~TcSamePlace("hand", t, "hand", u) /\ ~TcSamePlace("list", t, "list", u)
    BY <1>7 DEF TcSamePlace
  <2> QED
    BY <1>1, <1>2, <1>3, <2>1
<1> QED
  BY <1>5, <1>6, <1>7

\* What the other threads have is theirs.
LEMMA TcOthersHave ==
    ASSUME Tc!TypeOK, NEW t \in Threads, TcSteps(t), NEW u \in Threads, u # t
    PROVE  TcHand(u)' = TcHand(u) /\ tc_nodes'[u] = tc_nodes[u]
BY TcOthersKept DEF TcHand

\* A place that a step of t does not touch.
LEMMA TcElsewhere ==
    ASSUME Tc!TypeOK, NEW t \in Threads, TcSteps(t), NEW j \in TcKinds, NEW u \in TcCallers,
           j = "free" => tc_free' = tc_free,
           j = "stack" => TcOn(tc_head', tc_next') = TcOn(tc_head, tc_next),
           j = "pending" => TcOn(tc_pending', tc_next') = TcOn(tc_pending, tc_next),
           j = "list" /\ u \in Threads
               => TcOn(tc_nodes'[u], tc_next') = TcOn(tc_nodes[u], tc_next),
           j = "hand" => u # t \/ TcHand(t)' = TcHand(t)
    PROVE  TcPlace(j, u)' = TcPlace(j, u)
<1>1. CASE j = "free"
  BY <1>1 DEF TcPlace
<1>2. CASE j = "stack"
  BY <1>2 DEF TcPlace
<1>3. CASE j = "pending"
  BY <1>3 DEF TcPlace
<1>4. CASE j = "list"
  BY <1>4 DEF TcPlace
<1>5. CASE j = "hand"
  BY <1>5, TcOthersHave DEF TcPlace
<1> QED
  BY <1>1, <1>2, <1>3, <1>4, <1>5 DEF TcKinds

\* A step that moves no node.
TcQuietStep(t) ==
    \/ Tc!PopEnter(t) \/ Tc!LoadHead(t) \/ Tc!LeaveEmpty(t) \/ Tc!ReadNext(t)
    \/ Tc!PopCas(t) /\ tc_pc'[t] = "load_head"
    \/ Tc!SwapData(t) \/ Tc!TestCount(t) \/ Tc!Decrement(t) \/ Tc!Leave(t)
    \/ Tc!DeleteNodes(t) /\ tc_nodes[t] = Null

\* The steps that move no node,
LEMMA TcQuietMoves ==
    ASSUME Tc!TypeOK, NEW t \in Threads, TcQuietStep(t)
    PROVE  /\ UNCHANGED <<tc_head, tc_pending, tc_next, tc_free, tc_nodes>>
           /\ TcHand(t)' = TcHand(t)
<1> USE DEF TcQuietStep, Tc!TypeOK, Tc!Goto, TcHand, Tc!Holding, Tc!Alone, Tc!node, Tc!shared
<1>1. CASE Tc!PopEnter(t) \/ Tc!LoadHead(t) \/ Tc!LeaveEmpty(t)
  BY <1>1 DEF Tc!PopEnter, Tc!LoadHead, Tc!LeaveEmpty
<1>2. CASE Tc!ReadNext(t) \/ Tc!SwapData(t) \/ (Tc!PopCas(t) /\ tc_pc'[t] = "load_head")
  BY <1>2 DEF Tc!ReadNext, Tc!SwapData, Tc!PopCas
<1>3. CASE Tc!TestCount(t) \/ Tc!Decrement(t) \/ Tc!Leave(t)
  BY <1>3 DEF Tc!TestCount, Tc!Decrement, Tc!Leave
<1>4. CASE Tc!DeleteNodes(t) /\ tc_nodes[t] = Null
  BY <1>4 DEF Tc!DeleteNodes
<1> QED
  BY <1>1, <1>2, <1>3, <1>4

\* which leave every node in its place.
LEMMA TcQuietPlaced ==
    ASSUME Tc!TypeOK, TcLists, TcPlaced, NEW t \in Threads, TcSteps(t), TcQuietStep(t)
    PROVE  TcLists' /\ TcPlaced'
<1>1. UNCHANGED <<tc_head, tc_pending, tc_next, tc_free, tc_nodes>> /\ TcHand(t)' = TcHand(t)
  BY TcQuietMoves
<1>2. TcLists'
  BY <1>1 DEF TcLists
<1>3. \A j \in TcKinds, u \in TcCallers : TcPlace(j, u)' = TcPlace(j, u)
  BY <1>1, TcElsewhere
<1> QED
  BY <1>2, <1>3, TcStay

\* A push takes a free node in hand.
LEMMA TcPushAllocPlaced ==
    ASSUME Tc!TypeOK, TcLists, TcPlaced, NEW t \in Threads, TcSteps(t),
           NEW v \in Values, Tc!PushAlloc(t, v)
    PROVE  TcLists' /\ TcPlaced'
<1>1. PICK n \in tc_free :
        /\ tc_free' = tc_free \ {n} /\ TcHand(t) = {} /\ TcHand(t)' = {n}
        /\ UNCHANGED <<tc_head, tc_pending, tc_next, tc_nodes>>
  BY DEF Tc!PushAlloc, Tc!TypeOK, Tc!Goto, TcHand, Tc!Holding, Tc!Alone, Tc!shared
<1>2. TcLists'
  BY <1>1 DEF TcLists
<1>3. \A j \in TcKinds, u \in TcCallers :
        TcSamePlace(j, u, "free", t) \/ TcSamePlace(j, u, "hand", t)
            \/ TcPlace(j, u)' = TcPlace(j, u)
  BY <1>1, TcElsewhere DEF TcSamePlace
<1>4. /\ "free" \in TcKinds /\ "hand" \in TcKinds /\ t \in TcCallers
      /\ TcPlace("free", t) = tc_free /\ TcPlace("hand", t) = TcHand(t)
      /\ TcPlace("free", t)' = tc_free' /\ TcPlace("hand", t)' = TcHand(t)'
  BY DEF TcKinds, TcCallers, TcPlace
<1>5. TcPlaced'
  BY <1>1, <1>3, <1>4, TcMove, SMTT(30)
<1> QED
  BY <1>2, <1>5

\* The compare-exchange of a push puts it on the stack.
LEMMA TcPushCasMoves ==
    ASSUME Tc!TypeOK, Tc!LocalsOK, NEW t \in Threads, Tc!PushCas(t)
    PROVE  /\ tc_old_head[t] \in AllNodes /\ TcHand(t) = {tc_old_head[t]} /\ TcHand(t)' = {}
           /\ tc_pc[t] = "push_cas" /\ tc_pc'[t] = "idle"
           /\ tc_next' = [tc_next EXCEPT ![tc_old_head[t]] = tc_head]
           /\ tc_head' = tc_old_head[t]
           /\ UNCHANGED <<tc_pending, tc_free, tc_nodes, tc_data>>
BY DEF Tc!PushCas, Tc!TypeOK, Tc!LocalsOK, Tc!Goto, TcHand, Tc!Holding, Tc!Alone,
    Tc!NodeOrNull

\* push puts its node on top.
LEMMA TcPushCasPlaced ==
    ASSUME TcConstants, Tc!TypeOK, Tc!LocalsOK, TcLists, TcPlaced, NEW t \in Threads,
           TcSteps(t),
           Tc!PushCas(t)
    PROVE  /\ TcLists' /\ TcPlaced'
           /\ TcOn(tc_head', tc_next') = TcOn(tc_head, tc_next) \cup {tc_old_head[t]}
<1>n. PICK n : n = tc_old_head[t]
  OBVIOUS
<1>1. /\ n \in AllNodes /\ TcHand(t) = {n} /\ TcHand(t)' = {}
      /\ tc_next' = [tc_next EXCEPT ![n] = tc_head] /\ tc_head' = n
      /\ UNCHANGED <<tc_pending, tc_free, tc_nodes>>
  BY <1>n, TcPushCasMoves
<1>2. /\ n \notin TcOn(tc_head, tc_next) /\ n \notin TcOn(tc_pending, tc_next)
      /\ \A u \in Threads : n \notin TcOn(tc_nodes[u], tc_next)
  BY <1>1, TcApartFrom
<1>3. tc_next'[n] = tc_head /\ \A m \in AllNodes \ {n} : tc_next'[m] = tc_next[m]
  BY <1>1 DEF Tc!TypeOK
<1>4. TcOk(tc_head', tc_next') /\ TcOn(tc_head', tc_next') = TcOn(tc_head, tc_next) \cup {n}
  <2>1. TcOk(tc_head, tc_next) /\ \A m \in TcOn(tc_head, tc_next) : tc_next'[m] = tc_next[m]
    BY <1>2, <1>3, TcOkNodes DEF TcLists
  <2> QED
    <3>1. n \in AllNodes /\ n \notin TcOn(tc_head, tc_next) /\ tc_next'[n] = tc_head
              /\ tc_head' = n
      BY <1>1, <1>2, <1>3
    <3>2. TcOk(n, tc_next') /\ TcOn(n, tc_next') = TcOn(tc_head, tc_next) \cup {n}
      BY <2>1, <3>1, TcOkPush
    <3> QED
      BY <3>1, <3>2
<1>5. TcOk(tc_pending', tc_next') /\ TcOn(tc_pending', tc_next') = TcOn(tc_pending, tc_next)
  <2>1. TcOk(tc_pending, tc_next)
            /\ \A m \in TcOn(tc_pending, tc_next) : tc_next'[m] = tc_next[m]
    BY <1>2, <1>3, TcOkNodes DEF TcLists
  <2> QED
    BY <1>1, <2>1, TcOkFrame
<1>6. ASSUME NEW u \in Threads
      PROVE  TcOk(tc_nodes'[u], tc_next')
                 /\ TcOn(tc_nodes'[u], tc_next') = TcOn(tc_nodes[u], tc_next)
  <2>1. TcOk(tc_nodes[u], tc_next)
            /\ \A m \in TcOn(tc_nodes[u], tc_next) : tc_next'[m] = tc_next[m]
    BY <1>2, <1>3, TcOkNodes DEF TcLists
  <2> QED
    BY <1>1, <2>1, TcOkFrame
<1>7. TcLists'
  BY <1>4, <1>5, <1>6 DEF TcLists
<1>8. \A j \in TcKinds, u \in TcCallers :
        TcSamePlace(j, u, "hand", t) \/ TcSamePlace(j, u, "stack", t)
            \/ TcPlace(j, u)' = TcPlace(j, u)
  BY <1>1, <1>5, <1>6, TcElsewhere DEF TcSamePlace
<1>9. /\ "stack" \in TcKinds /\ "hand" \in TcKinds /\ t \in TcCallers
      /\ TcPlace("stack", t) = TcOn(tc_head, tc_next) /\ TcPlace("hand", t) = TcHand(t)
      /\ TcPlace("stack", t)' = TcOn(tc_head', tc_next') /\ TcPlace("hand", t)' = TcHand(t)'
  BY DEF TcKinds, TcCallers, TcPlace
<1>10. TcPlaced'
  <2>m. PICK M : M = {n}
    OBVIOUS
  <2>1. /\ M \subseteq TcPlace("hand", t) /\ TcPlace("hand", t)' = TcPlace("hand", t) \ M
        /\ TcPlace("stack", t)' = TcPlace("stack", t) \cup M
    BY <1>1, <1>4, <1>9, <2>m
  <2>2. "stack" \in TcKinds /\ "hand" \in TcKinds /\ t \in TcCallers /\ "hand" # "stack"
    BY <1>9
  <2> QED
    BY <1>8, <2>1, <2>2, TcMove, SMTT(30)
<1> QED
  BY <1>n, <1>4, <1>7, <1>10

\* That of a pop takes it off.
LEMMA TcPopCasMoves ==
    ASSUME Tc!TypeOK, Tc!LocalsOK, NEW t \in Threads, Tc!PopCas(t), tc_pc'[t] = "data"
    PROVE  /\ tc_head # Null /\ tc_head = tc_old_head[t] /\ TcHand(t) = {}
           /\ TcHand(t)' = {tc_head}
           /\ tc_pc[t] = "pop_cas" /\ tc_head' = tc_nxt[t] /\ tc_old_head' = tc_old_head
           /\ UNCHANGED <<tc_pending, tc_free, tc_next, tc_nodes, tc_data>>
BY DEF Tc!PopCas, Tc!TypeOK, Tc!LocalsOK, Tc!Goto, TcHand, Tc!Holding, Tc!Alone,
    Tc!NodeOrNull, Tc!Looking, Tc!node

\* Watched, of the nodes on the lists.
TcWatchedBy(v) ==
    /\ tc_old_head[v] \notin tc_free
    /\ tc_pc[v] = "pop_cas" /\ tc_old_head[v] \in TcOn(tc_head, tc_next)
           => tc_nxt[v] = tc_next[tc_old_head[v]]
    /\ \A u \in Threads :
        /\ tc_pc[u] \in {"push_cas"} \cup Tc!Alone => tc_old_head[u] # tc_old_head[v]
        /\ tc_pc[u] = "delete_nodes" => tc_old_head[v] \notin TcOn(tc_nodes[u], tc_next)

TcWatching == \A v \in Threads : tc_pc[v] \in Tc!Looking => TcWatchedBy(v)

\* pop takes the top into its hands.
LEMMA TcPopCasPlaced ==
    ASSUME TcConstants, Tc!TypeOK, Tc!LocalsOK, TcLists, TcPlaced, TcWatching,
           NEW t \in Threads, TcSteps(t), Tc!PopCas(t), tc_pc'[t] = "data"
    PROVE  /\ TcLists' /\ TcPlaced'
           /\ tc_head \in AllNodes /\ tc_head' = tc_next[tc_head]
           /\ TcOn(tc_head', tc_next') = TcOn(tc_head, tc_next) \ {tc_head}
<1>n. PICK n : n = tc_head
  OBVIOUS
<1>1. /\ n # Null /\ n = tc_old_head[t] /\ TcHand(t) = {} /\ TcHand(t)' = {n}
      /\ tc_pc[t] = "pop_cas" /\ tc_head' = tc_nxt[t]
      /\ UNCHANGED <<tc_pending, tc_free, tc_next, tc_nodes>>
  BY <1>n, TcPopCasMoves
<1>2. TcOk(n, tc_next)
  BY <1>n DEF TcLists
<1>3. n \in TcOn(n, tc_next) /\ n \in AllNodes /\ TcOk(tc_next[n], tc_next)
          /\ TcOn(tc_next[n], tc_next) = TcOn(n, tc_next) \ {n}
  BY <1>1, <1>2, TcOkNodes, TcOkPop
<1>4. tc_nxt[t] = tc_next[n]
  BY <1>n, <1>1, <1>3 DEF TcWatching, TcWatchedBy, Tc!Looking
<1>5. TcOk(tc_head', tc_next') /\ TcOn(tc_head', tc_next') = TcOn(tc_head, tc_next) \ {n}
  BY <1>n, <1>1, <1>3, <1>4
<1>7. TcLists'
  BY <1>1, <1>5 DEF TcLists
<1>8. \A j \in TcKinds, u \in TcCallers :
        TcSamePlace(j, u, "stack", t) \/ TcSamePlace(j, u, "hand", t)
            \/ TcPlace(j, u)' = TcPlace(j, u)
  BY <1>1, TcElsewhere DEF TcSamePlace
<1>9. /\ "stack" \in TcKinds /\ "hand" \in TcKinds /\ t \in TcCallers
      /\ TcPlace("stack", t) = TcOn(tc_head, tc_next) /\ TcPlace("hand", t) = TcHand(t)
      /\ TcPlace("stack", t)' = TcOn(tc_head', tc_next') /\ TcPlace("hand", t)' = TcHand(t)'
  BY DEF TcKinds, TcCallers, TcPlace
<1>10. TcPlaced'
  <2> DEFINE M == {n}
  <2>1. /\ M \subseteq TcPlace("stack", t) /\ TcPlace("stack", t)' = TcPlace("stack", t) \ M
        /\ TcPlace("hand", t)' = TcPlace("hand", t) \cup M
    BY <1>n, <1>1, <1>3, <1>5, <1>9
  <2>2. /\ "stack" \in TcKinds /\ "hand" \in TcKinds /\ t \in TcCallers
        /\ "stack" # "hand"
    BY <1>9
  <2> HIDE DEF M
  <2> QED
    BY <1>8, <2>1, <2>2, TcMove, SMTT(30)
<1> QED
  BY <1>n, <1>1, <1>3, <1>4, <1>5, <1>7, <1>10

\* The exchange takes the pending list.
LEMMA TcExchangePlaced ==
    ASSUME TcConstants, Tc!TypeOK, Tc!LocalsOK, TcLists, TcPlaced, NEW t \in Threads,
           TcSteps(t),
           Tc!ExchangeList(t)
    PROVE  TcLists' /\ TcPlaced'
<1>1. /\ tc_pc[t] = "exchange" /\ tc_pc'[t] = "decrement"
      /\ tc_nodes' = [tc_nodes EXCEPT ![t] = tc_pending] /\ tc_pending' = Null
      /\ UNCHANGED <<tc_head, tc_free, tc_next>>
      /\ TcHand(t)' = TcHand(t)
  BY DEF Tc!ExchangeList, Tc!Goto, Tc!TypeOK, Tc!node, TcHand, Tc!Holding, Tc!Alone
<1>2. tc_nodes[t] = Null /\ tc_nodes'[t] = tc_pending /\ \A u \in Threads : u # t
          => tc_nodes'[u] = tc_nodes[u]
  BY <1>1 DEF Tc!LocalsOK, Tc!Taking, Tc!TypeOK
<1>3. TcOk(Null, tc_next) /\ TcOn(Null, tc_next) = {}
  BY TcOkEmpty
<1>4. TcLists'
  <2>1. \A u \in Threads : TcOk(tc_nodes'[u], tc_next')
    BY <1>1, <1>2 DEF TcLists
  <2> QED
    BY <1>1, <1>3, <2>1 DEF TcLists
<1>8. \A j \in TcKinds, u \in TcCallers :
        TcSamePlace(j, u, "pending", t) \/ TcSamePlace(j, u, "list", t)
            \/ TcPlace(j, u)' = TcPlace(j, u)
  BY <1>1, <1>2, TcElsewhere DEF TcSamePlace
<1>9. /\ "pending" \in TcKinds /\ "list" \in TcKinds /\ t \in TcCallers
      /\ TcPlace("pending", t) = TcOn(tc_pending, tc_next)
      /\ TcPlace("list", t) = TcOn(tc_nodes[t], tc_next)
      /\ TcPlace("pending", t)' = TcOn(tc_pending', tc_next')
      /\ TcPlace("list", t)' = TcOn(tc_nodes'[t], tc_next')
  BY DEF TcKinds, TcCallers, TcPlace
<1>10. TcPlaced'
  <2> DEFINE M == TcOn(tc_pending, tc_next)
  <2>1. /\ M \subseteq TcPlace("pending", t)
        /\ TcPlace("pending", t)' = TcPlace("pending", t) \ M
        /\ TcPlace("list", t)' = TcPlace("list", t) \cup M
    BY <1>1, <1>2, <1>3, <1>9
  <2> HIDE DEF M
  <2> QED
    BY <1>8, <1>9, <2>1, TcMove, SMTT(30)
<1> QED
  BY <1>4, <1>10

\* The first node of the list a thread has taken goes.
LEMMA TcDeleteNodesPlaced ==
    ASSUME TcConstants, Tc!TypeOK, Tc!LocalsOK, TcLists, TcPlaced, NEW t \in Threads,
           TcSteps(t),
           Tc!DeleteNodes(t), tc_nodes[t] # Null
    PROVE  /\ TcLists' /\ TcPlaced'
           /\ tc_free' = tc_free \cup {tc_nodes[t]}
           /\ tc_nodes[t] \in TcOn(tc_nodes[t], tc_next)
           /\ TcOn(tc_nodes'[t], tc_next') \subseteq TcOn(tc_nodes[t], tc_next)
           /\ \A u \in Threads : u # t => tc_nodes'[u] = tc_nodes[u]
           /\ tc_pc[t] = "delete_nodes"
           /\ UNCHANGED <<tc_pc, tc_head, tc_pending, tc_next, tc_old_head>>
<1>n. PICK n : n = tc_nodes[t]
  OBVIOUS
<1>1. /\ tc_pc[t] = "delete_nodes" /\ tc_pc' = tc_pc
      /\ tc_free' = tc_free \cup {n} /\ tc_nodes' = [tc_nodes EXCEPT ![t] = tc_next[n]]
      /\ UNCHANGED <<tc_head, tc_pending, tc_next, tc_old_head>>
      /\ TcHand(t)' = TcHand(t)
  BY <1>n DEF Tc!DeleteNodes, Tc!Goto, Tc!TypeOK, Tc!shared, TcHand, Tc!Holding, Tc!Alone
<1>2. tc_nodes'[t] = tc_next[n] /\ \A u \in Threads : u # t => tc_nodes'[u] = tc_nodes[u]
  BY <1>1 DEF Tc!TypeOK
<1>3. TcOk(n, tc_next) /\ n # Null
  BY <1>n DEF TcLists
<1>4. n \in TcOn(n, tc_next) /\ TcOk(tc_next[n], tc_next)
          /\ TcOn(tc_next[n], tc_next) = TcOn(n, tc_next) \ {n}
  BY <1>3, TcOkNodes, TcOkPop
<1>5. TcLists'
  <2>1. \A u \in Threads : TcOk(tc_nodes'[u], tc_next')
    BY <1>1, <1>2, <1>4 DEF TcLists
  <2> QED
    BY <1>1, <2>1 DEF TcLists
<1>8. \A j \in TcKinds, u \in TcCallers :
        TcSamePlace(j, u, "list", t) \/ TcSamePlace(j, u, "free", t)
            \/ TcPlace(j, u)' = TcPlace(j, u)
  BY <1>1, <1>2, TcElsewhere DEF TcSamePlace
<1>9. /\ "free" \in TcKinds /\ "list" \in TcKinds /\ t \in TcCallers
      /\ TcPlace("free", t) = tc_free /\ TcPlace("list", t) = TcOn(tc_nodes[t], tc_next)
      /\ TcPlace("free", t)' = tc_free'
      /\ TcPlace("list", t)' = TcOn(tc_nodes'[t], tc_next')
  BY DEF TcKinds, TcCallers, TcPlace
<1>10. TcPlaced'
  <2> DEFINE M == {n}
  <2>1. /\ M \subseteq TcPlace("list", t) /\ TcPlace("list", t)' = TcPlace("list", t) \ M
        /\ TcPlace("free", t)' = TcPlace("free", t) \cup M
    BY <1>n, <1>1, <1>2, <1>4, <1>9
  <2>2. /\ "list" \in TcKinds /\ "free" \in TcKinds /\ t \in TcCallers
        /\ "list" # "free"
    BY <1>9
  <2> HIDE DEF M
  <2> QED
    BY <1>8, <2>1, <2>2, TcMove, SMTT(30)
<1> QED
  BY <1>n, <1>1, <1>2, <1>4, <1>5, <1>10

\* It goes back in front of the pending list.
LEMMA TcChainBackPlaced ==
    ASSUME TcConstants, Tc!TypeOK, Tc!LocalsOK, TcLists, TcPlaced, NEW t \in Threads,
           TcSteps(t),
           Tc!ChainBack(t)
    PROVE  /\ TcLists' /\ TcPlaced'
           /\ tc_head' = tc_head /\ TcOn(tc_head', tc_next') = TcOn(tc_head, tc_next)
           /\ \A m \in TcOn(tc_head, tc_next) : tc_next'[m] = tc_next[m]
           /\ \A u \in Threads : u # t
                  => TcOn(tc_nodes'[u], tc_next') = TcOn(tc_nodes[u], tc_next)
           /\ UNCHANGED <<tc_free, tc_data, tc_old_head>>
           /\ tc_pc[t] = "chain_back" /\ tc_pc'[t] = "delete"
<1>n. PICK n, p, l : n = tc_nodes[t] /\ p = tc_pending /\ l = Tc!Last(Tc!ListFrom(tc_nodes[t]))
  OBVIOUS
<1>1. /\ tc_pc[t] = "chain_back" /\ tc_pc'[t] = "delete"
      /\ tc_nodes' = [tc_nodes EXCEPT ![t] = Null] /\ tc_pending' = n
      /\ tc_next' = [tc_next EXCEPT ![l] = p]
      /\ UNCHANGED <<tc_head, tc_free, tc_data, tc_old_head>>
      /\ TcHand(t)' = TcHand(t)
  BY <1>n
  DEF Tc!ChainBack, Tc!ChainPending, Tc!Goto, Tc!TypeOK, TcHand, Tc!Holding, Tc!Alone
<1>2. n # Null /\ tc_nodes'[t] = Null /\ \A u \in Threads : u # t => tc_nodes'[u] = tc_nodes[u]
  BY <1>n, <1>1 DEF Tc!LocalsOK, Tc!TypeOK
<1>3. TcOk(n, tc_next) /\ TcOk(p, tc_next) /\ TcOn(n, tc_next) \cap TcOn(p, tc_next) = {}
  BY <1>n, TcApartFrom DEF TcLists
<1>4. l = LastOf(ListOf(n, tc_next, Null, AllNodes))
  BY <1>n, TcListFromIs DEF LastOf, Tc!Last
<1>5. l \in TcOn(n, tc_next) /\ l \in AllNodes
  <2>1. l \in TcOn(n, tc_next)
    BY <1>2, <1>3, <1>4, LastOnList DEF TcOn, TcOk, TcConstants
  <2> QED
    BY <1>3, <2>1, TcOkNodes
<1>6. tc_next'[l] = p /\ \A m \in AllNodes : m # l => tc_next'[m] = tc_next[m]
  BY <1>1, <1>5 DEF Tc!TypeOK
<1>7. TcOk(n, tc_next') /\ TcOn(n, tc_next') = TcOn(n, tc_next) \cup TcOn(p, tc_next)
  <2>1. \A k \in TcOn(n, tc_next) \cup TcOn(p, tc_next) : k # l => tc_next'[k] = tc_next[k]
    BY <1>3, <1>6, TcOkNodes
  <2> QED
    BY <1>2, <1>3, <1>4, <1>6, <2>1, TcOkAppend
<1>8. ASSUME NEW m, TcOk(m, tc_next), l \notin TcOn(m, tc_next)
      PROVE  TcOk(m, tc_next') /\ TcOn(m, tc_next') = TcOn(m, tc_next)
                 /\ \A k \in TcOn(m, tc_next) : tc_next'[k] = tc_next[k]
  <2>1. \A k \in TcOn(m, tc_next) : tc_next'[k] = tc_next[k]
    BY <1>6, <1>8, TcOkNodes
  <2> QED
    BY <1>8, <2>1, TcOkFrame
<1>9. TcOk(tc_head, tc_next) /\ l \notin TcOn(tc_head, tc_next)
  BY <1>n, <1>5, TcApartFrom DEF TcLists
<1>10. \A u \in Threads : u # t
           => TcOk(tc_nodes[u], tc_next) /\ l \notin TcOn(tc_nodes[u], tc_next)
  BY <1>n, <1>5, TcApartFrom DEF TcLists
<1>11. TcOk(Null, tc_next') /\ TcOn(Null, tc_next') = {}
  BY TcOkEmpty
<1>12. TcLists'
  <2>1. \A u \in Threads : TcOk(tc_nodes'[u], tc_next')
    BY <1>2, <1>8, <1>10, <1>11
  <2> QED
    BY <1>1, <1>7, <1>8, <1>9, <2>1 DEF TcLists
<1>13. \A j \in TcKinds, u \in TcCallers :
        TcSamePlace(j, u, "list", t) \/ TcSamePlace(j, u, "pending", t)
            \/ TcPlace(j, u)' = TcPlace(j, u)
  <2>1. /\ tc_free' = tc_free /\ TcOn(tc_head', tc_next') = TcOn(tc_head, tc_next)
        /\ TcHand(t)' = TcHand(t)
        /\ \A u \in Threads : u # t => TcOn(tc_nodes'[u], tc_next') = TcOn(tc_nodes[u], tc_next)
    BY <1>1, <1>2, <1>8, <1>9, <1>10
  <2> QED
    BY <2>1, TcElsewhere DEF TcSamePlace
<1>14. /\ "pending" \in TcKinds /\ "list" \in TcKinds /\ t \in TcCallers
      /\ TcPlace("pending", t) = TcOn(tc_pending, tc_next)
      /\ TcPlace("list", t) = TcOn(tc_nodes[t], tc_next)
      /\ TcPlace("pending", t)' = TcOn(tc_pending', tc_next')
      /\ TcPlace("list", t)' = TcOn(tc_nodes'[t], tc_next')
  BY DEF TcKinds, TcCallers, TcPlace
<1>15. TcPlaced'
  <2> DEFINE M == TcOn(tc_nodes[t], tc_next)
  <2>1. /\ M \subseteq TcPlace("list", t) /\ TcPlace("list", t)' = TcPlace("list", t) \ M
        /\ TcPlace("pending", t)' = TcPlace("pending", t) \cup M
    BY <1>n, <1>1, <1>2, <1>7, <1>11, <1>14
  <2> HIDE DEF M
  <2> QED
    BY <1>13, <1>14, <2>1, TcMove, SMTT(30)
<1>16. \A u \in Threads : u # t => TcOn(tc_nodes'[u], tc_next') = TcOn(tc_nodes[u], tc_next)
  BY <1>2, <1>8, <1>10
<1>17. TcOn(tc_head', tc_next') = TcOn(tc_head, tc_next)
           /\ \A m \in TcOn(tc_head, tc_next) : tc_next'[m] = tc_next[m]
  BY <1>1, <1>8, <1>9
<1> QED
  BY <1>1, <1>12, <1>15, <1>16, <1>17

\* The node popped goes.
LEMMA TcDeletePlaced ==
    ASSUME TcConstants, Tc!TypeOK, Tc!LocalsOK, TcLists, TcPlaced, NEW t \in Threads,
           TcSteps(t),
           Tc!Delete(t)
    PROVE  /\ TcLists' /\ TcPlaced'
           /\ tc_pc[t] = "delete" /\ tc_pc'[t] = "idle"
           /\ tc_free' = tc_free \cup {tc_old_head[t]}
           /\ UNCHANGED <<tc_head, tc_pending, tc_next, tc_nodes, tc_data>>
<1>1. /\ tc_pc[t] = "delete" /\ tc_pc'[t] = "idle"
      /\ tc_free' = tc_free \cup {tc_old_head[t]} /\ TcHand(t) = {tc_old_head[t]}
      /\ TcHand(t)' = {}
      /\ UNCHANGED <<tc_head, tc_pending, tc_next, tc_nodes, tc_data>>
  BY DEF Tc!Delete, Tc!Goto, Tc!TypeOK, Tc!shared, TcHand, Tc!Holding, Tc!Alone
<1>2. TcLists'
  BY <1>1 DEF TcLists
<1>3. \A j \in TcKinds, u \in TcCallers :
        TcSamePlace(j, u, "hand", t) \/ TcSamePlace(j, u, "free", t)
            \/ TcPlace(j, u)' = TcPlace(j, u)
  BY <1>1, TcElsewhere DEF TcSamePlace
<1>4. /\ "free" \in TcKinds /\ "hand" \in TcKinds /\ t \in TcCallers
      /\ TcPlace("free", t) = tc_free /\ TcPlace("hand", t) = TcHand(t)
      /\ TcPlace("free", t)' = tc_free' /\ TcPlace("hand", t)' = TcHand(t)'
  BY DEF TcKinds, TcCallers, TcPlace
<1>5. TcPlaced'
  <2> DEFINE M == TcHand(t)
  <2>1. /\ M \subseteq TcPlace("hand", t) /\ TcPlace("hand", t)' = TcPlace("hand", t) \ M
        /\ TcPlace("free", t)' = TcPlace("free", t) \cup M
    BY <1>1, <1>4
  <2> HIDE DEF M
  <2> QED
    BY <1>3, <1>4, <2>1, TcMove, SMTT(30)
<1> QED
  BY <1>1, <1>2, <1>5

\* Or it goes on the pending list.
LEMMA TcChainNodePlaced ==
    ASSUME TcConstants, Tc!TypeOK, Tc!LocalsOK, TcLists, TcPlaced, NEW t \in Threads,
           TcSteps(t),
           Tc!ChainPendingNode(t)
    PROVE  /\ TcLists' /\ TcPlaced'
           /\ tc_head' = tc_head /\ TcOn(tc_head', tc_next') = TcOn(tc_head, tc_next)
           /\ \A m \in TcOn(tc_head, tc_next) : tc_next'[m] = tc_next[m]
           /\ \A u \in Threads : TcOn(tc_nodes'[u], tc_next') = TcOn(tc_nodes[u], tc_next)
           /\ UNCHANGED <<tc_free, tc_data>>
           /\ tc_pc[t] = "chain" /\ tc_pc'[t] = "leave"
<1>n. PICK n, p : n = tc_old_head[t] /\ p = tc_pending
  OBVIOUS
<1>1. /\ n \in AllNodes /\ TcHand(t) = {n} /\ TcHand(t)' = {}
      /\ tc_pc[t] = "chain" /\ tc_pc'[t] = "leave"
      /\ tc_next' = [tc_next EXCEPT ![n] = p] /\ tc_pending' = n
      /\ UNCHANGED <<tc_head, tc_free, tc_nodes, tc_data>>
  BY <1>n
  DEF Tc!ChainPendingNode, Tc!ChainPending, Tc!Goto, Tc!TypeOK, Tc!LocalsOK, Tc!NodeOrNull,
      TcHand, Tc!Holding, Tc!Alone
<1>2. /\ n \notin TcOn(tc_head, tc_next) /\ n \notin TcOn(p, tc_next)
      /\ \A u \in Threads : n \notin TcOn(tc_nodes[u], tc_next)
  BY <1>n, <1>1, TcApartFrom
<1>3. tc_next'[n] = p /\ \A m \in AllNodes \ {n} : tc_next'[m] = tc_next[m]
  BY <1>1 DEF Tc!TypeOK
<1>4. ASSUME NEW m, TcOk(m, tc_next), n \notin TcOn(m, tc_next)
      PROVE  TcOk(m, tc_next') /\ TcOn(m, tc_next') = TcOn(m, tc_next)
                 /\ \A k \in TcOn(m, tc_next) : tc_next'[k] = tc_next[k]
  <2>1. \A k \in TcOn(m, tc_next) : tc_next'[k] = tc_next[k]
    BY <1>3, <1>4, TcOkNodes
  <2> QED
    BY <1>4, <2>1, TcOkFrame
<1>5. TcOk(n, tc_next') /\ TcOn(n, tc_next') = TcOn(p, tc_next) \cup {n}
  <2>1. TcOk(p, tc_next)
    BY <1>n DEF TcLists
  <2>2. \A k \in TcOn(p, tc_next) : tc_next'[k] = tc_next[k]
    BY <1>2, <1>4, <2>1
  <2>3. n \in AllNodes /\ n \notin TcOn(p, tc_next) /\ tc_next'[n] = p
    BY <1>1, <1>2, <1>3
  <2> QED
    BY <2>1, <2>2, <2>3, TcOkPush
<1>6. TcOk(tc_head, tc_next') /\ TcOn(tc_head, tc_next') = TcOn(tc_head, tc_next)
      /\ \A m \in TcOn(tc_head, tc_next) : tc_next'[m] = tc_next[m]
  BY <1>2, <1>4 DEF TcLists
<1>7. \A u \in Threads : TcOk(tc_nodes[u], tc_next')
          /\ TcOn(tc_nodes[u], tc_next') = TcOn(tc_nodes[u], tc_next)
  BY <1>2, <1>4 DEF TcLists
<1>8. TcLists'
  BY <1>1, <1>5, <1>6, <1>7 DEF TcLists
<1>9. \A j \in TcKinds, u \in TcCallers :
        TcSamePlace(j, u, "hand", t) \/ TcSamePlace(j, u, "pending", t)
            \/ TcPlace(j, u)' = TcPlace(j, u)
  BY <1>1, <1>6, <1>7, TcElsewhere DEF TcSamePlace
<1>10. /\ "pending" \in TcKinds /\ "hand" \in TcKinds /\ t \in TcCallers
      /\ TcPlace("pending", t) = TcOn(tc_pending, tc_next) /\ TcPlace("hand", t) = TcHand(t)
      /\ TcPlace("pending", t)' = TcOn(tc_pending', tc_next')
      /\ TcPlace("hand", t)' = TcHand(t)'
  BY DEF TcKinds, TcCallers, TcPlace
<1>11. TcPlaced'
  <2> DEFINE M == {n}
  <2>1. /\ M \subseteq TcPlace("hand", t) /\ TcPlace("hand", t)' = TcPlace("hand", t) \ M
        /\ TcPlace("pending", t)' = TcPlace("pending", t) \cup M
    BY <1>n, <1>1, <1>5, <1>10
  <2>2. /\ "hand" \in TcKinds /\ "pending" \in TcKinds /\ t \in TcCallers
        /\ "hand" # "pending"
    BY <1>10
  <2> HIDE DEF M
  <2> QED
    BY <1>9, <2>1, <2>2, TcMove, SMTT(30)
<1> QED
  BY <1>1, <1>6, <1>7, <1>8, <1>11

\* What a thread holds keeps its data, unless the thread swaps it out.
LEMMA TcHeldData ==
    ASSUME Tc!TypeOK, Tc!LocalsOK, TcPlaced, NEW t \in Threads, TcSteps(t),
           NEW u \in Threads, u # t, tc_pc[u] \in Tc!Holding
    PROVE  tc_data'[tc_old_head[u]] = tc_data[tc_old_head[u]]
<1>n. PICK n : n = tc_old_head[u]
  OBVIOUS
<1>1. n \in AllNodes /\ n \in TcHand(u)
  BY <1>n DEF Tc!LocalsOK, Tc!TypeOK, Tc!NodeOrNull, TcHand
<1>2. n \notin tc_free /\ n \notin TcHand(t)
  BY <1>1, TcApartFrom
<1>3. ASSUME NEW v \in Values, Tc!PushAlloc(t, v)
      PROVE  tc_data'[n] = tc_data[n]
  BY <1>1, <1>2, <1>3 DEF Tc!PushAlloc, Tc!TypeOK
<1>4. CASE Tc!SwapData(t)
  <2>1. n # tc_old_head[t]
    BY <1>2, <1>4 DEF Tc!SwapData, Tc!Goto, TcHand, Tc!Holding
  <2> QED
    BY <1>n, <1>1, <1>4, <2>1 DEF Tc!SwapData, Tc!TypeOK
<1>5. CASE tc_data' = tc_data
  BY <1>n, <1>5
<1>6. CASE Tc!PushCas(t) \/ Tc!Pop(t)
  BY <1>n, <1>4, <1>5, <1>6
  DEF Tc!PushCas, Tc!Pop, Tc!PopEnter, Tc!LoadHead, Tc!LeaveEmpty, Tc!ReadNext, Tc!PopCas,
      Tc!node
<1>7. CASE Tc!TryReclaim(t)
  BY <1>5, <1>7
  DEF Tc!TryReclaim, Tc!TestCount, Tc!ExchangeList, Tc!Decrement, Tc!DeleteNodes,
      Tc!ChainBack, Tc!Delete, Tc!ChainPendingNode, Tc!Leave, Tc!node
<1> QED
  BY <1>n, <1>3, <1>6, <1>7 DEF TcSteps

TcLocalOK(t) ==
    /\ tc_pc[t] \in Tc!Looking \cup Tc!Holding => tc_old_head[t] # Null
    /\ tc_pc[t] = "push_cas" => tc_data[tc_old_head[t]] \in Values
    /\ tc_nodes[t] # Null => tc_pc[t] \in Tc!Taking
    /\ tc_pc[t] = "chain_back" => tc_nodes[t] # Null

\* Every step keeps the locals right.
LEMMA TcStepLocalsOK ==
    ASSUME TcConstants, Tc!TypeOK, Tc!LocalsOK, TcPlaced, NEW t \in Threads,
           TcSteps(t)
    PROVE  Tc!LocalsOK'
<1>0. TcLocalOK(t)
  BY DEF Tc!LocalsOK, TcLocalOK
<1>1. ASSUME NEW u \in Threads, u # t
      PROVE  TcLocalOK(u)'
  <2>1. /\ tc_pc'[u] = tc_pc[u] /\ tc_old_head'[u] = tc_old_head[u]
        /\ tc_nodes'[u] = tc_nodes[u]
        /\ tc_pc[u] = "push_cas" => tc_data'[tc_old_head[u]] = tc_data[tc_old_head[u]]
    BY <1>1, TcOthersKept, TcHeldData DEF Tc!Holding
  <2> QED
    BY <2>1 DEF Tc!LocalsOK, TcLocalOK
<1>2. TcLocalOK(t)'
  <2> USE <1>0 DEF Tc!TypeOK, Tc!Goto, Tc!node, Tc!shared,
               Tc!Looking, Tc!Holding, Tc!Alone, Tc!Taking
  <2>1. ASSUME NEW v \in Values, Tc!PushAlloc(t, v)
        PROVE  TcLocalOK(t)'
    BY <2>1 DEF Tc!PushAlloc, TcLocalOK, TcConstants
  <2>2. CASE Tc!PushCas(t) \/ Tc!PopEnter(t) \/ Tc!LoadHead(t) \/ Tc!LeaveEmpty(t)
    BY <2>2 DEF Tc!PushCas, Tc!PopEnter, Tc!LoadHead, Tc!LeaveEmpty, TcLocalOK
  <2>3. CASE Tc!ReadNext(t) \/ Tc!PopCas(t) \/ Tc!SwapData(t)
    BY <2>3 DEF Tc!ReadNext, Tc!PopCas, Tc!SwapData, TcLocalOK
  <2>4. CASE Tc!TestCount(t) \/ Tc!ExchangeList(t) \/ Tc!Decrement(t)
    BY <2>4 DEF Tc!TestCount, Tc!ExchangeList, Tc!Decrement, TcLocalOK
  <2>5. CASE Tc!DeleteNodes(t) \/ Tc!Delete(t) \/ Tc!Leave(t)
    BY <2>5 DEF Tc!DeleteNodes, Tc!Delete, Tc!Leave, TcLocalOK
  <2>6. CASE Tc!ChainBack(t) \/ Tc!ChainPendingNode(t)
    BY <2>6 DEF Tc!ChainBack, Tc!ChainPendingNode, TcLocalOK
  <2> QED
    BY <2>1, <2>2, <2>3, <2>4, <2>5, <2>6 DEF TcSteps, Tc!Pop, Tc!TryReclaim
<1>3. \A u \in Threads : TcLocalOK(u)'
  BY <1>1, <1>2
<1> QED
  BY <1>3 DEF Tc!LocalsOK, TcLocalOK

\* Every step keeps the nodes in their places.
LEMMA TcStepPlaced ==
    ASSUME TcConstants, Tc!TypeOK, Tc!LocalsOK, TcLists, TcPlaced, TcWatching,
           NEW t \in Threads, TcSteps(t)
    PROVE  TcLists' /\ TcPlaced'
<1>1. CASE \E v \in Values : Tc!PushAlloc(t, v)
  BY <1>1, TcPushAllocPlaced
<1>2. CASE Tc!PushCas(t)
  BY <1>2, TcPushCasPlaced
<1>3. CASE Tc!Pop(t)
  <2>1. CASE Tc!PopCas(t)
    <3>1. tc_pc'[t] = "data" \/ tc_pc'[t] = "load_head"
      BY <2>1 DEF Tc!PopCas, Tc!Goto, Tc!TypeOK
    <3> QED
      BY <2>1, <3>1, TcPopCasPlaced, TcQuietPlaced DEF TcQuietStep
  <2>2. CASE ~Tc!PopCas(t)
    BY <1>3, <2>2, TcQuietPlaced DEF TcQuietStep, Tc!Pop
  <2> QED
    BY <2>1, <2>2
<1>4. CASE Tc!TryReclaim(t)
  BY <1>4, TcExchangePlaced, TcDeleteNodesPlaced, TcChainBackPlaced, TcDeletePlaced,
      TcChainNodePlaced, TcQuietPlaced
  DEF Tc!TryReclaim, TcQuietStep
<1> QED
  BY <1>1, <1>2, <1>3, <1>4 DEF TcSteps

-----------------------------------------------------------------------------
(* What the looked-at tc_nodes are safe from *)

\* The steps that leave the stack, the free nodes and the threads that are alone as
\* they are to somebody who looks: nothing more is freed, and next stays on the stack.
LEMMA TcLookersKept ==
    ASSUME Tc!TypeOK, TcWatching, NEW t \in Threads, TcSteps(t),
           NEW v \in Threads, v # t, tc_pc[v] \in Tc!Looking, tc_old_head[v] \notin tc_free',
           tc_old_head[v] \in TcOn(tc_head', tc_next') =>
             tc_old_head[v] \in TcOn(tc_head, tc_next)
                 /\ tc_next'[tc_old_head[v]] = tc_next[tc_old_head[v]],
           tc_pc'[t] \in {"push_cas"} \cup Tc!Alone => tc_old_head'[t] # tc_old_head[v],
           tc_pc'[t] = "delete_nodes" => tc_old_head[v] \notin TcOn(tc_nodes'[t], tc_next'),
           \A u \in Threads : u # t => TcOn(tc_nodes'[u], tc_next') = TcOn(tc_nodes[u], tc_next)
    PROVE  TcWatchedBy(v)'
<1>n. PICK n : n = tc_old_head[v]
  OBVIOUS
<1>0. TcWatchedBy(v)
  BY DEF TcWatching
<1>1. tc_pc'[v] = tc_pc[v] /\ tc_old_head'[v] = n /\ tc_nxt'[v] = tc_nxt[v]
  BY <1>n, TcOthersKept
<1>2. tc_old_head'[v] \notin tc_free'
  BY <1>n, <1>1
<1>3. tc_pc'[v] = "pop_cas" /\ tc_old_head'[v] \in TcOn(tc_head', tc_next')
          => tc_nxt'[v] = tc_next'[tc_old_head'[v]]
  BY <1>n, <1>0, <1>1 DEF TcWatchedBy
<1>4. ASSUME NEW u \in Threads
      PROVE  /\ tc_pc'[u] \in {"push_cas"} \cup Tc!Alone => tc_old_head'[u] # tc_old_head'[v]
             /\ tc_pc'[u] = "delete_nodes"
                    => tc_old_head'[v] \notin TcOn(tc_nodes'[u], tc_next')
  <2>1. CASE u = t
    BY <1>n, <1>1, <2>1
  <2>2. CASE u # t
    <3>1. tc_pc'[u] = tc_pc[u] /\ tc_old_head'[u] = tc_old_head[u]
      BY <2>2, TcOthersKept
    <3>2. TcOn(tc_nodes'[u], tc_next') = TcOn(tc_nodes[u], tc_next)
      BY <2>2
    <3>3. /\ tc_pc[u] \in {"push_cas"} \cup Tc!Alone => tc_old_head[u] # n
          /\ tc_pc[u] = "delete_nodes" => n \notin TcOn(tc_nodes[u], tc_next)
      BY <1>n, <1>0 DEF TcWatchedBy
    <3> QED
      BY <1>1, <3>1, <3>2, <3>3
  <2> QED
    BY <2>1, <2>2
<1> QED
  BY <1>2, <1>3, <1>4 DEF TcWatchedBy

\* Steps of another thread leave what a thread looks at.
LEMMA TcOthersWatch ==
    ASSUME TcConstants, Tc!TypeOK, Tc!LocalsOK, TcLists, TcPlaced, TcCountRight,
           TcWatching,
           NEW t \in Threads, TcSteps(t), NEW v \in Threads, v # t, tc_pc[v] \in Tc!Looking
    PROVE  TcWatchedBy(v)'
<1>n. PICK n : n = tc_old_head[v]
  OBVIOUS
<1>0. /\ n \notin tc_free
      /\ tc_pc[t] \in {"push_cas"} \cup Tc!Alone => tc_old_head[t] # n
      /\ tc_pc[t] = "delete_nodes" => n \notin TcOn(tc_nodes[t], tc_next)
  BY <1>n DEF TcWatching, TcWatchedBy
<1> DEFINE Stays == n \in TcOn(tc_head', tc_next')
        => n \in TcOn(tc_head, tc_next) /\ tc_next'[n] = tc_next[n]
           Others == \A u \in Threads : u # t
               => TcOn(tc_nodes'[u], tc_next') = TcOn(tc_nodes[u], tc_next)
<1>1. ASSUME NEW w \in Values, Tc!PushAlloc(t, w)
      PROVE  TcWatchedBy(v)'
  <2>1. /\ tc_free' \subseteq tc_free /\ tc_old_head'[t] \in tc_free
        /\ tc_pc'[t] = "push_cas" /\ UNCHANGED <<tc_head, tc_next, tc_nodes>>
    BY <1>1 DEF Tc!PushAlloc, Tc!Goto, Tc!TypeOK, Tc!shared
  <2>2. Stays /\ Others /\ n \notin tc_free' /\ tc_old_head'[t] # n
            /\ tc_pc'[t] # "delete_nodes"
    BY <1>0, <2>1
  <2> QED
    BY <1>n, <2>2, TcLookersKept
<1>2. CASE Tc!PushCas(t)
  <2>1. /\ tc_pc'[t] = "idle" /\ tc_free' = tc_free /\ tc_nodes' = tc_nodes
        /\ tc_pc[t] = "push_cas"
        /\ tc_old_head[t] \in AllNodes
        /\ tc_next' = [tc_next EXCEPT ![tc_old_head[t]] = tc_head]
    BY <1>2, TcPushCasMoves
  <2>2. TcOn(tc_head', tc_next') = TcOn(tc_head, tc_next) \cup {tc_old_head[t]} /\ TcLists'
    BY <1>2, TcPushCasPlaced
  <2>3. n # tc_old_head[t]
    BY <1>0, <2>1
  <2>4. n \in TcOn(tc_head', tc_next') => n \in TcOn(tc_head, tc_next)
    BY <2>2, <2>3
  <2>5. n \in AllNodes => tc_next'[n] = tc_next[n]
    BY <2>1, <2>3 DEF Tc!TypeOK
  <2>6. TcOn(tc_head, tc_next) \subseteq AllNodes
    BY TcOkNodes DEF TcLists
  <2>7. Stays
    BY <2>4, <2>5, <2>6
  <2>8. Others
    <3>1. ASSUME NEW u \in Threads, u # t
          PROVE  TcOn(tc_nodes[u], tc_next') = TcOn(tc_nodes[u], tc_next)
      <4>1. TcOk(tc_nodes[u], tc_next) /\ tc_old_head[t] \notin TcOn(tc_nodes[u], tc_next)
        BY <1>2, TcPushCasMoves, TcApartFrom DEF TcLists
      <4>2. TcOn(tc_nodes[u], tc_next) \subseteq AllNodes
        BY <4>1, TcOkNodes
      <4>3. \A m \in TcOn(tc_nodes[u], tc_next) : tc_next'[m] = tc_next[m]
        BY <2>1, <4>1, <4>2 DEF Tc!TypeOK
      <4> QED
        BY <4>1, <4>3, TcOkFrame
    <3> QED
      BY <2>1, <3>1
  <2>9. tc_pc'[t] \notin {"push_cas"} \cup Tc!Alone /\ tc_pc'[t] # "delete_nodes"
            /\ n \notin tc_free'
    BY <1>0, <2>1 DEF Tc!Alone
  <2> HIDE DEF Stays, Others
  <2> QED
    BY <1>n, <2>7, <2>8, <2>9, TcLookersKept DEF Stays, Others
<1>3. CASE TcQuietStep(t)
  <2>1. /\ UNCHANGED <<tc_head, tc_pending, tc_next, tc_free, tc_nodes>>
        /\ TcHand(t)' = TcHand(t)
    BY <1>3, TcQuietMoves
  <2>2. Stays /\ Others /\ n \notin tc_free'
    BY <1>0, <2>1
  <2>3. tc_pc'[t] \in {"push_cas"} \cup Tc!Alone => tc_old_head'[t] # n
    <3>1. CASE Tc!TestCount(t)
      <4>1. tc_old_head' = tc_old_head /\ (tc_pc'[t] = "exchange" => tc_in_pop = 1)
            /\ tc_pc'[t] \in {"exchange", "chain"} /\ tc_pc[t] = "test_count"
        BY <3>1 DEF Tc!TestCount, Tc!Goto, Tc!TypeOK
      <4>2. t \in Tc!InPop /\ v \in Tc!InPop
        BY <4>1 DEF Tc!InPop, Tc!Counted, Tc!Looking
      <4>3. tc_in_pop # 1
        BY <4>2, TcInPopCount DEF TcCountRight
      <4> QED
        BY <4>1, <4>3 DEF Tc!Alone
    <3>2. CASE Tc!Decrement(t) \/ (Tc!DeleteNodes(t) /\ tc_nodes[t] = Null)
      <4>1. tc_old_head' = tc_old_head /\ tc_pc[t] \in Tc!Alone
        BY <3>2 DEF Tc!Decrement, Tc!DeleteNodes, Tc!Goto, Tc!Alone
      <4> QED
        BY <1>0, <4>1
    <3>3. CASE Tc!PopEnter(t) \/ Tc!LoadHead(t) \/ Tc!LeaveEmpty(t) \/ Tc!ReadNext(t)
                   \/ Tc!SwapData(t)
      BY <3>3
      DEF Tc!PopEnter, Tc!LoadHead, Tc!LeaveEmpty, Tc!ReadNext, Tc!SwapData, Tc!Goto,
          Tc!TypeOK, Tc!Alone
    <3>4. CASE Tc!Leave(t) \/ (Tc!PopCas(t) /\ tc_pc'[t] = "load_head")
      BY <3>4 DEF Tc!Leave, Tc!PopCas, Tc!Goto, Tc!TypeOK, Tc!Alone
    <3> QED
      BY <1>3, <3>1, <3>2, <3>3, <3>4 DEF TcQuietStep
  <2>4. tc_pc'[t] # "delete_nodes"
    <3>1. CASE Tc!Decrement(t)
      <4>1. tc_in_pop' = 0 => Tc!InPop' = {}
        BY TcCountStep, TcCountMoves
      <4>2. v \in Tc!InPop'
        BY TcOthersKept DEF Tc!InPop, Tc!Counted, Tc!Looking
      <4>3. tc_in_pop' # 0
        BY <4>1, <4>2
      <4> QED
        BY <3>1, <4>3 DEF Tc!Decrement, Tc!Goto, Tc!TypeOK
    <3>2. CASE Tc!DeleteNodes(t) /\ tc_nodes[t] = Null
      BY <3>2 DEF Tc!DeleteNodes, Tc!Goto, Tc!TypeOK
    <3>3. CASE Tc!PopEnter(t) \/ Tc!LoadHead(t) \/ Tc!LeaveEmpty(t) \/ Tc!ReadNext(t)
                   \/ Tc!SwapData(t)
      BY <3>3
      DEF Tc!PopEnter, Tc!LoadHead, Tc!LeaveEmpty, Tc!ReadNext, Tc!SwapData, Tc!Goto,
          Tc!TypeOK
    <3>4. CASE Tc!TestCount(t) \/ Tc!Leave(t) \/ (Tc!PopCas(t) /\ tc_pc'[t] = "load_head")
      BY <3>4 DEF Tc!TestCount, Tc!Leave, Tc!PopCas, Tc!Goto, Tc!TypeOK
    <3> QED
      BY <1>3, <3>1, <3>2, <3>3, <3>4 DEF TcQuietStep
  <2> QED
    BY <1>n, <2>2, <2>3, <2>4, TcLookersKept
<1>4. CASE Tc!PopCas(t) /\ tc_pc'[t] = "data"
  <2>1. UNCHANGED <<tc_free, tc_next, tc_nodes>>
    BY <1>4, TcPopCasMoves
  <2>2. TcOn(tc_head', tc_next') = TcOn(tc_head, tc_next) \ {tc_head}
    BY <1>4, TcPopCasPlaced
  <2>3. Stays /\ Others /\ n \notin tc_free'
    BY <1>0, <2>1, <2>2
  <2> QED
    BY <1>n, <1>4, <2>3, TcLookersKept DEF Tc!Alone
<1>5. CASE Tc!ExchangeList(t)
  <2>1. /\ tc_pc[t] = "exchange" /\ tc_pc'[t] = "decrement"
        /\ tc_nodes' = [tc_nodes EXCEPT ![t] = tc_pending]
        /\ UNCHANGED <<tc_head, tc_free, tc_next, tc_old_head>>
    BY <1>5 DEF Tc!ExchangeList, Tc!Goto, Tc!TypeOK, Tc!node
  <2>2. Others
    BY <2>1 DEF Tc!TypeOK
  <2>3. Stays /\ n \notin tc_free' /\ tc_old_head'[t] # n /\ tc_pc'[t] # "delete_nodes"
    BY <1>0, <2>1 DEF Tc!Alone
  <2> QED
    BY <1>n, <2>2, <2>3, TcLookersKept
<1>6. CASE Tc!DeleteNodes(t) /\ tc_nodes[t] # Null
  <2>1. /\ tc_free' = tc_free \cup {tc_nodes[t]} /\ tc_nodes[t] \in TcOn(tc_nodes[t], tc_next)
        /\ TcOn(tc_nodes'[t], tc_next') \subseteq TcOn(tc_nodes[t], tc_next)
        /\ \A u \in Threads : u # t => tc_nodes'[u] = tc_nodes[u]
        /\ tc_pc[t] = "delete_nodes" /\ UNCHANGED <<tc_pc, tc_head, tc_next, tc_old_head>>
    BY <1>6, TcDeleteNodesPlaced
  <2>2. Stays /\ Others /\ n \notin tc_free' /\ tc_old_head'[t] # n
            /\ n \notin TcOn(tc_nodes'[t], tc_next')
    BY <1>0, <2>1 DEF Tc!Alone
  <2> QED
    BY <1>n, <2>2, TcLookersKept
<1>7. CASE Tc!ChainBack(t)
  <2>1. /\ TcOn(tc_head', tc_next') = TcOn(tc_head, tc_next)
        /\ \A m \in TcOn(tc_head, tc_next) : tc_next'[m] = tc_next[m]
        /\ Others
        /\ UNCHANGED <<tc_free, tc_old_head>>
        /\ tc_pc[t] = "chain_back" /\ tc_pc'[t] = "delete"
    BY <1>7, TcChainBackPlaced
  <2>2. Stays /\ n \notin tc_free' /\ tc_old_head'[t] # n /\ tc_pc'[t] # "delete_nodes"
    BY <1>0, <2>1 DEF Tc!Alone
  <2> QED
    BY <1>n, <2>1, <2>2, TcLookersKept
<1>8. CASE Tc!Delete(t)
  <2>1. /\ tc_pc[t] = "delete" /\ tc_pc'[t] = "idle" /\ tc_free' = tc_free \cup {tc_old_head[t]}
        /\ UNCHANGED <<tc_head, tc_next, tc_nodes>>
    BY <1>8, TcDeletePlaced
  <2>2. Stays /\ Others /\ n \notin tc_free' /\ tc_pc'[t] \notin {"push_cas"} \cup Tc!Alone
        /\ tc_pc'[t] # "delete_nodes"
    BY <1>0, <2>1 DEF Tc!Alone
  <2> QED
    BY <1>n, <2>2, TcLookersKept
<1>9. CASE Tc!ChainPendingNode(t)
  <2>1. /\ TcOn(tc_head', tc_next') = TcOn(tc_head, tc_next)
        /\ \A m \in TcOn(tc_head, tc_next) : tc_next'[m] = tc_next[m]
        /\ Others /\ tc_free' = tc_free /\ tc_pc'[t] = "leave"
    BY <1>9, TcChainNodePlaced
  <2>2. Stays /\ n \notin tc_free' /\ tc_pc'[t] \notin {"push_cas"} \cup Tc!Alone
        /\ tc_pc'[t] # "delete_nodes"
    BY <1>0, <2>1 DEF Tc!Alone
  <2> QED
    BY <1>n, <2>1, <2>2, TcLookersKept
<1>10. CASE Tc!PopCas(t)
  <2>1. tc_pc'[t] = "data" \/ tc_pc'[t] = "load_head"
    BY <1>10 DEF Tc!PopCas, Tc!Goto, Tc!TypeOK
  <2> QED
    BY <1>3, <1>4, <1>10, <2>1 DEF TcQuietStep
<1> QED
  BY <1>1, <1>2, <1>3, <1>5, <1>6, <1>7, <1>8, <1>9, <1>10
  DEF TcSteps, Tc!Pop, Tc!TryReclaim, TcQuietStep

\* And so do its own.
LEMMA TcOwnWatch ==
    ASSUME TcConstants, Tc!TypeOK, Tc!LocalsOK, TcLists, TcPlaced, TcWatching,
           NEW t \in Threads, TcSteps(t), tc_pc'[t] \in Tc!Looking
    PROVE  TcWatchedBy(t)'
<1>1. (Tc!LoadHead(t) /\ tc_head # Null) \/ Tc!ReadNext(t)
  <2> USE DEF Tc!Goto, Tc!TypeOK, Tc!Looking
  <2>1. CASE (\E v \in Values : Tc!PushAlloc(t, v)) \/ Tc!PushCas(t)
    BY <2>1 DEF Tc!PushAlloc, Tc!PushCas
  <2>2. CASE Tc!Pop(t)
    BY <2>2 DEF Tc!Pop, Tc!PopEnter, Tc!LoadHead, Tc!LeaveEmpty, Tc!PopCas, Tc!SwapData
  <2>3. CASE Tc!TryReclaim(t)
    BY <2>3
    DEF Tc!TryReclaim, Tc!TestCount, Tc!ExchangeList, Tc!Decrement, Tc!DeleteNodes,
        Tc!ChainBack, Tc!Delete, Tc!ChainPendingNode, Tc!Leave
  <2> QED
    BY <2>1, <2>2, <2>3 DEF TcSteps
<1>2. UNCHANGED <<tc_head, tc_pending, tc_next, tc_free, tc_nodes>>
  BY <1>1, TcQuietMoves DEF TcQuietStep
<1>3. CASE Tc!LoadHead(t) /\ tc_head # Null
  <2>n. PICK n : n = tc_head
    OBVIOUS
  <2>1. tc_old_head'[t] = n /\ tc_pc'[t] = "read_next"
    BY <1>3, <2>n DEF Tc!LoadHead, Tc!Goto, Tc!TypeOK
  <2>2. n \in TcOn(tc_head, tc_next)
    BY <1>3, <2>n, TcOkNodes DEF TcLists
  <2>3. n \notin tc_free
    BY <2>2, TcApartFrom
  <2>4. ASSUME NEW u \in Threads
        PROVE  /\ tc_pc'[u] \in {"push_cas"} \cup Tc!Alone => tc_old_head'[u] # n
               /\ n \notin TcOn(tc_nodes'[u], tc_next')
    <3>1. n \notin TcHand(u) /\ n \notin TcOn(tc_nodes[u], tc_next)
      BY <2>2, TcApartFrom
    <3>2. u # t => tc_pc'[u] = tc_pc[u] /\ tc_old_head'[u] = tc_old_head[u]
      BY TcOthersKept
    <3>3. n \notin TcOn(tc_nodes'[u], tc_next')
      BY <1>2, <3>1
    <3>4. tc_pc'[u] \in {"push_cas"} \cup Tc!Alone => tc_old_head'[u] # n
      BY <2>1, <3>1, <3>2 DEF TcHand, Tc!Holding, Tc!Alone
    <3> QED
      BY <3>3, <3>4
  <2> QED
    BY <1>2, <2>1, <2>3, <2>4 DEF TcWatchedBy
<1>4. CASE Tc!ReadNext(t)
  <2>n. PICK n : n = tc_old_head[t]
    OBVIOUS
  <2>1. /\ tc_old_head' = tc_old_head /\ tc_pc[t] = "read_next"
        /\ tc_pc' = [tc_pc EXCEPT ![t] = "pop_cas"]
        /\ tc_nxt'[t] = tc_next[n]
    BY <1>4, <2>n DEF Tc!ReadNext, Tc!Goto, Tc!TypeOK
  <2>2. TcWatchedBy(t)
    BY <2>1 DEF TcWatching, Tc!Looking
  <2>3. n \notin tc_free' /\ tc_nxt'[t] = tc_next'[n]
    BY <1>2, <2>n, <2>1, <2>2 DEF TcWatchedBy
  <2>4. ASSUME NEW u \in Threads
        PROVE  /\ tc_pc'[u] \in {"push_cas"} \cup Tc!Alone => tc_old_head'[u] # n
               /\ tc_pc'[u] = "delete_nodes" => n \notin TcOn(tc_nodes'[u], tc_next')
    <3>1. /\ tc_pc[u] \in {"push_cas"} \cup Tc!Alone => tc_old_head[u] # n
          /\ tc_pc[u] = "delete_nodes" => n \notin TcOn(tc_nodes[u], tc_next)
      BY <2>n, <2>2 DEF TcWatchedBy
    <3>2. /\ tc_pc'[u] \in {"push_cas"} \cup Tc!Alone => tc_pc'[u] = tc_pc[u]
          /\ tc_pc'[u] = "delete_nodes" => tc_pc'[u] = tc_pc[u]
      BY <2>1 DEF Tc!TypeOK, Tc!Alone
    <3>3. TcOn(tc_nodes'[u], tc_next') = TcOn(tc_nodes[u], tc_next)
              /\ tc_old_head'[u] = tc_old_head[u]
      BY <1>2, <2>1
    <3> QED
      BY <3>1, <3>2, <3>3
  <2> QED
    BY <2>n, <2>1, <2>3, <2>4 DEF TcWatchedBy
<1> QED
  BY <1>1, <1>3, <1>4

\* Every step keeps the watched nodes safe.
LEMMA TcStepWatching ==
    ASSUME TcConstants, Tc!TypeOK, Tc!LocalsOK, TcLists, TcPlaced, TcCountRight,
           TcWatching,
           NEW t \in Threads, TcSteps(t)
    PROVE  TcWatching'
<1>1. ASSUME NEW v \in Threads, tc_pc'[v] \in Tc!Looking
      PROVE  TcWatchedBy(v)'
  <2>1. CASE v = t
    BY <1>1, <2>1, TcOwnWatch
  <2>2. CASE v # t
    BY <1>1, <2>2, TcOthersKept, TcOthersWatch
  <2> QED
    BY <2>1, <2>2
<1> QED
  BY <1>1 DEF TcWatching

-----------------------------------------------------------------------------
(* Every reachable state is right *)

TcPInv == Tc!TypeOK /\ Tc!LocalsOK /\ TcLists /\ TcPlaced /\ TcCountRight /\ TcWatching

\* The constructor establishes the invariant.
LEMMA TcInitPInv == ASSUME TcConstants, Tc!Init PROVE TcPInv
<1>1. Tc!TypeOK
  BY DEF Tc!Init, Tc!TypeOK, Tc!PC, Tc!NodeOrNull, Tc!ValueOrNull
<1>2. Tc!LocalsOK
  BY DEF Tc!Init, Tc!LocalsOK, Tc!Looking, Tc!Holding, Tc!Alone
<1>3. TcLists
  BY TcOkEmpty DEF Tc!Init, TcLists
<1>4. TcPlaced
  <2>1. TcOn(Null, tc_next) = {}
    BY TcOkEmpty
  <2>2. \A k \in TcKinds, t \in TcCallers : TcPlace(k, t) = IF k = "free" THEN AllNodes ELSE {}
    BY <2>1 DEF TcPlace, TcKinds, TcCallers, Tc!Init, TcHand, Tc!Holding, Tc!Alone
  <2>3. "free" \in TcKinds /\ Null \in TcCallers
    BY DEF TcKinds, TcCallers
  <2>4. ASSUME NEW m \in AllNodes
        PROVE  \E k \in TcKinds, t \in TcCallers : m \in TcPlace(k, t)
    BY <2>2, <2>3
  <2>5. ASSUME NEW k \in TcKinds, NEW l \in TcKinds, NEW t \in TcCallers, NEW u \in TcCallers
        PROVE  TcSamePlace(k, t, l, u) \/ TcPlace(k, t) \cap TcPlace(l, u) = {}
    <3>1. k = "free" /\ l = "free" => TcSamePlace(k, t, l, u)
      BY DEF TcSamePlace
    <3> QED
      BY <2>2, <3>1
  <2> QED
    BY <2>4, <2>5 DEF TcPlaced
<1>5. TcCountRight
  <2>1. Tc!InPop = {}
    BY DEF Tc!Init, Tc!InPop, Tc!Counted
  <2>2. Cardinality(Tc!InPop) = Cardinality({}) /\ Cardinality({}) = 0
    BY <2>1, FS_EmptySet, Zenon
  <2> QED
    BY <2>2 DEF Tc!Init, TcCountRight
<1>6. TcWatching
  BY DEF Tc!Init, TcWatching, Tc!Looking
<1> QED
  BY <1>1, <1>2, <1>3, <1>4, <1>5, <1>6 DEF TcPInv

\* Every step keeps it.
LEMMA TcStepPInv == ASSUME TcConstants, TcPInv, [Tc!Next]_(Tc!vars) PROVE TcPInv'
<1>0. Tc!TypeOK /\ Tc!LocalsOK /\ TcLists /\ TcPlaced /\ TcCountRight /\ TcWatching
  BY DEF TcPInv
<1>1. CASE UNCHANGED Tc!vars
  <2>1. UNCHANGED <<tc_head, tc_pending, tc_in_pop, tc_data, tc_next, tc_free, tc_pc, tc_old_head,
                    tc_nxt, tc_res, tc_nodes>>
    BY <1>1 DEF Tc!vars, Tc!shared, Tc!node
  <2>2. Tc!TypeOK' /\ Tc!LocalsOK' /\ TcLists'
    BY <1>0, <2>1 DEF Tc!TypeOK, Tc!LocalsOK, TcLists
  <2>3. Tc!InPop' = Tc!InPop
    BY <2>1 DEF Tc!InPop
  <2>4. TcCountRight'
    BY <1>0, <2>1, <2>3, Zenon DEF TcCountRight
  <2>5. \A v \in Threads : TcWatchedBy(v) => TcWatchedBy(v)'
    BY <2>1 DEF TcWatchedBy
  <2>6. TcWatching'
    BY <1>0, <2>1, <2>5 DEF TcWatching
  <2>7. \A k \in TcKinds, t \in TcCallers : TcPlace(k, t)' = TcPlace(k, t)
    BY <2>1 DEF TcPlace, TcHand
  <2>8. TcPlaced'
    BY <1>0, <2>7, TcStay
  <2> QED
    BY <2>2, <2>4, <2>6, <2>8 DEF TcPInv
<1>2. CASE Tc!Next
  <2>1. PICK t \in Threads : TcSteps(t)
    BY <1>2 DEF Tc!Next, TcSteps
  <2>2. Tc!TypeOK' /\ Tc!LocalsOK'
    BY <1>0, <2>1, TcStepTypeOK, TcStepLocalsOK
  <2>3. TcLists' /\ TcPlaced'
    BY <1>0, <2>1, TcStepPlaced
  <2>4. TcCountRight'
    BY <1>0, <2>1, TcCountStep, TcCountMoves
  <2>5. TcWatching'
    BY <1>0, <2>1, TcStepWatching
  <2> QED
    BY <2>2, <2>3, <2>4, <2>5 DEF TcPInv
<1> QED
  BY <1>1, <1>2

\* The lists of the model, in every state the invariant allows.
LEMMA TcListsAre ==
    ASSUME TcPInv
    PROVE  /\ Tc!Linked(tc_head) /\ Tc!ToSet(Tc!ListFrom(tc_head)) = TcOn(tc_head, tc_next)
           /\ Tc!Linked(tc_pending)
           /\ Tc!ToSet(Tc!ListFrom(tc_pending)) = TcOn(tc_pending, tc_next)
           /\ \A t \in Threads : /\ Tc!Linked(tc_nodes[t])
                                 /\ Tc!ToSet(Tc!ListFrom(tc_nodes[t])) =
                                        TcOn(tc_nodes[t], tc_next)
BY TcListFromIs DEF TcPInv, TcLists

\* It says that no pop touches a deleted node.
LEMMA TcSafeMemory == ASSUME TcConstants, TcPInv PROVE Tc!NoUseAfterFree
<1> SUFFICES ASSUME NEW t \in Threads
             PROVE  /\ tc_pc[t] \in {"read_next", "data", "chain", "delete"}
                           => tc_old_head[t] \notin tc_free
                    /\ Tc!ToSet(Tc!ListFrom(tc_nodes[t])) \cap tc_free = {}
  BY DEF Tc!NoUseAfterFree
<1>1. TcOn(tc_nodes[t], tc_next) \cap tc_free = {} /\ TcHand(t) \cap tc_free = {}
  BY TcApartFrom DEF TcPInv
<1>2. tc_pc[t] = "read_next" => tc_old_head[t] \notin tc_free
  BY DEF TcPInv, TcWatching, TcWatchedBy, Tc!Looking
<1>3. tc_pc[t] \in {"data", "chain", "delete"} => tc_old_head[t] \in TcHand(t)
  BY DEF TcHand, Tc!Holding, Tc!Alone
<1> QED
  BY <1>1, <1>2, <1>3, TcListsAre

\* And that every node is in one place.
LEMMA TcSafeNodes == ASSUME TcConstants, TcPInv PROVE Tc!NodesAccounted
<1>0. Tc!TypeOK /\ Tc!LocalsOK /\ TcPlaced
  BY DEF TcPInv
<1>1. /\ Tc!ToSet(Tc!ListFrom(tc_head)) = TcOn(tc_head, tc_next)
      /\ Tc!ToSet(Tc!ListFrom(tc_pending)) = TcOn(tc_pending, tc_next)
  BY TcListsAre
<1>2. \A t \in Threads : Tc!Held(t) = TcOn(tc_nodes[t], tc_next) \cup TcHand(t)
  <2>1. ASSUME NEW t \in Threads
        PROVE  Tc!Held(t) = TcOn(tc_nodes[t], tc_next) \cup TcHand(t)
    <3>1. Tc!ToSet(Tc!ListFrom(tc_nodes[t])) = TcOn(tc_nodes[t], tc_next)
      BY TcListsAre
    <3>2. tc_pc[t] \in Tc!Holding <=> tc_pc[t] \in {"push_cas", "data", "test_count", "exchange",
                        "decrement", "delete_nodes", "chain_back", "delete", "chain"}
      BY DEF Tc!Holding, Tc!Alone
    <3> QED
      BY <3>1, <3>2 DEF Tc!Held, TcHand
  <2> QED
    BY <2>1
<1>3. ASSUME NEW m \in AllNodes
      PROVE  m \in tc_free \cup TcOn(tc_head, tc_next) \cup TcOn(tc_pending, tc_next)
                     \cup UNION {Tc!Held(t) : t \in Threads}
  <2>1. PICK k \in TcKinds, t \in TcCallers : m \in TcPlace(k, t)
    BY <1>0 DEF TcPlaced
  <2>2. CASE k \in {"free", "stack", "pending"}
    BY <2>1, <2>2 DEF TcPlace
  <2>3. CASE k \in {"list", "hand"}
    <3>1. t \in Threads /\ m \in TcOn(tc_nodes[t], tc_next) \cup TcHand(t)
      BY <2>1, <2>3 DEF TcPlace
    <3> QED
      BY <1>2, <3>1
  <2> QED
    BY <2>2, <2>3 DEF TcKinds
<1>4. /\ tc_free \subseteq AllNodes /\ TcOn(tc_head, tc_next) \subseteq AllNodes
      /\ TcOn(tc_pending, tc_next) \subseteq AllNodes
  BY <1>0, TcOkNodes DEF Tc!TypeOK, TcPInv, TcLists
<1>5. \A t \in Threads : Tc!Held(t) \subseteq AllNodes
  <2>1. ASSUME NEW t \in Threads
        PROVE  TcOn(tc_nodes[t], tc_next) \subseteq AllNodes /\ TcHand(t) \subseteq AllNodes
    <3>1. TcOn(tc_nodes[t], tc_next) \subseteq AllNodes
      BY TcOkNodes DEF TcPInv, TcLists
    <3>2. TcHand(t) \subseteq AllNodes
      BY <1>0 DEF TcHand, Tc!LocalsOK, Tc!TypeOK, Tc!NodeOrNull
    <3> QED
      BY <3>1, <3>2
  <2> QED
    BY <1>2, <2>1
<1>6. AllNodes = tc_free \cup TcOn(tc_head, tc_next) \cup TcOn(tc_pending, tc_next)
                    \cup UNION {Tc!Held(t) : t \in Threads}
  BY <1>3, <1>4, <1>5
<1>7. ASSUME NEW t \in Threads
      PROVE  Tc!Held(t) \cap (tc_free \cup TcOn(tc_head, tc_next) \cup TcOn(tc_pending, tc_next)) = {}
  BY <1>0, <1>2, TcApartFrom
<1>8. ASSUME NEW t \in Threads, NEW u \in Threads \ {t}
      PROVE  Tc!Held(t) \cap Tc!Held(u) = {}
  <2>1. /\ TcHand(t) \cap TcOn(tc_nodes[u], tc_next) = {}
        /\ TcHand(u) \cap TcOn(tc_nodes[t], tc_next) = {}
        /\ TcHand(t) \cap TcHand(u) = {}
        /\ TcOn(tc_nodes[t], tc_next) \cap TcOn(tc_nodes[u], tc_next) = {}
    BY <1>0, TcApartFrom
  <2> QED
    BY <1>2, <2>1
<1>9. /\ tc_free \cap TcOn(tc_head, tc_next) = {} /\ tc_free \cap TcOn(tc_pending, tc_next) = {}
      /\ TcOn(tc_head, tc_next) \cap TcOn(tc_pending, tc_next) = {}
  <2>1. \A k, l \in TcKinds, t, u \in TcCallers :
          TcSamePlace(k, t, l, u) \/ TcPlace(k, t) \cap TcPlace(l, u) = {}
    BY <1>0 DEF TcPlaced
  <2>2. {"free", "stack", "pending"} \subseteq TcKinds /\ Null \in TcCallers
    BY DEF TcKinds, TcCallers
  <2>3. /\ ~TcSamePlace("free", Null, "stack", Null)
        /\ ~TcSamePlace("free", Null, "pending", Null)
        /\ ~TcSamePlace("stack", Null, "pending", Null)
    BY DEF TcSamePlace
  <2>4. /\ TcPlace("free", Null) = tc_free /\ TcPlace("stack", Null) = TcOn(tc_head, tc_next)
        /\ TcPlace("pending", Null) = TcOn(tc_pending, tc_next)
    BY DEF TcPlace
  <2> QED
    BY <2>1, <2>2, <2>3, <2>4
<1> HIDE DEF Tc!Held
<1> QED
  BY <1>1, <1>6, <1>7, <1>8, <1>9 DEF Tc!NodesAccounted

\* The invariant in the words of the model.
LEMMA TcModelInv == ASSUME TcConstants, TcPInv PROVE Tc!IInv
<1>1. Tc!Apart
  <2>1. ASSUME NEW t \in Threads, tc_pc[t] \in Tc!Holding
        PROVE  tc_old_head[t] \notin TcOn(tc_nodes[t], tc_next)
    <3>1. tc_old_head[t] \in TcHand(t) /\ TcHand(t) \cap TcOn(tc_nodes[t], tc_next) = {}
      BY <2>1, TcApartFrom DEF TcPInv, TcHand
    <3> QED
      BY <3>1
  <2> QED
    BY <2>1, TcListsAre DEF Tc!Apart
<1>2. Tc!Watched
  <2>1. \A t \in Threads : Tc!ToSet(Tc!ListFrom(tc_nodes[t])) = TcOn(tc_nodes[t], tc_next)
    BY TcListsAre
  <2>2. Tc!ToSet(Tc!ListFrom(tc_head)) = TcOn(tc_head, tc_next)
    BY TcListsAre
  <2> QED
    BY <2>1, <2>2 DEF TcPInv, TcWatching, TcWatchedBy, Tc!Watched
<1> QED
  BY <1>1, <1>2, TcSafeNodes, TcCountRightIs DEF TcPInv, Tc!IInv

\* The invariant with the places of the nodes.
LEMMA TcReachable == ASSUME TcConstants PROVE Tc!Spec => []TcPInv
BY TcInitPInv, TcStepPInv, PTL DEF Tc!Spec

\* The inductive invariant holds in every reachable state.
THEOREM TcInvariance == ASSUME TcConstants PROVE Tc!Spec => []Tc!IInv
BY TcModelInv, TcReachable, PTL

\* No pop touches a node that has been deleted (lines 32-82).
THEOREM TcMemorySafety == ASSUME TcConstants PROVE Tc!Spec => []Tc!NoUseAfterFree
BY TcSafeMemory, TcReachable, PTL

\* Every node is in one place: none is lost, none is deleted twice.
THEOREM TcAccounted == ASSUME TcConstants PROVE Tc!Spec => []Tc!NodesAccounted
BY TcSafeNodes, TcReachable, PTL

-----------------------------------------------------------------------------
(* The steps of the stack are steps of Lifo *)

\* What the other threads have called, and what they have got, stays.
LEMMA TcOtherCalls ==
    ASSUME TcPInv, NEW t \in Threads, TcSteps(t), NEW u \in Threads, u # t
    PROVE  Tc!CallOf(u)' = Tc!CallOf(u)
<1>1. /\ tc_pc'[u] = tc_pc[u] /\ tc_old_head'[u] = tc_old_head[u] /\ tc_res'[u] = tc_res[u]
      /\ tc_pc[u] \in Tc!Holding => tc_data'[tc_old_head[u]] = tc_data[tc_old_head[u]]
  BY TcOthersKept, TcHeldData DEF TcPInv
<1>2. tc_pc[u] \in {"push_cas", "data"} => tc_pc[u] \in Tc!Holding
  BY DEF Tc!Holding
<1> QED
  BY <1>1, <1>2 DEF Tc!CallOf

\* A step that is one step of the call of t.
LEMMA TcCallStep ==
    ASSUME TcPInv, NEW t \in Threads, TcSteps(t), NEW from, NEW to,
           Tc!CallOf(t) = from, Tc!CallOf(t)' = to
    PROVE  Tc!Abstract!Step(t, from, to)
<1>1. \A u \in Threads : u # t => Tc!CallOf(u)' = Tc!CallOf(u)
  BY TcOtherCalls
<1>2. [u \in Threads |-> Tc!CallOf(u)]' = [[u \in Threads |-> Tc!CallOf(u)] EXCEPT ![t] = to]
  BY <1>1
<1> QED
  BY <1>2 DEF Tc!Abstract!Step

\* The nodes of the stack, and the values in them.
TcStackNodes == Tc!ListFrom(tc_head)
TcStacked == Contents(tc_data, TcStackNodes)

\* The nodes of the abstract stack are those of the list.
LEMMA TcStackIs ==
    ASSUME TcPInv
    PROVE  /\ TcStackNodes = ListOf(tc_head, tc_next, Null, AllNodes)
           /\ TcStackNodes \in Seq(AllNodes)
           /\ \A i \in DOMAIN TcStackNodes : TcStackNodes[i] \in TcOn(tc_head, tc_next)
<1>1. TcStackNodes = ListOf(tc_head, tc_next, Null, AllNodes) /\ Tc!Linked(tc_head)
      /\ Tc!ToSet(TcStackNodes) = TcOn(tc_head, tc_next)
  BY TcListFromIs, TcListsAre DEF TcStackNodes
<1>2. TcStackNodes \in Seq(AllNodes)
  BY <1>1 DEF Tc!Linked, TcStackNodes
<1>3. \A i \in DOMAIN TcStackNodes : TcStackNodes[i] \in Tc!ToSet(TcStackNodes)
  BY DEF Tc!ToSet
<1> QED
  BY <1>1, <1>2, <1>3

\* The nodes of the stack keep their values.
LEMMA TcStackedKept ==
    ASSUME TcConstants, TcPInv, NEW t \in Threads, TcSteps(t)
    PROVE  Contents(tc_data', TcStackNodes) = TcStacked
<1>0. Tc!TypeOK /\ Tc!LocalsOK /\ TcPlaced
  BY DEF TcPInv
<1>1. ASSUME NEW n \in TcOn(tc_head, tc_next)
      PROVE  tc_data'[n] = tc_data[n]
  <2>1. n \in AllNodes /\ n \notin tc_free /\ n \notin TcHand(t)
    BY <1>0, <1>1, TcOkNodes, TcApartFrom DEF TcPInv, TcLists
  <2>2. ASSUME NEW v \in Values, Tc!PushAlloc(t, v)
        PROVE  tc_data'[n] = tc_data[n]
    BY <1>0, <2>1, <2>2 DEF Tc!PushAlloc, Tc!TypeOK
  <2>3. CASE Tc!SwapData(t)
    <3>1. n # tc_old_head[t]
      BY <2>1, <2>3 DEF Tc!SwapData, Tc!Goto, TcHand, Tc!Holding
    <3> QED
      BY <1>0, <2>1, <2>3, <3>1 DEF Tc!SwapData, Tc!TypeOK
  <2>4. CASE Tc!PushCas(t) \/ (Tc!Pop(t) /\ ~Tc!SwapData(t))
    <3>1. tc_data' = tc_data
      BY <2>4
      DEF Tc!PushCas, Tc!Pop, Tc!PopEnter, Tc!LoadHead, Tc!LeaveEmpty, Tc!ReadNext,
          Tc!PopCas, Tc!node
    <3> QED
      BY <3>1
  <2>5. CASE Tc!TryReclaim(t)
    <3>1. tc_data' = tc_data
      BY <2>5
      DEF Tc!TryReclaim, Tc!TestCount, Tc!ExchangeList, Tc!Decrement, Tc!DeleteNodes,
          Tc!ChainBack, Tc!Delete, Tc!ChainPendingNode, Tc!Leave, Tc!node
    <3> QED
      BY <3>1
  <2> QED
    BY <2>2, <2>3, <2>4, <2>5 DEF TcSteps
<1>2. \A i \in DOMAIN TcStackNodes : tc_data'[TcStackNodes[i]] = tc_data[TcStackNodes[i]]
  BY <1>1, TcStackIs
<1> QED
  BY <1>2 DEF TcStacked, Contents

TcStuttering == UNCHANGED Tc!Abstract!vars
TcSameValues == TcStacked' = TcStacked

\* Which steps leave the stack alone.
LEMMA TcListStays ==
    ASSUME TcConstants, TcPInv, NEW t \in Threads, TcSteps(t), ~Tc!PushCas(t),
           ~(Tc!PopCas(t) /\ tc_pc'[t] = "data")
    PROVE  TcSameValues
<1>0. Tc!TypeOK /\ Tc!LocalsOK /\ TcLists /\ TcPlaced /\ TcPInv'
  BY TcStepPInv DEF TcPInv, Tc!Next, TcSteps
<1>1. tc_head' = tc_head /\ \A m \in TcOn(tc_head, tc_next) : tc_next'[m] = tc_next[m]
  <2>1. CASE TcQuietStep(t)
    BY <1>0, <2>1, TcQuietMoves
  <2>2. CASE \E v \in Values : Tc!PushAlloc(t, v)
    BY <2>2 DEF Tc!PushAlloc, Tc!shared
  <2>3. CASE Tc!ExchangeList(t) \/ Tc!Delete(t)
    BY <2>3 DEF Tc!ExchangeList, Tc!Delete, Tc!shared, Tc!node
  <2>4. CASE Tc!DeleteNodes(t)
    BY <2>4 DEF Tc!DeleteNodes, Tc!shared
  <2>5. CASE Tc!ChainBack(t)
    BY <1>0, <2>5, TcChainBackPlaced
  <2>6. CASE Tc!ChainPendingNode(t)
    BY <1>0, <2>6, TcChainNodePlaced
  <2>7. Tc!PopCas(t) => tc_pc'[t] = "load_head"
    BY <1>0 DEF Tc!PopCas, Tc!Goto, Tc!TypeOK
  <2> QED
    BY <2>1, <2>2, <2>3, <2>4, <2>5, <2>6, <2>7
    DEF TcSteps, Tc!Pop, Tc!TryReclaim, TcQuietStep
<1>2. ListOf(tc_head, tc_next', Null, AllNodes) = ListOf(tc_head, tc_next, Null, AllNodes)
  <2>1. /\ IsLinked(tc_head, tc_next, Null, AllNodes) /\ Null \notin AllNodes
        /\ IsFiniteSet(AllNodes)
        /\ \A m \in OnList(tc_head, tc_next, Null, AllNodes) : tc_next'[m] = tc_next[m]
    BY <1>0, <1>1 DEF TcLists, TcOk, TcOn, TcConstants
  <2> QED
    BY <2>1, ListFrame
<1>3. TcStackNodes' = ListOf(tc_head', tc_next', Null, AllNodes)
  BY TcListOf DEF TcStackNodes, Tc!ListFrom
<1>4. TcStackNodes' = TcStackNodes
  BY <1>1, <1>2, <1>3, TcStackIs
<1>5. Contents(tc_data', TcStackNodes) = TcStacked
  BY TcStackedKept
<1> QED
  BY <1>4, <1>5 DEF TcSameValues, TcStacked

\* The steps of one call between its call, its effect and its return.
LEMMA TcQuietRefines ==
    ASSUME TcPInv, NEW t \in Threads, TcSteps(t), TcSameValues, Tc!CallOf(t)' = Tc!CallOf(t)
    PROVE  TcStuttering
<1>1. \A u \in Threads : Tc!CallOf(u)' = Tc!CallOf(u)
  BY TcOtherCalls
<1> QED
  BY <1>1
  DEF TcStuttering, Tc!Abstract!vars, TcSameValues, TcStacked, TcStackNodes, Contents

\* Which steps of a call it does not notice.
TcUnnoticed(t) ==
    \/ Tc!LoadHead(t) /\ tc_head # Null
    \/ Tc!ReadNext(t) \/ Tc!SwapData(t) \/ (Tc!PopCas(t) /\ tc_pc'[t] # "data")
    \/ Tc!TestCount(t) \/ Tc!ExchangeList(t) \/ Tc!Decrement(t) \/ Tc!DeleteNodes(t)
    \/ Tc!ChainBack(t) \/ Tc!ChainPendingNode(t)

\* A step that shows no result leaves the call of its thread as it is.
LEMMA TcOwnCall ==
    ASSUME Tc!TypeOK, NEW t \in Threads, TcUnnoticed(t)
    PROVE  Tc!CallOf(t)' = Tc!CallOf(t)
<1> USE DEF Tc!TypeOK, Tc!Goto
<1>1. CASE (Tc!LoadHead(t) /\ tc_head # Null) \/ Tc!ReadNext(t) \/ (Tc!PopCas(t)
               /\ tc_pc'[t] # "data")
  <2>1. /\ tc_pc[t] \in {"load_head", "read_next", "pop_cas"}
        /\ tc_pc'[t] \in {"load_head", "read_next", "pop_cas"}
    BY <1>1 DEF Tc!LoadHead, Tc!ReadNext, Tc!PopCas
  <2> QED
    BY <2>1 DEF Tc!CallOf
<1>2. CASE Tc!SwapData(t)
  <2>1. tc_pc[t] = "data" /\ tc_pc'[t] = "test_count" /\ tc_res'[t] = tc_data[tc_old_head[t]]
    BY <1>2 DEF Tc!SwapData
  <2> QED
    BY <2>1 DEF Tc!CallOf
<1>3. CASE Tc!TestCount(t) \/ Tc!ExchangeList(t) \/ Tc!Decrement(t) \/ Tc!DeleteNodes(t)
           \/ Tc!ChainBack(t) \/ Tc!ChainPendingNode(t)
  <2> DEFINE Late == {"test_count", "exchange", "decrement", "delete_nodes", "chain_back",
                      "delete", "chain", "leave"}
  <2>1. tc_pc[t] \in Late /\ tc_pc'[t] \in Late /\ tc_res' = tc_res
    <3>1. CASE Tc!TestCount(t) \/ Tc!ExchangeList(t) \/ Tc!Decrement(t)
      BY <3>1 DEF Tc!TestCount, Tc!ExchangeList, Tc!Decrement
    <3>2. CASE Tc!DeleteNodes(t) \/ Tc!ChainBack(t) \/ Tc!ChainPendingNode(t)
      BY <3>2 DEF Tc!DeleteNodes, Tc!ChainBack, Tc!ChainPendingNode
    <3> QED
      BY <1>3, <3>1, <3>2
  <2> QED
    BY <2>1 DEF Tc!CallOf
<1> QED
  BY <1>1, <1>2, <1>3 DEF TcUnnoticed

\* push and pop are called, and return.
LEMMA TcCallsRefine ==
    ASSUME TcConstants, TcPInv, NEW t \in Threads, TcSteps(t), TcSameValues,
           \/ \E v \in Values : Tc!PushAlloc(t, v)
           \/ Tc!PopEnter(t) \/ Tc!LeaveEmpty(t) \/ Tc!Leave(t) \/ Tc!Delete(t)
    PROVE  Tc!Abstract!Next
<1>0. Tc!TypeOK
  BY DEF TcPInv
<1>s. UNCHANGED [i \in DOMAIN Tc!ListFrom(tc_head) |-> tc_data[Tc!ListFrom(tc_head)[i]]]
  BY DEF TcSameValues, TcStacked, TcStackNodes, Contents
<1>1. ASSUME NEW v \in Values, Tc!PushAlloc(t, v)
      PROVE  Tc!Abstract!Next
  <2>1. PICK n \in tc_free : /\ tc_old_head'[t] = n /\ tc_data' = [tc_data EXCEPT ![n] = v]
                             /\ tc_pc[t] = "idle" /\ tc_pc'[t] = "push_cas"
    BY <1>0, <1>1 DEF Tc!PushAlloc, Tc!Goto, Tc!TypeOK
  <2>2. tc_data'[n] = v
    BY <1>0, <2>1 DEF Tc!TypeOK
  <2>3. Tc!CallOf(t) = <<"idle">> /\ Tc!CallOf(t)' = <<"push", v>>
    BY <2>1, <2>2 DEF Tc!CallOf
  <2>4. Tc!Abstract!Step(t, Tc!Abstract!Idle, Tc!Abstract!Pushing(v))
    BY <2>3, TcCallStep DEF Tc!Abstract!Idle, Tc!Abstract!Pushing
  <2>5. Tc!Abstract!CallPush(t, v)
    BY <1>s, <2>4 DEF Tc!Abstract!CallPush
  <2> QED
    BY <2>5 DEF Tc!Abstract!Next
<1>2. CASE Tc!PopEnter(t)
  <2>1. tc_pc[t] = "idle" /\ tc_pc'[t] = "load_head"
    BY <1>0, <1>2 DEF Tc!PopEnter, Tc!Goto, Tc!TypeOK
  <2>3. Tc!CallOf(t) = <<"idle">> /\ Tc!CallOf(t)' = <<"pop">>
    BY <2>1 DEF Tc!CallOf
  <2>4. Tc!Abstract!Step(t, Tc!Abstract!Idle, Tc!Abstract!Popping)
    BY <2>3, TcCallStep DEF Tc!Abstract!Idle, Tc!Abstract!Popping
  <2>5. Tc!Abstract!CallPop(t)
    BY <1>s, <2>4 DEF Tc!Abstract!CallPop
  <2> QED
    BY <2>5 DEF Tc!Abstract!Next
<1>3. CASE Tc!LeaveEmpty(t) \/ Tc!Leave(t) \/ Tc!Delete(t)
  <2>1. tc_pc[t] \in {"leave_empty", "leave", "delete"} /\ tc_pc'[t] = "idle"
    BY <1>0, <1>3 DEF Tc!LeaveEmpty, Tc!Leave, Tc!Delete, Tc!Goto, Tc!TypeOK
  <2>2. PICK v \in Values \cup {Null} : v = IF tc_pc[t] = "leave_empty" THEN Null ELSE tc_res[t]
    BY <1>0 DEF Tc!TypeOK, Tc!ValueOrNull
  <2>3. Tc!CallOf(t) = <<"got", v>> /\ Tc!CallOf(t)' = <<"idle">>
    BY <2>1, <2>2 DEF Tc!CallOf
  <2>4. Tc!Abstract!Step(t, Tc!Abstract!Got(v), Tc!Abstract!Idle)
    BY <2>3, TcCallStep DEF Tc!Abstract!Got, Tc!Abstract!Idle
  <2>5. Tc!Abstract!Return(t)
    BY <1>s, <2>4 DEF Tc!Abstract!Return
  <2> QED
    BY <2>5 DEF Tc!Abstract!Next
<1> QED
  BY <1>1, <1>2, <1>3

\* A pop of an empty stack takes effect in loading the null head.
LEMMA TcEmptyRefines ==
    ASSUME TcConstants, TcPInv, NEW t \in Threads, TcSteps(t), TcSameValues,
           Tc!LoadHead(t), tc_head = Null
    PROVE  Tc!Abstract!Next
<1>0. Tc!TypeOK
  BY DEF TcPInv
<1>s. UNCHANGED [i \in DOMAIN Tc!ListFrom(tc_head) |-> tc_data[Tc!ListFrom(tc_head)[i]]]
  BY DEF TcSameValues, TcStacked, TcStackNodes, Contents
<1>1. tc_pc[t] = "load_head" /\ tc_pc'[t] = "leave_empty"
  BY <1>0 DEF Tc!LoadHead, Tc!Goto, Tc!TypeOK
<1>2. Tc!CallOf(t) = <<"pop">> /\ Tc!CallOf(t)' = <<"got", Null>>
  BY <1>1 DEF Tc!CallOf
<1>3. Tc!ListFrom(tc_head) = <<>>
  BY TcStackIs, ListEmpty DEF TcStackNodes, TcConstants
<1>4. [i \in DOMAIN Tc!ListFrom(tc_head) |-> tc_data[Tc!ListFrom(tc_head)[i]]] = <<>>
  BY <1>3
<1>5. Tc!Abstract!Step(t, Tc!Abstract!Popping, Tc!Abstract!Got(Null))
  BY <1>2, TcCallStep DEF Tc!Abstract!Popping, Tc!Abstract!Got
<1>6. Tc!Abstract!PopEmpty(t)
  BY <1>s, <1>4, <1>5 DEF Tc!Abstract!PopEmpty
<1> QED
  BY <1>6 DEF Tc!Abstract!Next

\* A push takes effect in its compare-exchange.
LEMMA TcPushRefines ==
    ASSUME TcConstants, TcPInv, NEW t \in Threads, TcSteps(t), Tc!PushCas(t)
    PROVE  Tc!Abstract!Next
<1>0. Tc!TypeOK /\ Tc!LocalsOK /\ TcLists /\ TcPlaced
  BY DEF TcPInv
<1>n. PICK n : n = tc_old_head[t]
  OBVIOUS
<1>1. /\ n \in AllNodes /\ tc_pc[t] = "push_cas" /\ tc_pc'[t] = "idle"
      /\ TcHand(t) = {n}
      /\ tc_next' = [tc_next EXCEPT ![n] = tc_head]
      /\ tc_head' = n /\ tc_data' = tc_data
  BY <1>0, <1>n, TcPushCasMoves
<1>2. n \notin TcOn(tc_head, tc_next)
  BY <1>0, <1>1, TcApartFrom
<1> DEFINE c == ListOf(tc_head, tc_next, Null, AllNodes)
           d == <<n>> \o c
<1>3. InFront(n, tc_head, tc_next, tc_next', OnList(tc_head, tc_next, Null, AllNodes))
  <2>1. \A m \in TcOn(tc_head, tc_next) : m \in AllNodes /\ m # n
    BY <1>0, <1>2, TcOkNodes DEF TcLists
  <2> QED
    BY <1>0, <1>1, <2>1 DEF InFront, TcOn, Tc!TypeOK
<1>4. c \in Seq(AllNodes) /\ c = TcStackNodes
  BY TcStackIs
<1>5. d \in Seq(AllNodes) /\ Chain(d, n, tc_next', Null)
  <2>1. /\ IsLinked(tc_head, tc_next, Null, AllNodes) /\ n \in AllNodes
        /\ n \notin OnList(tc_head, tc_next, Null, AllNodes) /\ IsFiniteSet(AllNodes)
        /\ Null \notin AllNodes
    BY <1>0, <1>1, <1>2 DEF TcLists, TcOk, TcOn, TcConstants
  <2> QED
    BY <1>3, <2>1, ListPushIs
<1> HIDE DEF c
<1>6. TcStackNodes' = <<n>> \o c
  <2> HIDE DEF d
  <2>1. ListOf(n, tc_next', Null, AllNodes) = d
    BY <1>5, ListIs DEF TcConstants
  <2>2. TcStackNodes' = ListOf(tc_head', tc_next', Null, AllNodes)
    BY TcListOf DEF TcStackNodes, Tc!ListFrom
  <2> QED
    BY <1>1, <2>1, <2>2 DEF d
<1>7. Contents(tc_data, <<n>> \o c) = <<tc_data[n]>> \o Contents(tc_data, c)
  <2>1. Contents(tc_data, <<n>> \o c) = <<ValueOf(tc_data, n)>> \o Contents(tc_data, c)
    <3>1. n \in AllNodes
      BY <1>1
    <3> QED
      BY <1>4, <3>1, ContentsPush, Zenon
  <2> QED
    BY <2>1 DEF ValueOf
<1>8. [i \in DOMAIN Tc!ListFrom(tc_head) |-> tc_data[Tc!ListFrom(tc_head)[i]]]'
        = <<tc_data[n]>> \o [i \in DOMAIN Tc!ListFrom(tc_head) |-> tc_data[Tc!ListFrom(tc_head)[i]]]
  BY <1>1, <1>4, <1>6, <1>7 DEF Contents, TcStackNodes
<1>9. Tc!CallOf(t) = <<"push", tc_data[n]>> /\ Tc!CallOf(t)' = <<"idle">>
  BY <1>n, <1>1 DEF Tc!CallOf
<1>10. PICK v \in Values : v = tc_data[n]
  BY <1>0, <1>n, <1>1 DEF Tc!LocalsOK
<1>11. Tc!Abstract!Step(t, Tc!Abstract!Pushing(v), Tc!Abstract!Idle)
  BY <1>9, <1>10, TcCallStep DEF Tc!Abstract!Pushing, Tc!Abstract!Idle
<1>12. Tc!Abstract!Push(t, v)
  BY <1>8, <1>10, <1>11 DEF Tc!Abstract!Push
<1> QED
  BY <1>12 DEF Tc!Abstract!Next

\* A pop takes effect in its compare-exchange, although it takes the value later.
LEMMA TcPopRefines ==
    ASSUME TcConstants, TcPInv, NEW t \in Threads, TcSteps(t), Tc!PopCas(t),
           tc_pc'[t] = "data"
    PROVE  Tc!Abstract!Next
<1>0. Tc!TypeOK /\ Tc!LocalsOK /\ TcLists /\ TcPlaced /\ TcWatching
  BY DEF TcPInv
<1>n. PICK n : n = tc_head
  OBVIOUS
<1>1. /\ tc_pc[t] = "pop_cas" /\ n # Null /\ tc_old_head'[t] = n
      /\ tc_next' = tc_next /\ tc_data' = tc_data /\ tc_head' = tc_next[n]
  BY <1>0, <1>n, TcPopCasMoves, TcPopCasPlaced
<1> DEFINE c == ListOf(n, tc_next, Null, AllNodes)
<1>2. /\ c \in Seq(AllNodes) /\ Chain(c, n, tc_next, Null)
      /\ IsFiniteSet(AllNodes) /\ Null \notin AllNodes
  BY <1>0, <1>n DEF TcLists, TcOk, IsLinked, TcConstants
<1> DEFINE d == Tail(c)
<1>3. c # <<>> /\ c[1] = n /\ ListOf(tc_next[n], tc_next, Null, AllNodes) = d
  <2> HIDE DEF c
  <2>1. c # <<>> /\ c[1] = n /\ d \in Seq(AllNodes) /\ Chain(d, tc_next[n], tc_next, Null)
    BY <1>1, <1>2, ChainPop
  <2> HIDE DEF d
  <2> QED
    BY <1>2, <2>1, ListIs
<1>4. c \in Seq(AllNodes) /\ c = TcStackNodes
  BY <1>n, TcStackIs
<1> HIDE DEF c
<1>5. /\ Contents(tc_data, c) # <<>>
      /\ Head(Contents(tc_data, c)) = tc_data[n]
      /\ Contents(tc_data, Tail(c)) = Tail(Contents(tc_data, c))
  <2>1. /\ Contents(tc_data, c) # <<>>
        /\ Head(Contents(tc_data, c)) = ValueOf(tc_data, c[1])
        /\ Contents(tc_data, Tail(c)) = Tail(Contents(tc_data, c))
    BY <1>3, <1>4, ContentsPop, Zenon
  <2> QED
    BY <1>3, <2>1 DEF ValueOf
<1>6. TcStackNodes' = Tail(c)
  <2>1. TcStackNodes' = ListOf(tc_head', tc_next', Null, AllNodes)
    BY TcListOf DEF TcStackNodes, Tc!ListFrom
  <2> QED
    BY <1>1, <1>3, <2>1
<1>7. Tc!CallOf(t) = <<"pop">> /\ Tc!CallOf(t)' = <<"got", tc_data[n]>>
  BY <1>1 DEF Tc!CallOf
<1>8. Tc!Abstract!Step(t, Tc!Abstract!Popping, Tc!Abstract!Got(tc_data[n]))
  BY <1>7, TcCallStep DEF Tc!Abstract!Popping, Tc!Abstract!Got
<1>9. Tc!Abstract!Pop(t)
  BY <1>1, <1>4, <1>5, <1>6, <1>8 DEF Tc!Abstract!Pop, Contents, TcStackNodes
<1> QED
  BY <1>9 DEF Tc!Abstract!Next

\* A step of a thread is a step of its call, or none.
LEMMA TcStepRefines ==
    ASSUME TcConstants, TcPInv, NEW t \in Threads, TcSteps(t)
    PROVE  Tc!Abstract!Next \/ TcStuttering
<1>1. CASE Tc!PushCas(t)
  BY <1>1, TcPushRefines
<1>2. CASE Tc!PopCas(t) /\ tc_pc'[t] = "data"
  BY <1>2, TcPopRefines
<1>3. CASE ~Tc!PushCas(t) /\ ~(Tc!PopCas(t) /\ tc_pc'[t] = "data")
  <2>0. TcSameValues
    BY <1>3, TcListStays
  <2>1. CASE \/ \E v \in Values : Tc!PushAlloc(t, v)
             \/ Tc!PopEnter(t) \/ Tc!LeaveEmpty(t) \/ Tc!Leave(t) \/ Tc!Delete(t)
    BY <2>0, <2>1, TcCallsRefine
  <2>2. CASE Tc!LoadHead(t) /\ tc_head = Null
    BY <2>0, <2>2, TcEmptyRefines
  <2>3. CASE TcUnnoticed(t)
    <3>1. Tc!CallOf(t)' = Tc!CallOf(t)
      BY <2>3, TcOwnCall DEF TcPInv
    <3> QED
      BY <2>0, <3>1, TcQuietRefines
  <2> QED
    BY <1>3, <2>1, <2>2, <2>3 DEF TcSteps, Tc!Pop, Tc!TryReclaim, TcUnnoticed
<1> QED
  BY <1>1, <1>2, <1>3

\* A step of no thread changes nothing.
LEMMA TcStutterRefines ==
    ASSUME UNCHANGED Tc!vars
    PROVE  TcStuttering
<1>1. Tc!ListFrom(tc_head)' = Tc!ListFrom(tc_head)
  BY DEF Tc!vars, Tc!shared, Tc!node, Tc!ListFrom
<1> QED
  BY <1>1 DEF Tc!vars, Tc!shared, Tc!node, TcStuttering, Tc!Abstract!vars, Tc!CallOf

\* The stack starts empty.
LEMMA TcInitRefines == ASSUME TcConstants, Tc!Init PROVE Tc!Abstract!Init
<1>1. Tc!ListFrom(tc_head) = <<>>
  <2>1. tc_head = Null
    BY DEF Tc!Init
  <2>2. Tc!ListFrom(tc_head) = ListOf(tc_head, tc_next, Null, AllNodes)
    BY TcListFromIs
  <2> QED
    BY <2>1, <2>2, ListEmpty DEF TcConstants
<1>2. \A t \in Threads : Tc!CallOf(t) = <<"idle">>
  BY DEF Tc!Init, Tc!CallOf
<1> QED
  BY <1>1, <1>2 DEF Tc!Abstract!Init, Tc!Abstract!Idle

\* Every step is a step of Lifo or none.
LEMMA TcNextRefines ==
    ASSUME TcConstants, TcPInv, [Tc!Next]_(Tc!vars)
    PROVE  [Tc!Abstract!Next]_(Tc!Abstract!vars)
<1> SUFFICES Tc!Abstract!Next \/ TcStuttering
  BY DEF TcStuttering
<1>1. CASE UNCHANGED Tc!vars
  BY <1>1, TcStutterRefines
<1>2. CASE Tc!Next
  <2>1. PICK t \in Threads : TcSteps(t)
    BY <1>2 DEF Tc!Next, TcSteps
  <2> QED
    BY <2>1, TcStepRefines
<1> QED
  BY <1>1, <1>2

\* push and pop (lines 22-82) are linearizable.
THEOREM TcLinearizable == ASSUME TcConstants PROVE Tc!Spec => Tc!ImplementsLifo
BY TcInitRefines, TcNextRefines, TcReachable, PTL
DEF Tc!Spec, Tc!Abstract!Spec, Tc!ImplementsLifo

-----------------------------------------------------------------------------
(* MCStacks: whichever stack or list it runs *)

stacks_vars == <<which, vars, tc_vars, l_vars>>

\* A step of MCStacks is a step of each, or leaves it alone.
LEMMA Idle ==
    /\ UNCHANGED tc_vars => UNCHANGED Tc!vars
    /\ UNCHANGED l_vars => UNCHANGED threadsafe_list!vars /\ UNCHANGED double_push_list!vars
<1>1. UNCHANGED tc_vars => UNCHANGED Tc!vars
  BY DEF tc_vars, Tc!vars, Tc!shared, Tc!node
<1>2. UNCHANGED l_vars => UNCHANGED threadsafe_list!vars
  BY DEF l_vars, threadsafe_list!vars
<1>3. UNCHANGED l_vars => UNCHANGED double_push_list!vars
  BY DEF l_vars, double_push_list!vars
<1> QED
  BY <1>1, <1>2, <1>3

\* A step of one component leaves the others alone.
LEMMA StepOfEach ==
    [StacksNext]_stacks_vars =>
        /\ which' = which
        /\ [Next]_vars
        /\ [Tc!Next]_(Tc!vars)
        /\ which # "double" => [threadsafe_list!Next]_(threadsafe_list!vars)
        /\ which = "double" => [double_push_list!Next]_(double_push_list!vars)
BY Idle DEF StacksNext, stacks_vars

\* Every component is in its first state.
LEMMA InitOfEach ==
    StacksInit => Init /\ Tc!Init /\ threadsafe_list!Init /\ double_push_list!Init
<1>1. threadsafe_list!Init => double_push_list!Init
  BY DEF threadsafe_list!Init, double_push_list!Init
<1> QED
  BY <1>1 DEF StacksInit

\* The lists are the instances their proofs are about.
LEMMA ListConstants ==
    threadsafe_list!ConstantsAssumption /\ double_push_list!ConstantsAssumption
<1>1. threadsafe_list!ConstantsAssumption => double_push_list!ConstantsAssumption
  BY DEF threadsafe_list!ConstantsAssumption, double_push_list!ConstantsAssumption,
         threadsafe_list!IsFiniteSet, double_push_list!IsFiniteSet
<1> QED
  BY <1>1, StacksConstants

\* Whichever it runs, a behaviour of MCStacks is a behaviour of both stacks and, as the
\* first state says, of one of the lists.
THEOREM BehavesAsEach ==
    StacksSpec =>
        /\ Spec /\ Tc!Spec
        /\ IF which = "double" THEN double_push_list!Spec ELSE threadsafe_list!Spec
<1> DEFINE Runs == which = "double"
<1>1. [StacksNext]_stacks_vars =>
        /\ Runs => Runs' /\ [double_push_list!Next]_(double_push_list!vars)
        /\ ~Runs => ~Runs' /\ [threadsafe_list!Next]_(threadsafe_list!vars)
  BY StepOfEach
<1>2. StacksSpec => /\ Runs => double_push_list!Spec
                    /\ ~Runs => threadsafe_list!Spec
  <2> HIDE DEF Runs
  <2> QED
    BY <1>1, InitOfEach, PTL
    DEF StacksSpec, stacks_vars, threadsafe_list!Spec, double_push_list!Spec
<1>3. StacksSpec => Spec /\ Tc!Spec
  BY InitOfEach, StepOfEach, PTL DEF StacksSpec, stacks_vars, Spec, Tc!Spec
<1> QED
  BY <1>2, <1>3

\* The invariants together.
StacksInv ==
    /\ IInv /\ TcPInv
    /\ which # "double" => threadsafe_list!IInv
    /\ which = "double" => double_push_list!IInv

\* The invariants of all components, at the start
LEMMA InitStacksInv == StacksInit => StacksInv
BY InitOfEach, ConstantsAssumption, TcConstantsHold, ListConstants, InitIInv, TcInitPInv,
   threadsafe_list!InitIInv, double_push_list!InitIInv DEF StacksInv

\* and after each step.
LEMMA StepStacksInv == StacksInv /\ [StacksNext]_stacks_vars => StacksInv'
<1> SUFFICES ASSUME StacksInv, [StacksNext]_stacks_vars
             PROVE  StacksInv'
  OBVIOUS
<1>1. IInv'
  BY StepOfEach, ConstantsAssumption, StepIInv DEF StacksInv
<1>2. TcPInv'
  BY StepOfEach, TcConstantsHold, TcStepPInv DEF StacksInv
<1>3. which # "double" => threadsafe_list!IInv'
  BY StepOfEach, ListConstants, threadsafe_list!StepIInv DEF StacksInv
<1>4. which = "double" => double_push_list!IInv'
  BY StepOfEach, ListConstants, double_push_list!StepIInv DEF StacksInv
<1> QED
  BY <1>1, <1>2, <1>3, <1>4, StepOfEach DEF StacksInv

\* The invariants hold in every state.
THEOREM StacksInvariance == StacksSpec => []StacksInv
BY InitStacksInv, StepStacksInv, PTL DEF StacksSpec, stacks_vars

\* No pop and no walk touches a node that has been deleted, for any number of threads,
\* nodes and values.
THEOREM StacksMemorySafety == StacksSpec => []StacksNoUseAfterFree
<1>1. StacksInv => StacksNoUseAfterFree
  BY ConstantsAssumption, TcConstantsHold, ListConstants, IInvSafe, TcSafeMemory,
     threadsafe_list!IInvSafe, double_push_list!IInvSafe
  DEF StacksInv, StacksNoUseAfterFree
<1> QED
  BY <1>1, StacksInvariance, PTL

\* No node is lost or deleted twice.
THEOREM StacksAccounted == StacksSpec => []StacksNodesAccounted
<1>1. StacksInv => StacksNodesAccounted
  BY ConstantsAssumption, TcConstantsHold, ListConstants, IInvSafe, TcSafeNodes,
     threadsafe_list!IInvAccounted, double_push_list!IInvAccounted
  DEF StacksInv, StacksNodesAccounted
<1> QED
  BY <1>1, StacksInvariance, PTL

\* A walk that has reached the end has seen each node that was in the list all the time.
THEOREM WalksComplete == StacksSpec => []WalksSeeAll
<1>1. StacksInv => WalksSeeAll
  BY ListConstants, threadsafe_list!IInvSafe, double_push_list!IInvSafe
  DEF StacksInv, WalksSeeAll
<1> QED
  BY <1>1, StacksInvariance, PTL

\* Both stacks are linearizable: every step is one of the abstract stack, or none.
THEOREM StacksLinearizable == StacksSpec => StacksImplementLifo
<1>1. StacksInit => StacksStartEmpty
  BY InitOfEach, ConstantsAssumption, TcConstantsHold, InitRefines, TcInitRefines
  DEF StacksStartEmpty
<1>2. StacksInv /\ [StacksNext]_stacks_vars => [StacksStepAsLifo]_<<vars, tc_vars>>
  BY StepOfEach, ConstantsAssumption, TcConstantsHold, NextRefines, TcNextRefines
  DEF StacksInv, StacksStepAsLifo
<1> QED
  BY <1>1, <1>2, StacksInvariance, PTL DEF StacksSpec, stacks_vars, StacksImplementLifo
=============================================================================
