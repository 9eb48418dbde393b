---------------------------- MODULE RefCountStack ----------------------------
(***************************************************************************)
(* src/threadsafe_containers/stack/ref_count_stack.h, and                  *)
(* single_ref_stack.h next to it, which is the same algorithm: a Treiber   *)
(* stack whose nodes are reclaimed with split reference counts.  head is   *)
(* an {external_count, ptr} pair; a node keeps the pair it was pushed on.  *)
(*                                                                         *)
(* A compare-exchange loop that only recomputes its new value from what it *)
(* finds is one step, the one in which it succeeds.                        *)
(***************************************************************************)
EXTENDS Integers, FiniteSets, SequencesExt, LinkedLists

CONSTANTS
    Threads,        \* threads that call push and pop
    Nodes,          \* addresses the heap can hand out (bounds the model)
    Values,         \* values pushed
    MaxCount,       \* bound on external_count (see BelowMaxCount)
    Null            \* nullptr

ASSUME ConstantsAssumption ==
    /\ IsFiniteSet(Threads) /\ IsFiniteSet(Nodes)
    /\ Null \notin Nodes \cup Values
    /\ MaxCount \in Nat

Counted(c, p) == [external_count |-> c, ptr |-> p]

VARIABLES
    head,
    next, data, internal_count,     \* the fields of each node
    free,                           \* addresses that are not allocated
    pc, new, old_head, nxt, res     \* locals of push and pop

node == <<next, data, internal_count>>
vars == <<head, node, free, pc, new, old_head, nxt, res>>

NoHead == Counted(0, Null)

Init ==
    /\ head = NoHead
    /\ next = [n \in Nodes |-> NoHead]
    /\ data = [n \in Nodes |-> Null]
    /\ internal_count = [n \in Nodes |-> 0]
    /\ free = Nodes
    /\ pc = [t \in Threads |-> "idle"]
    /\ new = [t \in Threads |-> Null]
    /\ old_head = [t \in Threads |-> NoHead]
    /\ nxt = [t \in Threads |-> NoHead]
    /\ res = [t \in Threads |-> Null]

Goto(t, from, to) ==
    /\ pc[t] = from
    /\ pc' = [pc EXCEPT ![t] = to]

-----------------------------------------------------------------------------
PushAlloc(t, v) ==
    /\ Goto(t, "idle", "push_cas")
    /\ \E n \in free :
        /\ free' = free \ {n}
        /\ new' = [new EXCEPT ![t] = n]
        /\ data' = [data EXCEPT ![n] = v]
        /\ internal_count' = [internal_count EXCEPT ![n] = 0]
    /\ UNCHANGED <<head, next, old_head, nxt, res>>

\* The bound MaxCount.  A pop of an empty stack leaves the count of the null
\* head one higher for good; the model stops at MaxCount, a count that only a
\* 32-bit overflow would make anybody look at.  The count of a node grows with
\* every pop whose CAS fails; from MaxCount on its pops take turns and no push
\* gets in their way.
BelowMaxCount == head.external_count < MaxCount
MayDisturb == head.ptr = Null \/ BelowMaxCount
NoneIn(S) == \A t \in Threads : pc[t] \notin S

\* new_node.ptr->next = head.load() and the CAS loop
PushCas(t) ==
    /\ Goto(t, "push_cas", "idle")
    /\ MayDisturb \/ NoneIn({"increase", "read_next", "pop_cas"})
    /\ next' = [next EXCEPT ![new[t]] = head]
    /\ head' = Counted(1, new[t])
    /\ new' = [new EXCEPT ![t] = Null]
    /\ UNCHANGED <<data, internal_count, free, old_head, nxt, res>>

-----------------------------------------------------------------------------
PopStart(t) ==
    /\ Goto(t, "idle", "increase")
    /\ UNCHANGED <<head, node, free, new, old_head, nxt, res>>

\* head.load(), increase_head_count(old_head), if(!ptr)
IncreaseHeadCount(t) ==
    /\ pc[t] = "increase"
    /\ \/ /\ head.ptr = Null
          /\ head' = IF BelowMaxCount THEN [head EXCEPT !.external_count = @ + 1] ELSE head
          /\ pc' = [pc EXCEPT ![t] = "empty"]
       \/ /\ head.ptr # Null
          /\ MayDisturb \/ NoneIn({"read_next", "pop_cas"})
          /\ head' = [head EXCEPT !.external_count = @ + 1]
          /\ pc' = [pc EXCEPT ![t] = "read_next"]
    /\ old_head' = [old_head EXCEPT ![t] = head']
    /\ UNCHANGED <<node, free, new, nxt, res>>

ReturnEmpty(t) ==
    /\ Goto(t, "empty", "idle")
    /\ old_head' = [old_head EXCEPT ![t] = NoHead]
    /\ UNCHANGED <<head, node, free, new, nxt, res>>

\* the argument ptr->next of the CAS
ReadNext(t) ==
    /\ Goto(t, "read_next", "pop_cas")
    /\ nxt' = [nxt EXCEPT ![t] = next[old_head[t].ptr]]
    /\ UNCHANGED <<head, node, free, new, old_head, res>>

\* The bug of comparing the pointer only, as a CAS on a bare pointer would.
PopCas_PtrOnly(t) ==
    /\ \/ /\ Goto(t, "pop_cas", "swap")
          /\ head.ptr = old_head[t].ptr
          /\ head' = nxt[t]
       \/ /\ Goto(t, "pop_cas", "release")
          /\ head.ptr # old_head[t].ptr
          /\ UNCHANGED head
    /\ nxt' = [nxt EXCEPT ![t] = NoHead]
    /\ UNCHANGED <<node, free, new, old_head, res>>

\* head.compare_exchange_strong(old_head, ptr->next).  The pair is 16 bytes of
\* which 4 are padding nobody initializes: the comparison of the bytes may
\* fail although count and pointer agree.
PopCas(t) ==
    /\ \/ /\ Goto(t, "pop_cas", "swap")
          /\ head = old_head[t]
          /\ head' = nxt[t]
       \/ /\ Goto(t, "pop_cas", "release")
          /\ head # old_head[t] \/ BelowMaxCount
          /\ UNCHANGED head
    /\ nxt' = [nxt EXCEPT ![t] = NoHead]
    /\ UNCHANGED <<node, free, new, old_head, res>>

\* res.swap(ptr->data)
SwapData(t) ==
    /\ Goto(t, "swap", "fold")
    /\ res' = [res EXCEPT ![t] = data[old_head[t].ptr]]
    /\ data' = [data EXCEPT ![old_head[t].ptr] = Null]
    /\ UNCHANGED <<head, next, internal_count, free, new, old_head, nxt>>

\* ptr->internal_count.fetch_add(k); delete ptr when that makes it zero
AddInternal(n, k) ==
    /\ internal_count' = [internal_count EXCEPT ![n] = @ + k]
    /\ free' = IF internal_count'[n] = 0 THEN free \cup {n} ELSE free

\* The bug of folding one reference too many.
FoldCount_MinusOne(t) ==
    /\ Goto(t, "fold", "idle")
    /\ AddInternal(old_head[t].ptr, old_head[t].external_count - 1)
    /\ old_head' = [old_head EXCEPT ![t] = NoHead]
    /\ res' = [res EXCEPT ![t] = Null]
    /\ UNCHANGED <<head, next, data, new, nxt>>

\* fold the external count of the popped pair into the node; return res
FoldCount(t) ==
    /\ Goto(t, "fold", "idle")
    /\ AddInternal(old_head[t].ptr, old_head[t].external_count - 2)
    /\ old_head' = [old_head EXCEPT ![t] = NoHead]
    /\ res' = [res EXCEPT ![t] = Null]
    /\ UNCHANGED <<head, next, data, new, nxt>>

\* the CAS failed: give the reference back and go around
ReleaseRef(t) ==
    /\ Goto(t, "release", "increase")
    /\ AddInternal(old_head[t].ptr, -1)
    /\ old_head' = [old_head EXCEPT ![t] = NoHead]
    /\ UNCHANGED <<head, next, data, new, nxt, res>>

Push(t) == (\E v \in Values : PushAlloc(t, v)) \/ PushCas(t)

Pop(t) ==
    \/ PopStart(t) \/ IncreaseHeadCount(t) \/ ReturnEmpty(t) \/ ReadNext(t)
    \/ PopCas(t) \/ SwapData(t) \/ FoldCount(t) \/ ReleaseRef(t)

Next == \E t \in Threads : Push(t) \/ Pop(t)

Spec == Init /\ [][Next]_vars

-----------------------------------------------------------------------------
\* The nodes of the stack, top first.
Ptrs == [n \in Nodes |-> next[n].ptr]
StackNodes == Reached(head.ptr, Ptrs, Null, Cardinality(Nodes))

\* pop never touches a node that has been deleted (lines 71-83): the counts
\* of all the pops that saw a node keep it until the last of them is done.
NoUseAfterFree ==
    \A t \in Threads :
        pc[t] \in {"read_next", "pop_cas", "swap", "fold", "release"}
            => old_head[t].ptr \notin free

\* The counts come out exact: whenever no call is running, every node that was
\* popped has been deleted.
NothingLeaked ==
    (\A t \in Threads : pc[t] = "idle")
        => free = Nodes \ ToSet(StackNodes)

CallOf(t) ==
    CASE pc[t] = "idle" -> <<"idle">>
      [] pc[t] = "push_cas" -> <<"push", data[new[t]]>>
      [] pc[t] = "empty" -> <<"got", Null>>
      [] pc[t] = "swap" -> <<"got", data[old_head[t].ptr]>>
      [] pc[t] = "fold" -> <<"got", res[t]>>
      [] OTHER -> <<"pop">>

Abstract ==
    INSTANCE Lifo WITH
        Empty <- Null,
        stk <- [i \in DOMAIN StackNodes |-> data[StackNodes[i]]],
        call <- [t \in Threads |-> CallOf(t)]

\* The stack is linearizable: a pop takes effect when its CAS succeeds, an
\* empty one when it counts itself on a null head.
ImplementsLifo == Abstract!Spec

-----------------------------------------------------------------------------
(* The inductive invariant behind these *)

PC == {"idle", "push_cas", "increase", "empty", "read_next", "pop_cas", "swap", "fold",
       "release"}
Seeing == {"read_next", "pop_cas", "release"}
Owning == {"swap", "fold"}

NodeOrNull == Nodes \cup {Null}
ValueOrNull == Values \cup {Null}
Pairs == [external_count : Int, ptr : NodeOrNull]

TypeOK ==
    /\ head \in Pairs
    /\ next \in [Nodes -> Pairs]
    /\ data \in [Nodes -> ValueOrNull]
    /\ internal_count \in [Nodes -> Int]
    /\ free \subseteq Nodes
    /\ pc \in [Threads -> PC]
    /\ new \in [Threads -> NodeOrNull]
    /\ old_head \in [Threads -> Pairs]
    /\ nxt \in [Threads -> Pairs]
    /\ res \in [Threads -> ValueOrNull]

LocalsOK ==
    \A t \in Threads :
        /\ pc[t] = "push_cas" => new[t] # Null /\ data[new[t]] \in Values
        /\ pc[t] \in Seeing \cup Owning => old_head[t].ptr # Null
        /\ pc[t] = "pop_cas" => nxt[t] = next[old_head[t].ptr]

InStack == ToSet(StackNodes)

Linked == StackNodes \in Seq(Nodes) /\ Chain(StackNodes, head.ptr, Ptrs, Null)

\* The node a push has not published yet, or a pop has taken off.
Held(t) ==
    IF pc[t] = "push_cas" THEN {new[t]}
    ELSE IF pc[t] \in Owning THEN {old_head[t].ptr} ELSE {}

Placed ==
    /\ free \cap InStack = {}
    /\ \A t \in Threads :
        /\ Held(t) \cap (free \cup InStack) = {}
        /\ \A u \in Threads : t # u => Held(t) \cap Held(u) = {}

\* The pops that have counted themselves on n and not given the reference back.
Refs(n) == {t \in Threads : pc[t] \in Seeing /\ old_head[t].ptr = n}

\* The internal count, and k of the external one, are the pops that look at n.
Lookers(n) == Cardinality(Refs(n))
Balance(n, k) == internal_count[n] + k = Lookers(n)

\* A node that is nowhere else is one that the last pop to leave it deletes.
Folded(n) == n \notin free \cup InStack /\ \A t \in Threads : n \notin Held(t)

\* Where the external count of n is: in head or in the next of a node of the stack,
\* with one that the push put there; with the pop that has taken n off, with its own
\* on top; or in the internal one, and not before.
CountsOf(n) ==
    /\ n \in free => Refs(n) = {}
    /\ head.ptr = n => Balance(n, head.external_count - 1)
    /\ \A m \in InStack : next[m].ptr = n => Balance(n, next[m].external_count - 1)
    /\ \A t \in Threads : n \in Held(t) =>
        IF pc[t] = "push_cas" THEN Refs(n) = {} /\ internal_count[n] = 0
        ELSE Balance(n, old_head[t].external_count - 2)
    /\ IF Folded(n) THEN Balance(n, 0) /\ Refs(n) # {}
       ELSE n \notin free => internal_count[n] <= 0

Counts == \A n \in Nodes : CountsOf(n)

IInv == TypeOK /\ LocalsOK /\ Linked /\ Placed /\ Counts

=============================================================================
