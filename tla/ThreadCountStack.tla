-------------------------- MODULE ThreadCountStack --------------------------
(***************************************************************************)
(* src/threadsafe_containers/stack/lock_free_stack_threadcount.h: a        *)
(* Treiber stack that counts the threads inside pop.  A popped node goes   *)
(* on the list to_be_deleted_ unless its popper is alone in pop, and a     *)
(* thread that leaves pop last deletes the list it has taken.              *)
(*                                                                         *)
(* A compare-exchange loop that only recomputes its new value from what it *)
(* finds is one step, the one in which it succeeds.                        *)
(***************************************************************************)
EXTENDS Naturals, FiniteSets, SequencesExt, LinkedLists

CONSTANTS
    Threads,        \* threads that call push and pop
    Nodes,          \* addresses the heap can hand out (bounds the model)
    Values,         \* values pushed
    Null            \* nullptr

ConstantsAssumption ==
    /\ Null \notin Nodes \cup Values
    /\ IsFiniteSet(Threads) /\ IsFiniteSet(Nodes)

VARIABLES
    head_, to_be_deleted_, threads_in_pop_,
    data, next,                     \* the fields of each node
    free,                           \* addresses that are not allocated
    pc, old_head, nxt, res,         \* locals of push and pop (the new node of
                                    \* a push is its old_head)
    nodes                           \* local of try_reclaim: nodes_to_delete

shared == <<head_, to_be_deleted_, threads_in_pop_>>
node == <<data, next, free>>
vars == <<shared, node, pc, old_head, nxt, res, nodes>>

Init ==
    /\ head_ = Null
    /\ to_be_deleted_ = Null
    /\ threads_in_pop_ = 0
    /\ data = [n \in Nodes |-> Null]
    /\ next = [n \in Nodes |-> Null]
    /\ free = Nodes
    /\ pc = [t \in Threads |-> "idle"]
    /\ old_head = [t \in Threads |-> Null]
    /\ nxt = [t \in Threads |-> Null]
    /\ res = [t \in Threads |-> Null]
    /\ nodes = [t \in Threads |-> Null]

Goto(t, from, to) ==
    /\ pc[t] = from
    /\ pc' = [pc EXCEPT ![t] = to]

-----------------------------------------------------------------------------
PushAlloc(t, v) ==
    /\ Goto(t, "idle", "push_cas")
    /\ \E n \in free :
        /\ free' = free \ {n}
        /\ old_head' = [old_head EXCEPT ![t] = n]
        /\ data' = [data EXCEPT ![n] = v]
    /\ UNCHANGED <<shared, next, nxt, res, nodes>>

PushCas(t) ==
    /\ Goto(t, "push_cas", "idle")
    /\ next' = [next EXCEPT ![old_head[t]] = head_]
    /\ head_' = old_head[t]
    /\ old_head' = [old_head EXCEPT ![t] = Null]
    /\ UNCHANGED <<to_be_deleted_, threads_in_pop_, data, free, nxt, res, nodes>>

-----------------------------------------------------------------------------
PopEnter(t) ==
    /\ Goto(t, "idle", "load_head")
    /\ threads_in_pop_' = threads_in_pop_ + 1
    /\ UNCHANGED <<head_, to_be_deleted_, node, old_head, nxt, res, nodes>>

LoadHead(t) ==
    /\ \/ head_ = Null /\ Goto(t, "load_head", "leave_empty")
       \/ head_ # Null /\ Goto(t, "load_head", "read_next")
    /\ old_head' = [old_head EXCEPT ![t] = head_]
    /\ UNCHANGED <<shared, node, nxt, res, nodes>>

LeaveEmpty(t) ==
    /\ Goto(t, "leave_empty", "idle")
    /\ threads_in_pop_' = threads_in_pop_ - 1
    /\ UNCHANGED <<head_, to_be_deleted_, node, old_head, nxt, res, nodes>>

\* The argument old_head->next of the CAS.  The node may already be popped and
\* on its way to to_be_deleted_, when its next is overwritten without
\* synchronization: either value is read, and the CAS fails.
ReadNext(t) ==
    /\ Goto(t, "read_next", "pop_cas")
    /\ nxt' = [nxt EXCEPT ![t] = next[old_head[t]]]
    /\ UNCHANGED <<shared, node, old_head, res, nodes>>

\* compare_exchange_weak may fail for no reason.
PopCas(t) ==
    /\ \/ /\ Goto(t, "pop_cas", "data")
          /\ head_ = old_head[t]
          /\ head_' = nxt[t]
          /\ UNCHANGED old_head
       \/ /\ Goto(t, "pop_cas", "load_head")
          /\ old_head' = [old_head EXCEPT ![t] = Null]
          /\ UNCHANGED head_
    /\ nxt' = [nxt EXCEPT ![t] = Null]
    /\ UNCHANGED <<to_be_deleted_, threads_in_pop_, node, res, nodes>>

SwapData(t) ==
    /\ Goto(t, "data", "test_count")
    /\ res' = [res EXCEPT ![t] = data[old_head[t]]]
    /\ data' = [data EXCEPT ![old_head[t]] = Null]
    /\ UNCHANGED <<shared, next, free, old_head, nxt, nodes>>

-----------------------------------------------------------------------------
\* try_reclaim(old_head)

TestCount(t) ==
    /\ \/ threads_in_pop_ = 1 /\ Goto(t, "test_count", "exchange")
       \/ threads_in_pop_ # 1 /\ Goto(t, "test_count", "chain")
    /\ UNCHANGED <<shared, node, old_head, nxt, res, nodes>>

ExchangeList(t) ==
    /\ Goto(t, "exchange", "decrement")
    /\ nodes' = [nodes EXCEPT ![t] = to_be_deleted_]
    /\ to_be_deleted_' = Null
    /\ UNCHANGED <<head_, threads_in_pop_, node, old_head, nxt, res>>

\* The bug of deleting the list without asking who is left.
Decrement_NoTest(t) ==
    /\ Goto(t, "decrement", "delete_nodes")
    /\ threads_in_pop_' = threads_in_pop_ - 1
    /\ UNCHANGED <<head_, to_be_deleted_, node, old_head, nxt, res, nodes>>

\* --threads_in_pop_ == 0: the list is ours; otherwise it goes back
Decrement(t) ==
    /\ threads_in_pop_' = threads_in_pop_ - 1
    /\ \/ threads_in_pop_' = 0 /\ Goto(t, "decrement", "delete_nodes")
       \/ /\ threads_in_pop_' # 0
          /\ Goto(t, "decrement", IF nodes[t] = Null THEN "delete" ELSE "chain_back")
    /\ UNCHANGED <<head_, to_be_deleted_, node, old_head, nxt, res, nodes>>

\* delete_nodes(nodes_to_delete), one node a step
DeleteNodes(t) ==
    /\ \/ /\ nodes[t] = Null
          /\ Goto(t, "delete_nodes", "delete")
          /\ UNCHANGED <<free, nodes>>
       \/ /\ nodes[t] # Null
          /\ Goto(t, "delete_nodes", "delete_nodes")
          /\ free' = free \cup {nodes[t]}
          /\ nodes' = [nodes EXCEPT ![t] = next[nodes[t]]]
    /\ UNCHANGED <<shared, data, next, old_head, nxt, res>>

\* The nodes of the list that starts at n.
ListFrom(n) == Reached(n, next, Null, Cardinality(Nodes))

\* chain_pending_nodes(first, last)
ChainPending(first, last) ==
    /\ to_be_deleted_' = first
    /\ next' = [next EXCEPT ![last] = to_be_deleted_]

ChainBack(t) ==
    /\ Goto(t, "chain_back", "delete")
    /\ ChainPending(nodes[t], Last(ListFrom(nodes[t])))
    /\ nodes' = [nodes EXCEPT ![t] = Null]
    /\ UNCHANGED <<head_, threads_in_pop_, data, free, old_head, nxt, res>>

\* delete old_head; return res
Delete(t) ==
    /\ Goto(t, "delete", "idle")
    /\ free' = free \cup {old_head[t]}
    /\ old_head' = [old_head EXCEPT ![t] = Null]
    /\ res' = [res EXCEPT ![t] = Null]
    /\ UNCHANGED <<shared, data, next, nxt, nodes>>

ChainPendingNode(t) ==
    /\ Goto(t, "chain", "leave")
    /\ ChainPending(old_head[t], old_head[t])
    /\ old_head' = [old_head EXCEPT ![t] = Null]
    /\ UNCHANGED <<head_, threads_in_pop_, data, free, nxt, res, nodes>>

Leave(t) ==
    /\ Goto(t, "leave", "idle")
    /\ threads_in_pop_' = threads_in_pop_ - 1
    /\ res' = [res EXCEPT ![t] = Null]
    /\ UNCHANGED <<head_, to_be_deleted_, node, old_head, nxt, nodes>>

Pop(t) ==
    \/ PopEnter(t) \/ LoadHead(t) \/ LeaveEmpty(t)
    \/ ReadNext(t) \/ PopCas(t) \/ SwapData(t)

TryReclaim(t) ==
    \/ TestCount(t) \/ ExchangeList(t) \/ Decrement(t) \/ DeleteNodes(t)
    \/ ChainBack(t) \/ Delete(t) \/ ChainPendingNode(t) \/ Leave(t)

Next ==
    \E t \in Threads :
        \/ \E v \in Values : PushAlloc(t, v)
        \/ PushCas(t) \/ Pop(t) \/ TryReclaim(t)

Spec == Init /\ [][Next]_vars

-----------------------------------------------------------------------------
\* "So no other thread in pop still uses a node that is deleted" (line 10):
\* whatever pop and try_reclaim dereference is allocated.
NoUseAfterFree ==
    \A t \in Threads :
        /\ pc[t] \in {"read_next", "data", "chain", "delete"} => old_head[t] \notin free
        /\ ToSet(ListFrom(nodes[t])) \cap free = {}

Held(t) ==
    ToSet(ListFrom(nodes[t]))
        \cup (IF pc[t] \in {"push_cas", "data", "test_count", "exchange", "decrement",
                            "delete_nodes", "chain_back", "delete", "chain"}
              THEN {old_head[t]} ELSE {})

\* Nothing leaks and nothing is deleted twice: every node of the heap is in
\* exactly one of the stack, to_be_deleted_, and the hands of one thread.
NodesAccounted ==
    LET stack == ToSet(ListFrom(head_))
        pending == ToSet(ListFrom(to_be_deleted_))
    IN  /\ Nodes = free \cup stack \cup pending \cup UNION {Held(t) : t \in Threads}
        /\ (stack \cup pending) \cap free = {}
        /\ stack \cap pending = {}
        /\ \A t \in Threads :
            /\ Held(t) \cap (free \cup stack \cup pending) = {}
            /\ \A u \in Threads \ {t} : Held(t) \cap Held(u) = {}

CallOf(t) ==
    CASE pc[t] = "idle" -> <<"idle">>
      [] pc[t] = "push_cas" -> <<"push", data[old_head[t]]>>
      [] pc[t] \in {"load_head", "read_next", "pop_cas"} -> <<"pop">>
      [] pc[t] = "leave_empty" -> <<"got", Null>>
      [] pc[t] = "data" -> <<"got", data[old_head[t]]>>
      [] OTHER -> <<"got", res[t]>>

Abstract ==
    INSTANCE Lifo WITH
        Empty <- Null,
        stk <- [i \in DOMAIN ListFrom(head_) |-> data[ListFrom(head_)[i]]],
        call <- [t \in Threads |-> CallOf(t)]

\* The stack is linearizable: a pop takes effect when its CAS succeeds, an
\* empty one when it loads a null head_.
ImplementsLifo == Abstract!Spec

-----------------------------------------------------------------------------
(* The inductive invariant behind these *)

Counted == {"load_head", "leave_empty", "read_next", "pop_cas", "data", "test_count",
            "exchange", "decrement", "chain", "leave"}
Looking == {"read_next", "pop_cas"}
Alone == {"exchange", "decrement", "delete_nodes", "chain_back", "delete"}
Holding == {"push_cas", "data", "test_count", "chain"} \cup Alone
Taking == {"decrement", "delete_nodes", "chain_back"}
PC == {"idle"} \cup Counted \cup Holding

NodeOrNull == Nodes \cup {Null}
ValueOrNull == Values \cup {Null}

TypeOK ==
    /\ head_ \in NodeOrNull /\ to_be_deleted_ \in NodeOrNull /\ threads_in_pop_ \in Nat
    /\ data \in [Nodes -> ValueOrNull]
    /\ next \in [Nodes -> NodeOrNull]
    /\ free \subseteq Nodes
    /\ pc \in [Threads -> PC]
    /\ old_head \in [Threads -> NodeOrNull]
    /\ nxt \in [Threads -> NodeOrNull]
    /\ res \in [Threads -> ValueOrNull]
    /\ nodes \in [Threads -> NodeOrNull]

LocalsOK ==
    \A t \in Threads :
        /\ pc[t] \in Looking \cup Holding => old_head[t] # Null
        /\ pc[t] = "push_cas" => data[old_head[t]] \in Values
        /\ nodes[t] # Null => pc[t] \in Taking
        /\ pc[t] = "chain_back" => nodes[t] # Null

Linked(n) == ListFrom(n) \in Seq(Nodes) /\ Chain(ListFrom(n), n, next, Null)

\* A popped node is not on the list its popper has taken.
Apart ==
    /\ Linked(head_) /\ Linked(to_be_deleted_)
    /\ \A t \in Threads :
        /\ Linked(nodes[t])
        /\ pc[t] \in Holding => old_head[t] \notin ToSet(ListFrom(nodes[t]))

InPop == {t \in Threads : pc[t] \in Counted}
CountRight == threads_in_pop_ = Cardinality(InPop)

\* A node somebody looks at is not deleted and not pushed again; while it is in the
\* stack its next is the one that was read; nobody looks at the node of a thread that
\* was alone in pop after it had popped it, nor at the list of one that was alone in
\* leaving.
Watched ==
    \A t \in Threads : pc[t] \in Looking =>
        /\ old_head[t] \notin free
        /\ pc[t] = "pop_cas" /\ old_head[t] \in ToSet(ListFrom(head_))
            => nxt[t] = next[old_head[t]]
        /\ \A u \in Threads :
            /\ pc[u] \in {"push_cas"} \cup Alone => old_head[u] # old_head[t]
            /\ pc[u] = "delete_nodes" => old_head[t] \notin ToSet(ListFrom(nodes[u]))

IInv ==
    TypeOK /\ LocalsOK /\ Apart /\ NodesAccounted /\ CountRight /\ Watched
=============================================================================
