----------------------------- MODULE SpscLinked -----------------------------
(***************************************************************************)
(* src/threadsafe_containers/queue/spsc_linked_queue.h: a linked queue     *)
(* with a dummy node at its end, for one producer and one consumer, that   *)
(* neither locks nor compares-and-swaps nor defers the delete of a node.   *)
(***************************************************************************)
EXTENDS Naturals, FiniteSets, SequencesExt

CONSTANTS
    Nodes,          \* addresses the heap can hand out (bounds the queue)
    Values,         \* values pushed
    Null            \* nullptr

ConstantsAssumption ==
    /\ Null \notin Nodes \cup Values
    /\ IsFiniteSet(Nodes)

VARIABLES
    head_, tail_,
    data, next,                     \* the fields of each node
    free,                           \* addresses that are not allocated
    push_pc, val, p, old_tail,      \* locals of push
    pop_pc, old_head, nxt, res      \* locals of pop

node == <<data, next, free>>
push_vars == <<push_pc, val, p, old_tail>>
pop_vars == <<pop_pc, old_head, nxt, res>>
vars == <<head_, tail_, node, push_vars, pop_vars>>

Init ==
    /\ head_ \in Nodes
    /\ tail_ = head_
    /\ data = [n \in Nodes |-> Null]
    /\ next = [n \in Nodes |-> Null]
    /\ free = Nodes \ {head_}
    /\ push_pc = "idle" /\ val = Null /\ p = Null /\ old_tail = Null
    /\ pop_pc = "idle" /\ old_head = Null /\ nxt = Null /\ res = Null

PushGoto(from, to) == push_pc = from /\ push_pc' = to
PopGoto(from, to) == pop_pc = from /\ pop_pc' = to

-----------------------------------------------------------------------------
\* make_shared, new node, tail_.load()
PushStart(v) ==
    /\ PushGoto("idle", "data")
    /\ \E n \in free :
        /\ p' = n
        /\ free' = free \ {n}
        /\ data' = [data EXCEPT ![n] = Null]
        /\ next' = [next EXCEPT ![n] = Null]
    /\ val' = v
    /\ old_tail' = tail_
    /\ UNCHANGED <<head_, tail_, pop_vars>>

\* old_tail->data.swap(data)
PushData ==
    /\ PushGoto("data", "next")
    /\ data' = [data EXCEPT ![old_tail] = val]
    /\ UNCHANGED <<head_, tail_, next, free, val, p, old_tail, pop_vars>>

\* The bug of publishing the new tail before the old one points to it.
PushNext_TailFirst ==
    /\ PushGoto("next", "tail")
    /\ tail_' = p
    /\ UNCHANGED <<head_, node, val, p, old_tail, pop_vars>>

PushNext ==
    /\ PushGoto("next", "tail")
    /\ next' = [next EXCEPT ![old_tail] = p]
    /\ UNCHANGED <<head_, tail_, data, free, val, p, old_tail, pop_vars>>

PushTail ==
    /\ PushGoto("tail", "idle")
    /\ tail_' = p
    /\ val' = Null /\ p' = Null /\ old_tail' = Null
    /\ UNCHANGED <<head_, node, pop_vars>>

-----------------------------------------------------------------------------
PopStart ==
    /\ PopGoto("idle", "test")
    /\ old_head' = head_
    /\ UNCHANGED <<head_, tail_, node, nxt, res, push_vars>>

\* The bug of taking the dummy node for a value when it is alone.
TestTail_Missing ==
    /\ PopGoto("test", "next")
    /\ UNCHANGED <<head_, tail_, node, old_head, nxt, res, push_vars>>

\* old_head == tail_.load()
TestTail ==
    /\ \/ old_head = tail_ /\ PopGoto("test", "empty")
       \/ old_head # tail_ /\ PopGoto("test", "next")
    /\ UNCHANGED <<head_, tail_, node, old_head, nxt, res, push_vars>>

ReturnEmpty ==
    /\ PopGoto("empty", "idle")
    /\ old_head' = Null
    /\ UNCHANGED <<head_, tail_, node, nxt, res, push_vars>>

LoadNext ==
    /\ PopGoto("next", "store")
    /\ nxt' = next[old_head]
    /\ UNCHANGED <<head_, tail_, node, old_head, res, push_vars>>

StoreHead ==
    /\ PopGoto("store", "data")
    /\ head_' = nxt
    /\ nxt' = Null
    /\ UNCHANGED <<tail_, node, old_head, res, push_vars>>

ReadData ==
    /\ PopGoto("data", "delete")
    /\ res' = data[old_head]
    /\ UNCHANGED <<head_, tail_, node, old_head, nxt, push_vars>>

\* delete old_head; return res
Delete ==
    /\ PopGoto("delete", "idle")
    /\ free' = free \cup {old_head}
    /\ old_head' = Null /\ res' = Null
    /\ UNCHANGED <<head_, tail_, data, next, nxt, push_vars>>

Push == (\E v \in Values : PushStart(v)) \/ PushData \/ PushNext \/ PushTail

PopHead == PopStart \/ TestTail \/ LoadNext \/ StoreHead

Pop == PopHead \/ ReturnEmpty \/ ReadData \/ Delete

Next == Push \/ Pop

Spec == Init /\ [][Next]_vars

-----------------------------------------------------------------------------
\* "pop may delete the node at once, no other thread touches it" (line 9): the
\* producer never writes a node that the consumer has deleted, nor one that the
\* consumer is reading.
NodesUnshared ==
    push_pc \in {"data", "next"} =>
        /\ old_tail \notin free
        /\ pop_pc \in {"next", "store", "data", "delete"} => old_tail # old_head

Chain[k \in Nat] ==
    IF k = 0 THEN <<head_>>
    ELSE LET c == Chain[k - 1]
         IN  IF Last(c) \in {tail_, Null} THEN c ELSE Append(c, next[Last(c)])

\* The nodes from head_ to tail_.
Linked == Chain[Cardinality(Nodes)]

\* Every node of the heap is on the queue, new in push, being popped, or free:
\* nothing is freed twice and nothing leaks.
NodesAccounted ==
    /\ ToSet(Linked) \cap free = {}
    /\ Nodes = free \cup ToSet(Linked) \cup ({p, old_head} \ {Null})

TypeOK ==
    /\ head_ \in Nodes /\ tail_ \in Nodes
    /\ data \in [Nodes -> Values \cup {Null}]
    /\ next \in [Nodes -> Nodes \cup {Null}]
    /\ free \subseteq Nodes
    /\ push_pc \in {"idle", "data", "next", "tail"}
    /\ pop_pc \in {"idle", "test", "empty", "next", "store", "data", "delete"}
    /\ {p, old_head} \subseteq Nodes \cup {Null}
    /\ {val, res} \subseteq Values \cup {Null}

\* What a side holds between its calls, and the value a push has in hand.
LocalsOK ==
    /\ push_pc = "idle" => p = Null
    /\ pop_pc = "idle" => old_head = Null
    /\ push_pc # "idle" => val \in Values
    /\ push_pc \in {"next", "tail"} => data[old_tail] = val

\* The nodes c lead from head_ to tail_, and neither side holds a node of them
\* that the other may still reach: what NodesUnshared rests on.
Consistent(c) ==
    /\ c # <<>> /\ c[1] = head_ /\ c[Len(c)] = tail_
    /\ \A i \in 1 .. Len(c) - 1 : next[c[i]] = c[i + 1]
    /\ \A i, j \in 1 .. Len(c) : c[i] = c[j] => i = j
    /\ \A i \in 1 .. Len(c) : c[i] \notin free
    /\ push_pc # "idle" =>
        /\ old_tail = tail_
        /\ p \in Nodes \ free
        /\ \A i \in 1 .. Len(c) : c[i] # p
        /\ pop_pc \in {"data", "delete"} => old_head # p
    /\ push_pc = "tail" => next[tail_] = p
    /\ pop_pc \in {"test", "empty", "next", "store"} => old_head = head_
    /\ pop_pc \in {"next", "store"} => old_head # tail_
    /\ pop_pc = "store" => nxt = next[old_head]
    /\ pop_pc \in {"data", "delete"} =>
        /\ old_head \in Nodes \ free
        /\ \A i \in 1 .. Len(c) : c[i] # old_head

Queued == [i \in 1 .. Len(Linked) - 1 |-> data[Linked[i]]]

Callers == {"producer", "consumer"}

CallOf(t) ==
    CASE t = "producer" /\ push_pc # "idle" -> <<"push", val>>
      [] t = "consumer" /\ pop_pc \in {"test", "next", "store"} -> <<"pop">>
      [] t = "consumer" /\ pop_pc = "empty" -> <<"got", Null>>
      [] t = "consumer" /\ pop_pc = "data" -> <<"got", data[old_head]>>
      [] t = "consumer" /\ pop_pc = "delete" -> <<"got", res>>
      [] OTHER -> <<"idle">>

Abstract ==
    INSTANCE Fifo WITH
        Threads <- Callers,
        Capacity <- Cardinality(Nodes),
        Empty <- Null,
        Exact <- TRUE,
        q <- Queued,
        call <- [t \in Callers |-> CallOf(t)]

\* The queue is linearizable: a push takes effect when it stores tail_, a pop
\* when it stores head_, an empty one when it compares with tail_.
ImplementsFifo == Abstract!Spec
=============================================================================
