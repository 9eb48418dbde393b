------------------------------ MODULE MsQueueRc ------------------------------
(***************************************************************************)
(* src/threadsafe_containers/queue/mpmc_refcount_queue.h: the Michael and  *)
(* Scott queue whose nodes are reclaimed with split reference counts.      *)
(*                                                                         *)
(* head, tail and next are {external_count, ptr} pairs that one 16-byte    *)
(* CAS changes; a node counts its internal references in 30 bits and the   *)
(* external counters that still stand for it in 2 bits, both wrapping.     *)
(* A compare-exchange loop that only recomputes its new value from what it *)
(* finds is one step, the one in which it succeeds.                        *)
(***************************************************************************)
EXTENDS Integers, LinkedLists

CONSTANTS
    Producers, Consumers,   \* the threads that may push, that may pop, call after call
    Teams,                  \* sets of threads that may be the ones that call
    Nodes,                  \* addresses the heap can hand out (bounds the model)
    Values,                 \* values pushed
    MaxCount,               \* with head.external_count this high no pop of an empty
                            \* queue starts: each leaves the count one higher
    Null                    \* nullptr, of a node and of data

Callers == Producers \cup Consumers

\* There are fewer threads than internal_count, 30 bits wide, can count.
ConstantsAssumption ==
    /\ IsFiniteSet(Callers) /\ Cardinality(Callers) < 2^30
    /\ \A T \in Teams : T \subseteq Callers
    /\ Nodes # {} /\ IsFiniteSet(Nodes)
    /\ Null \notin Nodes \cup Values
    /\ MaxCount \in Nat

Counted(c, p) == [cnt |-> c, ptr |-> p]
NullPtr == Counted(0, Null)

VARIABLES
    team,                       \* the threads that call push and pop, all along
    head, tail,                 \* counted pointers
    data, icount, ecount, next, \* the fields of each node
    free,                       \* addresses that are not allocated
    pc, val, nd, o, nx, res     \* locals: new_data, new_next.ptr, old_tail or
                                \* old_head, old_next or next, the result

node == <<data, icount, ecount, next>>
vars == <<team, head, tail, node, free, pc, val, nd, o, nx, res>>

Init ==
    /\ team \in Teams
    /\ \E dummy \in Nodes :
        /\ head = Counted(1, dummy)
        /\ tail = Counted(1, dummy)
        /\ free = Nodes \ {dummy}
    /\ data = [x \in Nodes |-> Null]
    /\ icount = [x \in Nodes |-> 0]
    /\ ecount = [x \in Nodes |-> 2]
    /\ next = [x \in Nodes |-> NullPtr]
    /\ pc = [t \in Callers |-> "idle"]
    /\ val = [t \in Callers |-> Null]
    /\ nd = [t \in Callers |-> Null]
    /\ o = [t \in Callers |-> NullPtr]
    /\ nx = [t \in Callers |-> NullPtr]
    /\ res = [t \in Callers |-> Null]

Goto(t, from, to) ==
    /\ pc[t] = from
    /\ pc' = [pc EXCEPT ![t] = to]

\* new node: the constructor's defaults
Fresh(x) ==
    /\ data' = [data EXCEPT ![x] = Null]
    /\ icount' = [icount EXCEPT ![x] = 0]
    /\ ecount' = [ecount EXCEPT ![x] = 2]
    /\ next' = [next EXCEPT ![x] = NullPtr]

-----------------------------------------------------------------------------
(* Reference counts *)

\* The 30 bits of internal_count, and the counts they hold.
Bits(i) == i % 2^30
InternalCounts == 0 .. 2^30 - 1

\* Store the new counts of x, and delete x if both are zero.
SetCounts(x, i, e) ==
    /\ icount' = [icount EXCEPT ![x] = Bits(i)]
    /\ ecount' = [ecount EXCEPT ![x] = e % 4]
    /\ free' = IF icount'[x] = 0 /\ ecount'[x] = 0 THEN free \cup {x} ELSE free
    /\ UNCHANGED <<data, next>>

ReleaseRef(x) == SetCounts(x, icount[x] - 1, ecount[x])

\* The bug of folding all external references, the head's and tail's too.
FreeExternalCounter_NoTwo(p) ==
    SetCounts(p.ptr, icount[p.ptr] + p.cnt - 1, ecount[p.ptr] - 1)

FreeExternalCounter(p) ==
    SetCounts(p.ptr, icount[p.ptr] + p.cnt - 2, ecount[p.ptr] - 1)

-----------------------------------------------------------------------------
(* push *)

\* new T(val), new node, tail.load() and increase_external_count(tail, old_tail)
PushStart(t, v) ==
    /\ Goto(t, "idle", "p_inc")
    /\ t \in Producers
    /\ val' = [val EXCEPT ![t] = v]
    /\ \E x \in free :
        /\ free' = free \ {x}
        /\ nd' = [nd EXCEPT ![t] = x]
        /\ Fresh(x)
    /\ UNCHANGED <<head, tail, o, nx, res>>

\* The bug of reading tail without taking a reference.
PushIncrease_Skipped(t) ==
    /\ Goto(t, "p_inc", "p_data")
    /\ o' = [o EXCEPT ![t] = tail]
    /\ UNCHANGED <<head, tail, node, free, val, nd, nx, res>>

PushIncrease(t) ==
    /\ Goto(t, "p_inc", "p_data")
    /\ tail' = [tail EXCEPT !.cnt = @ + 1]
    /\ o' = [o EXCEPT ![t] = tail']
    /\ UNCHANGED <<head, node, free, val, nd, nx, res>>

\* The bug of storing the data where another push may have put its own.
PushData_Store(t) ==
    /\ Goto(t, "p_data", "p_link")
    /\ data' = [data EXCEPT ![o[t].ptr] = val[t]]
    /\ UNCHANGED <<head, tail, icount, ecount, next, free, val, nd, o, nx, res>>

\* old_tail.ptr->data.compare_exchange_strong(nullptr, new_data)
PushData(t) ==
    /\ \/ /\ Goto(t, "p_data", "p_link")
          /\ data[o[t].ptr] = Null
          /\ data' = [data EXCEPT ![o[t].ptr] = val[t]]
       \/ /\ Goto(t, "p_data", "h_link")
          /\ data[o[t].ptr] # Null
          /\ UNCHANGED data
    /\ UNCHANGED <<head, tail, icount, ecount, next, free, val, nd, o, nx, res>>

\* Link the new node behind old_tail; if another thread has linked its own,
\* take that one instead and delete the new node.
PushLink(t) ==
    /\ Goto(t, "p_link", "p_tail")
    /\ \/ /\ next[o[t].ptr] = NullPtr
          /\ next' = [next EXCEPT ![o[t].ptr] = Counted(1, nd[t])]
          /\ UNCHANGED free
       \/ /\ next[o[t].ptr] # NullPtr
          /\ free' = free \cup {nd[t]}
          /\ UNCHANGED next
    /\ nx' = [nx EXCEPT ![t] = next'[o[t].ptr]]
    /\ nd' = [nd EXCEPT ![t] = Null]
    /\ UNCHANGED <<head, tail, data, icount, ecount, val, o, res>>

\* A helper links its node and allocates another, or takes the one linked.
HelpLink(t) ==
    /\ Goto(t, "h_link", "h_tail")
    /\ \/ /\ next[o[t].ptr] = NullPtr
          /\ \E x \in free :
               /\ free' = free \ {x}
               /\ nd' = [nd EXCEPT ![t] = x]
               /\ data' = [data EXCEPT ![x] = Null]
               /\ icount' = [icount EXCEPT ![x] = 0]
               /\ ecount' = [ecount EXCEPT ![x] = 2]
               /\ next' = [next EXCEPT ![o[t].ptr] = Counted(1, nd[t]), ![x] = NullPtr]
       \/ /\ next[o[t].ptr] # NullPtr
          /\ UNCHANGED <<node, free, nd>>
    /\ nx' = [nx EXCEPT ![t] = next'[o[t].ptr]]
    /\ UNCHANGED <<head, tail, val, o, res>>

\* set_new_tail: the CAS loop.  It leaves in old_tail what tail was.
SetNewTail(t) ==
    /\ \/ /\ tail.ptr = o[t].ptr
          /\ tail' = nx[t]
          /\ o' = [o EXCEPT ![t] = tail]
          /\ \/ Goto(t, "p_tail", "p_free")
             \/ Goto(t, "h_tail", "h_free")
       \/ /\ tail.ptr # o[t].ptr
          /\ \/ Goto(t, "p_tail", "p_release")
             \/ Goto(t, "h_tail", "h_release")
          /\ UNCHANGED <<tail, o>>
    /\ UNCHANGED <<head, node, free, val, nd, nx, res>>

\* set_new_tail: the thread that advanced tail gives up tail's counter, any
\* other its own reference.  Then push returns, or the helper tries again.
PushFinish(t) ==
    /\ \/ Goto(t, "p_free", "idle") /\ FreeExternalCounter(o[t])
       \/ Goto(t, "p_release", "idle") /\ ReleaseRef(o[t].ptr)
    /\ val' = [val EXCEPT ![t] = Null]
    /\ o' = [o EXCEPT ![t] = NullPtr]
    /\ nx' = [nx EXCEPT ![t] = NullPtr]
    /\ UNCHANGED <<head, tail, nd, res>>

HelpFinish(t) ==
    /\ \/ Goto(t, "h_free", "p_inc") /\ FreeExternalCounter(o[t])
       \/ Goto(t, "h_release", "p_inc") /\ ReleaseRef(o[t].ptr)
    /\ o' = [o EXCEPT ![t] = NullPtr]
    /\ nx' = [nx EXCEPT ![t] = NullPtr]
    /\ UNCHANGED <<head, tail, val, nd, res>>

-----------------------------------------------------------------------------
(* pop *)

PopStart(t) ==
    /\ Goto(t, "idle", "o_inc")
    /\ t \in Consumers
    /\ head.ptr = tail.ptr => head.cnt < MaxCount
    /\ UNCHANGED <<head, tail, node, free, val, nd, o, nx, res>>

\* The bound MaxCount, here and in PopStart: the count also grows while pops
\* make each other's CAS fail, so beyond it they take turns.
BelowMaxCount(t) ==
    \/ head.cnt < MaxCount
    \/ \A u \in Callers \ {t} : pc[u] \notin {"o_tail", "o_next", "o_cas"}

\* head.load() and increase_external_count(head, old_head)
PopIncrease(t) ==
    /\ Goto(t, "o_inc", "o_tail")
    /\ BelowMaxCount(t)
    /\ head' = [head EXCEPT !.cnt = @ + 1]
    /\ o' = [o EXCEPT ![t] = head']
    /\ UNCHANGED <<tail, node, free, val, nd, nx, res>>

\* ptr == tail.load().ptr
PopTestTail(t) ==
    /\ pc[t] = "o_tail"
    /\ pc' = [pc EXCEPT ![t] = IF o[t].ptr = tail.ptr THEN "o_empty" ELSE "o_next"]
    /\ UNCHANGED <<head, tail, node, free, val, nd, o, nx, res>>

\* ptr->release_ref(); return an empty pointer
PopEmpty(t) ==
    /\ Goto(t, "o_empty", "idle")
    /\ ReleaseRef(o[t].ptr)
    /\ o' = [o EXCEPT ![t] = NullPtr]
    /\ UNCHANGED <<head, tail, val, nd, nx, res>>

\* next = ptr->next.load()
PopLoadNext(t) ==
    /\ Goto(t, "o_next", "o_cas")
    /\ nx' = [nx EXCEPT ![t] = next[o[t].ptr]]
    /\ UNCHANGED <<head, tail, node, free, val, nd, o, res>>

\* head.compare_exchange_strong(old_head, next)
PopCas(t) ==
    /\ \/ /\ head = o[t]
          /\ head' = nx[t]
          /\ Goto(t, "o_cas", "o_data")
       \/ /\ head # o[t]
          /\ Goto(t, "o_cas", "o_retry")
          /\ UNCHANGED head
    /\ nx' = [nx EXCEPT ![t] = NullPtr]
    /\ UNCHANGED <<tail, node, free, val, nd, o, res>>

\* ptr->release_ref() and around the loop
PopRetry(t) ==
    /\ Goto(t, "o_retry", "o_inc")
    /\ ReleaseRef(o[t].ptr)
    /\ o' = [o EXCEPT ![t] = NullPtr]
    /\ UNCHANGED <<head, tail, val, nd, nx, res>>

\* res = ptr->data.exchange(nullptr)
PopData(t) ==
    /\ Goto(t, "o_data", "o_free")
    /\ res' = [res EXCEPT ![t] = data[o[t].ptr]]
    /\ data' = [data EXCEPT ![o[t].ptr] = Null]
    /\ UNCHANGED <<head, tail, icount, ecount, next, free, val, nd, o, nx>>

\* free_external_counter(old_head); return res
PopFinish(t) ==
    /\ Goto(t, "o_free", "idle")
    /\ FreeExternalCounter(o[t])
    /\ o' = [o EXCEPT ![t] = NullPtr]
    /\ res' = [res EXCEPT ![t] = Null]
    /\ UNCHANGED <<head, tail, val, nd, nx>>

-----------------------------------------------------------------------------
Push(t) ==
    \/ \E v \in Values : PushStart(t, v)
    \/ PushIncrease(t) \/ PushData(t) \/ PushLink(t) \/ HelpLink(t)
    \/ SetNewTail(t) \/ PushFinish(t) \/ HelpFinish(t)

Pop(t) ==
    \/ PopStart(t) \/ PopIncrease(t) \/ PopTestTail(t) \/ PopEmpty(t)
    \/ PopLoadNext(t) \/ PopCas(t) \/ PopRetry(t) \/ PopData(t) \/ PopFinish(t)

Next ==
    /\ UNCHANGED team
    /\ \E t \in team : Push(t) \/ Pop(t)

Spec == Init /\ [][Next]_vars

-----------------------------------------------------------------------------
After == [x \in Nodes |-> next[x].ptr]

\* The nodes from head to the last one linked.
List == ListOf(head.ptr, After, Null, Nodes)
Live == OnList(head.ptr, After, Null, Nodes)

\* The nodes from head to the one before tail, and the values in them.
Front == ListOf(head.ptr, After, tail.ptr, Nodes)
Queued == [i \in DOMAIN Front |-> data[Front[i]]]

\* No push or pop touches a field of a node that has been deleted
\* (lines 131-145 and 159-169): its reference keeps the node alive.
NoUseAfterFree ==
    \A t \in Callers :
        pc[t] \notin {"idle", "p_inc", "o_inc"} => o[t].ptr \notin free

\* The counts come out exact: whenever no call is running, every node that is
\* not in the list has been deleted, and every node that is has not.
NothingLeaked ==
    (\A t \in Callers : pc[t] = "idle") => free = Nodes \ Live

\* A push takes effect when tail moves past its node, a pop when its CAS moves
\* head, an empty pop when it finds that its node is the tail.
CallOf(t) ==
    CASE pc[t] \in {"p_inc", "p_data", "h_link", "h_tail", "h_free", "h_release"}
            -> <<"push", val[t]>>
      [] pc[t] \in {"p_link", "p_tail"}
            -> IF tail.ptr = o[t].ptr THEN <<"push", val[t]>> ELSE <<"idle">>
      [] pc[t] \in {"o_inc", "o_tail", "o_next", "o_cas", "o_retry"} -> <<"pop">>
      [] pc[t] = "o_empty" -> <<"got", Null>>
      [] pc[t] = "o_data" -> <<"got", data[o[t].ptr]>>
      [] pc[t] = "o_free" -> <<"got", res[t]>>
      [] OTHER -> <<"idle">>

Abstract ==
    INSTANCE Fifo WITH
        Threads <- Callers,
        Empty <- Null,
        Exact <- TRUE,
        Capacity <- Cardinality(Nodes),
        q <- Queued,
        call <- [t \in Callers |-> CallOf(t)]

\* The queue is linearizable: no value is lost, popped twice or out of order,
\* and pop says "empty" only of an empty queue.
ImplementsFifo == Abstract!Spec

\* Where it is: one thread pushes, or nobody pops.
OneSided == Cardinality(team \cap Producers) = 1 \/ team \cap Consumers = {}

\* The part of it that a test counts: a pop that wins a node finds a value
\* there, and a value stored in a node is still to be popped.
NoValueStranded ==
    \A t \in Callers :
        /\ pc[t] = "o_data" => data[o[t].ptr] # Null
        /\ pc[t] = "p_link" => \/ o[t].ptr \in Live
                               \/ \E u \in Callers : pc[u] = "o_data" /\ o[u].ptr = o[t].ptr

-----------------------------------------------------------------------------
(* Why it holds: the inductive invariant *)

PC == {"idle", "p_inc", "p_data", "p_link", "p_tail", "p_free", "p_release",
       "h_link", "h_tail", "h_free", "h_release",
       "o_inc", "o_tail", "o_empty", "o_next", "o_cas", "o_retry", "o_data", "o_free"}

\* Where a call holds a reference to o[t].ptr, where it is to fold the counter that
\* was tail's or head's, and where it has a node that nobody else has seen.
Referring == PC \ {"idle", "p_inc", "o_inc"}
TailFolding == {"p_free", "h_free"}
HeadFolding == {"o_data", "o_free"}
Allocated == {"p_inc", "p_data", "p_link", "h_link", "h_tail", "h_free", "h_release"}

Links == {NullPtr} \cup [cnt : {1}, ptr : Nodes]

\* The types, fields no property depends on left out.
TypeOK ==
    /\ team \subseteq Callers
    /\ head \in [cnt : Nat, ptr : Nodes] /\ tail \in [cnt : Nat, ptr : Nodes]
    /\ icount \in [Nodes -> InternalCounts] /\ ecount \in [Nodes -> 0 .. 3]
    /\ next \in [Nodes -> Links] /\ free \subseteq Nodes
    /\ pc \in [Callers -> PC] /\ nd \in [Callers -> Nodes \cup {Null}]
    /\ o \in [Callers -> [cnt : Nat, ptr : Nodes \cup {Null}]]
    /\ nx \in [Callers -> Links]

\* The calls that are somewhere in S with a reference to x.
At(S, x) == {t \in Callers : pc[t] \in S /\ o[t].ptr = x}
Refs(x) == At(Referring, x)

\* The nodes that are or have been in the queue.
Placed == {x \in Nodes \ free : \A t \in Callers : nd[t] # x}

\* What each call knows of the node it holds.
LocalsOK ==
    \A t \in Callers :
        /\ nd[t] # Null <=> pc[t] \in Allocated
        /\ pc[t] \in Referring => o[t].ptr \in Placed
        /\ pc[t] \in {"p_tail", "h_tail"} =>
               nx[t] = next[o[t].ptr] /\ next[o[t].ptr] # NullPtr
        /\ pc[t] \in {"o_next", "o_cas"} => tail.ptr # o[t].ptr
        /\ pc[t] = "o_cas" => nx[t] = next[o[t].ptr]

\* A node that was allocated and not linked is as the constructor left it.
Apart ==
    \A t \in Callers : nd[t] # Null =>
        /\ nd[t] \notin free
        /\ \A u \in Callers : nd[u] = nd[t] => u = t
        /\ next[nd[t]] = NullPtr /\ icount[nd[t]] = 0 /\ ecount[nd[t]] = 2

\* From head the links lead past tail, which is one node from the end at most; a
\* node behind tail has been seen by nobody.
Shape ==
    /\ IsLinked(head.ptr, After, Null, Nodes) /\ Live \subseteq Placed
    /\ tail.ptr \in Live
    /\ \A x \in Placed : next[x] = NullPtr => x \in {tail.ptr, After[tail.ptr]}
    /\ \A x \in Nodes : x = After[tail.ptr] => next[x] = NullPtr /\ Refs(x) = {}

\* A call folds the counter of a node tail or head has left, and no two the same.
Folding ==
    \A t, u \in Callers :
        /\ pc[t] \in TailFolding =>
               /\ o[t].ptr \notin {tail.ptr, After[tail.ptr]}
               /\ pc[u] \in TailFolding /\ o[u].ptr = o[t].ptr => u = t
        /\ pc[t] \in HeadFolding =>
               /\ o[t].ptr \notin Live
               /\ pc[u] \in HeadFolding /\ o[u].ptr = o[t].ptr => u = t

\* How many external counters stand for x: tail's from when x is linked until it is
\* folded, head's too.
TailOpen(x) ==
    IF x \in {tail.ptr, After[tail.ptr]} \/ At(TailFolding, x) # {} THEN 1 ELSE 0
HeadOpen(x) ==
    IF x \in Live \/ At(HeadFolding, x) # {} THEN 1 ELSE 0

\* The references to x that the external counter p, or the call that is to fold it, has
\* counted and internal_count has not.
Owed(p, S, x) ==
    IF p.ptr = x THEN p.cnt - 1
    ELSE IF At(S, x) # {} THEN o[CHOOSE t \in At(S, x) : TRUE].cnt - 1
    ELSE 0
TailOwed(x) == Owed(tail, TailFolding, x)
HeadOwed(x) == Owed(head, HeadFolding, x)

\* The counts of a node say how many references and external counters there are to it.
CountsOf(x) ==
    /\ ecount[x] = TailOpen(x) + HeadOpen(x)
    /\ icount[x] = Bits(Cardinality(Refs(x)) - TailOwed(x) - HeadOwed(x))

\* So they do, and a node with none has been deleted.
Counts ==
    \A x \in Placed : CountsOf(x) /\ (ecount[x] = 0 => Refs(x) # {})

IInv == TypeOK /\ LocalsOK /\ Apart /\ Shape /\ Folding /\ Counts

-----------------------------------------------------------------------------
(* Why it is linearizable where it is *)

InPush == {"p_inc", "p_data", "p_link", "p_tail", "p_free", "p_release",
           "h_link", "h_tail", "h_free", "h_release"}
Returning == {"p_free", "p_release"}

\* What each call is about.
CallsOK ==
    /\ data \in [Nodes -> Values \cup {Null}]
    /\ val \in [Callers -> Values \cup {Null}]
    /\ res \in [Callers -> Values \cup {Null}]
    /\ \A t \in Callers :
        /\ pc[t] # "idle" => t \in team
        /\ pc[t] \in InPush => t \in Producers
        /\ pc[t] \notin InPush \cup {"idle"} => t \in Consumers
        /\ pc[t] \in InPush \ Returning => val[t] # Null

\* The nodes before tail are filled, those behind it are empty.
Filled ==
    /\ IsLinked(head.ptr, After, tail.ptr, Nodes)
    /\ \A x \in Elements(Front) : x \in Live /\ x # tail.ptr /\ data[x] # Null
    /\ \A x \in Nodes :
           x = After[tail.ptr] \/ (\E t \in Callers : nd[t] = x) => data[x] = Null

\* t has stored its value in the node of tail, and tail is still to move.
Stored(t) == pc[t] \in {"p_link", "p_tail"} /\ o[t].ptr = tail.ptr

\* What is in the node of tail is the value of the one push that has stored there; that
\* of a push that helps is another's, and a push that comes late finds a value still.
TailOK ==
    /\ data[tail.ptr] # Null => \E t \in Callers : Stored(t)
    /\ \A t \in Callers :
        /\ Stored(t) => data[tail.ptr] = val[t] /\ \A u \in Callers : Stored(u) => u = t
        /\ pc[t] \in {"h_link", "h_tail"} /\ o[t].ptr = tail.ptr => data[tail.ptr] # Null
        /\ pc[t] = "p_data" /\ o[t].ptr # tail.ptr =>
               team \cap Consumers = {} /\ data[o[t].ptr] # Null

\* A node a pop has taken a reference to is the first one, or has left the queue.
PopsOK ==
    \A t \in Callers : pc[t] = "o_tail" /\ o[t].ptr \in Live => o[t].ptr = head.ptr

\* Inductive together with IInv, where OneSided.
ValuesInv == CallsOK /\ Filled /\ TailOK /\ PopsOK
=============================================================================
