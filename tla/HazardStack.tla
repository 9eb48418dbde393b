----------------------------- MODULE HazardStack -----------------------------
(***************************************************************************)
(* src/threadsafe_containers/stack/lock_free_stack.h: the Treiber stack    *)
(* whose popped nodes are reclaimed with hazard pointers.                  *)
(*                                                                         *)
(* One step is one access to shared memory.  Every atomic of the file is   *)
(* used with the default order, so the shared accesses interleave.  A      *)
(* node is an address: `free' is the heap, new takes an address from it    *)
(* and delete gives it back, so an address is used again, as it is by a    *)
(* real allocator (the ABA problem).                                       *)
(*                                                                         *)
(* Two lists are modelled as sets.  reclaim_list is only ever prepended to *)
(* (a CAS that cannot be fooled: the new node links to exactly what it     *)
(* replaces) or taken whole, and the order in which its nodes are then     *)
(* looked at is left open.                                                 *)
(***************************************************************************)
EXTENDS Integers, LinkedLists

CONSTANTS
    Threads,        \* threads that call push and pop
    Nodes,          \* addresses the heap can hand out (bounds the model)
    Values,         \* values pushed
    MAX_HAZARD,     \* number of hazard records, 128 in the code
    Null,           \* nullptr
    NoResult        \* t has no result to return

ASSUME ConstantsAssumption ==
    /\ IsFiniteSet(Nodes)
    /\ MAX_HAZARD \in Nat
    /\ Null \notin Nodes
    /\ Null \notin Values
    /\ NoResult \notin Values \cup {Null}

Records == 0 .. MAX_HAZARD - 1
NoRecord == -1

VARIABLES
    head,           \* head_
    next, data,     \* the fields of each node
    free,           \* addresses that are not allocated
    hp,             \* hazards[i].ptr
    rec,            \* the thread_local rec of t; hazards[i].id is its inverse
    reclaim_list,   \* nodes waiting to be deleted
    pc, new, old, nxt, res,     \* control point and locals of push and pop
    batch, cur, idx             \* locals of delete_without_hazards

vars == <<head, next, data, free, hp, rec, reclaim_list,
          pc, new, old, nxt, res, batch, cur, idx>>

NodeOrNull == Nodes \cup {Null}

Init ==
    /\ head = Null
    /\ next = [n \in Nodes |-> Null]
    /\ data \in [Nodes -> Values]
    /\ \A m, n \in Nodes : data[m] = data[n]    \* garbage, never read
    /\ free = Nodes
    /\ hp = [i \in Records |-> Null]
    /\ rec = [t \in Threads |-> NoRecord]
    /\ reclaim_list = {}
    /\ pc = [t \in Threads |-> "idle"]
    /\ new = [t \in Threads |-> Null]
    /\ old = [t \in Threads |-> Null]
    /\ nxt = [t \in Threads |-> Null]
    /\ res = [t \in Threads |-> NoResult]
    /\ batch = [t \in Threads |-> {}]
    /\ cur = [t \in Threads |-> Null]
    /\ idx = [t \in Threads |-> 0]

Goto(t, from, to) ==
    /\ pc[t] = from
    /\ pc' = [pc EXCEPT ![t] = to]

-----------------------------------------------------------------------------
(* push *)

\* new node(v); new_node->next = head_.load()
PushAlloc(t, v) ==
    /\ Goto(t, "idle", "push_cas")
    /\ \E n \in free :
        /\ free' = free \ {n}
        /\ new' = [new EXCEPT ![t] = n]
        /\ data' = [data EXCEPT ![n] = v]
        /\ next' = [next EXCEPT ![n] = head]
    /\ UNCHANGED <<head, hp, rec, reclaim_list, old, nxt, res, batch, cur, idx>>

\* The bug of publishing with a store instead of a CAS.
PushCas_Store(t) ==
    /\ Goto(t, "push_cas", "idle")
    /\ head' = new[t]
    /\ new' = [new EXCEPT ![t] = Null]
    /\ UNCHANGED <<next, data, free, hp, rec, reclaim_list, old, nxt, res,
                   batch, cur, idx>>

\* The CAS loop.  A failed CAS reloads new_node->next; a spurious failure of
\* compare_exchange_weak reloads the value already there, a stuttering step.
PushCas(t) ==
    /\ pc[t] = "push_cas"
    /\ \/ /\ next[new[t]] = head
          /\ head' = new[t]
          /\ new' = [new EXCEPT ![t] = Null]
          /\ pc' = [pc EXCEPT ![t] = "idle"]
          /\ UNCHANGED next
       \/ /\ next[new[t]] # head
          /\ next' = [next EXCEPT ![new[t]] = head]
          /\ UNCHANGED <<head, new, pc>>
    /\ UNCHANGED <<data, free, hp, rec, reclaim_list, old, nxt, res, batch, cur, idx>>

-----------------------------------------------------------------------------
(* pop *)

FreeRecords == {i \in Records : \A t \in Threads : rec[t] # i}

\* thread_hazard_ptr(): the first call of a thread claims the lowest record
\* nobody has claimed.  Records are never given back, so a record the scan
\* found taken stays taken and the claim is one step.  Without a free record
\* the call throws runtime_error, and so does every later one: pop is never
\* entered by this thread.
PopEnter(t) ==
    /\ Goto(t, "idle", "load_head")
    /\ IF rec[t] # NoRecord
       THEN UNCHANGED rec
       ELSE \E i \in FreeRecords :
                /\ \A j \in FreeRecords : i <= j
                /\ rec' = [rec EXCEPT ![t] = i]
    /\ UNCHANGED <<head, next, data, free, hp, reclaim_list,
                   new, old, nxt, res, batch, cur, idx>>

\* old_head = head_.load()
LoadHead(t) ==
    /\ Goto(t, "load_head", "store_hp")
    /\ old' = [old EXCEPT ![t] = head]
    /\ UNCHANGED <<head, next, data, free, hp, rec, reclaim_list,
                   new, nxt, res, batch, cur, idx>>

\* hp.store(old_head)
StoreHp(t) ==
    /\ Goto(t, "store_hp", "validate")
    /\ hp' = [hp EXCEPT ![rec[t]] = old[t]]
    /\ UNCHANGED <<head, next, data, free, rec, reclaim_list,
                   new, old, nxt, res, batch, cur, idx>>

\* The bug of trusting the hazard pointer without loading head_ again.
Validate_NoReload(t) ==
    /\ pc[t] = "validate"
    /\ \/ /\ old[t] = Null
          /\ pc' = [pc EXCEPT ![t] = "clear_hp_empty"]
          /\ res' = [res EXCEPT ![t] = Null]
       \/ /\ old[t] # Null
          /\ pc' = [pc EXCEPT ![t] = "read_next"]
          /\ UNCHANGED res
    /\ UNCHANGED <<head, next, data, free, hp, rec, reclaim_list,
                   new, old, nxt, batch, cur, idx>>

\* if(old_head != head_.load()) continue; an empty stack ends the pop
Validate(t) ==
    /\ pc[t] = "validate"
    /\ \/ /\ old[t] # head
          /\ pc' = [pc EXCEPT ![t] = "load_head"]
          /\ UNCHANGED res
       \/ /\ old[t] = head
          /\ head = Null
          /\ pc' = [pc EXCEPT ![t] = "clear_hp_empty"]
          /\ res' = [res EXCEPT ![t] = Null]
       \/ /\ old[t] = head
          /\ head # Null
          /\ pc' = [pc EXCEPT ![t] = "read_next"]
          /\ UNCHANGED res
    /\ UNCHANGED <<head, next, data, free, hp, rec, reclaim_list,
                   new, old, nxt, batch, cur, idx>>

\* the argument old_head->next of the CAS
ReadNext(t) ==
    /\ Goto(t, "read_next", "pop_cas")
    /\ nxt' = [nxt EXCEPT ![t] = next[old[t]]]
    /\ UNCHANGED <<head, next, data, free, hp, rec, reclaim_list,
                   new, old, res, batch, cur, idx>>

\* head_.compare_exchange_weak(old_head, old_head->next), which may fail
\* spuriously
PopCas(t) ==
    /\ pc[t] = "pop_cas"
    /\ \/ /\ old[t] = head
          /\ head' = nxt[t]
          /\ pc' = [pc EXCEPT ![t] = "read_data"]
       \/ /\ pc' = [pc EXCEPT ![t] = "load_head"]
          /\ UNCHANGED head
    /\ nxt' = [nxt EXCEPT ![t] = Null]
    /\ UNCHANGED <<next, data, free, hp, rec, reclaim_list,
                   new, old, res, batch, cur, idx>>

\* res = old_head->data
ReadData(t) ==
    /\ Goto(t, "read_data", "clear_hp")
    /\ res' = [res EXCEPT ![t] = data[old[t]]]
    /\ UNCHANGED <<head, next, data, free, hp, rec, reclaim_list,
                   new, old, nxt, batch, cur, idx>>

\* hp.store(nullptr) after a successful CAS
ClearHp(t) ==
    /\ Goto(t, "clear_hp", "retire")
    /\ hp' = [hp EXCEPT ![rec[t]] = Null]
    /\ UNCHANGED <<head, next, data, free, rec, reclaim_list,
                   new, old, nxt, res, batch, cur, idx>>

\* hp.store(nullptr); return shared_ptr() on an empty stack
ClearHpEmpty(t) ==
    /\ Goto(t, "clear_hp_empty", "idle")
    /\ hp' = [hp EXCEPT ![rec[t]] = Null]
    /\ res' = [res EXCEPT ![t] = NoResult]
    /\ UNCHANGED <<head, next, data, free, rec, reclaim_list,
                   new, old, nxt, batch, cur, idx>>

-----------------------------------------------------------------------------
(* Reclamation, at the end of a successful pop *)

\* reclaim_later(new ReclaimNode(old_head))
ReclaimLater(t) ==
    /\ Goto(t, "retire", "exchange")
    /\ reclaim_list' = reclaim_list \cup {old[t]}
    /\ old' = [old EXCEPT ![t] = Null]
    /\ UNCHANGED <<head, next, data, free, hp, rec,
                   new, nxt, res, batch, cur, idx>>

\* The bug of a load where the code exchanges.
ExchangeList_Load(t) ==
    /\ Goto(t, "exchange", "next_node")
    /\ batch' = [batch EXCEPT ![t] = reclaim_list]
    /\ UNCHANGED <<head, next, data, free, hp, rec, reclaim_list, new, old, nxt,
                   res, cur, idx>>

\* cur = reclaim_list.exchange(nullptr)
ExchangeList(t) ==
    /\ Goto(t, "exchange", "next_node")
    /\ batch' = [batch EXCEPT ![t] = reclaim_list]
    /\ reclaim_list' = {}
    /\ UNCHANGED <<head, next, data, free, hp, rec, new, old, nxt, res, cur, idx>>

\* The bug of a scan that starts at the second record.
NextNode_SkipFirst(t) ==
    /\ pc[t] = "next_node"
    /\ \/ \E n \in batch[t] :
            /\ cur' = [cur EXCEPT ![t] = n]
            /\ idx' = [idx EXCEPT ![t] = 1]
            /\ pc' = [pc EXCEPT ![t] = "scan"]
            /\ UNCHANGED res
       \/ /\ batch[t] = {}
          /\ pc' = [pc EXCEPT ![t] = "idle"]
          /\ res' = [res EXCEPT ![t] = NoResult]
          /\ UNCHANGED <<cur, idx>>
    /\ UNCHANGED <<head, next, data, free, hp, rec, reclaim_list,
                   new, old, nxt, batch>>

\* while(cur): the next node of the batch, or return res when none is left
NextNode(t) ==
    /\ pc[t] = "next_node"
    /\ \/ \E n \in batch[t] :
            /\ cur' = [cur EXCEPT ![t] = n]
            /\ idx' = [idx EXCEPT ![t] = 0]
            /\ pc' = [pc EXCEPT ![t] = "scan"]
            /\ UNCHANGED res
       \/ /\ batch[t] = {}
          /\ pc' = [pc EXCEPT ![t] = "idle"]
          /\ res' = [res EXCEPT ![t] = NoResult]
          /\ UNCHANGED <<cur, idx>>
    /\ UNCHANGED <<head, next, data, free, hp, rec, reclaim_list,
                   new, old, nxt, batch>>

\* any_hazard(cur->data) looks at one record per step
ScanRecord(t) ==
    /\ pc[t] = "scan"
    /\ idx[t] \in Records
    /\ IF hp[idx[t]] = cur[t]
       THEN /\ pc' = [pc EXCEPT ![t] = "keep"]
            /\ UNCHANGED idx
       ELSE /\ idx' = [idx EXCEPT ![t] = @ + 1]
            /\ UNCHANGED pc
    /\ UNCHANGED <<head, next, data, free, hp, rec, reclaim_list,
                   new, old, nxt, res, batch, cur>>

Dispose(t) ==
    /\ batch' = [batch EXCEPT ![t] = @ \ {cur[t]}]
    /\ cur' = [cur EXCEPT ![t] = Null]
    /\ idx' = [idx EXCEPT ![t] = 0]
    /\ UNCHANGED <<head, next, data, hp, rec, new, old, nxt, res>>

\* no record holds it: delete cur
Delete(t) ==
    /\ Goto(t, "scan", "next_node")
    /\ idx[t] = MAX_HAZARD
    /\ free' = free \cup {cur[t]}
    /\ Dispose(t)
    /\ UNCHANGED reclaim_list

\* some record holds it: reclaim_later(cur)
KeepForLater(t) ==
    /\ Goto(t, "keep", "next_node")
    /\ reclaim_list' = reclaim_list \cup {cur[t]}
    /\ Dispose(t)
    /\ UNCHANGED free

-----------------------------------------------------------------------------
Pop(t) ==
    \/ PopEnter(t) \/ LoadHead(t) \/ StoreHp(t) \/ Validate(t)
    \/ ReadNext(t) \/ PopCas(t) \/ ReadData(t) \/ ClearHp(t) \/ ClearHpEmpty(t)

Reclaim(t) ==
    \/ ReclaimLater(t) \/ ExchangeList(t) \/ NextNode(t)
    \/ ScanRecord(t) \/ Delete(t) \/ KeepForLater(t)

Next ==
    \E t \in Threads :
        \/ \E v \in Values : PushAlloc(t, v)
        \/ PushCas(t)
        \/ Pop(t)
        \/ Reclaim(t)

Spec == Init /\ [][Next]_vars

-----------------------------------------------------------------------------
PC == {"idle", "push_cas", "load_head", "store_hp", "validate", "read_next",
       "pop_cas", "read_data", "clear_hp", "clear_hp_empty", "retire",
       "exchange", "next_node", "scan", "keep"}

\* Every variable holds a value of its C++ type.
TypeOK ==
    /\ head \in NodeOrNull
    /\ next \in [Nodes -> NodeOrNull]
    /\ data \in [Nodes -> Values]
    /\ free \subseteq Nodes
    /\ hp \in [Records -> NodeOrNull]
    /\ rec \in [Threads -> Records \cup {NoRecord}]
    /\ reclaim_list \subseteq Nodes
    /\ pc \in [Threads -> PC]
    /\ new \in [Threads -> NodeOrNull]
    /\ old \in [Threads -> NodeOrNull]
    /\ nxt \in [Threads -> NodeOrNull]
    /\ res \in [Threads -> Values \cup {Null, NoResult}]
    /\ batch \in [Threads -> SUBSET Nodes]
    /\ cur \in [Threads -> NodeOrNull]
    /\ idx \in [Threads -> 0 .. MAX_HAZARD]

\* A pop that is about to read old_head->next or old_head->data reads a node
\* that nobody has deleted since the pop loaded its address.  Deleting it
\* takes another thread that popped it, retired it and scanned the hazard
\* records while this one was storing its own (lines 127-137 against 71-87).
NoUseAfterFree ==
    \A t \in Threads :
        pc[t] \in {"read_next", "read_data"} => old[t] \notin free

\* The node a thread alone can reach: one it has not pushed yet, or has just
\* popped; and the nodes it took from the reclaim list.
Held(t) ==
    IF pc[t] = "push_cas" THEN {new[t]}
    ELSE IF pc[t] \in {"read_data", "clear_hp", "retire"} THEN {old[t]}
    ELSE {}

Owned(t) == Held(t) \cup batch[t]

InStack ==
    {n \in Nodes : /\ n \notin free
                   /\ n \notin reclaim_list
                   /\ \A t \in Threads : n \notin Owned(t)}

\* The nodes reached from head_, top first.
StackNodes == ListOf(head, next, Null, Nodes)

\* A pop takes effect when its CAS succeeds, although it reads the value
\* later; an empty one when it validates a null head_.
CallOf(t) ==
    CASE pc[t] = "idle" -> <<"idle">>
      [] pc[t] = "push_cas" -> <<"push", data[new[t]]>>
      [] pc[t] = "read_data" -> <<"got", data[old[t]]>>
      [] OTHER -> IF res[t] = NoResult THEN <<"pop">> ELSE <<"got", res[t]>>

Abstract ==
    INSTANCE Lifo WITH
        Empty <- Null,
        stk <- [i \in DOMAIN StackNodes |-> data[StackNodes[i]]],
        call <- [t \in Threads |-> CallOf(t)]

\* The stack is linearizable: every push and pop of lines 117-144 takes
\* effect in one instant, and a pop returns the value that was on top then,
\* even when the address it holds was popped, deleted and pushed again while
\* it was running.
ImplementsLifo == Abstract!Spec

-----------------------------------------------------------------------------
(* The inductive invariant behind NoUseAfterFree *)

\* A thread works with its batch only in delete_without_hazards, on one node
\* of it at a time.
LocalsOK ==
    \A t \in Threads :
        /\ pc[t] = "push_cas" => new[t] # Null
        /\ pc[t] \in {"read_next", "pop_cas", "read_data", "clear_hp", "retire"}
              => old[t] # Null
        /\ batch[t] # {} => pc[t] \in {"next_node", "scan", "keep"}
        /\ pc[t] \in {"scan", "keep"} => cur[t] \in batch[t]
        /\ pc[t] \notin {"idle", "push_cas"} => rec[t] \in Records

\* A pop has a result from the step that fetches it to its return.
ResultsOK ==
    \A t \in Threads :
        res[t] = NoResult <=>
            pc[t] \in {"idle", "push_cas", "load_head", "store_hp", "validate",
                       "read_next", "pop_cas", "read_data"}

\* Free, retired and owned nodes are different nodes.
Ownership ==
    /\ free \cap reclaim_list = {}
    /\ \A t \in Threads :
        /\ Owned(t) \cap (free \cup reclaim_list) = {}
        /\ \A u \in Threads : t # u => Owned(t) \cap Owned(u) = {}

\* The nodes c are the stack: linked from head_ down to null, each there once.
Links(c) == Chain(c, head, next, Null) /\ InStack = Elements(c)

\* Every address is in exactly one place: the heap, the stack, the hands of
\* one thread, or the reclaim list.  None is leaked, retired twice or deleted
\* twice, whoever of the threads in delete_without_hazards gets to it; and the
\* nodes reached from head_ are those of the stack.
NodesAccounted == Ownership /\ Links(StackNodes)

\* The stack is closed under next, nothing links to its top, and no node is
\* linked to twice.
Shape ==
    /\ head \in InStack \cup {Null}
    /\ \A n \in InStack :
        /\ next[n] \in InStack \cup {Null}
        /\ next[n] = Null \/ next[n] # head
        /\ \A m \in InStack : m # n => next[m] = Null \/ next[m] # next[n]

RecordsUnshared ==
    \A t, u \in Threads : t # u /\ rec[t] # NoRecord => rec[t] # rec[u]

Validated(t) == pc[t] \in {"read_next", "pop_cas"}

RecordSet ==
    \A t \in Threads :
        pc[t] = "validate" \/ Validated(t) => hp[rec[t]] = old[t]

\* A validated node is still allocated and published, its link has not
\* changed, and whoever considers deleting it has not looked at the record of
\* this thread yet.
Protected ==
    \A t \in Threads : Validated(t) =>
        /\ old[t] \notin free
        /\ \A u \in Threads : pc[u] = "push_cas" => new[u] # old[t]
        /\ pc[t] = "pop_cas" => nxt[t] = next[old[t]]
        /\ \A u \in Threads :
              pc[u] = "scan" /\ cur[u] = old[t] => idx[u] <= rec[t]

IInv == TypeOK /\ LocalsOK /\ ResultsOK /\ Ownership /\ Shape /\ RecordsUnshared
        /\ RecordSet /\ Protected

=============================================================================
