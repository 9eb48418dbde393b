------------------------------ MODULE MsQueueHp ------------------------------
(***************************************************************************)
(* src/threadsafe_containers/queue/mpmc_lockfree_queue.h: the Michael and  *)
(* Scott queue with hazard pointers, two records per popping thread.       *)
(*                                                                         *)
(* One step is one access to shared memory.  Nodes are addresses, reused   *)
(* after delete.  A read through nullptr ends the process: `crashed' stops *)
(* every thread.  reclaim_list is a set, for the reasons given in          *)
(* HazardStack.                                                            *)
(***************************************************************************)
EXTENDS Integers, LinkedLists

CONSTANTS
    Producers, Consumers,   \* threads that push, threads that pop
    Teams,                  \* sets of threads that may be the ones that call
    Nodes,                  \* addresses the heap can hand out
    MAX_HAZARD,             \* number of hazard records, 128 in the code
    MaxPush,                \* how many values are pushed (bounds the model)
    Null                    \* nullptr

ConstantsAssumption ==
    /\ Producers \cap Consumers = {}
    /\ \A T \in Teams : T \subseteq Producers \cup Consumers
    /\ Nodes # {} /\ IsFiniteSet(Nodes) /\ Null \notin Nodes
    /\ MAX_HAZARD \in Nat /\ MaxPush \in Nat

Callers == Producers \cup Consumers
Records == 0 .. MAX_HAZARD - 1
NoRecord == -1
NodeOrNull == Nodes \cup {Null}

VARIABLES
    team,                   \* the threads that call push and pop, all along
    head, tail,             \* head_, tail_
    next, data,             \* the fields of each node; data 0 is a null data
    free,                   \* addresses that are not allocated
    hp,                     \* records[i].ptr
    recs,                   \* the thread_local recs[0], recs[1] of each consumer
    reclaim_list,
    pc, nd, h, n, tl,       \* new_node and the locals head, next, tail
    batch, cur, idx,        \* locals of delete_without_hazards
    called,                 \* how many values were handed to push
    pushed, popped,         \* values linked, and taken, in that order
    crashed

queue == <<head, tail, next, data, free>>
hazard == <<hp, recs, reclaim_list, batch, cur, idx>>
history == <<called, pushed, popped>>
vars == <<team, queue, hazard, history, pc, nd, h, n, tl, crashed>>

Init ==
    /\ team \in Teams
    /\ \E dummy \in Nodes :
        /\ head = dummy
        /\ tail = dummy
        /\ free = Nodes \ {dummy}
    /\ next = [x \in Nodes |-> Null]
    /\ data = [x \in Nodes |-> 0]
    /\ hp = [i \in Records |-> Null]
    /\ recs = [c \in Consumers |-> [slot \in {1, 2} |-> NoRecord]]
    /\ reclaim_list = {}
    /\ pc = [t \in Callers |-> "idle"]
    /\ nd = [t \in Callers |-> Null]
    /\ h = [t \in Callers |-> Null]
    /\ n = [t \in Callers |-> Null]
    /\ tl = [t \in Callers |-> Null]
    /\ batch = [c \in Consumers |-> {}]
    /\ cur = [c \in Consumers |-> Null]
    /\ idx = [c \in Consumers |-> 0]
    /\ called = 0 /\ pushed = <<>> /\ popped = <<>>
    /\ crashed = FALSE

Goto(t, from, to) ==
    /\ pc[t] = from
    /\ pc' = [pc EXCEPT ![t] = to]

-----------------------------------------------------------------------------
(* push *)

PushAlloc(p) ==
    /\ Goto(p, "idle", "p_tail")
    /\ called < MaxPush
    /\ called' = called + 1
    /\ \E x \in free :
        /\ free' = free \ {x}
        /\ nd' = [nd EXCEPT ![p] = x]
        /\ data' = [data EXCEPT ![x] = called']
        /\ next' = [next EXCEPT ![x] = Null]
    /\ UNCHANGED <<head, tail, hazard, pushed, popped, h, n, tl, crashed>>

\* tail = tail_.load()
PushLoadTail(p) ==
    /\ Goto(p, "p_tail", "p_next")
    /\ tl' = [tl EXCEPT ![p] = tail]
    /\ UNCHANGED <<queue, hazard, history, nd, h, n, crashed>>

\* next = tail->next.load(), with no hazard pointer on tail
PushLoadNext(p) ==
    /\ Goto(p, "p_next", "p_check")
    /\ n' = [n EXCEPT ![p] = next[tl[p]]]
    /\ UNCHANGED <<queue, hazard, history, nd, h, tl, crashed>>

PushCheck(p) ==
    /\ pc[p] = "p_check"
    /\ pc' = [pc EXCEPT ![p] = IF tl[p] # tail THEN "p_tail"
                               ELSE IF n[p] = Null THEN "p_link" ELSE "p_help"]
    /\ UNCHANGED <<queue, hazard, history, nd, h, n, tl, crashed>>

\* tail->next.compare_exchange_strong(next, new_node)
PushLink(p) ==
    /\ pc[p] = "p_link"
    /\ \/ /\ next[tl[p]] = Null
          /\ next' = [next EXCEPT ![tl[p]] = nd[p]]
          /\ pushed' = Append(pushed, data[nd[p]])
          /\ pc' = [pc EXCEPT ![p] = "p_advance"]
       \/ /\ next[tl[p]] # Null
          /\ pc' = [pc EXCEPT ![p] = "p_tail"]
          /\ UNCHANGED <<next, pushed>>
    /\ UNCHANGED <<head, tail, data, free, hazard, called, popped,
                   nd, h, n, tl, crashed>>

\* tail_.compare_exchange_strong(tail, new_node); return
PushAdvance(p) ==
    /\ Goto(p, "p_advance", "idle")
    /\ tail' = IF tail = tl[p] THEN nd[p] ELSE tail
    /\ nd' = [nd EXCEPT ![p] = Null]
    /\ n' = [n EXCEPT ![p] = Null]
    /\ tl' = [tl EXCEPT ![p] = Null]
    /\ UNCHANGED <<head, next, data, free, hazard, history, h, crashed>>

\* tail_.compare_exchange_strong(tail, next)
PushHelp(p) ==
    /\ Goto(p, "p_help", "p_tail")
    /\ tail' = IF tail = tl[p] THEN n[p] ELSE tail
    /\ UNCHANGED <<head, next, data, free, hazard, history, nd, h, n, tl, crashed>>

-----------------------------------------------------------------------------
(* pop *)

FreeRecords == {i \in Records : \A c \in Consumers : i # recs[c][1] /\ i # recs[c][2]}

\* thread_hazard_ptr(slot) claims the lowest free record, once per thread and
\* slot; with none left it throws and this thread never gets into pop.
ClaimRecord(c) ==
    /\ pc[c] = "idle"
    /\ \E s \in {1, 2}, i \in FreeRecords :
        /\ recs[c][s] = NoRecord
        /\ s = 2 => recs[c][1] # NoRecord
        /\ \A j \in FreeRecords : i <= j
        /\ recs' = [recs EXCEPT ![c][s] = i]
    /\ UNCHANGED <<queue, hp, reclaim_list, batch, cur, idx, history,
                   pc, nd, h, n, tl, crashed>>

\* head = head_.load()
LoadHead(c) ==
    /\ \/ pc[c] = "idle" /\ recs[c][2] # NoRecord
       \/ pc[c] = "load"
    /\ pc' = [pc EXCEPT ![c] = "set_head"]
    /\ h' = [h EXCEPT ![c] = head]
    /\ UNCHANGED <<queue, hazard, history, nd, n, tl, crashed>>

\* hp_head.store(head)
StoreHpHead(c) ==
    /\ Goto(c, "set_head", "check_head")
    /\ hp' = [hp EXCEPT ![recs[c][1]] = h[c]]
    /\ UNCHANGED <<queue, recs, reclaim_list, batch, cur, idx, history,
                   nd, h, n, tl, crashed>>

\* The bug of trusting hp_head without loading head_ again.
CheckHead_Skipped(c) ==
    /\ Goto(c, "check_head", "next")
    /\ UNCHANGED <<queue, hazard, history, nd, h, n, tl, crashed>>

CheckHead(c) ==
    /\ pc[c] = "check_head"
    /\ pc' = [pc EXCEPT ![c] = IF h[c] # head THEN "load" ELSE "next"]
    /\ UNCHANGED <<queue, hazard, history, nd, h, n, tl, crashed>>

\* next = head->next.load()
LoadNext(c) ==
    /\ pc[c] = "next"
    /\ \/ /\ h[c] # Null
          /\ n' = [n EXCEPT ![c] = next[h[c]]]
          /\ pc' = [pc EXCEPT ![c] = "set_next"]
          /\ UNCHANGED crashed
       \/ /\ h[c] = Null
          /\ crashed' = TRUE
          /\ UNCHANGED <<n, pc>>
    /\ UNCHANGED <<queue, hazard, history, nd, h, tl>>

\* The bug of protecting head but not next.
StoreHpNext_Missing(c) ==
    /\ Goto(c, "set_next", "check_next")
    /\ UNCHANGED <<queue, hazard, history, nd, h, n, tl, crashed>>

\* hp_next.store(next)
StoreHpNext(c) ==
    /\ Goto(c, "set_next", "check_next")
    /\ hp' = [hp EXCEPT ![recs[c][2]] = n[c]]
    /\ UNCHANGED <<queue, recs, reclaim_list, batch, cur, idx, history,
                   nd, h, n, tl, crashed>>

CheckNext(c) ==
    /\ pc[c] = "check_next"
    /\ pc' = [pc EXCEPT ![c] = IF h[c] # head THEN "load" ELSE "tail"]
    /\ UNCHANGED <<queue, hazard, history, nd, h, n, tl, crashed>>

\* tail = tail_.load() and the tests on it
LoadTail(c) ==
    /\ pc[c] = "tail"
    /\ pc' = [pc EXCEPT ![c] = IF h[c] # tail THEN "cas"
                               ELSE IF n[c] = Null THEN "clear_head_empty" ELSE "help"]
    /\ UNCHANGED <<queue, hazard, history, nd, h, n, tl, crashed>>

\* tail_.compare_exchange_strong(tail, next); tail and head are equal here
PopHelp(c) ==
    /\ Goto(c, "help", "load")
    /\ tail' = IF tail = h[c] THEN n[c] ELSE tail
    /\ UNCHANGED <<head, next, data, free, hazard, history, nd, h, n, tl, crashed>>

\* The bug of advancing head_ with a store.
PopCas_Store(c) ==
    /\ Goto(c, "cas", "read")
    /\ head' = n[c]
    /\ popped' = IF n[c] = Null THEN popped ELSE Append(popped, data[n[c]])
    /\ UNCHANGED <<tail, next, data, free, hazard, called, pushed,
                   nd, h, n, tl, crashed>>

\* head_.compare_exchange_strong(head, next)
PopCas(c) ==
    /\ pc[c] = "cas"
    /\ \/ /\ head = h[c]
          /\ head' = n[c]
          /\ popped' = IF n[c] = Null THEN popped ELSE Append(popped, data[n[c]])
          /\ pc' = [pc EXCEPT ![c] = "read"]
       \/ /\ head # h[c]
          /\ pc' = [pc EXCEPT ![c] = "load"]
          /\ UNCHANGED <<head, popped>>
    /\ UNCHANGED <<tail, next, data, free, hazard, called, pushed,
                   nd, h, n, tl, crashed>>

\* val = *(next->data)
ReadData(c) ==
    /\ pc[c] = "read"
    /\ \/ /\ n[c] # Null
          /\ pc' = [pc EXCEPT ![c] = "clear_head"]
          /\ UNCHANGED crashed
       \/ /\ n[c] = Null
          /\ crashed' = TRUE
          /\ UNCHANGED pc
    /\ UNCHANGED <<queue, hazard, history, nd, h, n, tl>>

\* hp_head.store(nullptr), on both ways out
ClearHpHead(c) ==
    /\ \/ Goto(c, "clear_head", "clear_next")
       \/ Goto(c, "clear_head_empty", "clear_next_empty")
    /\ hp' = [hp EXCEPT ![recs[c][1]] = Null]
    /\ UNCHANGED <<queue, recs, reclaim_list, batch, cur, idx, history,
                   nd, h, n, tl, crashed>>

\* hp_next.store(nullptr); an empty pop returns
ClearHpNext(c) ==
    /\ \/ /\ Goto(c, "clear_next", "retire")
          /\ UNCHANGED h
       \/ /\ Goto(c, "clear_next_empty", "idle")
          /\ h' = [h EXCEPT ![c] = Null]
    /\ hp' = [hp EXCEPT ![recs[c][2]] = Null]
    /\ n' = [n EXCEPT ![c] = Null]
    /\ UNCHANGED <<queue, recs, reclaim_list, batch, cur, idx, history,
                   nd, tl, crashed>>

\* reclaim_later(new ReclaimNode(head))
ReclaimLater(c) ==
    /\ Goto(c, "retire", "exchange")
    /\ reclaim_list' = reclaim_list \cup {h[c]}
    /\ h' = [h EXCEPT ![c] = Null]
    /\ UNCHANGED <<queue, hp, recs, batch, cur, idx, history, nd, n, tl, crashed>>

\* cur = reclaim_list.exchange(nullptr)
ExchangeList(c) ==
    /\ Goto(c, "exchange", "node")
    /\ batch' = [batch EXCEPT ![c] = reclaim_list]
    /\ reclaim_list' = {}
    /\ UNCHANGED <<queue, hp, recs, cur, idx, history, nd, h, n, tl, crashed>>

NextNode(c) ==
    /\ \/ /\ Goto(c, "node", "scan")
          /\ \E x \in batch[c] : cur' = [cur EXCEPT ![c] = x]
       \/ /\ Goto(c, "node", "idle")
          /\ batch[c] = {}
          /\ UNCHANGED cur
    /\ UNCHANGED <<queue, hp, recs, reclaim_list, batch, idx, history,
                   nd, h, n, tl, crashed>>

\* any_hazard(cur->data), one record per step
ScanRecord(c) ==
    /\ pc[c] = "scan"
    /\ idx[c] \in Records
    /\ IF hp[idx[c]] = cur[c]
       THEN /\ pc' = [pc EXCEPT ![c] = "keep"]
            /\ UNCHANGED idx
       ELSE /\ idx' = [idx EXCEPT ![c] = @ + 1]
            /\ UNCHANGED pc
    /\ UNCHANGED <<queue, hp, recs, reclaim_list, batch, cur, history,
                   nd, h, n, tl, crashed>>

Dispose(c) ==
    /\ batch' = [batch EXCEPT ![c] = @ \ {cur[c]}]
    /\ cur' = [cur EXCEPT ![c] = Null]
    /\ idx' = [idx EXCEPT ![c] = 0]
    /\ UNCHANGED <<head, tail, next, data, hp, recs, history, nd, h, n, tl, crashed>>

Delete(c) ==
    /\ Goto(c, "scan", "node")
    /\ idx[c] = MAX_HAZARD
    /\ free' = free \cup {cur[c]}
    /\ Dispose(c)
    /\ UNCHANGED reclaim_list

KeepForLater(c) ==
    /\ Goto(c, "keep", "node")
    /\ reclaim_list' = reclaim_list \cup {cur[c]}
    /\ Dispose(c)
    /\ UNCHANGED free

-----------------------------------------------------------------------------
Push(p) ==
    \/ PushAlloc(p) \/ PushLoadTail(p) \/ PushLoadNext(p) \/ PushCheck(p)
    \/ PushLink(p) \/ PushAdvance(p) \/ PushHelp(p)

Pop(c) ==
    \/ ClaimRecord(c) \/ LoadHead(c) \/ StoreHpHead(c) \/ CheckHead(c)
    \/ LoadNext(c) \/ StoreHpNext(c) \/ CheckNext(c) \/ LoadTail(c) \/ PopHelp(c)
    \/ PopCas(c) \/ ReadData(c) \/ ClearHpHead(c) \/ ClearHpNext(c)

Reclaim(c) ==
    \/ ReclaimLater(c) \/ ExchangeList(c) \/ NextNode(c)
    \/ ScanRecord(c) \/ Delete(c) \/ KeepForLater(c)

Next ==
    /\ ~crashed
    /\ UNCHANGED team
    /\ \/ \E p \in Producers \cap team : Push(p)
       \/ \E c \in Consumers \cap team : Pop(c) \/ Reclaim(c)

Spec == Init /\ [][Next]_vars

-----------------------------------------------------------------------------
\* pop never reads a node that has been deleted: neither head->next (line 138)
\* nor, after its CAS, the data of next (line 152).
PopNoUseAfterFree ==
    \A c \in Consumers :
        /\ pc[c] = "next" => h[c] \notin free
        /\ pc[c] = "read" => n[c] \notin free

\* push never reads or writes the next field of a node that has been deleted
\* (lines 116 and 120): what "deleted when no one refers to it" promises.
PushNoUseAfterFree ==
    \A p \in Producers : pc[p] \in {"p_next", "p_link"} => tl[p] \notin free

\* Neither side touches a deleted node: a pop never, a push as long as no other
\* thread pushes.
NoUseAfterFree == PopNoUseAfterFree /\ PushNoUseAfterFree

\* The values of the nodes after the sentinel, in order.
Queued == LET s == Tail(ListOf(head, next, Null, Nodes)) IN [i \in DOMAIN s |-> data[s[i]]]

\* Until a pop stores nullptr into head_, nothing is lost, duplicated or
\* reordered: what was popped, then what is queued, is what was pushed.
FifoUntilNull == head # Null => popped \o Queued = pushed

-----------------------------------------------------------------------------
(* The inductive invariant behind these *)

\* The node of a push is not linked yet.
Filling == {"p_tail", "p_next", "p_check", "p_link", "p_help"}
Pushing == Filling \cup {"p_advance"}
\* A pop has made sure of head_ after it had published it; of next as well.
Sure == {"next", "set_next", "check_next", "tail", "cas", "help", "read"}
SureOfNext == {"tail", "cas", "help", "read"}
\* A pop that has an old head_ in hand.
Popping == {"read", "clear_head", "clear_next", "retire"}
Reclaiming == {"exchange", "node", "scan", "keep"}
Published == Sure \cup {"check_head", "clear_head", "clear_head_empty"}
PublishedNext == SureOfNext \cup {"check_next", "clear_head", "clear_head_empty",
                                  "clear_next", "clear_next_empty"}
InPop == Published \cup PublishedNext \cup Popping \cup {"load", "set_head"}

PC == {"idle", "p_tail", "p_next", "p_check", "p_link", "p_help", "p_advance",
       "load", "set_head", "check_head", "next", "set_next", "check_next", "tail", "cas",
       "help", "read", "clear_head", "clear_next", "clear_head_empty", "clear_next_empty",
       "retire", "exchange", "node", "scan", "keep"}

TypeOK ==
    /\ team \subseteq Callers
    /\ head \in NodeOrNull /\ tail \in Nodes
    /\ next \in [Nodes -> NodeOrNull] /\ data \in [Nodes -> Nat]
    /\ free \subseteq Nodes
    /\ hp \in [Records -> NodeOrNull]
    /\ recs \in [Consumers -> [{1, 2} -> Records \cup {NoRecord}]]
    /\ reclaim_list \subseteq Nodes
    /\ pc \in [Callers -> PC]
    /\ nd \in [Callers -> NodeOrNull] /\ h \in [Callers -> NodeOrNull]
    /\ n \in [Callers -> NodeOrNull] /\ tl \in [Callers -> NodeOrNull]
    /\ batch \in [Consumers -> SUBSET Nodes]
    /\ cur \in [Consumers -> NodeOrNull] /\ idx \in [Consumers -> 0 .. MAX_HAZARD]
    /\ called \in Nat /\ pushed \in Seq(Nat) /\ popped \in Seq(Nat)
    /\ crashed \in BOOLEAN

PusherOK(p) ==
    /\ pc[p] \in {"idle"} \cup Pushing
    /\ pc[p] \in Pushing => nd[p] # Null
    /\ pc[p] \in Pushing \ {"p_tail"} => tl[p] # Null
    /\ pc[p] = "p_help" => n[p] # Null

PopperOK(c) ==
    /\ pc[c] \in {"idle"} \cup InPop \cup Reclaiming
    /\ pc[c] \in InPop => recs[c][1] # NoRecord /\ recs[c][2] # NoRecord
    /\ recs[c][2] # NoRecord => recs[c][1] # NoRecord
    /\ pc[c] \in (Sure \ {"next"}) \cup Popping => h[c] # Null
    /\ pc[c] = "help" => n[c] # Null
    /\ pc[c] \in {"scan", "keep"} => cur[c] \in batch[c]
    /\ pc[c] \notin {"scan", "keep"} => idx[c] = 0
    /\ pc[c] \notin {"node", "scan", "keep"} => batch[c] = {}

LocalsOK ==
    /\ \A t \in Callers : pc[t] # "idle" => t \in team
    /\ \A p \in Producers : PusherOK(p)
    /\ \A c \in Consumers : PopperOK(c)

\* The nodes of the queue are those that nobody has to himself.
Held(t) ==
    IF pc[t] \in Filling THEN {nd[t]}
    ELSE IF pc[t] \in Popping /\ ~(pc[t] = "read" /\ n[t] = Null) THEN {h[t]} ELSE {}
Retired == reclaim_list \cup UNION {batch[c] : c \in Consumers}
Live == {x \in Nodes \ (free \cup Retired) : \A t \in Callers : x \notin Held(t)}

Apart ==
    /\ free \cap Retired = {}
    /\ \A c \in Consumers :
        /\ reclaim_list \cap batch[c] = {}
        /\ \A d \in Consumers : c # d => batch[c] \cap batch[d] = {}
    /\ \A t \in Callers :
        /\ Held(t) \cap (free \cup Retired) = {}
        /\ \A u \in Callers : t # u => Held(t) \cap Held(u) = {}

\* They are linked in one line, from head_ on if it is not null.
Shape ==
    /\ tail \in Live /\ head \in Live \cup {Null}
    /\ \A x \in Live :
        /\ next[x] \in Live \cup {Null}
        /\ next[x] # Null => next[x] # head
        /\ \A y \in Live : next[x] = next[y] /\ next[x] # Null => x = y
    /\ \A p \in Producers : pc[p] \in Filling => next[nd[p]] = Null

RecordsUnshared ==
    \A c, d \in Consumers : \A s, r \in {1, 2} :
        recs[c][s] # NoRecord /\ recs[c][s] = recs[d][r] => c = d /\ s = r

RecordsSetOf(c) ==
    /\ pc[c] \in Published => hp[recs[c][1]] = h[c]
    /\ pc[c] \in PublishedNext => hp[recs[c][2]] = n[c]

RecordsSet == \A c \in Consumers : RecordsSetOf(c)

\* x is not deleted, and who scans the records for it has not come to the record i.
Kept(x, i) ==
    /\ x \notin free
    /\ \A d \in Consumers : cur[d] = x => idx[d] <= i

\* Gone for good, as long as they are protected: popped nodes.
Popped == Retired \cup UNION {Held(c) : c \in Consumers}

ProtectedFor(c) ==
    /\ pc[c] \in Sure => Kept(h[c], recs[c][1])
    /\ pc[c] \in SureOfNext => Kept(n[c], recs[c][2])
    /\ pc[c] \in Sure \ {"read"} => head = Null \/ h[c] = head \/ h[c] \in Popped
    /\ pc[c] \in Sure \ {"next"} => n[c] \in {Null, next[h[c]]}
    /\ pc[c] = "cas" /\ h[c] = head => h[c] # tail

Protected == \A c \in Consumers : ProtectedFor(c)

\* Where consumers are at work there is one producer, and only its own push lets tail_
\* lag behind.
Behind == {"p_next", "p_check", "p_link", "p_help"}
PushSafe(p) ==
    /\ pc[p] \in Behind => tl[p] \in Live
    /\ pc[p] \in Behind \ {"p_next"} => n[p] \in Live \cup {Null}
    /\ pc[p] = "p_advance" => nd[p] \in Live
PushAlone(p) ==
    /\ pc[p] \in Behind => tl[p] = tail /\ pc[p] # "p_help"
    /\ pc[p] \in Behind \ {"p_next"} => n[p] = Null
    /\ pc[p] = "p_advance" =>
        next[nd[p]] = Null /\ (tail = nd[p] \/ (tail = tl[p] /\ next[tail] = nd[p]))

PushOK ==
    \A p \in Producers : PushSafe(p) /\ (team \cap Consumers # {} => PushAlone(p))
TailLags ==
    team \cap Consumers # {} /\ next[tail] # Null => \E p \in Producers : pc[p] = "p_advance"

IInv ==
    TypeOK /\ LocalsOK /\ Apart /\ Shape /\ RecordsUnshared /\ RecordsSet /\ Protected
    /\ PushOK /\ TailLags

\* All of them are on the list that starts at head_.
AllLinked == head # Null => IsLinked(head, next, Null, Nodes) /\ OnList(head, next, Null, Nodes) = Live
=============================================================================
