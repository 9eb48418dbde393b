----------------------------- MODULE LockedList -----------------------------
(***************************************************************************)
(* The lists of src/concurrent/day16-threadsafelist: every node has a      *)
(* mutex, and a walk takes that of the next node before it gives up that   *)
(* of the current one.  threadsafe_list pushes at its front only;          *)
(* double_push_list has a pointer to its last node, with a mutex, and      *)
(* pushes at both ends.                                                    *)
(*                                                                         *)
(* The mutex of the pointer is never held while waiting for another one,   *)
(* so what is done under it belongs to one step.  A predicate answers as   *)
(* it likes.                                                               *)
(***************************************************************************)
EXTENDS Naturals, FiniteSets, SequencesExt, LinkedLists

CONSTANTS
    Threads,
    Nodes,          \* addresses of nodes
    head,           \* the node that is a member of the list
    Null,
    Double          \* whether it is a double_push_list

ConstantsAssumption ==
    /\ head \notin Nodes /\ Null \notin Nodes \cup Threads \cup {head}
    /\ IsFiniteSet(Nodes)

VARIABLES
    next,           \* next of each node
    owner,          \* who holds the mutex of each node
    last,           \* last_node_ptr
    free,           \* addresses not allocated
    pc,
    cur,            \* current of a walk, or the node push_back wants to lock
    nxt,            \* next of a walk, once locked, or the node to push
    unseen,         \* history: nodes in the list since a walk began, not yet seen by it
    error           \* what has gone wrong

vars == <<next, owner, last, free, pc, cur, nxt, unseen, error>>

Visits == {"for_each", "find_first_if"}
Edits == {"remove_if"} \cup IF Double THEN {"remove_first", "insert_if"} ELSE {}

Init ==
    /\ next = [n \in Nodes \cup {head} |-> Null]
    /\ owner = [n \in Nodes \cup {head} |-> Null]
    /\ last = head
    /\ free = Nodes
    /\ pc = [t \in Threads |-> "idle"]
    /\ cur = [t \in Threads |-> Null]
    /\ nxt = [t \in Threads |-> Null]
    /\ unseen = [t \in Threads |-> {}]
    /\ error = "none"

\* The nodes of the list, in order.
Listed == Reached(next[head], next, Null, Cardinality(Nodes))

-----------------------------------------------------------------------------
Idle(t) == pc[t] = "idle" /\ error = "none"

Return(t) ==
    /\ pc' = [pc EXCEPT ![t] = "idle"]
    /\ cur' = [cur EXCEPT ![t] = Null]
    /\ nxt' = [nxt EXCEPT ![t] = Null]
    /\ unseen' = [unseen EXCEPT ![t] = {}]

push_front(t) ==
    /\ Idle(t)
    /\ owner[head] = Null
    /\ \E n \in free :
        /\ free' = free \ {n}
        /\ next' = [next EXCEPT ![n] = next[head], ![head] = n]
        /\ last' = IF Double /\ next[head] = Null THEN n ELSE last
    /\ UNCHANGED <<owner, pc, cur, nxt, unseen, error>>

\* std::lock is given the mutex of the node that is the last one now,
PushBackArgument(t) ==
    /\ Idle(t) /\ Double
    /\ \E n \in free :
        /\ free' = free \ {n}
        /\ next' = [next EXCEPT ![n] = Null]
        /\ nxt' = [nxt EXCEPT ![t] = n]
    /\ cur' = [cur EXCEPT ![t] = last]
    /\ pc' = [pc EXCEPT ![t] = "push_back"]
    /\ UNCHANGED <<owner, last, unseen, error>>

\* and takes it with that of the pointer later.  The locks adopt the mutex of the
\* node that is the last one then.
push_back(t) ==
    /\ pc[t] = "push_back" /\ error = "none"
    /\ cur[t] \notin free /\ owner[cur[t]] = Null
    /\ cur[t] = last
    /\ next' = [next EXCEPT ![last] = nxt[t]]
    /\ last' = nxt[t]
    /\ Return(t)
    /\ UNCHANGED <<owner, free, error>>

\* The node has been deleted, or is not the last one any more.
PushBackTooLate(t) ==
    /\ pc[t] = "push_back" /\ error = "none"
    /\ \/ cur[t] \in free /\ error' = "mutex deleted"
       \/ /\ cur[t] \notin free /\ owner[cur[t]] = Null /\ cur[t] # last
          /\ error' = "mutex not held"
    /\ UNCHANGED <<next, owner, last, free, pc, cur, nxt, unseen>>

-----------------------------------------------------------------------------
(* Walks *)

Begin(t, op) ==
    /\ Idle(t)
    /\ owner[head] = Null
    /\ owner' = [owner EXCEPT ![head] = t]
    /\ cur' = [cur EXCEPT ![t] = head]
    /\ pc' = [pc EXCEPT ![t] = op]
    /\ unseen' = [unseen EXCEPT ![t] = ToSet(Listed)]
    /\ UNCHANGED <<next, last, free, nxt, error>>

Walking(t) == pc[t] \in Visits \cup Edits /\ error = "none"

\* The lock of the next node; for_each and find_first_if give up the current one.
LockNext(t) ==
    LET n == next[cur[t]] IN
    /\ Walking(t) /\ nxt[t] = Null /\ n # Null
    /\ IF n \in free
       THEN error' = "used" /\ UNCHANGED <<owner, nxt, unseen>>
       ELSE /\ owner[n] = Null
            /\ owner' = [owner EXCEPT ![n] = t, ![cur[t]] = IF pc[t] \in Visits THEN Null ELSE @]
            /\ nxt' = [nxt EXCEPT ![t] = n]
            /\ unseen' = [unseen EXCEPT ![t] = @ \ {n}]
            /\ UNCHANGED error
    /\ UNCHANGED <<next, last, free, pc, cur>>

Step(t) ==
    /\ Walking(t) /\ nxt[t] # Null
    /\ owner' = [owner EXCEPT ![cur[t]] = IF @ = t THEN Null ELSE @]
    /\ cur' = [cur EXCEPT ![t] = nxt[t]]
    /\ nxt' = [nxt EXCEPT ![t] = Null]
    /\ UNCHANGED <<next, last, free, pc, unseen, error>>

Unlocked(t) == [n \in DOMAIN owner |-> IF owner[n] = t THEN Null ELSE owner[n]]

AtEnd(t) == Walking(t) /\ nxt[t] = Null /\ next[cur[t]] = Null

Finish(t) ==
    /\ AtEnd(t)
    /\ owner' = Unlocked(t)
    /\ Return(t)
    /\ UNCHANGED <<next, last, free, error>>

find_first_if(t) ==
    /\ pc[t] = "find_first_if" /\ nxt[t] # Null /\ error = "none"
    /\ owner' = Unlocked(t)
    /\ Return(t)
    /\ UNCHANGED <<next, last, free, error>>

\* The bug of a removal that does not link what is behind the node.
Unlink_DropsRest(t) ==
    /\ next' = [next EXCEPT ![cur[t]] = Null]
    /\ last' = IF Double THEN cur[t] ELSE last
    /\ free' = free \cup {nxt[t]}

\* The node goes; the pointer to the last one follows.
Unlink(t) ==
    /\ next' = [next EXCEPT ![cur[t]] = next[nxt[t]]]
    /\ last' = IF Double /\ next[nxt[t]] = Null THEN cur[t] ELSE last
    /\ free' = free \cup {nxt[t]}

remove_if(t) ==
    /\ pc[t] = "remove_if" /\ nxt[t] # Null /\ error = "none"
    /\ Unlink(t)
    /\ owner' = [owner EXCEPT ![nxt[t]] = Null]
    /\ nxt' = [nxt EXCEPT ![t] = Null]
    /\ unseen' = [u \in Threads |-> unseen[u] \ {nxt[t]}]
    /\ UNCHANGED <<pc, cur, error>>

remove_first(t) ==
    /\ pc[t] = "remove_first" /\ nxt[t] # Null /\ error = "none"
    /\ Unlink(t)
    /\ owner' = Unlocked(t)
    /\ pc' = [pc EXCEPT ![t] = "idle"]
    /\ cur' = [cur EXCEPT ![t] = Null]
    /\ nxt' = [nxt EXCEPT ![t] = Null]
    /\ unseen' = [u \in Threads |-> IF u = t THEN {} ELSE unseen[u] \ {nxt[t]}]
    /\ UNCHANGED error

insert_if(t) ==
    /\ pc[t] = "insert_if" /\ nxt[t] # Null /\ error = "none"
    /\ \E n \in free :
        /\ free' = free \ {n}
        /\ next' = [next EXCEPT ![n] = nxt[t], ![cur[t]] = n]
    /\ owner' = Unlocked(t)
    /\ Return(t)
    /\ UNCHANGED <<last, error>>

Walk(t) ==
    \/ \E op \in Visits \cup Edits : Begin(t, op)
    \/ LockNext(t) \/ Step(t) \/ Finish(t)
    \/ find_first_if(t) \/ remove_if(t) \/ remove_first(t) \/ insert_if(t)

Broken == error # "none" /\ UNCHANGED vars

Next ==
    \/ \E t \in Threads : push_front(t) \/ PushBackArgument(t) \/ push_back(t)
                            \/ PushBackTooLate(t) \/ Walk(t)
    \/ Broken

Spec == Init /\ [][Next]_vars

-----------------------------------------------------------------------------
\* No walk follows next into a node that a removal has deleted: that node could
\* be removed only under the mutex of the one before it, which the walk holds.
NoUseAfterFree == error # "used"

\* Every node is free, in the list once, or in the hands of one push_back, and
\* the last node is the one last_node_ptr names, until a push_back is too late.
NodesAccounted ==
    LET listed == Listed
        pushing == {t \in Threads : pc[t] = "push_back"}
    IN /\ IsInjective(listed)
       /\ \A s, t \in pushing : s # t => nxt[s] # nxt[t]
       /\ {nxt[t] : t \in pushing} \cap ToSet(listed) = {}
       /\ free = Nodes \ (ToSet(listed) \cup {nxt[t] : t \in pushing})
       /\ Double => last = IF listed = <<>> THEN head ELSE Last(listed)

\* A walk that reaches the end has seen each node that was in the list all
\* the time, whatever others have pushed, inserted and removed around it.
WalksSeeAll == \A t \in Threads : AtEnd(t) => unseen[t] = {}

\* The comment in push_back: that the two mutexes are locked together keeps it apart
\* from push_front and from removals.
PushBackInTime == error = "none"
-----------------------------------------------------------------------------
(* The inductive invariant behind these *)

Places == Nodes \cup {head}
PC == {"idle"} \cup Visits \cup Edits \cup IF Double THEN {"push_back"} ELSE {}

TypeOK ==
    /\ next \in [Places -> Nodes \cup {Null}]
    /\ owner \in [Places -> Threads \cup {Null}]
    /\ last \in Places
    /\ free \subseteq Nodes
    /\ pc \in [Threads -> PC]
    /\ cur \in [Threads -> Places \cup {Null}]
    /\ nxt \in [Threads -> Nodes \cup {Null}]
    /\ unseen \in [Threads -> SUBSET Nodes]
    /\ error \in {"none", "mutex deleted", "mutex not held"}

\* The places on the list that starts at n, when f links them.
On(n, f) == OnList(n, f, Null, Places)
Ok(n, f) == IsLinked(n, f, Null, Places)

\* Where a walk is: the last place whose mutex it has taken.
Spot(t) == IF nxt[t] = Null THEN cur[t] ELSE nxt[t]

\* A walk has the mutex of the place it is at, which is in the list, and what it has
\* not seen is behind it; one that edits has that of the place before as well.
WalkOK(t) ==
    /\ Spot(t) \in On(head, next) /\ owner[Spot(t)] = t
    /\ cur[t] \notin {nxt[t], Null}
    /\ unseen[t] \subseteq On(next[Spot(t)], next)
    /\ pc[t] \in Edits /\ nxt[t] # Null =>
        cur[t] \in On(head, next) /\ owner[cur[t]] = t /\ next[cur[t]] = nxt[t]

\* The node of a push_back is the caller's alone.
PushOK(t) ==
    /\ nxt[t] \in Nodes \ (free \cup On(head, next))
    /\ next[nxt[t]] = Null
    /\ \A u \in Threads \ {t} : pc[u] = "push_back" => nxt[u] # nxt[t]

LocalOK(t) ==
    /\ pc[t] = "idle" => nxt[t] = Null
    /\ pc[t] = "push_back" => PushOK(t)
    /\ pc[t] \in Visits \cup Edits => WalkOK(t)

LocalsOK == \A t \in Threads : LocalOK(t)

\* Every node is free, in the list, or pushed.
Apart ==
    /\ free \cap On(head, next) = {}
    /\ \A m \in Nodes : \/ m \in free \cup On(head, next)
                        \/ \E t \in Threads : pc[t] = "push_back" /\ nxt[t] = m

\* last_node_ptr points to the end.
Ends == Double => last \in On(head, next) /\ next[last] = Null

Lists == Ok(head, next) /\ Apart /\ Ends

IInv == TypeOK /\ Lists /\ LocalsOK
=============================================================================
