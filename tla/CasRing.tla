------------------------------- MODULE CasRing -------------------------------
(***************************************************************************)
(* CircularQueLight.h and CircularQueSync.h of                             *)
(* src/concurrent/day12-circularque, which differ in their memory orders   *)
(* only: a push claims the slot at _tail by a compare-exchange, writes it, *)
(* and waits until _tail_update has come there to move that on; a pop      *)
(* reads the slot at _head before it claims it.                            *)
(*                                                                         *)
(* The indices run around the ring, so one that has gone all the way round *)
(* looks like one that has not moved.                                      *)
(***************************************************************************)
EXTENDS Integers, FiniteSets

CONSTANTS
    Threads,        \* each calls push and pop
    Values,
    Cap,
    Null            \* no value

ConstantsAssumption == Null \notin Values /\ Cap \in Nat \ {0}

_max_size == Cap + 1
After(i) == (i + 1) % _max_size

VARIABLES
    _head, _tail, _tail_update,
    _data,
    pc, i, val,     \* locals of push and pop: h or t, and the value
    moves,          \* history: how often the index t has loaded has moved since
    late            \* history: an exchange has taken an index for the one it was

vars == <<_head, _tail, _tail_update, _data, pc, i, val, moves, late>>

Init ==
    /\ _head = 0 /\ _tail = 0 /\ _tail_update = 0
    /\ _data = [s \in 0 .. Cap |-> Null]
    /\ pc = [t \in Threads |-> "idle"]
    /\ i = [t \in Threads |-> 0]
    /\ val = [t \in Threads |-> Null]
    /\ moves = [t \in Threads |-> 0]
    /\ late = FALSE

Goto(t, from, to) == pc[t] = from /\ pc' = [pc EXCEPT ![t] = to]

PushIndex == {"push_full", "push_cas"}
PopIndex == {"pop_empty", "pop_update", "pop_read", "pop_cas"}

\* The index the threads at places have loaded moves.
Moves(places) ==
    moves' = [t \in Threads |-> IF pc'[t] \notin PushIndex \cup PopIndex THEN 0
                                ELSE IF pc[t] \in places /\ moves[t] < _max_size
                                THEN moves[t] + 1 ELSE moves[t]]

-----------------------------------------------------------------------------
PushStart(t, v) ==
    /\ Goto(t, "idle", "push_full")
    /\ val' = [val EXCEPT ![t] = v]
    /\ i' = [i EXCEPT ![t] = _tail]
    /\ UNCHANGED <<_head, _tail, _tail_update, _data, moves, late>>

PushLoad(t) ==
    /\ Goto(t, "push_load", "push_full")
    /\ i' = [i EXCEPT ![t] = _tail]
    /\ UNCHANGED <<_head, _tail, _tail_update, _data, val, moves, late>>

PushFull(t) ==
    /\ IF After(i[t]) = _head THEN Goto(t, "push_full", "full") ELSE Goto(t, "push_full", "push_cas")
    /\ moves' = [moves EXCEPT ![t] = IF After(i[t]) = _head THEN 0 ELSE @]
    /\ UNCHANGED <<_head, _tail, _tail_update, _data, i, val, late>>

PushCas(t) ==
    /\ \/ /\ _tail = i[t]
          /\ Goto(t, "push_cas", "push_write")
          /\ _tail' = After(_tail)
          /\ late' = (late \/ moves[t] > 0)
          /\ Moves(PushIndex)
          /\ UNCHANGED i
       \/ /\ _tail # i[t]
          /\ Goto(t, "push_cas", "push_load")
          /\ i' = [i EXCEPT ![t] = 0]
          /\ moves' = [moves EXCEPT ![t] = 0]
          /\ UNCHANGED <<_tail, late>>
    /\ UNCHANGED <<_head, _tail_update, _data, val>>

PushWrite(t) ==
    /\ Goto(t, "push_write", "push_update")
    /\ _data' = [_data EXCEPT ![i[t]] = val[t]]
    /\ UNCHANGED <<_head, _tail, _tail_update, i, val, moves, late>>

\* The bug of publishing without waiting for the earlier pushes.
PushUpdate_NoWait(t) ==
    /\ Goto(t, "push_update", "idle")
    /\ _tail_update' = After(_tail_update)
    /\ i' = [i EXCEPT ![t] = 0]
    /\ val' = [val EXCEPT ![t] = Null]
    /\ UNCHANGED <<_head, _tail, _data, moves, late>>

\* The exchange is tried until the earlier pushes have made theirs.
PushUpdate(t) ==
    /\ _tail_update = i[t]
    /\ Goto(t, "push_update", "idle")
    /\ _tail_update' = After(_tail_update)
    /\ i' = [i EXCEPT ![t] = 0]
    /\ val' = [val EXCEPT ![t] = Null]
    /\ UNCHANGED <<_head, _tail, _data, moves, late>>

-----------------------------------------------------------------------------
PopStart(t) ==
    /\ Goto(t, "idle", "pop_empty")
    /\ i' = [i EXCEPT ![t] = _head]
    /\ UNCHANGED <<_head, _tail, _tail_update, _data, val, moves, late>>

PopLoad(t) ==
    /\ Goto(t, "pop_load", "pop_empty")
    /\ i' = [i EXCEPT ![t] = _head]
    /\ UNCHANGED <<_head, _tail, _tail_update, _data, val, moves, late>>

PopTest(t, index, from, to) ==
    /\ IF i[t] = index THEN Goto(t, from, "empty") ELSE Goto(t, from, to)
    /\ moves' = [moves EXCEPT ![t] = IF i[t] = index THEN 0 ELSE @]
    /\ UNCHANGED <<_head, _tail, _tail_update, _data, i, val, late>>

PopEmpty(t) == PopTest(t, _tail, "pop_empty", "pop_update")
PopUpdate(t) == PopTest(t, _tail_update, "pop_update", "pop_read")

\* A value that is being written is none.
PopRead(t) ==
    /\ Goto(t, "pop_read", "pop_cas")
    /\ val' = [val EXCEPT ![t] = IF \E u \in Threads : pc[u] = "push_write" /\ i[u] = i[t]
                                 THEN Null ELSE _data[i[t]]]
    /\ UNCHANGED <<_head, _tail, _tail_update, _data, i, moves, late>>

PopCas(t) ==
    /\ \/ /\ _head = i[t]
          /\ Goto(t, "pop_cas", "popped")
          /\ _head' = After(_head)
          /\ late' = (late \/ moves[t] > 0)
          /\ Moves(PopIndex)
          /\ UNCHANGED <<i, val>>
       \/ /\ _head # i[t]
          /\ Goto(t, "pop_cas", "pop_load")
          /\ i' = [i EXCEPT ![t] = 0]
          /\ val' = [val EXCEPT ![t] = Null]
          /\ moves' = [moves EXCEPT ![t] = 0]
          /\ UNCHANGED <<_head, late>>
    /\ UNCHANGED <<_tail, _tail_update, _data>>

Return(t) ==
    /\ \E from \in {"full", "empty", "popped"} : Goto(t, from, "idle")
    /\ i' = [i EXCEPT ![t] = 0]
    /\ val' = [val EXCEPT ![t] = Null]
    /\ UNCHANGED <<_head, _tail, _tail_update, _data, moves, late>>

Push(t) ==
    \/ \E v \in Values : PushStart(t, v)
    \/ PushLoad(t) \/ PushFull(t) \/ PushCas(t) \/ PushWrite(t) \/ PushUpdate(t)

Pop(t) ==
    \/ PopStart(t) \/ PopLoad(t) \/ PopEmpty(t)
    \/ PopUpdate(t) \/ PopRead(t) \/ PopCas(t)

\* What happens once an exchange was late is not followed.
Next ==
    \/ ~late /\ \E t \in Threads : Push(t) \/ Pop(t) \/ Return(t)
    \/ late /\ UNCHANGED vars

Spec == Init /\ [][Next]_vars

-----------------------------------------------------------------------------
\* How far the slot s is from _head, going round the ring.
From(s) == (s - _head) % _max_size

Slots == 0 .. Cap
Claimed == {t \in Threads : pc[t] \in {"push_write", "push_update"}}

\* The value in the slot s, or the one that a push is writing to it.
Writers(s) == {t \in Threads : pc[t] = "push_write" /\ i[t] = s}
ValueAt(s) == IF Writers(s) # {} THEN val[CHOOSE t \in Writers(s) : TRUE] ELSE _data[s]

\* The slots between the indices are claimed by pushes and hold values once these
\* are written; no two pushes write the same slot.
Queued == [k \in 1 .. From(_tail) |-> ValueAt((_head + k - 1) % _max_size)]

\* Of the two claims on a slot by pushes, one has been published before the other is
\* made; and a slot is given up only after it has been read: unless an exchange was
\* late.
ClaimsApart ==
    ~late =>
        /\ \A t, u \in Claimed : t # u => i[t] # i[u]
        /\ \A t \in Claimed : From(i[t]) < From(_tail)

TypeOK ==
    /\ {_head, _tail, _tail_update} \subseteq Slots
    /\ _data \in [Slots -> Values \cup {Null}]
    /\ pc \in [Threads -> PushIndex \cup PopIndex \cup
                          {"idle", "push_load", "push_write", "push_update", "pop_load",
                           "full", "empty", "popped"}]
    /\ i \in [Threads -> Slots]
    /\ val \in [Threads -> Values \cup {Null}]
    /\ moves \in [Threads -> 0 .. _max_size]
    /\ late \in BOOLEAN

\* What a push or a pop has found out holds as long as its index has not moved.
StillTrue ==
    \A t \in Threads :
        /\ pc[t] \notin PushIndex \cup PopIndex => moves[t] = 0
        /\ pc[t] \in PushIndex \cup {"push_load", "push_write"} => val[t] \in Values
        /\ moves[t] = 0 =>
            /\ pc[t] \in PushIndex => i[t] = _tail
            /\ pc[t] = "push_cas" => After(_tail) # _head
            /\ pc[t] \in PopIndex => i[t] = _head
            /\ pc[t] \in {"pop_read", "pop_cas"} => _head # _tail_update
            /\ pc[t] = "pop_cas" => val[t] = _data[_head]

\* The slots from _head to _tail_update are published, those from there to _tail are
\* claimed.
InOrder ==
    /\ From(_tail_update) <= From(_tail)
    /\ \A t \in Claimed : From(_tail_update) <= From(i[t])

IInv == TypeOK /\ (~late => InOrder /\ StillTrue /\ ClaimsApart)

CallOf(t) ==
    CASE pc[t] \in PushIndex \cup {"push_load"} -> <<"push", val[t]>>
      [] pc[t] = "full" -> <<"full">>
      [] pc[t] \in PopIndex \cup {"pop_load"} -> <<"pop">>
      [] pc[t] = "empty" -> <<"got", Null>>
      [] pc[t] = "popped" -> <<"got", val[t]>>
      [] OTHER -> <<"idle">>

Abstract ==
    INSTANCE Fifo WITH
        Capacity <- Cap, Empty <- Null, Exact <- FALSE,
        q <- Queued, call <- [t \in Threads |-> CallOf(t)]

\* The values come out in the order in which their pushes claimed slots, each once,
\* and none that was being written, until an exchange succeeds because the
\* index has gone round the ring since it was loaded.
ImplementsFifoUntilLate == Abstract!Init /\ [][late' \/ [Abstract!Next]_(Abstract!vars)]_vars
=============================================================================
