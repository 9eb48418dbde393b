-------------------------------- MODULE Fifo --------------------------------
(***************************************************************************)
(* What every queue of the repository promises its callers: between its    *)
(* call and its return each push and pop takes effect exactly once, in one *)
(* instant; pop returns the oldest value, and reports "empty" only if the  *)
(* queue is empty at that instant.  A bounded queue also reports "full",   *)
(* and only when it holds Capacity values.  A queue that is not Exact may  *)
(* give up at any time and report "empty" or "full" all the same.          *)
(***************************************************************************)
EXTENDS Naturals, Sequences

CONSTANTS
    Threads,    \* callers
    Values,     \* what is pushed
    Capacity,   \* the most values the queue holds
    Empty,      \* what a pop of an empty queue returns
    Exact       \* whether "empty" and "full" are reported only when true

VARIABLES
    q,          \* the values, oldest first
    call        \* call[t]: the call t is in, and what it has obtained

vars == <<q, call>>

Idle == <<"idle">>
Pushing(v) == <<"push", v>>
Refused == <<"full">>
Popping == <<"pop">>
Got(v) == <<"got", v>>

Init ==
    /\ q = <<>>
    /\ call = [t \in Threads |-> Idle]

Step(t, from, to) ==
    /\ call[t] = from
    /\ call' = [call EXCEPT ![t] = to]

CallPush(t, v) == Step(t, Idle, Pushing(v)) /\ UNCHANGED q

Push(t, v) ==
    /\ Step(t, Pushing(v), Idle)
    /\ Len(q) < Capacity
    /\ q' = Append(q, v)

PushFull(t, v) ==
    /\ Step(t, Pushing(v), Refused)
    /\ Exact => Len(q) = Capacity
    /\ UNCHANGED q

CallPop(t) == Step(t, Idle, Popping) /\ UNCHANGED q

Pop(t) ==
    /\ q # <<>>
    /\ Step(t, Popping, Got(Head(q)))
    /\ q' = Tail(q)

PopEmpty(t) ==
    /\ Step(t, Popping, Got(Empty))
    /\ Exact => q = <<>>
    /\ UNCHANGED q

Return(t) ==
    /\ \E r \in {Refused} \cup {Got(v) : v \in Values \cup {Empty}} : Step(t, r, Idle)
    /\ UNCHANGED q

Next ==
    \E t \in Threads :
        \/ \E v \in Values : CallPush(t, v) \/ Push(t, v) \/ PushFull(t, v)
        \/ CallPop(t) \/ Pop(t) \/ PopEmpty(t) \/ Return(t)

Spec == Init /\ [][Next]_vars
=============================================================================
