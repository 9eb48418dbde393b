-------------------------------- MODULE Lifo --------------------------------
(***************************************************************************)
(* What every stack of the repository promises its callers: between its    *)
(* call and its return each push and pop takes effect exactly once, in one *)
(* instant; pop returns the value on top at that instant, and reports      *)
(* "empty" only if the stack is empty at that instant.                     *)
(***************************************************************************)
EXTENDS Sequences

CONSTANTS
    Threads,    \* callers
    Values,     \* what is pushed
    Empty       \* what a pop of an empty stack returns (the null shared_ptr)

VARIABLES
    stk,        \* the values, top first
    call        \* call[t]: the call t is in, and what it has obtained

vars == <<stk, call>>

Idle == <<"idle">>
Pushing(v) == <<"push", v>>
Popping == <<"pop">>
Got(v) == <<"got", v>>

Init ==
    /\ stk = <<>>
    /\ call = [t \in Threads |-> Idle]

Step(t, from, to) ==
    /\ call[t] = from
    /\ call' = [call EXCEPT ![t] = to]

CallPush(t, v) == Step(t, Idle, Pushing(v)) /\ UNCHANGED stk

Push(t, v) == Step(t, Pushing(v), Idle) /\ stk' = <<v>> \o stk

CallPop(t) == Step(t, Idle, Popping) /\ UNCHANGED stk

Pop(t) ==
    /\ stk # <<>>
    /\ Step(t, Popping, Got(Head(stk)))
    /\ stk' = Tail(stk)

PopEmpty(t) ==
    /\ stk = <<>>
    /\ Step(t, Popping, Got(Empty))
    /\ UNCHANGED stk

Return(t) ==
    /\ \E v \in Values \cup {Empty} : Step(t, Got(v), Idle)
    /\ UNCHANGED stk

Next ==
    \E t \in Threads :
        \/ \E v \in Values : CallPush(t, v) \/ Push(t, v)
        \/ CallPop(t) \/ Pop(t) \/ PopEmpty(t) \/ Return(t)

Spec == Init /\ [][Next]_vars
=============================================================================
