-------------------------------- MODULE Sorter --------------------------------
(***************************************************************************)
(* The parallel quick sort of src/concurrent/day19-parallensort/sorter.h:  *)
(* a call of do_sort pushes the lower part of its data onto a stack of     *)
(* chunks, starts a thread if there are not enough, sorts the higher part  *)
(* itself and, while its lower part is not sorted yet, sorts whatever chunk *)
(* is on the stack.                                                        *)
(*                                                                         *)
(* The vector of threads has no mutex.  When two sorters are at it at once *)
(* anything may happen: a behaviour of the model ends there.               *)
(***************************************************************************)
EXTENDS Integers, SequencesExt

CONSTANTS
    Elements,       \* the list to sort has the elements 1 .. Elements, in any order
    MaxThreads      \* hardware_concurrency is at most this and one

VARIABLES
    max_thread_count,
    chunks,         \* the stack: records of the data and its promise
    promise,        \* per chunk: <<>>, or a sequence with the sorted list
    size,           \* threads in the vector
    started,        \* threads that run
    calls,          \* the calls of do_sort in each thread
    end_of_data,
    phase,          \* of main: "sort", "join" or "ended"
    raced           \* TRUE when two threads were at the vector at once

vars == <<max_thread_count, chunks, promise, size, started, calls, end_of_data, phase, raced>>

Main == 0
\* Each call of do_sort starts one thread at most.
Helpers == 1 .. Elements
Sorters == Helpers \cup {Main}

\* p: the number of the promise the result is for, 0 if there is a caller.
Call(data, p) == [data |-> data, at |-> "enter", rest |-> {}, list |-> <<>>, lower |-> 0, p |-> p]

\* parallel_quick_sort
Init ==
    /\ max_thread_count \in 0 .. MaxThreads
    /\ chunks = <<>>
    /\ promise = <<>>
    /\ size = 0
    /\ started = 0
    /\ calls = [t \in Sorters |-> IF t = Main THEN <<Call(1 .. Elements, 0)>> ELSE <<>>]
    /\ end_of_data = FALSE
    /\ phase = "sort"
    /\ raced = FALSE

-----------------------------------------------------------------------------
Top(t) == Last(calls[t])
At(t, place) == calls[t] # <<>> /\ Top(t).at = place
SetTop(t, call) == calls' = [calls EXCEPT ![t] = Append(Front(@), call)]

\* The first element is the pivot; what is less goes onto the stack.
PushChunk(t) ==
    /\ At(t, "enter") /\ Top(t).data # {}
    /\ \E pivot \in Top(t).data :
        LET less == {x \in Top(t).data : x < pivot}
            p == Len(promise) + 1
        IN /\ chunks' = Append(chunks, [data |-> less, p |-> p])
           /\ promise' = Append(promise, <<>>)
           /\ SetTop(t, [Top(t) EXCEPT !.at = "size", !.list = <<pivot>>, !.lower = p,
                                       !.rest = Top(t).data \ (less \cup {pivot})])
    /\ UNCHANGED <<max_thread_count, size, started, end_of_data, phase, raced>>

\* Others that write the vector.
InPushBack(t) == \E u \in Sorters \ {t} : At(u, "push_back")

TestSize(t) ==
    /\ At(t, "size")
    /\ raced' = InPushBack(t)
    /\ SetTop(t, [Top(t) EXCEPT !.at = IF size < max_thread_count THEN "start" ELSE "higher"])
    /\ UNCHANGED <<max_thread_count, chunks, promise, size, started, end_of_data, phase>>

\* The new thread runs before it is in the vector.
StartThread(t) ==
    /\ At(t, "start")
    /\ started' = started + 1
    /\ raced' = InPushBack(t)
    /\ SetTop(t, [Top(t) EXCEPT !.at = "push_back"])
    /\ UNCHANGED <<max_thread_count, chunks, promise, size, end_of_data, phase>>

PushBack(t) ==
    /\ At(t, "push_back")
    /\ size' = size + 1
    /\ SetTop(t, [Top(t) EXCEPT !.at = "higher"])
    /\ UNCHANGED <<max_thread_count, chunks, promise, started, end_of_data, phase, raced>>

CallHigher(t) ==
    /\ At(t, "higher")
    /\ calls' = [calls EXCEPT ![t] = Append([@ EXCEPT ![Len(@)].at = "wait"], Call(Top(t).rest, 0))]
    /\ UNCHANGED <<max_thread_count, chunks, promise, size, started, end_of_data, phase, raced>>

\* try_sort_chunk, with a chunk on the stack; without one it does nothing.
SortChunk(t) ==
    /\ chunks # <<>>
    /\ chunks' = Front(chunks)
    /\ calls' = [calls EXCEPT ![t] = Append(@, Call(Last(chunks).data, Last(chunks).p))]
    /\ UNCHANGED <<max_thread_count, promise, size, started, end_of_data, phase, raced>>

Ready(t) == promise[Top(t).lower] # <<>>

\* The bug of a wait that does not help.
Help_Not(t) == At(t, "wait") /\ ~Ready(t) /\ UNCHANGED vars

\* while (new_lower.wait_for(0) != ready)
Help(t) == At(t, "wait") /\ ~Ready(t) /\ SortChunk(t)

\* The bug of the lower part behind the rest.
Result_Behind(t) ==
    IF Top(t).data = {} THEN <<>> ELSE Top(t).list \o promise[Top(t).lower][1]

\* The list a call of do_sort returns: it is empty, or there is its lower part too.
Result(t) == IF Top(t).data = {} THEN <<>> ELSE promise[Top(t).lower][1] \o Top(t).list

\* To the caller, which has it behind its pivot, or to the promise.
Return(t) ==
    /\ IF At(t, "enter") THEN Top(t).data = {} ELSE At(t, "wait") /\ Ready(t)
    /\ \/ /\ Top(t).p # 0
          /\ promise' = [promise EXCEPT ![Top(t).p] = <<Result(t)>>]
          /\ calls' = [calls EXCEPT ![t] = Front(@)]
          /\ UNCHANGED phase
       \/ /\ Top(t).p = 0 /\ Len(calls[t]) > 1
          /\ calls' = [calls EXCEPT ![t] =
                        [Front(@) EXCEPT ![Len(@) - 1].list = @ \o Result(t)]]
          /\ UNCHANGED <<promise, phase>>
       \/ /\ Top(t).p = 0 /\ Len(calls[t]) = 1
          /\ SetTop(t, [Top(t) EXCEPT !.at = "returned", !.list = Result(t)])
          /\ phase' = "join"
          /\ UNCHANGED promise
    /\ UNCHANGED <<max_thread_count, chunks, size, started, end_of_data, raced>>

\* sort_thread: while (!end_of_data)
SortThread(t) ==
    /\ t \in 1 .. started /\ calls[t] = <<>> /\ ~end_of_data
    /\ SortChunk(t)

do_sort(t) ==
    \/ PushChunk(t) \/ TestSize(t) \/ StartThread(t) \/ PushBack(t)
    \/ CallHigher(t) \/ Help(t) \/ Return(t)

\* ~sorter
EndOfData ==
    /\ phase = "join" /\ ~end_of_data
    /\ end_of_data' = TRUE
    /\ UNCHANGED <<max_thread_count, chunks, promise, size, started, calls, phase, raced>>

\* A thread ends when it sees the flag, with no call of do_sort going on.
Join ==
    /\ phase = "join" /\ end_of_data
    /\ \A t \in Helpers : calls[t] = <<>>
    /\ phase' = "ended"
    /\ UNCHANGED <<max_thread_count, chunks, promise, size, started, calls, end_of_data, raced>>

Step(t) ==
    /\ ~raced
    /\ do_sort(t) \/ SortThread(t) \/ (t = Main /\ (EndOfData \/ Join))

Over == (raced \/ phase = "ended") /\ UNCHANGED vars

Next == (\E t \in Sorters : Step(t)) \/ Over

Spec == Init /\ [][Next]_vars

-----------------------------------------------------------------------------
\* The sorter destroys its stack and its threads when the list is sorted, every
\* chunk is sorted, and no thread is in do_sort any more.
SortedWhenGone ==
    phase # "sort" =>
        /\ calls[Main][1].list = [i \in 1 .. Elements |-> i]
        /\ chunks = <<>>
        /\ \A t \in Helpers : calls[t] = <<>>
=============================================================================
