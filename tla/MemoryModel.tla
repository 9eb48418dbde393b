----------------------------- MODULE MemoryModel -----------------------------
(***************************************************************************)
(* The programs of LitmusTests under the memory orders of C++: the history *)
(* of a location is the sequence of its stores, in modification order, and *)
(* a thread may load any of them that is not older than what it has seen.  *)
(*                                                                         *)
(* view[t] is what happens before the next step of t: for each location    *)
(* the newest store in it.  A release store carries the view of its thread *)
(* and an acquire load takes over the view of the store it reads.          *)
(*                                                                         *)
(* Stores enter the modification order as they execute: no two threads of  *)
(* these tests write two locations in opposite orders, and TestReleaseSeq2, *)
(* which acts on a location when it has read another, is there both ways.  *)
(***************************************************************************)
EXTENDS LitmusTests, FiniteSets

Locs == {"x", "y", "z", "flag", "cout", "data", "ptr", "string",
         "single", "obj", "s_mutex", "_b_init", "s_flag", "guard",
         "queue_data", "count", "store_finish"}

CONSTANT Tests      \* the tests to run, a function from names

VARIABLES
    test,           \* the name of the test that runs
    mem,            \* the history of each location, of records [val, view]
    sc,             \* the newest seq_cst store of each location
    view,           \* what happens before the thread's next step
    seen,           \* the views of the stores it has read, relaxed loads included
    fenced,         \* its view at its last release fence
    reg,            \* the value its last load returned
    pc,
    failed,         \* TRUE when an assertion has failed
    race            \* TRUE when a plain access met a store it does not know of

vars == <<test, mem, sc, view, seen, fenced, reg, pc, failed, race>>

Zero == [x \in Locs |-> 1]
Later(v, w) == [x \in Locs |-> IF v[x] > w[x] THEN v[x] ELSE w[x]]

Threads == DOMAIN Tests[test]
Done(t) == pc[t] > Len(Tests[test][t])
Instr(t) == Tests[test][t][pc[t]]

\* What may hold anything at first.
Unset(name) == IF name \in DOMAIN Uninitialised THEN Uninitialised[name] ELSE {}

Init ==
    /\ test \in DOMAIN Tests
    /\ \E ones \in SUBSET Unset(test) :
        mem = [x \in Locs |-> <<[val |-> IF x \in ones THEN 1 ELSE 0, view |-> Zero]>>]
    /\ sc = Zero
    /\ view = [t \in Threads |-> Zero]
    /\ seen = [t \in Threads |-> Zero]
    /\ fenced = [t \in Threads |-> Zero]
    /\ reg = [t \in Threads |-> 0]
    /\ pc = [t \in Threads |-> 1]
    /\ failed = FALSE
    /\ race = FALSE

-----------------------------------------------------------------------------
Acquires(o) == o \in {"acquire", "seq_cst"}
Releases(o) == o \in {"release", "seq_cst"}

Goto(t, n) == pc' = [pc EXCEPT ![t] = n]
NextInstr(t) == Goto(t, pc[t] + 1)

\* The stores to x that t may load.
Readable(t, x, o) ==
    LET oldest == IF o = "seq_cst" /\ sc[x] > view[t][x] THEN sc[x] ELSE view[t][x]
    IN oldest .. Len(mem[x])

\* t has loaded the i-th store to x: its view after that, under order o.
ViewAfterLoad(t, x, i, o) ==
    LET known == [view[t] EXCEPT ![x] = i]
    IN IF Acquires(o) THEN Later(known, mem[x][i].view) ELSE known

TakeLoad(t, x, i, o) ==
    /\ reg' = [reg EXCEPT ![t] = mem[x][i].val]
    /\ view' = [view EXCEPT ![t] = ViewAfterLoad(t, x, i, o)]
    /\ seen' = [seen EXCEPT ![t] = Later(@, mem[x][i].view)]

\* A store of t that knows v becomes the newest of x.  It carries v, or what t
\* knew at its last release fence, and what the store it replaces in one
\* read-modify-write carried: the release sequence goes on.
AddStore(t, x, val, o, v, carried) ==
    LET now == [v EXCEPT ![x] = Len(mem[x]) + 1]
        own == IF Releases(o) THEN now ELSE fenced[t]
    IN /\ mem' = [mem EXCEPT ![x] = Append(@, [val |-> val, view |-> Later(own, carried)])]
       /\ view' = [view EXCEPT ![t] = now]
       /\ sc' = IF o = "seq_cst" THEN [sc EXCEPT ![x] = Len(mem[x]) + 1] ELSE sc

\* A read-modify-write acts on the newest store.
ReadModifyWrite(t, x, val, o) ==
    LET n == Len(mem[x]) IN
    /\ AddStore(t, x, val, o, ViewAfterLoad(t, x, n, o), mem[x][n].view)
    /\ seen' = [seen EXCEPT ![t] = Later(@, mem[x][n].view)]
    /\ reg' = [reg EXCEPT ![t] = mem[x][n].val]

\* A plain access that does not know the newest store is not ordered after it.
Races(t, x) == view[t][x] # Len(mem[x])

-----------------------------------------------------------------------------
DoStore(t, in) ==
    /\ in.op \in {"store", "write"}
    /\ race' = (race \/ (in.op = "write" /\ Races(t, in.loc)))
    /\ AddStore(t, in.loc, in.val, in.order, view[t], Zero)
    /\ NextInstr(t)
    /\ UNCHANGED <<seen, fenced, reg, failed>>

\* Load the i-th store.
DoLoad(t, in, i) ==
    /\ in.op \in {"load", "read"}
    /\ i \in Readable(t, in.loc, in.order)
    /\ race' = (race \/ (in.op = "read" /\ Races(t, in.loc)))
    /\ TakeLoad(t, in.loc, i, in.order)
    /\ NextInstr(t)
    /\ UNCHANGED <<mem, sc, fenced, failed>>

DoSpin(t, in, i) ==
    /\ in.op = "spin"
    /\ i \in Readable(t, in.loc, in.order)
    /\ TakeLoad(t, in.loc, i, in.order)
    /\ IF mem[in.loc][i].val \in in.val THEN NextInstr(t) ELSE UNCHANGED pc
    /\ UNCHANGED <<mem, sc, fenced, failed, race>>

\* An exchange that fails is a relaxed load of any store: it teaches t nothing
\* that a later one would not, and is left out.
DoCas(t, in) ==
    /\ in.op = "cas"
    /\ mem[in.loc][Len(mem[in.loc])].val = in.val
    /\ ReadModifyWrite(t, in.loc, in.new, in.order)
    /\ NextInstr(t)
    /\ UNCHANGED <<fenced, failed, race>>

DoFetchAdd(t, in) ==
    /\ in.op = "add"
    /\ ReadModifyWrite(t, in.loc, mem[in.loc][Len(mem[in.loc])].val + in.val, in.order)
    /\ NextInstr(t)
    /\ UNCHANGED <<fenced, failed, race>>

DoFence(t, in) ==
    /\ in.op = "fence"
    /\ view' = [view EXCEPT ![t] = IF Acquires(in.order) THEN Later(@, seen[t]) ELSE @]
    /\ fenced' = [fenced EXCEPT ![t] = IF Releases(in.order) THEN view[t] ELSE @]
    /\ NextInstr(t)
    /\ UNCHANGED <<mem, sc, seen, reg, failed, race>>

\* 0: nobody has come yet, 1: somebody runs the function, 2: it has returned.
DoOnce(t, in) ==
    /\ in.op = "once"
    /\ LET n == Len(mem[in.loc]) IN
        \/ /\ mem[in.loc][n].val = 0
           /\ ReadModifyWrite(t, in.loc, 1, in.order)
           /\ NextInstr(t)
        \/ /\ mem[in.loc][n].val = 2
           /\ TakeLoad(t, in.loc, n, in.order)
           /\ Goto(t, in.to)
           /\ UNCHANGED <<mem, sc>>
    /\ UNCHANGED <<fenced, failed, race>>

DoTest(t, in) ==
    /\ in.op \in {"if", "assert"}
    /\ IF in.op = "if" /\ reg[t] \notin in.val THEN Goto(t, in.to) ELSE NextInstr(t)
    /\ failed' = (failed \/ (in.op = "assert" /\ reg[t] \notin in.val))
    /\ UNCHANGED <<mem, sc, view, seen, fenced, reg, race>>

\* What the threads before t did happens before what t does next.
DoJoin(t, in) ==
    /\ in.op = "join"
    /\ \A u \in 1 .. t - 1 : Done(u)
    /\ view' = [view EXCEPT ![t] =
                 [x \in Locs |-> CHOOSE i \in {view[u][x] : u \in 1 .. t} :
                                     \A u \in 1 .. t : view[u][x] <= i]]
    /\ NextInstr(t)
    /\ UNCHANGED <<mem, sc, seen, fenced, reg, failed, race>>

\* The next instruction of t, which loads the i-th store if it loads.
Step(t, i) ==
    /\ ~Done(t)
    /\ UNCHANGED test
    /\ \/ DoStore(t, Instr(t)) \/ DoLoad(t, Instr(t), i) \/ DoSpin(t, Instr(t), i)
       \/ DoCas(t, Instr(t)) \/ DoFetchAdd(t, Instr(t)) \/ DoFence(t, Instr(t))
       \/ DoOnce(t, Instr(t)) \/ DoTest(t, Instr(t)) \/ DoJoin(t, Instr(t))

Terminating == (\A t \in Threads : Done(t)) /\ UNCHANGED vars

Newest(t) ==
    IF ~Done(t) /\ "loc" \in DOMAIN Instr(t) THEN Len(mem[Instr(t).loc]) ELSE 1

Next == (\E t \in Threads : \E i \in 1 .. Newest(t) : Step(t, i)) \/ Terminating

Spec == Init /\ [][Next]_vars
=============================================================================
