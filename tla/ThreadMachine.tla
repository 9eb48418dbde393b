---------------------------- MODULE ThreadMachine ----------------------------
(***************************************************************************)
(* Runs the programs of ThreadTests: threads that interleave, mutexes,     *)
(* condition variables and thread objects as the standard library has      *)
(* them.  An error is a step that has undefined behaviour ("undefined"), a *)
(* std::terminate ("terminate"), an assertion that fails ("assert"), or    *)
(* that no thread can take one any more ("deadlock"); it ends the program. *)
(***************************************************************************)
EXTENDS ThreadTests, FiniteSets

CONSTANT Tests      \* the tests to run, a function from names

VARIABLES
    test,           \* the name of the test that runs
    val,            \* the variables of the test
    held,           \* how often each thread holds each mutex, -1 if shared
    waits,          \* the condition variable a thread waits on, or None
    reg,            \* one register per thread
    pc,             \* 0 until the thread is started
    error

vars == <<test, val, held, waits, reg, pc, error>>

Mutexes == {"mtx", "mtx1", "mtx2", "m", "t_lock1", "t_lock2", "objm1", "objm2",
            "_shared_mtx", "_recursive_mtx", "mtx_num", "mut", "_mtx", "mtx_",
            "headA", "headB", "headC", "sc1", "sc2", "hmtx1", "hmtx2", "mtx_cout",
            "set_mtx", "bucket0", "bucket1"}
None == "none"

Threads == DOMAIN Tests[test].threads
Ended(t) == pc[t] > Len(Tests[test].threads[t])
Instr(t) == Tests[test].threads[t][pc[t]]

Init ==
    /\ test \in DOMAIN Tests
    /\ LET vars_ == Tests[test].vars IN
       \E ones \in SUBSET {x \in DOMAIN vars_ : vars_[x] = {0, 1}} :
          val = [x \in DOMAIN vars_ |-> IF vars_[x] # {0, 1} THEN CHOOSE v \in vars_[x] : TRUE
                                        ELSE IF x \in ones THEN 1 ELSE 0]
    /\ held = [m \in Mutexes |-> [t \in Threads |-> 0]]
    /\ waits = [t \in Threads |-> None]
    /\ reg = [t \in Threads |-> 0]
    /\ pc = [t \in Threads |-> IF t = 1 THEN 1 ELSE 0]
    /\ error = None

-----------------------------------------------------------------------------
\* How a thread may hold m next, given how the others hold it.
MayHold(t, m, op) ==
    /\ \A u \in Threads \ {t} : held[m][u] = 0 \/ (op = "lock_shared" /\ held[m][u] < 0)
    /\ op = "lock_recursive" \/ held[m][t] = 0

HoldsAfter(n, op) == IF op = "lock_shared" THEN -1 ELSE n + 1

Run(t) == error = None /\ pc[t] > 0 /\ ~Ended(t) /\ waits[t] = None /\ UNCHANGED <<test, error>>
Goto_(t, n) == pc' = [pc EXCEPT ![t] = @ + n]

\* Wait in the mutexes' queue for all of them, and take them at once.
DoLock(t, in) ==
    /\ in.op \in {"lock", "lock_shared", "lock_recursive"}
    /\ \A m \in in.mutexes : MayHold(t, m, in.op)
    /\ held' = [m \in Mutexes |->
                 IF m \in in.mutexes THEN [held[m] EXCEPT ![t] = HoldsAfter(@, in.op)]
                 ELSE held[m]]
    /\ Goto_(t, 1)
    /\ UNCHANGED <<val, waits, reg>>

DoUnlock(t, in) ==
    /\ in.op = "unlock"
    /\ held' = [m \in Mutexes |->
                 IF m \in in.mutexes
                 THEN [held[m] EXCEPT ![t] = IF @ > 0 THEN @ - 1 ELSE 0] ELSE held[m]]
    /\ Goto_(t, 1)
    /\ UNCHANGED <<val, waits, reg>>

Holds(any) == \E x \in DOMAIN any : val[x] \in any[x]

\* The predicate is true: go on.  Else go to sleep: that is a step of its own, so
\* that a notification by a thread without the mutex can come in between.  reg
\* tells that the predicate has been tested.
DoWait(t, in) ==
    /\ in.op = "wait"
    /\ \/ /\ reg[t] = 0 /\ Holds(in.any)
          /\ Goto_(t, 1)
          /\ UNCHANGED <<held, waits, reg>>
       \/ /\ reg[t] = 0 /\ ~Holds(in.any)
          /\ reg' = [reg EXCEPT ![t] = 1]
          /\ UNCHANGED <<pc, held, waits>>
       \/ /\ reg[t] = 1
          /\ waits' = [waits EXCEPT ![t] = in.cv]
          /\ held' = [m \in Mutexes |->
                       IF m \in in.mutexes THEN [held[m] EXCEPT ![t] = 0] ELSE held[m]]
          /\ UNCHANGED <<pc, reg>>
    /\ UNCHANGED val

\* A wait without a predicate.
DoSleep(t, in) ==
    /\ in.op \in {"sleep", "sleep_for"}
    /\ waits' = [waits EXCEPT ![t] = in.cv]
    /\ held' = [m \in Mutexes |->
                 IF m \in in.mutexes THEN [held[m] EXCEPT ![t] = 0] ELSE held[m]]
    /\ UNCHANGED <<val, pc, reg>>

Timeout(t) ==
    /\ error = None
    /\ waits[t] \notin {None, "woken"}
    /\ Instr(t).op = "sleep_for"
    /\ waits' = [waits EXCEPT ![t] = "woken"]
    /\ UNCHANGED <<test, val, held, reg, pc, error>>

\* Woken, or awake for no reason: take the mutex again, and test again
\* if there is a predicate.
Relock(t) ==
    /\ error = None
    /\ waits[t] = "woken"
    /\ \A m \in Instr(t).mutexes : MayHold(t, m, "lock")
    /\ held' = [m \in Mutexes |->
                 IF m \in Instr(t).mutexes THEN [held[m] EXCEPT ![t] = 1] ELSE held[m]]
    /\ waits' = [waits EXCEPT ![t] = None]
    /\ reg' = [reg EXCEPT ![t] = 0]
    /\ IF Instr(t).op = "wait" THEN UNCHANGED pc ELSE Goto_(t, 1)
    /\ UNCHANGED <<test, val, error>>

SpuriousWakeup(t) ==
    /\ error = None
    /\ waits[t] \notin {None, "woken"}
    /\ waits' = [waits EXCEPT ![t] = "woken"]
    /\ UNCHANGED <<test, val, held, reg, pc, error>>

DoNotify(t, in) ==
    /\ in.op = "notify"
    /\ \/ in.cv \notin {waits[u] : u \in Threads} /\ UNCHANGED waits
       \/ \E u \in Threads :
            waits[u] = in.cv /\ waits' = [waits EXCEPT ![u] = "woken"]
    /\ Goto_(t, 1)
    /\ UNCHANGED <<val, held, reg>>

DoNotifyAll(t, in) ==
    /\ in.op = "notify_all"
    /\ waits' = [u \in Threads |-> IF waits[u] = in.cv THEN "woken" ELSE waits[u]]
    /\ Goto_(t, 1)
    /\ UNCHANGED <<val, held, reg>>

DoAccess(t, in) ==
    /\ \/ in.op = "get" /\ reg' = [reg EXCEPT ![t] = val[in.var]] /\ UNCHANGED val
       \/ in.op = "put" /\ val' = [val EXCEPT ![in.var] = reg[t] + in.val]
                        /\ reg' = [reg EXCEPT ![t] = 0]
       \/ in.op = "copy" /\ val' = [val EXCEPT ![in.var] = val[in.from]] /\ UNCHANGED reg
       \/ in.op = "set" /\ val' = [val EXCEPT ![in.var] = in.val] /\ UNCHANGED reg
       \/ in.op = "use" /\ val[in.var] # 0 /\ UNCHANGED <<val, reg>>
       \/ in.op = "free" /\ val[in.var] # 0
                         /\ val' = [val EXCEPT ![in.var] = 0] /\ UNCHANGED reg
       \/ in.op = "await" /\ val[in.var] # 0 /\ UNCHANGED <<val, reg>>
       \/ in.op = "plus" /\ reg' = [reg EXCEPT ![t] = @ + val[in.var]] /\ UNCHANGED val
       \/ in.op = "push" /\ val' = [val EXCEPT ![in.var] = @ + 1] /\ UNCHANGED reg
       \/ in.op = "expect" /\ val[in.var] \in in.vals /\ UNCHANGED <<val, reg>>
    /\ Goto_(t, 1)
    /\ UNCHANGED <<held, waits>>

DoJump(t, in) ==
    /\ in.op \in {"if", "goto"}
    /\ Goto_(t, IF in.op = "if" /\ val[in.var] \in in.vals THEN 1 ELSE in.skip)
    /\ UNCHANGED <<val, held, waits, reg>>

\* What fails when the container is empty, or the promise kept.
DoTry(t, in) ==
    /\ in.op \in {"try_pop", "set_value"}
    /\ IF (in.op = "try_pop") = (val[in.var] = 0)
       THEN Goto_(t, in.skip) /\ UNCHANGED val
       ELSE /\ val' = [val EXCEPT ![in.var] = IF in.op = "try_pop" THEN @ - 1 ELSE in.val]
            /\ Goto_(t, 1)
    /\ UNCHANGED <<held, waits, reg>>

\* std::thread: the new thread may run; join waits for the end and leaves the
\* object without a thread; a move does so to its source.
DoThread(t, in) ==
    /\ \/ /\ in.op = "start"
          /\ val' = [val EXCEPT ![in.var] = in.val]
          /\ pc' = [pc EXCEPT ![t] = @ + 1, ![in.val] = 1]
       \/ /\ in.op = "join" /\ val[in.var] # 0 /\ Ended(val[in.var])
          /\ val' = [val EXCEPT ![in.var] = 0]
          /\ Goto_(t, 1)
       \/ /\ in.op = "move" /\ val[in.var] = 0
          /\ val' = [val EXCEPT ![in.var] = val[in.from], ![in.from] = 0]
          /\ Goto_(t, 1)
       \/ /\ in.op = "destroy" /\ val[in.var] = 0
          /\ Goto_(t, 1)
          /\ UNCHANGED val
    /\ UNCHANGED <<held, waits, reg>>

Step(t) ==
    \/ /\ Run(t)
       /\ \/ DoLock(t, Instr(t)) \/ DoUnlock(t, Instr(t)) \/ DoWait(t, Instr(t))
          \/ DoSleep(t, Instr(t)) \/ DoNotify(t, Instr(t)) \/ DoNotifyAll(t, Instr(t))
          \/ DoAccess(t, Instr(t)) \/ DoJump(t, Instr(t))
          \/ DoTry(t, Instr(t)) \/ DoThread(t, Instr(t))
    \/ Relock(t) \/ Timeout(t)

\* What goes wrong in the next step of t.
Wrong(t) ==
    IF pc[t] = 0 \/ Ended(t) THEN None
    ELSE LET in == Instr(t) IN
         IF in.op \in {"use", "free"} /\ val[in.var] = 0 THEN "undefined"
         ELSE IF in.op = "expect" /\ val[in.var] \notin in.vals THEN "assert"
         ELSE IF in.op = "throw" THEN "terminate"
         ELSE IF in.op \in {"destroy", "move"} /\ val[in.var] # 0 THEN "terminate"
         ELSE IF in.op = "join" /\ val[in.var] = 0 THEN "terminate" ELSE None

Fail(t) ==
    /\ error = None
    /\ Wrong(t) # None
    /\ error' = Wrong(t)
    /\ UNCHANGED <<test, val, held, waits, reg, pc>>

AllEnded == \A t \in Threads : pc[t] = 0 \/ Ended(t)

\* m is not to be had, and not because a thread holds it on its way to sleep.
Taken(t, m, op) ==
    /\ ~MayHold(t, m, op)
    /\ \E u \in Threads : held[m][u] # 0 /\ (Ended(u) \/ Instr(u).op # "wait")

\* t waits for a mutex, a future, a thread or a notification.  One that wakes for
\* no reason goes back to sleep.
Blocked(t) ==
    IF pc[t] = 0 \/ Ended(t) THEN TRUE
    ELSE LET in == Instr(t) IN
         \/ in.op = "wait" /\ ~Holds(in.any)
         \/ waits[t] \notin {None, "woken"} /\ in.op # "sleep_for"
         \/ waits[t] = "woken" /\ \E m \in in.mutexes : Taken(t, m, "lock")
         \/ /\ in.op \in {"lock", "lock_shared", "lock_recursive"}
            /\ \E m \in in.mutexes : Taken(t, m, in.op)
         \/ in.op = "await" /\ val[in.var] = 0
         \/ in.op = "join" /\ val[in.var] # 0 /\ ~Ended(val[in.var])

Deadlock ==
    /\ error = None
    /\ ~AllEnded
    /\ \A t \in Threads : Blocked(t)
    /\ error' = "deadlock"
    /\ UNCHANGED <<test, val, held, waits, reg, pc>>

Terminating == (error # None \/ AllEnded) /\ UNCHANGED vars

Next ==
    \/ \E t \in Threads : Step(t) \/ Fail(t) \/ SpuriousWakeup(t)
    \/ Deadlock
    \/ Terminating

Spec == Init /\ [][Next]_vars
=============================================================================
