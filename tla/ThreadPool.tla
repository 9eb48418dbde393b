----------------------------- MODULE ThreadPool -----------------------------
(***************************************************************************)
(* src/thread_pool.h: a fixed set of workers that share one queue, one     *)
(* mutex and one condition variable.  The owner of the pool submits tasks  *)
(* and destroys the pool; a running task may submit further tasks (the     *)
(* mutex is not held while a task runs).                                   *)
(*                                                                         *)
(* Everything between taking mtx and giving it back (by unlock or by       *)
(* condition.wait) is one step: all the state it reads and writes is       *)
(* touched under mtx only.                                                 *)
(***************************************************************************)
EXTENDS Naturals, Sequences, FiniteSets

CONSTANTS
    Workers,        \* the threads of the pool
    Tasks,          \* the tasks that may ever be submitted, each once (bound)
    None            \* no task

ASSUME ConstantsAssumption ==
    /\ IsFiniteSet(Workers)
    /\ Workers # {}
    /\ None \notin Tasks

VARIABLES
    tasks,          \* the queue
    stop,
    pc,             \* per worker: "loop" (about to take mtx), "waiting" (in
                    \* condition.wait), "run", "notify" (in a submit of the
                    \* task it runs), "exited"
    task,           \* per worker: the task it runs
    owner,          \* "idle", "notify" (in submit), "shutdown", "join", "gone"
    submitted,      \* tasks accepted so far
    done,           \* tasks that have returned
    terminated      \* std::terminate was called

vars == <<tasks, stop, pc, task, owner, submitted, done, terminated>>

Init ==
    /\ tasks = <<>>
    /\ stop = FALSE
    /\ pc = [w \in Workers |-> "loop"]
    /\ task = [w \in Workers |-> None]
    /\ owner = "idle"
    /\ submitted = {}
    /\ done = {}
    /\ terminated = FALSE

Goto(w, from, to) ==
    /\ ~terminated
    /\ pc[w] = from
    /\ pc' = [pc EXCEPT ![w] = to]

OwnerGoto(from, to) ==
    /\ ~terminated
    /\ owner = from
    /\ owner' = to

At(l) == {w \in Workers : pc[w] = l}

-----------------------------------------------------------------------------
\* submit, up to the end of its block
Enqueue(x) ==
    /\ x \notin submitted
    /\ submitted' = submitted \cup {x}
    /\ tasks' = Append(tasks, x)

OwnerSubmit(x) ==
    /\ OwnerGoto("idle", "notify")
    /\ Enqueue(x)
    /\ UNCHANGED <<stop, pc, task, done, terminated>>

\* The bug of not looking at stop in submit.
TaskSubmit_NoStopCheck(w, x) ==
    /\ Goto(w, "run", "notify")
    /\ Enqueue(x)
    /\ UNCHANGED <<stop, task, owner, done, terminated>>

\* A running task calls submit before shutdown.
TaskSubmit(w, x) ==
    /\ Goto(w, "run", "notify")
    /\ ~stop
    /\ Enqueue(x)
    /\ UNCHANGED <<stop, task, owner, done, terminated>>

\* A running task calls submit after shutdown began: the exception leaves
\* work_loop, and with it the thread.
TaskSubmitThrows(w) ==
    /\ pc[w] = "run"
    /\ ~terminated
    /\ stop
    /\ terminated' = TRUE
    /\ UNCHANGED <<tasks, stop, pc, task, owner, submitted, done>>

\* condition.notify_one(), seen by the workers: one of those that wait, if any,
\* comes back; p is the program counters of the others.
NotifyOne(p) ==
    \/ At("waiting") = {} /\ pc' = p
    \/ \E w \in At("waiting") : pc' = [p EXCEPT ![w] = "loop"]

\* The bug of a submit that does not notify.
OwnerNotify_Missing ==
    /\ OwnerGoto("notify", "idle")
    /\ UNCHANGED <<tasks, stop, pc, task, submitted, done, terminated>>

OwnerNotify ==
    /\ OwnerGoto("notify", "idle")
    /\ NotifyOne(pc)
    /\ UNCHANGED <<tasks, stop, task, submitted, done, terminated>>

TaskNotify(w) ==
    /\ ~terminated
    /\ pc[w] = "notify"
    /\ NotifyOne([pc EXCEPT ![w] = "run"])
    /\ UNCHANGED <<tasks, stop, task, owner, submitted, done, terminated>>

-----------------------------------------------------------------------------
\* The predicate of the wait holds and there is a task.
TakeTask(w) ==
    /\ tasks # <<>>
    /\ Goto(w, "loop", "run")
    /\ task' = [task EXCEPT ![w] = Head(tasks)]
    /\ tasks' = Tail(tasks)
    /\ UNCHANGED <<stop, owner, submitted, done, terminated>>

Wait(w) ==
    /\ ~stop /\ tasks = <<>>
    /\ Goto(w, "loop", "waiting")
    /\ UNCHANGED <<tasks, stop, task, owner, submitted, done, terminated>>

\* A wait may return without a notification; the predicate is looked at again.
SpuriousWakeup(w) ==
    /\ Goto(w, "waiting", "loop")
    /\ UNCHANGED <<tasks, stop, task, owner, submitted, done, terminated>>

\* The bug of leaving as soon as stop is set.
ExitLoop_StopOnly(w) ==
    /\ stop
    /\ Goto(w, "loop", "exited")
    /\ UNCHANGED <<tasks, stop, task, owner, submitted, done, terminated>>

ExitLoop(w) ==
    /\ stop /\ tasks = <<>>
    /\ Goto(w, "loop", "exited")
    /\ UNCHANGED <<tasks, stop, task, owner, submitted, done, terminated>>

\* task() returns
FinishTask(w) ==
    /\ Goto(w, "run", "loop")
    /\ done' = done \cup {task[w]}
    /\ task' = [task EXCEPT ![w] = None]
    /\ UNCHANGED <<tasks, stop, owner, submitted, terminated>>

-----------------------------------------------------------------------------
\* shutdown, called by the destructor
SetStop ==
    /\ OwnerGoto("idle", "shutdown")
    /\ stop' = TRUE
    /\ UNCHANGED <<tasks, pc, task, submitted, done, terminated>>

\* The bug of waking one worker only.
NotifyAll_One ==
    /\ OwnerGoto("shutdown", "join")
    /\ NotifyOne(pc)
    /\ UNCHANGED <<tasks, stop, task, submitted, done, terminated>>

\* condition.notify_all()
NotifyAll ==
    /\ OwnerGoto("shutdown", "join")
    /\ pc' = [w \in Workers |-> IF pc[w] = "waiting" THEN "loop" ELSE pc[w]]
    /\ UNCHANGED <<tasks, stop, task, submitted, done, terminated>>

\* the joins of all workers, and the end of the pool's members
Join ==
    /\ OwnerGoto("join", "gone")
    /\ \A w \in Workers : pc[w] = "exited"
    /\ UNCHANGED <<tasks, stop, pc, task, submitted, done, terminated>>

-----------------------------------------------------------------------------
\* One turn of a worker, and what the task it runs does.
WorkerStep(w) ==
    \/ TakeTask(w) \/ Wait(w) \/ ExitLoop(w) \/ FinishTask(w)
    \/ \E x \in Tasks : TaskSubmit(w, x)
    \/ TaskNotify(w)

OwnerShutdown == NotifyAll \/ Join

Next ==
    \/ \E x \in Tasks : OwnerSubmit(x)
    \/ OwnerNotify
    \/ SetStop
    \/ OwnerShutdown
    \/ \E w \in Workers : WorkerStep(w) \/ SpuriousWakeup(w) \/ TaskSubmitThrows(w)

Spec == Init /\ [][Next]_vars

\* The scheduler runs every thread, and every task returns.  Nothing makes the
\* owner submit or shut down, and nothing makes a wait return spuriously.
Fairness ==
    /\ WF_vars(OwnerNotify)
    /\ WF_vars(OwnerShutdown)
    /\ \A w \in Workers : WF_vars(WorkerStep(w))

FairSpec == Spec /\ Fairness

-----------------------------------------------------------------------------
TypeOK ==
    /\ tasks \in Seq(Tasks)
    /\ stop \in BOOLEAN
    /\ pc \in [Workers -> {"loop", "waiting", "run", "notify", "exited"}]
    /\ task \in [Workers -> Tasks \cup {None}]
    /\ owner \in {"idle", "notify", "shutdown", "join", "gone"}
    /\ submitted \subseteq Tasks
    /\ done \subseteq Tasks
    /\ terminated \in BOOLEAN

\* Workers that sleep are not needed (lines 18-25 against 32-36): while some
\* worker waits, every queued task has a worker on its way to the queue or a
\* notification still to be sent.  In particular no wakeup is ever lost.
PendingNotifications ==
    Cardinality(At("notify")) + (IF owner = "notify" THEN 1 ELSE 0)

SleepersNotNeeded ==
    At("waiting") # {} => Len(tasks) <= Cardinality(At("loop")) + PendingNotifications

\* The destructor drains the queue (lines 37-39 and 50-60): when it returns, no
\* worker is left in the pool's members and every accepted task has returned.
DrainedWhenGone ==
    owner = "gone" =>
        /\ \A w \in Workers : pc[w] = "exited"
        /\ done = submitted

\* What DrainedWhenGone rests on: a worker leaves only after stop is set and
\* the queue is empty, and then the queue stays empty because submit refuses;
\* an accepted task is queued, being run, or has returned.
Queued(x) == \E i \in DOMAIN tasks : tasks[i] = x

Accounted ==
    /\ \A x \in submitted :
        \/ x \in done
        \/ Queued(x)
        \/ \E w \in Workers : pc[w] \in {"run", "notify"} /\ task[w] = x
    /\ \A w \in Workers : task[w] # None => task[w] \in submitted
    /\ \A i \in DOMAIN tasks : tasks[i] \in submitted
    /\ done \subseteq submitted

StoppedWhenLeft ==
    /\ owner \in {"shutdown", "join", "gone"} <=> stop
    /\ \A w \in Workers : pc[w] = "exited" => stop /\ tasks = <<>>
    /\ \A w \in Workers : pc[w] \in {"run", "notify"} <=> task[w] # None
    /\ owner = "gone" => \A w \in Workers : pc[w] = "exited"

IInv == TypeOK /\ StoppedWhenLeft /\ Accounted

\* Every accepted task is run, whether or not the pool is shut down meanwhile
\* (lines 28-46), unless a task throws.
EveryTaskRuns == \A x \in Tasks : x \in submitted ~> x \in done \/ terminated

\* The destructor returns (lines 50-60), unless a task throws.
ShutdownReturns == stop ~> owner = "gone" \/ terminated
=============================================================================
