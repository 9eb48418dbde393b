----------------------------- MODULE MCMonitors -----------------------------
(***************************************************************************)
(* One instance for the components that block on a condition variable      *)
(* under one mutex: the thread pool, mutex_queue and waitable_stack.  A    *)
(* behaviour picks one of them in its first state and runs that one; the   *)
(* others keep their initial states.  No symmetry: the run checks liveness. *)
(***************************************************************************)
EXTENDS ThreadPool, TLC

CONSTANTS Threads, Values, MaxLen       \* of the two containers

VARIABLES which, c_data, c_pc

container == IF which = "pool" THEN "mutex_queue" ELSE which
c_vars == <<c_data, c_pc>>

Container ==
    INSTANCE MutexQueue WITH
        MayThrow <- {"waitable_stack"}, data_ <- c_data, pc <- c_pc

ASSUME ContainerConstants == Container!ConstantsAssumption

MonitorsInit ==
    which \in {"pool"} \cup Container!Containers /\ Init /\ Container!Init

PoolStep == which = "pool" /\ Next /\ UNCHANGED <<which, c_vars>>
ContainerStep == which # "pool" /\ UNCHANGED <<which, vars>> /\ Container!Next

\* The pool's life ends with its destructor or with std::terminate.
PoolEnded ==
    /\ which = "pool"
    /\ owner = "gone" \/ terminated
    /\ UNCHANGED <<which, vars, c_vars>>

MonitorsNext == PoolStep \/ ContainerStep \/ PoolEnded

\* The fairness of each component, of the one that runs.
MonitorsFairness ==
    /\ WF_vars(which = "pool" /\ OwnerNotify)
    /\ WF_vars(which = "pool" /\ OwnerShutdown)
    /\ \A w \in Workers : WF_vars(which = "pool" /\ WorkerStep(w))
    /\ \A t \in Threads :
        WF_c_vars(which = "mutex_queue" /\ (Container!Wait(t) \/ Container!Pop(t)))

MonitorsSpec ==
    /\ MonitorsInit
    /\ [][MonitorsNext]_<<which, vars, c_vars>>
    /\ MonitorsFairness

-----------------------------------------------------------------------------
\* mutex_queue: no thread stays blocked next to a value.
QueueWaiterWakes == Container!WaiterWakes

\* waitable_stack: only an exception loses a wakeup.
StackOnlyThrowsLoseWakeups == Container!OnlyThrowsLoseWakeups
=============================================================================
