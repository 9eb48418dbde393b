--------------------------- MODULE MonitorsProofs ---------------------------
(***************************************************************************)
(* Proof, for every number of workers and every set of tasks, that the     *)
(* destructor of ThreadPool returns only when all accepted tasks have, and *)
(* that no worker sleeps while a task needs it.  Then, for every number of *)
(* callers of mutex_queue and of waitable_stack, that only an exception    *)
(* can leave a thread asleep next to a value.  Then what MCMonitors has of *)
(* both.                                                                   *)
(***************************************************************************)
EXTENDS MCMonitors, SequenceTheorems, FiniteSetTheorems, TLAPS

\* tasks.emplace: what was queued still is, and so is the new task.
LEMMA EnqueueQueues ==
    ASSUME tasks \in Seq(Tasks), NEW x \in Tasks, tasks' = Append(tasks, x)
    PROVE  /\ tasks' \in Seq(Tasks)
           /\ Queued(x)'
           /\ \A y : Queued(y) => Queued(y)'
           /\ \A i \in DOMAIN tasks' : tasks'[i] = x \/ Queued(tasks'[i])
<1>1. /\ tasks' \in Seq(Tasks)
      /\ Len(tasks') = Len(tasks) + 1
      /\ \A i \in 1 .. Len(tasks) : tasks'[i] = tasks[i]
      /\ tasks'[Len(tasks) + 1] = x
    BY AppendProperties
<1>2. Len(tasks) \in Nat /\ DOMAIN tasks = 1 .. Len(tasks)
    BY LenProperties
<1>3. DOMAIN tasks' = 1 .. Len(tasks) + 1
    BY <1>1, LenProperties
<1>4. \A i \in DOMAIN tasks : i \in DOMAIN tasks' /\ tasks'[i] = tasks[i]
    BY <1>1, <1>2, <1>3
<1>5. \A i \in DOMAIN tasks' : i \in DOMAIN tasks \/ i = Len(tasks) + 1
    BY <1>2, <1>3
<1>6. Len(tasks) + 1 \in DOMAIN tasks'
    BY <1>2, <1>3
<1>7. QED
    BY <1>1, <1>4, <1>5, <1>6 DEF Queued

\* tasks.front() and tasks.pop(): a task that was queued is the one taken or
\* still queued.
LEMMA DequeueTakesOne ==
    ASSUME tasks \in Seq(Tasks), tasks # <<>>, tasks' = Tail(tasks)
    PROVE  /\ tasks' \in Seq(Tasks)
           /\ Head(tasks) \in Tasks
           /\ Queued(Head(tasks))
           /\ \A y : Queued(y) => y = Head(tasks) \/ Queued(y)'
           /\ \A i \in DOMAIN tasks' : Queued(tasks'[i])
<1>1. /\ Head(tasks) \in Tasks
      /\ tasks' \in Seq(Tasks)
      /\ Len(tasks) \in Nat /\ Len(tasks) >= 1
      /\ Len(tasks') = Len(tasks) - 1
      /\ \A i \in 1 .. Len(tasks') : tasks'[i] = tasks[i + 1]
    BY HeadTailProperties, EmptySeq, LenProperties
<1>2. DOMAIN tasks = 1 .. Len(tasks) /\ DOMAIN tasks' = 1 .. Len(tasks')
    BY <1>1, LenProperties
<1>3. Head(tasks) = tasks[1]
    OBVIOUS
<1>4. 1 \in DOMAIN tasks
    BY <1>1, <1>2
<1>5. \A i \in DOMAIN tasks' : i + 1 \in DOMAIN tasks /\ tasks'[i] = tasks[i + 1]
    BY <1>1, <1>2
<1>6. ASSUME NEW i \in DOMAIN tasks
      PROVE  i = 1 \/ (i - 1 \in DOMAIN tasks' /\ tasks'[i - 1] = tasks[i])
    BY <1>1, <1>2
<1>7. QED
    BY <1>1, <1>3, <1>4, <1>5, <1>6 DEF Queued
-----------------------------------------------------------------------------
\* A new pool satisfies the invariant.
LEMMA InitIInv == Init => IInv
<1>1. ASSUME Init PROVE TypeOK
    BY <1>1, EmptySeq DEF Init, TypeOK
<1>2. ASSUME Init PROVE StoppedWhenLeft
    BY <1>2, ConstantsAssumption DEF Init, StoppedWhenLeft
<1>3. ASSUME Init PROVE Accounted
    BY <1>3 DEF Init, Accounted
<1>4. QED
    BY <1>1, <1>2, <1>3 DEF IInv

\* An accepted task joins the queue, in a pool that is not stopped; nobody has
\* left the pool yet.
LEMMA EnqueueIInv ==
    ASSUME IInv, ~stop, NEW x \in Tasks, Enqueue(x), UNCHANGED <<stop, task, done>>,
           pc' \in [Workers -> {"loop", "waiting", "run", "notify", "exited"}],
           owner' \in {"idle", "notify"},
           \A w \in Workers :
                /\ pc[w] = "exited" <=> pc'[w] = "exited"
                /\ pc[w] \in {"run", "notify"} <=> pc'[w] \in {"run", "notify"},
           terminated' = terminated
    PROVE  IInv'
<1> USE DEF IInv
<1>1. /\ tasks' \in Seq(Tasks)
      /\ Queued(x)'
      /\ \A y : Queued(y) => Queued(y)'
      /\ \A i \in DOMAIN tasks' : tasks'[i] = x \/ Queued(tasks'[i])
    BY EnqueueQueues DEF Enqueue, TypeOK
<1>2. TypeOK'
    BY <1>1 DEF TypeOK, Enqueue
<1>3. StoppedWhenLeft'
    BY DEF StoppedWhenLeft, TypeOK
<1>4. Accounted'
    <2>1. \A i \in DOMAIN tasks' : tasks'[i] \in submitted'
        BY <1>1 DEF Accounted, Queued, Enqueue
    <2>2. ASSUME NEW y \in submitted'
          PROVE  \/ y \in done'
                 \/ Queued(y)'
                 \/ \E w \in Workers : pc'[w] \in {"run", "notify"} /\ task'[w] = y
        BY <1>1, <2>2 DEF Accounted, Enqueue
    <2>3. \A w \in Workers : task'[w] # None => task'[w] \in submitted'
        BY DEF Accounted, Enqueue
    <2>4. done' \subseteq submitted'
        BY DEF Accounted, Enqueue
    <2>5. QED
        BY <2>1, <2>2, <2>3, <2>4 DEF Accounted
<1>5. QED
    BY <1>2, <1>3, <1>4

\* Steps that touch neither the queue nor a task, and let nobody leave.
LEMMA ControlIInv ==
    ASSUME IInv, UNCHANGED <<tasks, task, submitted, done>>,
           pc' \in [Workers -> {"loop", "waiting", "run", "notify", "exited"}],
           stop' \in BOOLEAN, terminated' \in BOOLEAN,
           owner' \in {"idle", "notify", "shutdown", "join"},
           owner' \in {"shutdown", "join"} <=> stop',
           stop => stop',
           \A w \in Workers :
                /\ pc'[w] = "exited" => pc[w] = "exited"
                /\ pc[w] \in {"run", "notify"} <=> pc'[w] \in {"run", "notify"}
    PROVE  IInv'
BY DEF IInv, TypeOK, StoppedWhenLeft, Accounted, Queued

\* A worker takes the front task (lines 40-43): the task moves from the queue
\* into the hands of a worker that had none.
LEMMA TakeTaskIInv == ASSUME IInv, NEW w \in Workers, TakeTask(w) PROVE IInv'
<1>1. /\ tasks' \in Seq(Tasks)
      /\ Head(tasks) \in Tasks
      /\ Queued(Head(tasks))
      /\ \A y : Queued(y) => y = Head(tasks) \/ Queued(y)'
      /\ \A i \in DOMAIN tasks' : Queued(tasks'[i])
    BY DequeueTakesOne DEF IInv, TypeOK, TakeTask
<1>2. pc[w] = "loop" /\ task[w] = None
    BY DEF IInv, TypeOK, StoppedWhenLeft, TakeTask, Goto
<1>3. TypeOK'
    BY <1>1 DEF IInv, TypeOK, TakeTask, Goto
<1>4. Head(tasks) # None
    BY <1>1, ConstantsAssumption
<1>5. StoppedWhenLeft'
    BY <1>2, <1>4 DEF IInv, TypeOK, StoppedWhenLeft, TakeTask, Goto
<1>6. Accounted'
    <2>1. task' = [task EXCEPT ![w] = Head(tasks)] /\ task \in [Workers -> Tasks \cup {None}]
        BY DEF IInv, TypeOK, TakeTask
    <2>2. pc' = [pc EXCEPT ![w] = "run"] /\ DOMAIN pc = Workers
        BY DEF IInv, TypeOK, TakeTask, Goto
    <2>3. ASSUME NEW y \in submitted
          PROVE  \/ y \in done
                 \/ Queued(y)'
                 \/ \E u \in Workers : pc'[u] \in {"run", "notify"} /\ task'[u] = y
        <3>1. CASE y = Head(tasks)
            BY <2>1, <2>2, <3>1
        <3>2. CASE \E u \in Workers : pc[u] \in {"run", "notify"} /\ task[u] = y
            BY <1>2, <2>1, <2>2, <3>2
        <3>3. QED
            BY <1>1, <3>1, <3>2 DEF IInv, Accounted
    <2>4. Head(tasks) \in submitted /\ \A i \in DOMAIN tasks' : tasks'[i] \in submitted
        BY <1>1 DEF IInv, Accounted, Queued
    <2>5. \A u \in Workers : task'[u] # None => task'[u] \in submitted
        BY <2>1, <2>4 DEF IInv, Accounted
    <2>6. submitted' = submitted /\ done' = done
        BY DEF TakeTask
    <2>7. QED
        BY <2>3, <2>4, <2>5, <2>6 DEF IInv, Accounted
<1>7. QED
    BY <1>3, <1>5, <1>6 DEF IInv

\* A task returns (lines 44-45): it goes from the hands of its worker to the
\* tasks done.
LEMMA FinishTaskIInv == ASSUME IInv, NEW w \in Workers, FinishTask(w) PROVE IInv'
<1> USE DEF IInv, FinishTask, Goto
<1>1. task[w] # None /\ task[w] \in Tasks /\ task[w] \in submitted
    BY DEF TypeOK, StoppedWhenLeft, Accounted
<1>2. TypeOK'
    BY <1>1 DEF TypeOK
<1>3. StoppedWhenLeft'
    BY DEF TypeOK, StoppedWhenLeft
<1>4. Accounted'
    BY <1>1 DEF TypeOK, Accounted, Queued
<1>5. QED
    BY <1>2, <1>3, <1>4

\* A worker leaves (lines 38-40): stop is set and the queue is empty.
LEMMA ExitLoopIInv == ASSUME IInv, NEW w \in Workers, ExitLoop(w) PROVE IInv'
BY DEF IInv, TypeOK, StoppedWhenLeft, Accounted, Queued, ExitLoop, Goto

\* notify_one moves at most one sleeper back to the loop.
LEMMA NotifyOneMoves ==
    ASSUME NEW p \in [Workers -> {"loop", "waiting", "run", "notify", "exited"}],
           \A w \in Workers : p[w] = "waiting" <=> pc[w] = "waiting",
           NotifyOne(p)
    PROVE  /\ pc' \in [Workers -> {"loop", "waiting", "run", "notify", "exited"}]
           /\ \A w \in Workers :
                /\ pc'[w] = "exited" <=> p[w] = "exited"
                /\ pc'[w] \in {"run", "notify"} <=> p[w] \in {"run", "notify"}
BY DEF NotifyOne, At

-----------------------------------------------------------------------------
\* Every step of the owner and of the workers keeps the invariant.
LEMMA StepIInv == IInv /\ [Next]_vars => IInv'
<1> SUFFICES ASSUME IInv, [Next]_vars PROVE IInv'
    OBVIOUS
<1> DEFINE PCs == [Workers -> {"loop", "waiting", "run", "notify", "exited"}]
<1>0. pc \in PCs /\ owner \in {"idle", "notify", "shutdown", "join", "gone"}
      /\ (owner \in {"shutdown", "join", "gone"} <=> stop)
      /\ stop \in BOOLEAN /\ terminated \in BOOLEAN
    BY DEF IInv, TypeOK, StoppedWhenLeft
<1>1. ASSUME NEW x \in Tasks, OwnerSubmit(x) PROVE IInv'
    BY <1>0, <1>1, EnqueueIInv DEF OwnerSubmit, OwnerGoto, IInv, TypeOK
<1>2. CASE OwnerNotify
    <2>1. NotifyOne(pc) /\ owner' = "idle" /\ ~stop
          /\ UNCHANGED <<tasks, stop, task, submitted, done, terminated>>
        BY <1>0, <1>2 DEF OwnerNotify, OwnerGoto
    <2>2. pc' \in PCs /\ \A w \in Workers :
                /\ pc'[w] = "exited" <=> pc[w] = "exited"
                /\ pc'[w] \in {"run", "notify"} <=> pc[w] \in {"run", "notify"}
        BY <1>0, <2>1, NotifyOneMoves
    <2>3. QED
        BY <1>0, <2>1, <2>2, ControlIInv
<1>3. CASE SetStop
    BY <1>0, <1>3, ControlIInv DEF SetStop, OwnerGoto
<1>4. CASE NotifyAll
    BY <1>0, <1>4, ControlIInv DEF NotifyAll, OwnerGoto
<1>5. CASE Join
    BY <1>5 DEF Join, OwnerGoto, IInv, TypeOK, StoppedWhenLeft, Accounted, Queued
<1>6. ASSUME NEW w \in Workers, NEW x \in Tasks, TaskSubmit(w, x) PROVE IInv'
    <2>1. pc' \in PCs /\ \A u \in Workers :
                /\ pc[u] = "exited" <=> pc'[u] = "exited"
                /\ pc[u] \in {"run", "notify"} <=> pc'[u] \in {"run", "notify"}
        BY <1>0, <1>6 DEF TaskSubmit, Goto
    <2>2. owner' \in {"idle", "notify"}
        BY <1>0, <1>6 DEF TaskSubmit
    <2>3. QED
        BY <1>6, <2>1, <2>2, EnqueueIInv DEF TaskSubmit
<1>7. ASSUME NEW w \in Workers, TaskNotify(w) PROVE IInv'
    <2>1. PICK p : p = [pc EXCEPT ![w] = "run"]
        OBVIOUS
    <2>2. NotifyOne(p) /\ pc[w] = "notify"
          /\ UNCHANGED <<tasks, stop, task, owner, submitted, done, terminated>>
        BY <1>7, <2>1 DEF TaskNotify
    <2>3. p \in PCs /\ \A u \in Workers :
                /\ p[u] = "waiting" <=> pc[u] = "waiting"
                /\ p[u] = "exited" <=> pc[u] = "exited"
                /\ p[u] \in {"run", "notify"} <=> pc[u] \in {"run", "notify"}
        BY <1>0, <2>1, <2>2
    <2>4. pc' \in PCs /\ \A u \in Workers :
                /\ pc'[u] = "exited" <=> pc[u] = "exited"
                /\ pc'[u] \in {"run", "notify"} <=> pc[u] \in {"run", "notify"}
        BY <2>2, <2>3, NotifyOneMoves
    <2>5. CASE owner = "gone"
        BY <1>0, <2>2, <2>5 DEF IInv, StoppedWhenLeft
    <2>6. QED
        BY <1>0, <2>2, <2>4, <2>5, ControlIInv
<1>8. ASSUME NEW w \in Workers, Wait(w) \/ SpuriousWakeup(w) PROVE IInv'
    <2>1. CASE owner = "gone"
        BY <1>0, <1>8, <2>1 DEF IInv, StoppedWhenLeft, Wait, SpuriousWakeup, Goto
    <2>2. QED
        BY <1>0, <1>8, <2>1, ControlIInv DEF Wait, SpuriousWakeup, Goto
<1>9. ASSUME NEW w \in Workers, TaskSubmitThrows(w) PROVE IInv'
    BY <1>9 DEF TaskSubmitThrows, IInv, TypeOK, StoppedWhenLeft, Accounted, Queued
<1>10. CASE UNCHANGED vars
    BY <1>10 DEF vars, IInv, TypeOK, StoppedWhenLeft, Accounted, Queued
<1>11. QED
    BY <1>1, <1>2, <1>3, <1>4, <1>5, <1>6, <1>7, <1>8, <1>9, <1>10,
       TakeTaskIInv, FinishTaskIInv, ExitLoopIInv
    DEF Next, OwnerShutdown, WorkerStep

\* The destructor cannot return over a queued or running task: some worker
\* left last, it left an empty queue, and no worker holds a task.
LEMMA IInvDrained == IInv => DrainedWhenGone
<1> SUFFICES ASSUME IInv, owner = "gone"
             PROVE  (\A w \in Workers : pc[w] = "exited") /\ done = submitted
    BY DEF DrainedWhenGone
<1>1. \A w \in Workers : pc[w] = "exited"
    BY DEF IInv, StoppedWhenLeft
<1>2. tasks = <<>>
    BY <1>1, ConstantsAssumption DEF IInv, StoppedWhenLeft
<1>3. \A x \in submitted : x \in done
    BY <1>1, <1>2 DEF IInv, Accounted, Queued
<1>4. QED
    BY <1>1, <1>3 DEF IInv, Accounted

\* The invariant holds in every state of the pool.
THEOREM Invariance == Spec => []IInv
<1>1. QED
    BY InitIInv, StepIInv, PTL DEF Spec

\* With any number of workers and tasks, when the destructor (lines 14-16 and
\* 50-61) returns, every accepted task has returned and every thread is gone.
THEOREM Drained == Spec => []DrainedWhenGone
<1>1. QED
    BY Invariance, IInvDrained, PTL

-----------------------------------------------------------------------------
PCs == {"loop", "waiting", "run", "notify", "exited"}

\* The workers that come to the queue, or to a notification, before they sleep.
Active == {"loop", "notify"}
Waiting(p) == {w \in Workers : p[w] = "waiting"}
Arriving(p) == {w \in Workers : p[w] \in Active}

\* With the notification of the owner, those SleepersNotNeeded counts.
Coming(p, o) == Cardinality(Arriving(p)) + (IF o = "notify" THEN 1 ELSE 0)

\* SleepersNotNeeded, with the two kinds of workers counted together.
EnoughComing == Waiting(pc) # {} => Len(tasks) <= Coming(pc, owner)

\* The workers, and so those who arrive, are finitely many.
LEMMA ArrivingFinite ==
    ASSUME NEW p
    PROVE  IsFiniteSet(Arriving(p)) /\ Cardinality(Arriving(p)) \in Nat
<1>1. Arriving(p) \subseteq Workers
    BY DEF Arriving
<1>2. IsFiniteSet(Arriving(p))
    BY <1>1, ConstantsAssumption, FS_Subset
<1>3. QED
    BY <1>2, FS_CardinalityType

\* The workers and notifications on their way are finitely many.
LEMMA ComingIsNumber == ASSUME NEW p, NEW o PROVE Coming(p, o) \in Nat
BY ArrivingFinite DEF Coming

\* The two places counted apart are those counted together.
LEMMA SleepersCounted ==
    SleepersNotNeeded <=> EnoughComing
<1>1. /\ At("loop") \subseteq Workers /\ At("notify") \subseteq Workers
      /\ At("loop") \cap At("notify") = {}
      /\ At("loop") \cup At("notify") = Arriving(pc)
      /\ At("waiting") = Waiting(pc)
    BY DEF At, Arriving, Active, Waiting
<1>2. IsFiniteSet(At("loop")) /\ IsFiniteSet(At("notify"))
    BY <1>1, ConstantsAssumption, FS_Subset
<1>3. /\ Cardinality(At("loop")) \in Nat
      /\ Cardinality(At("notify")) \in Nat
    BY <1>2, FS_CardinalityType
<1>4. Cardinality(At("loop") \cup At("notify"))
        = Cardinality(At("loop")) + Cardinality(At("notify"))
            - Cardinality(At("loop") \cap At("notify"))
    BY <1>2, FS_Union
<1>5. Cardinality(At("loop") \cap At("notify")) = 0
    BY <1>1, FS_EmptySet
<1>6. Cardinality(Arriving(pc)) = Cardinality(At("loop") \cup At("notify"))
    BY <1>1, Zenon
<1>7. QED
    BY <1>1, <1>3, <1>4, <1>5, <1>6
    DEF SleepersNotNeeded, PendingNotifications, Coming, EnoughComing

\* What one worker that changes place does to the count.
Moves(p, w, from, to, q) == p[w] = from /\ q = [p EXCEPT ![w] = to]

\* A worker that moves changes that number by one at most.
LEMMA MovingCounts ==
    ASSUME NEW p \in [Workers -> PCs], NEW w \in Workers, NEW from, NEW to,
           NEW q, Moves(p, w, from, to, q), NEW o
    PROVE  /\ from \notin Active /\ to \in Active => Coming(q, o) = Coming(p, o) + 1
           /\ from \in Active /\ to \notin Active => Coming(q, o) = Coming(p, o) - 1
           /\ to # "waiting" => Waiting(q) \subseteq Waiting(p)
<1>1. to # "waiting" => Waiting(q) \subseteq Waiting(p)
    BY DEF Waiting, Moves
<1>2. IsFiniteSet(Arriving(p)) /\ Cardinality(Arriving(p)) \in Nat
    BY ArrivingFinite
<1>3. ASSUME from \notin Active, to \in Active
      PROVE  Coming(q, o) = Coming(p, o) + 1
    <2>1. Arriving(q) = Arriving(p) \cup {w} /\ w \notin Arriving(p)
        BY <1>3 DEF Arriving, Moves
    <2>2. Cardinality(Arriving(p) \cup {w}) = Cardinality(Arriving(p)) + 1
        BY <1>2, <2>1, FS_AddElement
    <2>3. Cardinality(Arriving(q)) = Cardinality(Arriving(p) \cup {w})
        BY <2>1, Zenon
    <2>4. QED
        BY <1>2, <2>2, <2>3 DEF Coming
<1>4. ASSUME from \in Active, to \notin Active
      PROVE  Coming(q, o) = Coming(p, o) - 1
    <2>1. Arriving(q) = Arriving(p) \ {w} /\ w \in Arriving(p)
        BY <1>4 DEF Arriving, Moves
    <2>2. Cardinality(Arriving(p) \ {w}) = Cardinality(Arriving(p)) - 1
        BY <1>2, <2>1, FS_RemoveElement
    <2>3. Cardinality(Arriving(q)) = Cardinality(Arriving(p) \ {w})
        BY <2>1, Zenon
    <2>4. QED
        BY <1>2, <2>2, <2>3 DEF Coming
<1>5. QED
    BY <1>1, <1>3, <1>4

\* The notification the owner still has to send counts one.
LEMMA OwnerCounts ==
    ASSUME NEW p
    PROVE  Coming(p, "notify") = Coming(p, "idle") + 1
BY ArrivingFinite DEF Coming

\* Of the owner only that notification counts.
LEMMA SameComing ==
    ASSUME NEW p, NEW o, NEW n, (o = "notify") <=> (n = "notify")
    PROVE  Coming(p, o) = Coming(p, n)
BY DEF Coming

\* notify_one: either nobody sleeps, or one more is on its way.
LEMMA NotifyOneCounts ==
    ASSUME NEW p \in [Workers -> PCs],
           \A w \in Workers : p[w] = "waiting" <=> pc[w] = "waiting",
           NotifyOne(p), NEW o
    PROVE  \/ Waiting(pc') = {}
           \/ /\ Coming(pc', o) = Coming(p, o) + 1
              /\ Waiting(pc) # {}
<1>1. CASE At("waiting") = {} /\ pc' = p
    BY <1>1 DEF At, Waiting
<1>2. ASSUME NEW w \in At("waiting"), pc' = [p EXCEPT ![w] = "loop"]
      PROVE  Coming(pc', o) = Coming(p, o) + 1 /\ Waiting(pc) # {}
    <2>1. w \in Workers /\ p[w] = "waiting" /\ pc[w] = "waiting"
        BY <1>2 DEF At
    <2>2. "waiting" \notin Active /\ "loop" \in Active
        BY DEF Active
    <2>3. Moves(p, w, "waiting", "loop", pc')
        BY <1>2, <2>1 DEF Moves
    <2>4. Coming(pc', o) = Coming(p, o) + 1
        BY <2>1, <2>2, <2>3, MovingCounts
    <2>5. QED
        BY <2>1, <2>4 DEF Waiting
<1>3. QED
    BY <1>1, <1>2 DEF NotifyOne

-----------------------------------------------------------------------------
\* Every step keeps the balance: a submit adds a task and a notification to come, a
\* notification becomes a worker that arrives, and whoever takes a task is one
\* less of both.  A worker goes to sleep or leaves only when the queue is empty.
LEMMA StepSleepers == IInv /\ SleepersNotNeeded /\ [Next]_vars => SleepersNotNeeded'
<1> SUFFICES ASSUME IInv, EnoughComing,
                    [Next]_vars, Waiting(pc') # {}
             PROVE  Len(tasks') <= Coming(pc', owner')
    <2>1. SleepersNotNeeded' <=> EnoughComing'
        BY SleepersCounted, PTL
    <2>2. QED
        BY <2>1, SleepersCounted DEF EnoughComing
<1>0. /\ pc \in [Workers -> PCs] /\ tasks \in Seq(Tasks) /\ Len(tasks) \in Nat
      /\ owner \in {"idle", "notify", "shutdown", "join", "gone"}
    BY LenProperties DEF IInv, TypeOK, PCs
<1> USE DEF EnoughComing
<1>00. Coming(pc, owner) \in Nat /\ Coming(pc', owner') \in Nat
    BY ComingIsNumber
<1>000. /\ "run" \notin Active /\ "waiting" \notin Active
        /\ "loop" \in Active /\ "notify" \in Active
    BY DEF Active
<1>1. ASSUME NEW x \in Tasks, OwnerSubmit(x) PROVE Len(tasks') <= Coming(pc', owner')
    <2>1. /\ tasks' = Append(tasks, x) /\ pc' = pc
          /\ owner = "idle" /\ owner' = "notify"
        BY <1>1 DEF OwnerSubmit, OwnerGoto, Enqueue
    <2>2. Len(tasks') = Len(tasks) + 1
        BY <1>0, <2>1, AppendProperties
    <2>3. Coming(pc', owner') = Coming(pc, owner) + 1
        BY <2>1, OwnerCounts
    <2>4. QED
        BY <1>0, <1>00, <2>1, <2>2, <2>3
<1>2. CASE OwnerNotify
    <2>1. /\ NotifyOne(pc) /\ owner = "notify" /\ owner' = "idle" /\ tasks' = tasks
        BY <1>2 DEF OwnerNotify, OwnerGoto
    <2>2. Coming(pc', "idle") = Coming(pc, "idle") + 1 /\ Waiting(pc) # {}
        BY <1>0, <2>1, NotifyOneCounts
    <2>3. QED
        BY <2>1, <2>2, OwnerCounts
<1>3. CASE SetStop \/ Join
    <2>1. /\ pc' = pc /\ tasks' = tasks
          /\ (owner = "notify") <=> (owner' = "notify")
        BY <1>3 DEF SetStop, Join, OwnerGoto
    <2>2. QED
        BY <2>1, SameComing
<1>4. CASE NotifyAll
    <2>1. \A w \in Workers : pc'[w] # "waiting"
        BY <1>4 DEF NotifyAll
    <2>2. QED
        BY <2>1 DEF Waiting
<1>5. ASSUME NEW w \in Workers, NEW x \in Tasks, TaskSubmit(w, x)
      PROVE  Len(tasks') <= Coming(pc', owner')
    <2>1. /\ tasks' = Append(tasks, x) /\ Moves(pc, w, "run", "notify", pc')
          /\ owner' = owner
        BY <1>5 DEF Moves, TaskSubmit, Goto, Enqueue
    <2>2. Len(tasks') = Len(tasks) + 1
        BY <1>0, <2>1, AppendProperties
    <2>3. Coming(pc', owner) = Coming(pc, owner) + 1
          /\ Waiting(pc') \subseteq Waiting(pc)
        BY <1>0, <1>000, <2>1, MovingCounts
    <2>4. QED
        BY <1>0, <1>00, <2>1, <2>2, <2>3
<1>6. ASSUME NEW w \in Workers, TaskNotify(w) PROVE Len(tasks') <= Coming(pc', owner')
    <2>1. PICK p : p = [pc EXCEPT ![w] = "run"]
        OBVIOUS
    <2>2. /\ NotifyOne(p) /\ Moves(pc, w, "notify", "run", p)
          /\ owner' = owner /\ tasks' = tasks
        BY <1>6, <2>1 DEF TaskNotify, Moves
    <2>3. /\ p \in [Workers -> PCs]
          /\ \A u \in Workers : p[u] = "waiting" <=> pc[u] = "waiting"
        BY <1>0, <2>1, <2>2 DEF PCs, Moves
    <2>4. Coming(p, owner) = Coming(pc, owner) - 1
        BY <1>0, <1>000, <2>1, <2>2, MovingCounts
    <2>5. Coming(pc', owner) = Coming(p, owner) + 1 /\ Waiting(pc) # {}
        BY <2>2, <2>3, NotifyOneCounts
    <2>6. QED
        BY <1>0, <1>00, <2>2, <2>4, <2>5
<1>7. ASSUME NEW w \in Workers, TakeTask(w) PROVE Len(tasks') <= Coming(pc', owner')
    <2>1. /\ tasks # <<>> /\ tasks' = Tail(tasks)
          /\ Moves(pc, w, "loop", "run", pc') /\ owner' = owner
        BY <1>7 DEF Moves, TakeTask, Goto
    <2>2. Len(tasks') = Len(tasks) - 1
        BY <1>0, <2>1, HeadTailProperties
    <2>3. Coming(pc', owner) = Coming(pc, owner) - 1
          /\ Waiting(pc') \subseteq Waiting(pc)
        BY <1>0, <1>000, <2>1, MovingCounts
    <2>4. QED
        BY <1>0, <1>00, <2>1, <2>2, <2>3
<1>8. ASSUME NEW w \in Workers, Wait(w) \/ ExitLoop(w)
      PROVE  Len(tasks') <= Coming(pc', owner')
    <2>1. tasks' = <<>>
        BY <1>8 DEF Wait, ExitLoop
    <2>2. QED
        BY <1>00, <2>1
<1>9. ASSUME NEW w \in Workers, SpuriousWakeup(w) \/ FinishTask(w)
      PROVE  Len(tasks') <= Coming(pc', owner')
    <2>1. /\ tasks' = tasks /\ owner' = owner
          /\ \/ Moves(pc, w, "waiting", "loop", pc')
             \/ Moves(pc, w, "run", "loop", pc')
        BY <1>9 DEF Moves, SpuriousWakeup, FinishTask, Goto
    <2>2. Coming(pc', owner) = Coming(pc, owner) + 1
          /\ Waiting(pc') \subseteq Waiting(pc)
        BY <1>0, <1>000, <2>1, MovingCounts
    <2>3. QED
        BY <1>0, <1>00, <2>1, <2>2
<1>10. CASE UNCHANGED vars \/ \E w \in Workers : TaskSubmitThrows(w)
    BY <1>10 DEF vars, TaskSubmitThrows
<1>11. QED
    BY <1>1, <1>2, <1>3, <1>4, <1>5, <1>6, <1>7, <1>8, <1>9, <1>10
    DEF Next, OwnerShutdown, WorkerStep

\* In a new pool nobody sleeps.
LEMMA InitSleepers == Init => SleepersNotNeeded
<1> SUFFICES ASSUME Init PROVE SleepersNotNeeded
    OBVIOUS
<1>1. At("waiting") = {}
    BY DEF Init, At
<1>2. QED
    BY <1>1 DEF SleepersNotNeeded

\* With any number of workers and tasks, no wakeup is lost (lines 18-25 against
\* 32-36): while a worker sleeps, each queued task has a worker that arrives or a
\* notification still to come.
THEOREM NoLostWakeup == Spec => []SleepersNotNeeded
<1>1. QED
    BY InitSleepers, StepSleepers, Invariance, PTL DEF Spec

-----------------------------------------------------------------------------
(* mutex_queue and waitable_stack *)

ContainerPCs == {"idle", "lock", "waiting"}

ContainerTypeOK ==
    /\ container \in Container!Containers
    /\ c_data \in Seq(Values)
    /\ c_pc \in [Threads -> ContainerPCs]

\* A caller that changes place; what comes of those at a place is At(l)'.
ContainerMoves(t, from, to) == t \in Threads /\ c_pc[t] = from /\ c_pc' = [c_pc EXCEPT ![t] = to]

\* SleepersNotNeeded of the container.
ContainerBalance ==
    Container!At("waiting") # {} => Len(c_data) <= Cardinality(Container!At("lock"))

\* Cardinality is what it is everywhere.
LEMMA ContainerFinite ==
    /\ Container!ConstantsAssumption => IsFiniteSet(Threads)
    /\ Container!SleepersNotNeeded <=> ContainerBalance
    /\ Container!SleepersNotNeeded' <=> ContainerBalance'
<1>1. Container!ConstantsAssumption => IsFiniteSet(Threads)
    BY DEF Container!ConstantsAssumption, Container!IsFiniteSet, IsFiniteSet
<1>2. Container!Cardinality(Container!At("lock")) = Cardinality(Container!At("lock"))
    BY DEF Container!Cardinality, Cardinality
<1>3. Container!Cardinality(Container!At("lock")') = Cardinality(Container!At("lock")')
    BY DEF Container!Cardinality, Cardinality
<1>4. QED
    BY <1>1, <1>2, <1>3 DEF Container!SleepersNotNeeded, ContainerBalance

-----------------------------------------------------------------------------
\* The callers at a place are finitely many.
LEMMA ContainerAtFinite ==
    ASSUME Container!ConstantsAssumption, NEW l
    PROVE  IsFiniteSet(Container!At(l)) /\ Cardinality(Container!At(l)) \in Nat
<1>1. Container!At(l) \subseteq Threads
    BY DEF Container!At
<1>2. IsFiniteSet(Container!At(l))
    BY <1>1, ContainerFinite, FS_Subset
<1>3. QED
    BY <1>2, FS_CardinalityType

\* Who comes to the mutex is one more there.
LEMMA ContainerComesToLock ==
    ASSUME Container!ConstantsAssumption, ContainerTypeOK, NEW t, NEW from, from # "lock",
           ContainerMoves(t, from, "lock")
    PROVE  /\ Cardinality(Container!At("lock")') = Cardinality(Container!At("lock")) + 1
           /\ Container!At("waiting")' \subseteq Container!At("waiting")
<1>1. /\ Container!At("lock")' = Container!At("lock") \cup {t} /\ t \notin Container!At("lock")
      /\ Container!At("waiting")' \subseteq Container!At("waiting")
    BY DEF Container!At, ContainerMoves, ContainerTypeOK
<1>2. Cardinality(Container!At("lock") \cup {t}) = Cardinality(Container!At("lock")) + 1
    BY <1>1, ContainerAtFinite, FS_AddElement
<1>3. Cardinality(Container!At("lock")') = Cardinality(Container!At("lock") \cup {t})
    BY <1>1, Zenon
<1>4. QED
    BY <1>1, <1>2, <1>3

\* Who leaves it with or without a value is one less there.
LEMMA ContainerLeavesLock ==
    ASSUME Container!ConstantsAssumption, ContainerTypeOK, NEW t, ContainerMoves(t, "lock",
           "idle")
    PROVE  /\ Cardinality(Container!At("lock")') = Cardinality(Container!At("lock")) - 1
           /\ Container!At("waiting")' = Container!At("waiting")
<1>1. /\ Container!At("lock")' = Container!At("lock") \ {t} /\ t \in Container!At("lock")
      /\ Container!At("waiting")' = Container!At("waiting")
    BY DEF Container!At, ContainerMoves, ContainerTypeOK
<1>2. Cardinality(Container!At("lock") \ {t}) = Cardinality(Container!At("lock")) - 1
    BY <1>1, ContainerAtFinite, FS_RemoveElement
<1>3. Cardinality(Container!At("lock")') = Cardinality(Container!At("lock") \ {t})
    BY <1>1, Zenon
<1>4. QED
    BY <1>1, <1>2, <1>3

\* A push makes the container one longer, at either end.
LEMMA ContainerPushLengthens ==
    ASSUME ContainerTypeOK, NEW t \in Threads, NEW v \in Values, Container!Push(t, v)
    PROVE  c_data' \in Seq(Values) /\ Len(c_data') = Len(c_data) + 1
<1>1. CASE container = "waitable_stack"
    <2>1. c_data' = <<v>> \o c_data /\ <<v>> \in Seq(Values) /\ Len(<<v>>) = 1
        BY <1>1 DEF Container!Push
    <2>2. c_data \in Seq(Values) /\ Len(c_data) \in Nat
        BY LenProperties DEF ContainerTypeOK
    <2>3. /\ <<v>> \o c_data \in Seq(Values)
          /\ Len(<<v>> \o c_data) = Len(<<v>>) + Len(c_data)
        BY <2>1, <2>2, ConcatProperties
    <2>4. QED
        BY <2>1, <2>2, <2>3
<1>2. CASE container # "waitable_stack"
    BY <1>2, AppendProperties DEF Container!Push, ContainerTypeOK
<1>3. QED
    BY <1>1, <1>2

-----------------------------------------------------------------------------
\* The constructors establish the types.
LEMMA ContainerInitTyped == Container!Init => ContainerTypeOK
BY EmptySeq DEF Container!Init, ContainerTypeOK, ContainerPCs

\* Every step preserves them.
LEMMA ContainerStepTyped ==
    ContainerTypeOK /\ [Container!Next]_(Container!vars) => ContainerTypeOK'
<1> SUFFICES ASSUME ContainerTypeOK, [Container!Next]_(Container!vars) PROVE ContainerTypeOK'
    OBVIOUS
<1> DEFINE Typed == c_data' \in Seq(Values) /\ c_pc' \in [Threads -> ContainerPCs]
<1> USE DEF ContainerTypeOK, ContainerPCs
<1>1. ASSUME NEW t \in Threads, NEW v \in Values, Container!Push(t, v) PROVE Typed
    BY <1>1, ContainerPushLengthens DEF Container!Push, Container!NotifyOne, Container!At
<1>2. ASSUME NEW t \in Threads, Container!TryPop(t) \/ Container!Pop(t) PROVE Typed
    <2>1. c_data # <<>> /\ c_data' = Tail(c_data)
        BY <1>2 DEF Container!TryPop, Container!Pop
    <2>2. c_data' \in Seq(Values)
        BY <2>1, HeadTailProperties
    <2>3. QED
        BY <1>2, <2>2 DEF Container!TryPop, Container!Pop
<1>3. ASSUME NEW t \in Threads,
             \/ Container!WaitAndPop(t) \/ Container!Wait(t)
             \/ Container!PopThrows(t) \/ Container!SpuriousWakeup(t)
      PROVE  Typed
    BY <1>3
    DEF Container!WaitAndPop, Container!Wait, Container!PopThrows, Container!SpuriousWakeup
<1>4. CASE UNCHANGED Container!vars
    BY <1>4 DEF Container!vars
<1> HIDE DEF Typed
<1>5. CASE Container!Next
    <2>1. Typed /\ container' = container
        BY <1>1, <1>2, <1>3, <1>5 DEF Container!Next
    <2>2. QED
        BY <2>1 DEF Typed
<1>6. QED
    BY <1>4, <1>5

\* Every step but a throw keeps the balance: a push adds a value and, if somebody
\* sleeps, a thread that comes to the mutex; a pop takes one of each, a try_pop a
\* value only; and a thread goes to sleep only when there is no value.
LEMMA ContainerStepSleepers ==
    ASSUME Container!ConstantsAssumption, ContainerTypeOK, ContainerBalance,
           [Container!Next]_(Container!vars),
           ~(\E t \in Threads : Container!PopThrows(t))
    PROVE  ContainerBalance'
<1> SUFFICES ASSUME Container!At("waiting")' # {}
             PROVE  Len(c_data') <= Cardinality(Container!At("lock")')
    BY DEF ContainerBalance
<1> USE DEF ContainerBalance
<1>0. Cardinality(Container!At("lock")) \in Nat /\ c_data \in Seq(Values) /\ Len(c_data) \in Nat
    BY ContainerAtFinite, LenProperties DEF ContainerTypeOK
<1>1. ASSUME NEW t \in Threads, NEW v \in Values, Container!Push(t, v)
      PROVE  Len(c_data') <= Cardinality(Container!At("lock")')
    <2>1. Len(c_data') = Len(c_data) + 1
        BY <1>1, ContainerPushLengthens
    <2>2. CASE Container!At("waiting") = {} /\ UNCHANGED c_pc
        BY <2>2 DEF Container!At
    <2>3. ASSUME NEW u \in Container!At("waiting"), c_pc' = [c_pc EXCEPT ![u] = "lock"]
          PROVE  Len(c_data') <= Cardinality(Container!At("lock")')
        <3>1. ContainerMoves(u, "waiting", "lock") /\ Container!At("waiting") # {}
            BY <2>3 DEF Container!At, ContainerMoves
        <3>2. Cardinality(Container!At("lock")') = Cardinality(Container!At("lock")) + 1
            BY <3>1, ContainerComesToLock
        <3>3. QED
            BY <1>0, <2>1, <3>1, <3>2
    <2>4. QED
        BY <1>1, <2>2, <2>3 DEF Container!Push, Container!NotifyOne
<1>2. ASSUME NEW t \in Threads, Container!TryPop(t)
      PROVE  Len(c_data') <= Cardinality(Container!At("lock")')
    <2>1. c_data # <<>> /\ c_data' = Tail(c_data) /\ c_pc' = c_pc
        BY <1>2 DEF Container!TryPop
    <2>2. Len(c_data') = Len(c_data) - 1
        BY <1>0, <2>1, HeadTailProperties
    <2>3. QED
        BY <1>0, <2>1, <2>2 DEF Container!At
<1>3. ASSUME NEW t \in Threads, Container!Pop(t)
      PROVE  Len(c_data') <= Cardinality(Container!At("lock")')
    <2>1. c_data # <<>> /\ c_data' = Tail(c_data) /\ ContainerMoves(t, "lock", "idle")
        BY <1>3 DEF Container!Pop, ContainerMoves
    <2>2. Len(c_data') = Len(c_data) - 1
        BY <1>0, <2>1, HeadTailProperties
    <2>3. QED
        BY <1>0, <2>1, <2>2, ContainerLeavesLock
<1>4. ASSUME NEW t \in Threads, Container!Wait(t)
      PROVE  Len(c_data') <= Cardinality(Container!At("lock")')
    <2>2. c_data' = <<>> /\ Len(c_data') = 0
        BY <1>4 DEF Container!Wait
    <2>3. Container!At("lock")' \subseteq Threads
        BY DEF Container!At
    <2>4. Cardinality(Container!At("lock")') \in Nat
        BY <2>3, ContainerFinite, FS_Subset, FS_CardinalityType
    <2>5. QED
        BY <2>2, <2>4
<1>5. ASSUME NEW t \in Threads, Container!WaitAndPop(t) \/ Container!SpuriousWakeup(t)
      PROVE  Len(c_data') <= Cardinality(Container!At("lock")')
    <2>1. /\ c_data' = c_data
          /\ \/ ContainerMoves(t, "idle", "lock")
             \/ ContainerMoves(t, "waiting", "lock")
        BY <1>5 DEF Container!WaitAndPop, Container!SpuriousWakeup, ContainerMoves
    <2>2. /\ Cardinality(Container!At("lock")') = Cardinality(Container!At("lock")) + 1
          /\ Container!At("waiting")' \subseteq Container!At("waiting")
        BY <2>1, ContainerComesToLock
    <2>3. QED
        BY <1>0, <2>1, <2>2
<1>6. CASE UNCHANGED Container!vars
    BY <1>6 DEF Container!vars, Container!At
<1>7. QED
    BY <1>1, <1>2, <1>3, <1>4, <1>5, <1>6 DEF Container!Next

-----------------------------------------------------------------------------
\* What a step may do to the sleepers: keep the balance, or throw.
ContainerKeepsOrThrows ==
    Container!SleepersNotNeeded /\ ~Container!SleepersNotNeeded' =>
        \E t \in Threads : Container!PopThrows(t)

\* Every step keeps the balance, or is a wait_and_pop that throws.
LEMMA ContainerStepKeepsOrThrows ==
    Container!ConstantsAssumption /\ ContainerTypeOK /\ [Container!Next]_(Container!vars)
        => ContainerKeepsOrThrows
BY ContainerStepSleepers, ContainerFinite DEF ContainerKeepsOrThrows

\* With any number of callers of either container, the only step after which a
\* thread may sleep next to a value is a wait_and_pop that throws after its wait
\* (line 64 of mutex_queue.h, 38 of waitable_stack.h).
THEOREM ContainerOnlyThrows ==
    ASSUME Container!ConstantsAssumption
    PROVE  Container!Spec => Container!OnlyThrowsLoseWakeups
<1>1. ContainerTypeOK /\ [Container!Next]_(Container!vars) =>
          [ContainerKeepsOrThrows]_(Container!vars)
    BY ContainerStepKeepsOrThrows
<1>2. Container!Spec => []ContainerTypeOK
    BY ContainerInitTyped, ContainerStepTyped, PTL DEF Container!Spec
<1>3. Container!Spec => [][ContainerKeepsOrThrows]_(Container!vars)
    BY <1>1, <1>2, PTL DEF Container!Spec
<1>4. QED
    BY <1>3 DEF Container!OnlyThrowsLoseWakeups, ContainerKeepsOrThrows

\* Where no allocation fails, no thread ever sleeps next to a value that has nobody
\* on his way to it: notify_one under the mutex loses no wakeup.
THEOREM ContainerNoLostWakeup ==
    ASSUME Container!ConstantsAssumption
    PROVE  Container!Spec => [](container \notin {"waitable_stack"} => Container!SleepersNotNeeded)
<1> DEFINE Safe == container \notin {"waitable_stack"} => Container!SleepersNotNeeded
<1>1. Container!Init => Safe
    <2>1. Container!Init => Container!At("waiting") = {}
        BY DEF Container!Init, Container!At
    <2>2. QED
        BY <2>1, ContainerFinite DEF ContainerBalance
<1>2. ContainerTypeOK /\ Safe /\ [Container!Next]_(Container!vars) => Safe'
    <2> SUFFICES ASSUME ContainerTypeOK, Safe, [Container!Next]_(Container!vars),
                        container' \notin {"waitable_stack"}
                 PROVE  Container!SleepersNotNeeded'
        OBVIOUS
    <2>1. container' = container
        BY DEF Container!Next, Container!vars
    <2>2. ~(\E t \in Threads : Container!PopThrows(t))
        BY <2>1 DEF Container!PopThrows
    <2>3. QED
        BY <2>1, <2>2, ContainerStepSleepers, ContainerFinite
<1>3. Container!Spec => []ContainerTypeOK
    BY ContainerInitTyped, ContainerStepTyped, PTL DEF Container!Spec
<1> HIDE DEF Safe
<1>4. Container!Spec => []Safe
    BY <1>1, <1>2, <1>3, PTL DEF Container!Spec
<1>5. QED
    BY <1>4 DEF Safe

-----------------------------------------------------------------------------
(* MCMonitors: whichever component it runs *)

monitors_vars == <<which, vars, c_vars>>

\* A step of the pool leaves the container alone, and the other way round.
LEMMA StepOfEach ==
    [MonitorsNext]_monitors_vars => [Next]_vars /\ [Container!Next]_(Container!vars)
BY DEF MonitorsNext, PoolStep, ContainerStep, PoolEnded, monitors_vars, c_vars, container,
       Container!vars

\* Whichever component it runs, a behaviour of MCMonitors is a behaviour of each.
THEOREM BehavesAsEach == MonitorsSpec => Spec /\ Container!Spec
<1>1. MonitorsInit => Init /\ Container!Init
    BY DEF MonitorsInit
<1>2. QED
    BY <1>1, StepOfEach, PTL DEF MonitorsSpec, monitors_vars, Spec, Container!Spec

\* In the pool and in mutex_queue no wakeup is lost, and the pool is drained when it
\* is gone.
THEOREM NobodySleepsInVain ==
    MonitorsSpec => [](/\ DrainedWhenGone /\ SleepersNotNeeded
                       /\ which = "mutex_queue" => Container!SleepersNotNeeded)
<1> DEFINE Quiet == container \notin {"waitable_stack"} => Container!SleepersNotNeeded
<1>1. Quiet => (which = "mutex_queue" => Container!SleepersNotNeeded)
    BY DEF container
<1>2. Container!Spec => []Quiet
    BY ContainerConstants, ContainerNoLostWakeup DEF ContainerConstants
<1> HIDE DEF Quiet
<1>3. QED
    BY <1>1, <1>2, BehavesAsEach, Drained, NoLostWakeup, PTL

\* In waitable_stack, as in mutex_queue, only a wait_and_pop that throws after its wait
\* loses a wakeup.
THEOREM OnlyThrows == MonitorsSpec => StackOnlyThrowsLoseWakeups
<1>1. Container!Spec => Container!OnlyThrowsLoseWakeups
    BY ContainerConstants, ContainerOnlyThrows DEF ContainerConstants
<1>2. QED
    BY <1>1, BehavesAsEach, PTL DEF StackOnlyThrowsLoseWakeups
=============================================================================
