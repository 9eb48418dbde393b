------------------------------ MODULE MCReclaim ------------------------------
(***************************************************************************)
(* Three components that find out when a popped node can be deleted, side  *)
(* by side: lock_free_stack and mpmc_lockfree_queue with hazard pointers,  *)
(* each with an array of records of its own, and mpmc_refcount_queue with  *)
(* split reference counts.  They share nothing.  A run has threads for the *)
(* one it is about and none for the others.                                *)
(***************************************************************************)
EXTENDS HazardStack, TLC

CONSTANTS
    Producers, Consumers, Teams, QueueNodes, QueueHazards, MaxPush, \* mpmc_lockfree_queue
    RcProducers, RcConsumers, RcTeams, RcNodes, MaxCount,           \* mpmc_refcount_queue
    Alike                                       \* consumers that are in the same teams

ASSUME AlikeAssumption ==
    /\ Alike \subseteq (Consumers \cup RcConsumers) \ (Producers \cup RcProducers)
    /\ \A T \in Teams \cup RcTeams : Alike \subseteq T \/ Alike \cap T = {} \/ T = {}

VARIABLES
    team, q_head, q_tail, q_next, q_data, q_free, q_hp, recs, q_reclaim_list,
    q_pc, q_nd, q_h, q_n, q_tl, q_batch, q_cur, q_idx, called, pushed, popped, crashed,
    r_team, r_head, r_tail, r_data, icount, ecount, r_next, r_free,
    r_pc, r_val, r_nd, r_o, r_nx, r_res

q_vars == <<team, q_head, q_tail, q_next, q_data, q_free, q_hp, recs, q_reclaim_list,
            q_pc, q_nd, q_h, q_n, q_tl, q_batch, q_cur, q_idx, called, pushed, popped,
            crashed>>
r_vars == <<r_team, r_head, r_tail, r_data, icount, ecount, r_next, r_free,
            r_pc, r_val, r_nd, r_o, r_nx, r_res>>

Queue ==
    INSTANCE MsQueueHp WITH
        Nodes <- QueueNodes, MAX_HAZARD <- QueueHazards,
        head <- q_head, tail <- q_tail, next <- q_next, data <- q_data, free <- q_free,
        hp <- q_hp, reclaim_list <- q_reclaim_list, pc <- q_pc, nd <- q_nd, h <- q_h,
        n <- q_n, tl <- q_tl, batch <- q_batch, cur <- q_cur, idx <- q_idx

Rc ==
    INSTANCE MsQueueRc WITH
        Producers <- RcProducers, Consumers <- RcConsumers, Teams <- RcTeams,
        Nodes <- RcNodes, team <- r_team, head <- r_head, tail <- r_tail,
        data <- r_data, next <- r_next, free <- r_free, pc <- r_pc, val <- r_val,
        nd <- r_nd, o <- r_o, nx <- r_nx, res <- r_res

ASSUME QueueConstants == Queue!ConstantsAssumption /\ Rc!ConstantsAssumption

ReclaimInit == Init /\ Queue!Init /\ Rc!Init

StackStep == Next /\ UNCHANGED <<q_vars, r_vars>>
QueueStep == Queue!Next /\ UNCHANGED <<vars, r_vars>>
RcStep == Rc!Next /\ UNCHANGED <<vars, q_vars>>

\* Where nobody pops, the pushes of mpmc_refcount_queue end with the last address.
OnlyPushed ==
    /\ r_team # {} /\ r_team \cap RcConsumers = {} /\ r_free = {}
    /\ UNCHANGED <<vars, q_vars, r_vars>>

ReclaimSpec ==
    ReclaimInit
        /\ [][StackStep \/ QueueStep \/ RcStep \/ OnlyPushed]_<<vars, q_vars, r_vars>>

StackSymmetry == Permutations(Threads) \cup Permutations(Nodes) \cup Permutations(Values)
QueueSymmetry == Permutations(Alike) \cup Permutations(QueueNodes)
RcSymmetry == Permutations(Alike) \cup Permutations(RcNodes) \cup Permutations(Values)

-----------------------------------------------------------------------------
\* mpmc_lockfree_queue: a pop never touches a node that has been deleted, nor does a
\* push while no other thread pushes (lines 116, 120, 138 and 152).
QueueNoUseAfterFree == Queue!NoUseAfterFree

\* mpmc_lockfree_queue: until a pop stores nullptr into head_, nothing is lost,
\* duplicated or reordered.
QueueFifoUntilNull == Queue!FifoUntilNull

\* mpmc_lockfree_queue: no node is in two places, each is protected from the moment a
\* pop has checked its record, and the queue is one line from head_ to null.
QueueIInv == Queue!IInv /\ Queue!AllLinked

\* mpmc_refcount_queue: no push or pop touches a field of a node that has been deleted
\* (lines 131-145 and 159-169): its reference keeps the node alive.
RcNoUseAfterFree == Rc!NoUseAfterFree

\* mpmc_refcount_queue: whenever no call is running, every node that has left the queue
\* has been deleted; with it the inductive invariants, in which the two counts of every
\* node say how many references and external counters there are to it, and the nodes
\* before tail hold the values.
RcNothingLeaked == Rc!NothingLeaked /\ Rc!IInv /\ (Rc!OneSided => Rc!ValuesInv)

\* mpmc_refcount_queue: with one producer, or as long as nobody pops, every step is a
\* step of the abstract queue, or none: no value is lost, popped twice or out of order,
\* and pop says "empty" only of an empty queue.
RcOneSidedImplementsFifo ==
    Rc!Abstract!Init
        /\ [][Rc!OneSided => [Rc!Abstract!Next]_(Rc!Abstract!vars)]_r_vars
=============================================================================
