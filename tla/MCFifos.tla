------------------------------ MODULE MCFifos ------------------------------
(***************************************************************************)
(* One instance for the queues without reference counts: the ring and the  *)
(* list for one producer and one consumer (SpscRing, SpscLinked), the      *)
(* Vyukov ring with several producers and with one (MpmcRing), the ring of *)
(* compare-exchanges (CasRing), the ring under a spin lock (SpinlockRing)  *)
(* and the list under two mutexes (TwoLockQueue).  A behaviour picks one   *)
(* of them in its first state and runs that one; the others keep their     *)
(* initial states.                                                         *)
(*                                                                         *)
(* The Vyukov ring is instantiated through the module of its proofs, which *)
(* extends MpmcRing: FifosProofs cites its lemmas for both instances.      *)
(***************************************************************************)
EXTENDS SpscRing, TLC

CONSTANTS
    Clients,                \* the callers of the queues for several threads
    Producers, Producer,    \* further callers, which only push but in CasRing
    Nodes,                  \* the addresses of SpscLinked
    SlotCount,              \* the capacity of MpmcRing, CasRing and SpinlockRing
    MaxPos, MaxPosOne,      \* positions claimed for a push in MpmcRing
    MaxLen                  \* values in TwoLockQueue

VARIABLES
    which,
    sl_head, sl_tail, sl_data, sl_next, sl_free,
    sl_push_pc, sl_val, sl_p, sl_old_tail,
    sl_pop_pc, sl_old_head, sl_nxt, sl_res,
    mr_enqueue_pos, mr_dequeue_pos, mr_seq, mr_data, mr_pc, mr_pos, mr_val, mr_before,
    op_enqueue_pos, op_dequeue_pos, op_seq, op_data, op_pc, op_pos, op_val, op_before,
    cr_head, cr_tail, cr_tail_update, cr_data, cr_pc, cr_i, cr_val, cr_moves, cr_late,
    sr_using, sr_head, sr_tail, sr_data, sr_pc, sr_val,
    tq_list, tq_head_mutex, tq_pc, tq_val

sl_vars == <<sl_head, sl_tail, sl_data, sl_next, sl_free, sl_push_pc, sl_val, sl_p,
             sl_old_tail, sl_pop_pc, sl_old_head, sl_nxt, sl_res>>
mr_vars == <<mr_enqueue_pos, mr_dequeue_pos, mr_seq, mr_data, mr_pc, mr_pos, mr_val,
             mr_before>>
op_vars == <<op_enqueue_pos, op_dequeue_pos, op_seq, op_data, op_pc, op_pos, op_val,
             op_before>>
cr_vars == <<cr_head, cr_tail, cr_tail_update, cr_data, cr_pc, cr_i, cr_val, cr_moves,
             cr_late>>
sr_vars == <<sr_using, sr_head, sr_tail, sr_data, sr_pc, sr_val>>
tq_vars == <<tq_list, tq_head_mutex, tq_pc, tq_val>>

Linked ==
    INSTANCE SpscLinked WITH
        head_ <- sl_head, tail_ <- sl_tail,
        data <- sl_data, next <- sl_next, free <- sl_free,
        push_pc <- sl_push_pc, val <- sl_val, p <- sl_p, old_tail <- sl_old_tail,
        pop_pc <- sl_pop_pc, old_head <- sl_old_head, nxt <- sl_nxt, res <- sl_res

\* Clients that push and pop
Mpmc ==
    INSTANCE MpmcRingProofs WITH
        Producers <- Clients, Consumers <- Clients, Cap <- SlotCount,
        enqueue_pos <- mr_enqueue_pos, dequeue_pos <- mr_dequeue_pos,
        seq <- mr_seq, data <- mr_data,
        pc <- mr_pc, pos <- mr_pos, val <- mr_val, before <- mr_before

\* One producer, Clients pop
OneProducer ==
    INSTANCE MpmcRingProofs WITH
        Producers <- {Producer}, Consumers <- Clients, Cap <- SlotCount,
        MaxPos <- MaxPosOne, Values <- {Producer},
        enqueue_pos <- op_enqueue_pos, dequeue_pos <- op_dequeue_pos,
        seq <- op_seq, data <- op_data,
        pc <- op_pc, pos <- op_pos, val <- op_val, before <- op_before

Cas ==
    INSTANCE CasRing WITH
        Threads <- Producers, Cap <- SlotCount,
        _head <- cr_head, _tail <- cr_tail, _tail_update <- cr_tail_update,
        _data <- cr_data, pc <- cr_pc, i <- cr_i, val <- cr_val,
        moves <- cr_moves, late <- cr_late

Spin ==
    INSTANCE SpinlockRing WITH
        Threads <- Clients, Cap <- SlotCount,
        using_ <- sr_using, head <- sr_head, tail <- sr_tail, data <- sr_data,
        pc <- sr_pc, val <- sr_val

Two ==
    INSTANCE TwoLockQueue WITH
        Consumers <- Clients,
        list <- tq_list, head_mutex_ <- tq_head_mutex, pc <- tq_pc, val <- tq_val

ASSUME QueueConstants ==
    /\ Linked!ConstantsAssumption
    /\ Mpmc!ConstantsAssumption /\ OneProducer!ConstantsAssumption
    /\ Cas!ConstantsAssumption /\ Spin!ConstantsAssumption
    /\ Two!ConstantsAssumption

-----------------------------------------------------------------------------
\* Which address the first dummy node of SpscLinked has makes no difference.
FifosInit ==
    /\ sl_head = CHOOSE n \in Nodes : TRUE
    /\ which \in {"spsc", "linked", "mpmc", "one_producer", "cas", "spinlock",
                 "two_lock"}
    /\ Init /\ Linked!Init /\ Mpmc!Init /\ OneProducer!Init /\ Cas!Init
    /\ Spin!Init /\ Two!Init

SpscStep ==
    /\ which = "spsc" /\ Next
    /\ UNCHANGED <<which, sl_vars, mr_vars, op_vars, cr_vars, sr_vars, tq_vars>>

LinkedStep ==
    /\ which = "linked" /\ Linked!Next
    /\ UNCHANGED <<which, vars, mr_vars, op_vars, cr_vars, sr_vars, tq_vars>>

MpmcStep ==
    /\ which = "mpmc" /\ Mpmc!Next
    /\ UNCHANGED <<which, vars, sl_vars, op_vars, cr_vars, sr_vars, tq_vars>>

OneProducerStep ==
    /\ which = "one_producer" /\ OneProducer!Next
    /\ UNCHANGED <<which, vars, sl_vars, mr_vars, cr_vars, sr_vars, tq_vars>>

CasStep ==
    /\ which = "cas" /\ Cas!Next
    /\ UNCHANGED <<which, vars, sl_vars, mr_vars, op_vars, sr_vars, tq_vars>>

SpinlockStep ==
    /\ which = "spinlock" /\ Spin!Next
    /\ UNCHANGED <<which, vars, sl_vars, mr_vars, op_vars, cr_vars, tq_vars>>

TwoLockStep ==
    /\ which = "two_lock" /\ Two!Next
    /\ UNCHANGED <<which, vars, sl_vars, mr_vars, op_vars, cr_vars, sr_vars>>

FifosNext ==
    \/ SpscStep \/ LinkedStep
    \/ MpmcStep \/ OneProducerStep \/ CasStep
    \/ SpinlockStep \/ TwoLockStep

FifosSpec ==
    FifosInit /\ [][FifosNext]_<<which, vars, sl_vars, mr_vars, op_vars, cr_vars, sr_vars,
                                  tq_vars>>

Symmetry == Permutations(Clients) \cup Permutations(Values) \cup Permutations(Producers)

-----------------------------------------------------------------------------
\* No node or slot is touched by two threads at once, and none is lost.
\* SpscRing: what either side has found out stays so until it moves its index.
\* SpscLinked: by the producer and the consumer.  MpmcRing: from its claim to its
\* store of seq a thread is alone on its slot.  CasRing: no two pushes claim a slot,
\* and none is given up before its push has published it.  SpinlockRing: objects live exactly
\* between head and tail.  TwoLockQueue: the node a pop takes is filled, and no
\* other pop takes it.  With them the inductive invariants of the proofs.
NodesUnshared ==
    /\ which = "spsc" => IInv
    /\ which = "linked" => Linked!NodesUnshared /\ Linked!NodesAccounted
                               /\ Linked!TypeOK /\ Linked!LocalsOK
                               /\ Linked!Consistent(Linked!Linked)
    /\ which = "mpmc" => Mpmc!SlotsUnshared
    /\ which = "cas" => Cas!ClaimsApart /\ Cas!IInv
    /\ which = "spinlock" => Spin!ObjectsInRing /\ Spin!IInv
    /\ which = "two_lock" => Two!TakesRealNode /\ Two!IInv

\* MpmcRing: the positions claimed for a push and not yet for a pop fit the ring;
\* with it the inductive invariant of the proofs.
CapacityKept == which = "mpmc" => Mpmc!CapacityKept /\ Mpmc!IInv /\ Mpmc!ValuesTyped

\* MpmcRing with one producer: pop answers "empty" only when all that had been
\* pushed before the call has been taken; with it the inductive invariant.
OneProducerEmptyMeansEmpty ==
    which = "one_producer" =>
        OneProducer!EmptyMeansEmpty /\ OneProducer!OldestFirst /\ OneProducer!IInv

\* Every queue starts out as its abstract queue does.
FifosStartEmpty ==
    /\ Abstract!Init /\ Linked!Abstract!Init /\ Mpmc!Abstract!Init /\ Cas!Abstract!Init
    /\ Spin!Abstract!Init /\ Two!Abstract!Init

\* A step of the queue that runs is a step of its abstract queue, or none.
FifosStepAsFifo ==
    /\ which = "spsc" => [Abstract!Next]_(Abstract!vars)
    /\ which = "linked" => [Linked!Abstract!Next]_(Linked!Abstract!vars)
    /\ which = "mpmc" => [Mpmc!Abstract!Next]_(Mpmc!Abstract!vars)
    /\ which = "cas" => cr_late' \/ [Cas!Abstract!Next]_(Cas!Abstract!vars)
    /\ which = "spinlock" => [Spin!Abstract!Next]_(Spin!Abstract!vars)
    /\ which = "two_lock" => [Two!Abstract!Next]_(Two!Abstract!vars)

\* Every queue is first in, first out between its callers, each value is popped
\* once, and it reports full and empty only when its abstract queue may; CasRing until
\* an exchange takes an index that has gone round the ring for the one it was.
FifosImplementFifo ==
    FifosStartEmpty
        /\ [][FifosStepAsFifo]_<<vars, sl_vars, mr_vars, op_vars, cr_vars, sr_vars, tq_vars>>
=============================================================================
