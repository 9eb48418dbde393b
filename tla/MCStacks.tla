------------------------------ MODULE MCStacks ------------------------------
(***************************************************************************)
(* One instance for the two stacks that count who looks at a node, the     *)
(* split counts of RefCountStack and the threads_in_pop_ of                *)
(* ThreadCountStack, and for the two lists that lock node by node.  A      *)
(* behaviour picks one of them in its first state and runs that one; the   *)
(* others keep their initial states.                                       *)
(***************************************************************************)
EXTENDS RefCountStack, TLC

CONSTANTS
    MoreNodes,      \* the addresses ThreadCountStack and the lists have on top of Nodes
    head_           \* the node that is a member of a list

AllNodes == Nodes \cup MoreNodes

VARIABLES
    which,              \* "ref", "threadcount", "list" or "double"
    tc_head, tc_pending, tc_in_pop, tc_data, tc_next, tc_free,
    tc_pc, tc_old_head, tc_nxt, tc_res, tc_nodes,
    l_next, l_owner, l_last, l_free, l_pc, l_cur, l_nxt, l_unseen, l_error

tc_vars == <<tc_head, tc_pending, tc_in_pop, tc_data, tc_next, tc_free,
             tc_pc, tc_old_head, tc_nxt, tc_res, tc_nodes>>
l_vars == <<l_next, l_owner, l_last, l_free, l_pc, l_cur, l_nxt, l_unseen, l_error>>

Tc ==
    INSTANCE ThreadCountStack WITH
        Nodes <- AllNodes,
        head_ <- tc_head,
        to_be_deleted_ <- tc_pending,
        threads_in_pop_ <- tc_in_pop,
        data <- tc_data, next <- tc_next, free <- tc_free,
        pc <- tc_pc, old_head <- tc_old_head, nxt <- tc_nxt, res <- tc_res,
        nodes <- tc_nodes

threadsafe_list ==
    INSTANCE LockedListProofs WITH
        Double <- FALSE, Nodes <- AllNodes, head <- head_,
        next <- l_next, owner <- l_owner, last <- l_last, free <- l_free, pc <- l_pc,
        cur <- l_cur, nxt <- l_nxt, unseen <- l_unseen, error <- l_error

double_push_list ==
    INSTANCE LockedListProofs WITH
        Double <- TRUE, Nodes <- AllNodes, head <- head_,
        next <- l_next, owner <- l_owner, last <- l_last, free <- l_free, pc <- l_pc,
        cur <- l_cur, nxt <- l_nxt, unseen <- l_unseen, error <- l_error

ASSUME StacksConstants ==
    Tc!ConstantsAssumption /\ threadsafe_list!ConstantsAssumption

StacksInit ==
    /\ which \in {"ref", "threadcount", "list", "double"}
    /\ Init /\ Tc!Init /\ threadsafe_list!Init

StacksNext ==
    \/ which = "ref" /\ Next /\ UNCHANGED <<which, tc_vars, l_vars>>
    \/ which = "threadcount" /\ Tc!Next /\ UNCHANGED <<which, vars, l_vars>>
    \/ which = "list" /\ threadsafe_list!Next /\ UNCHANGED <<which, vars, tc_vars>>
    \/ which = "double" /\ double_push_list!Next /\ UNCHANGED <<which, vars, tc_vars>>

StacksSpec == StacksInit /\ [][StacksNext]_<<which, vars, tc_vars, l_vars>>

Symmetry == Permutations(Threads) \cup Permutations(Nodes) \cup Permutations(Values)

-----------------------------------------------------------------------------
\* No pop of either stack touches a node that has been deleted: the counts keep
\* a node until the last pop that saw it has left.  Nor does a walk along a list,
\* which holds the node before.
StacksNoUseAfterFree ==
    /\ which = "ref" => NoUseAfterFree
    /\ which = "threadcount" => Tc!NoUseAfterFree
    /\ which = "list" => threadsafe_list!NoUseAfterFree
    /\ which = "double" => double_push_list!NoUseAfterFree

\* No node is lost or deleted twice.  RefCountStack: with no call running, every
\* popped node has been deleted.  ThreadCountStack: every node is in the stack, in
\* to_be_deleted_, in one thread's hands or deleted, and in one of these only.
\* The lists: every node is deleted, in the list once, or in one push_back.
StacksNodesAccounted ==
    /\ which = "ref" => NothingLeaked
    /\ which = "threadcount" => Tc!NodesAccounted
    /\ which = "list" => threadsafe_list!NodesAccounted
    /\ which = "double" => double_push_list!NodesAccounted

\* A walk along either list has seen at its end each node that was in the list all
\* the time, whatever others have pushed, inserted and removed around it.
WalksSeeAll ==
    /\ which = "list" => threadsafe_list!WalksSeeAll
    /\ which = "double" => double_push_list!WalksSeeAll

\* Both stacks start out empty.
StacksStartEmpty == Abstract!Init /\ Tc!Abstract!Init

\* A step of the stack that runs is a step of the abstract stack, or none.
StacksStepAsLifo ==
    /\ which = "ref" => [Abstract!Next]_(Abstract!vars)
    /\ which = "threadcount" => [Tc!Abstract!Next]_(Tc!Abstract!vars)

\* Both stacks are last in, first out between their callers: each call takes
\* effect in one instant, and each value is popped once.
StacksImplementLifo == StacksStartEmpty /\ [][StacksStepAsLifo]_<<vars, tc_vars>>
=============================================================================
