SPECIFICATION StacksSpec
CONSTANTS
    Threads = {t1, t2, t3}
    Nodes = {n1, n2}
    MoreNodes = {n3}
    head_ = head_
    Values = {v1, v2}
    MaxCount = 4
    Null = Null
SYMMETRY Symmetry
INVARIANTS
    StacksNoUseAfterFree
    StacksNodesAccounted
    WalksSeeAll
PROPERTIES
    StacksImplementLifo
