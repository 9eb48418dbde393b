SPECIFICATION ReclaimSpec
CONSTANTS
    Threads = {t1, t2, t3}
    Nodes = {n1, n2, n3}
    Values = {v1, v2}
    MAX_HAZARD = 2
    Null = Null
    NoResult = NoResult
    Producers = {}
    Consumers = {}
    Teams = {{}}
    QueueNodes = {q1}
    QueueHazards = 0
    MaxPush = 0
    RcProducers = {}
    RcConsumers = {}
    RcTeams = {{}}
    RcNodes = {r1}
    MaxCount = 0
    Alike = {}
SYMMETRY StackSymmetry
INVARIANTS
    NoUseAfterFree
    NodesAccounted
    IInv
PROPERTIES
    ImplementsLifo
