SPECIFICATION ReclaimSpec
CONSTANTS
    Threads = {}
    Nodes = {}
    Values = {}
    MAX_HAZARD = 0
    Null = Null
    NoResult = NoResult
    Producers = {p1, p2}
    Consumers = {c1, c2, c3}
    Teams = {{p1, c1, c2}, {p1, p2}, {c1, c2, c3}}
    QueueNodes = {n1, n2, n3}
    QueueHazards = 5
    MaxPush = 3
    RcProducers = {}
    RcConsumers = {}
    RcTeams = {{}}
    RcNodes = {r1}
    MaxCount = 0
    Alike = {c1, c2}
SYMMETRY QueueSymmetry
INVARIANTS
    QueueNoUseAfterFree
    QueueFifoUntilNull
    QueueIInv
CHECK_DEADLOCK FALSE
