SPECIFICATION ReclaimSpec
CONSTANTS
    Threads = {}
    Nodes = {}
    Values = {v1, v2}
    MAX_HAZARD = 0
    Null = Null
    NoResult = NoResult
    Producers = {}
    Consumers = {}
    Teams = {{}}
    QueueNodes = {q1}
    QueueHazards = 0
    MaxPush = 0
    RcProducers = {p1, p2}
    RcConsumers = {c1, c2, c3}
    RcTeams = {{p1, c1, c2}, {p1, p2}, {p1, p2, c3}}
    RcNodes = {n1, n2, n3, n4}
    MaxCount = 3
    Alike = {c1, c2}
SYMMETRY RcSymmetry
INVARIANTS
    RcNoUseAfterFree
    RcNothingLeaked
PROPERTIES
    RcOneSidedImplementsFifo
