SPECIFICATION FifosSpec
CONSTANTS
    Values = {v1, v2}
    Cap = 3
    Null = Null
    Clients = {t1, t2, t3}
    Producers = {p1, p2}
    Producer = p
    Nodes = {n1, n2, n3, n4}
    SlotCount = 2
    MaxPos = 4
    MaxPosOne = 5
    MaxLen = 3
SYMMETRY Symmetry
INVARIANTS
    NoDataRace
    NodesUnshared
    CapacityKept
    OneProducerEmptyMeansEmpty
PROPERTIES
    FifosImplementFifo
