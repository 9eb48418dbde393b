SPECIFICATION Spec
CONSTANTS
    Producers = {p1, p2}
    Consumers = {c1}
    Teams = {{p1, p2, c1}}
    Nodes = {n1, n2, n3, n4}
    Values = {v1}
    MaxCount = 3
    Null = Null
INVARIANT
    NoValueStranded
CHECK_DEADLOCK FALSE
