SPECIFICATION FairSpec
CONSTANTS
    Producers = {p1}
    Consumers = {c1}
    Values = {v1}
    MaxLen = 1
    Null = Null
PROPERTIES
    WaiterWakes
CHECK_DEADLOCK FALSE
