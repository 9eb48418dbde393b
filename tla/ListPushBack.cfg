SPECIFICATION Spec
CONSTANTS
    Threads = {t1, t2}
    Nodes = {n1, n2}
    head = head
    Null = Null
    Double = TRUE
INVARIANT
    PushBackInTime
