SPECIFICATION PoolsSpec
CONSTANTS
    Clients <- AllClients
    Workers = 2
    Tasks = 2
INVARIANTS
    ResultsRight
    StuckExplained
    EnoughWorkers
PROPERTIES
    PoolsEnd
