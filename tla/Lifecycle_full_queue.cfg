SPECIFICATION SpecWithReader
CONSTANTS
    Workers = {w1, w2}
    Tasks = {t1}
    Scanner = scanner
    NumWords = 2
    MaxDepth = 1
    QueueCap = 1
    ResultsCap = 1
    MaxRecursions = 1
    MaxRun = 1
    Features = {"spider"}
    UserActs = {"finish"}
PROPERTIES
    SubmitReturns
CHECK_DEADLOCK FALSE
