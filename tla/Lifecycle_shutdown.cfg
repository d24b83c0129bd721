SPECIFICATION SpecWithReader
CONSTANTS
    Workers = {w1}
    Tasks = {t1}
    Scanner = scanner
    NumWords = 2
    MaxDepth = 0
    QueueCap = 1
    ResultsCap = 1
    MaxRecursions = 1
    MaxRun = 1
    Features = {}
    UserActs = {"stop", "pause"}
PROPERTIES
    ShutdownCompletes
CHECK_DEADLOCK FALSE
