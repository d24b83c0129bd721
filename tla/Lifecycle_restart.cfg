SPECIFICATION Spec
CONSTANTS
    Workers = {w1}
    Tasks = {t1}
    Scanner = scanner
    NumWords = 2
    MaxDepth = 1
    QueueCap = 1
    ResultsCap = 1
    MaxRecursions = 1
    MaxRun = 2
    Features = {"spider", "recurse"}
    UserActs = {"restart"}
INVARIANTS
    Accounting
    GenerationsApart
PROPERTIES
    RestartCompletes
CHECK_DEADLOCK FALSE
