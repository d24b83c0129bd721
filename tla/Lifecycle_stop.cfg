SPECIFICATION Safety
CONSTANTS
    Workers = {w1}
    Tasks = {t1}
    Scanner = scanner
    NumWords = 2
    MaxDepth = 1
    QueueCap = 1
    ResultsCap = 1
    MaxRecursions = 1
    MaxRun = 1
    Features = {"spider", "mutate", "recurse", "aux", "ioerror"}
    UserActs = {"stop", "pause"}
SYMMETRY MCSymmetry
INVARIANTS
    NoSendOnClosed
CHECK_DEADLOCK FALSE
