SPECIFICATION Spec
CONSTANTS
    Threads <- MCThreads
    Rebuilders = {r1}
    Users = {u1}
    MaxEdits = 3
    MaxControls = 3
    MaxWorkers = 2
    StartWorkers = 2
    MaxJobs = 2
    MinWorkerCount = 1
    MinThrottledWorkers = 1
INVARIANTS
    PoolSound
PROPERTIES
    EditsPublished
    PoolConverges
CHECK_DEADLOCK FALSE
