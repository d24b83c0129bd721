SPECIFICATION Safety
CONSTANTS
    Producers = {p1, p2}
    Consumers = {c1, c2}
    Job <- MCFourJobs
    MaxLen = 2
SYMMETRY MCSymmetry
INVARIANTS
    QueueSound
    NoLostWakeup
