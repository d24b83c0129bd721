SPECIFICATION Spec
CONSTANTS
    Producers = {p1}
    Consumers = {c1, c2}
    Job <- MCJob
    MaxLen = 2
PROPERTIES
    BurstIsServed
    CallersReleased
    ImplementsContract
