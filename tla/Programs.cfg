SPECIFICATION Spec
CONSTANTS
    Nodes = {"n1", "n2"}
    NumLines = 6
    ChunkSize = 2
    StartLine = 1
    Paths = {"a"}
    MethodLists = {{"GET", "POST"}}
    Served <- MCServed
    MaxVersion = 2
    MaxCrashes = 1
    MaxSignals = 1
    MaxWriteRetries = 2
    Scans = {"s1", "s2"}
    Expands = {"x1"}
    Cancels = {"c1"}
    ScanLimit = 1
    ResultCap = 2
    MaxFound = 3
    MaxLost = 1
    Mixes = {{"s1", "s2"}, {"s1", "c1"}, {"x1"}}
    Files <- MCFiles
    Contents <- MCContents
    Targets <- MCTargets
    Labels = {"x", "a", "b", "*", "10.1", "10.3"}
    MaxEdits = 1
INVARIANTS
    SwarmSound
    MonitorSound
    ScansSound
    ScopeSound
PROPERTIES
    ProgramsEnd
CHECK_DEADLOCK FALSE
