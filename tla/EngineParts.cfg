SPECIFICATION Spec
CONSTANTS
    Targets = {"t1", "t2"}
    PHP = {"t1", "t2"}
    Params = {"p", "q"}
    Own <- MCOwn
    Wordlist = {"p"}
    Exists <- MCExists
    Reporters = {"r1"}
    Fuzzers = {"f1", "f2"}
    Capacity = 1
    MaxReports = 2
    NumLines = 2
    MaxRuns = 3
    Hits = {"h1", "h2"}
    SideHits = {"s1"}
    Logs = {"l1", "l2"}
    ResultsCap = 1
    TuiCap = 1
    LogCap = 1
    Workers = {"w1", "w2"}
    Paths = {"/a", "/x"}
    Sensitive = {"/a"}
    Static = {}
    Guarded = {"/a"}
    Templated = {}
    Mutations = {}
    SourceTypes = {"javascript"}
    Responses <- MCResponses
    MaxEvents = 1
    MaxNodes = 3
    Excluded = {"/x"}
    Methods = {"GET", "none"}
    MaxResponses = 2
    MaxRestarts = 1
    Jobs <- MCJobs
    HeapLimit = 6
    Calls = {"k1", "k2", "k3"}
    ToolLimit = 2
    Window = 2
    MaxClock = 2
INVARIANTS
    ParamPoolSound
    GraphSound
    ResumeSound
    PipeSound
    HeapSound
    GateSound
PROPERTIES
    EngineEnds
CHECK_DEADLOCK FALSE
