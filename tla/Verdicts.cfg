SPECIFICATION Spec
CONSTANTS
    Judges = {w1, w2}
    SitePaths <- MCSitePaths
    Sites <- MCSites
    MatchCodes = {200, 302, 403, 500}
    Threshold = 1
    ClusterLimit = 3
    MaxClusters = 3
    AutoLimit = 3
    Workers = {w1, w2}
    Jobs = {"j1", "j2"}
    PathOf <- MCPathOf
    Marks <- MCMarks
    Replies <- MCReplies
    TaskTechniques <- MCTechniques
    EvasionLimit = 2
    BypassSlots = 1
    Requests = {"a", "b"}
    Found = {"a"}
    MaxHistory = 2
    MaxSessions = 2
    MaxOpened = 2
    MaxSends = 2
    MaxStarts = 2
    Levels = {"error"}
    LogCapacity = 2
    LogHeight = 1
    MaxEvents = 4
    Settings = {"spidering"}
    MaxCommands = 3
    MaxSuggestions = 2
    Keys = {"k1", "k2", "k3"}
    OddKeys = {"k2"}
    NoHit = "none"
    MaxLogEntries = 2
    Height = 1
    MaxResults = 3
    Names <- MCNames
    Wordlists <- MCWordlists
    HintSets <- MCHintSets
    uniqueStrings <- MCUniqueStrings
    Controls <- MCControls
    ParamPages <- MCParamPages
    ChunkSize = 5
    MaxFails = 2
    Halvings <- MCHalvings
    Matrices <- MCMatrices
    Replays <- MCReplays
    Durations = {1, 4, 20}
    MinDelta = 1
    RepeatNs = {1, 2, 5}
    Baselines <- MCBaselines
INVARIANTS
    FramingSound
    VerdictsSound
    EvasionSound
    FindingsTrue
    ListSound
    RepeaterSound
    LogsSound
    ScreenSound
CHECK_DEADLOCK FALSE
