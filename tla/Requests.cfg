SPECIFICATION Spec
CONSTANTS
    get = get
    post = post
    Requests = {get, post}
    Unsafe = {post}
    MayProxy = {post}
    NumConns = 2
    MaxIdle = 1
    Shapes <- MCShapes
    Callers = {get, post}
    UnsafeCallers = {post}
    Origins = {"a", "b"}
    Home = "a"
    MaxRetries = 1
    Redirects <- MCRedirects
    Streams = 1
    MaxRefresh = 1
    NumProxies = 3
    Users = {"u1", "u2"}
    Base = 15
    Cap = 100
    Width = 8
    MaxFails = 5
    MaxCalls = 7
INVARIANTS
    ExchangesSound
    RequestsSound
    ProxiesRotate
PROPERTIES
    RequestCredentials
    RequestReturns
CHECK_DEADLOCK FALSE
