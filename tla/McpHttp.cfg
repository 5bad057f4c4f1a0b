\* One principal of staging, three calls, two clients of the token buckets.
CONSTANTS
    None = None
    c1 = c1
    c2 = c2
    c3 = c3
    p1 = p1
    Calls = {c1, c2, c3}
    Ids = {p1}
    Keys = {"gateway", "browser"}
    GatewayKey = "gateway"
    Limit <- ClientLimit
    CallLimit <- PrincipalLimit
    Environment = "staging"
    AllowWrites = TRUE
    Window = 3
    MaxBuckets = 1
    McpMaxBuckets = 1
    MaxReaders = 1
    MaxTokens = 2
    MaxRequests = 4
    MaxClock = 3
    ExpiryTimes <- Expiries
SPECIFICATION Spec
SYMMETRY Symmetry
CHECK_DEADLOCK FALSE
INVARIANTS
    TypeOK
    RateBound
    RetryIsHonest
    WindowBound
    ReadersAccounted
    UseIsCurrent
