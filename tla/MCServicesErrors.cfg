SPECIFICATION RequestsAlone
CHECK_DEADLOCK FALSE
CONSTANTS
    n1 = n1
    n2 = n2
    n3 = n3
    None = None
    Null = Null
    \* Requests
    Reqs = {n1, n2}
    KeyOf <- OneKey
    Chains <- OrdersOfMiddleware
    Outcomes = {"ok", "private", "refused", "error", "partial", "panic", "hang"}
    MaxGone = 1
    \* Contexts: three maps for two requests and their children
    Holders = {n1, n2}
    MaxMaps = 3
    Empty = 0
    \* Lifecycle: the server of one process, a hook before and one after it
    Arrivals = {n1, n2}
    MaxHooks = 1
    \* Health
    Names = {n1, n2}
    Missing = None
    \* Saga
    MaxSteps = 3
    \* Tasks
    Dispatches = {n1, n2}
    MaxRetries = 2
    NoTask = None
    Ticks = {n2, n3}
    \* RabbitMQ
    Messages = {n1, n2}
    Oversized = {n2}
    MaxFailures = 1
    Nobody = None
    \* RedisClaims
    Owners = {n1, n2}
    Retries = 2
    MaxExpiries = 1
    MaxLost = 1
    NoRecord = None
    \* Identifiers
    Processes = {n1, n2}
    NodeNumbers = {0, 1}
    MaxSequence = 1
    Entropies = {0, 5}
    MaxMs = 3
    MaxIssued = 3
    MaxStepsBack = 1
    \* Records
    Callers = {n1, n2}
    MaxKey = 2
    MaxWrites = 4
    \* Migrations
    Starters = {1, 2, 3, 4, 5}
    ReleaseOf <- Releases
    MaxErrors = 1
    Unlocked = None
    \* Tokens: a second is two ticks, one MaxTTL is of whole seconds and one is not
    Managers = {n1, n2}
    Offsets = {0, 1}
    MaxTTLs = {3, 4}
    ClockSkew = 1
    AcceptUntil = 7
    MaxTime = 9
    MaxTokens = 1
    \* Sessions
    Visits = {n1, n2}
    Users = {n1, n2}
    SessionIDs = {n1, n2}
    TTL = 1
    MaxSessions = 1
    MaxSessionTime = 2
    Anonymous = None
    \* Accounts: two configurations of Argon2id, of processes of two releases
    Requests = {n1, n2}
    Words = {1, 2}
    Policies = {"p1", "p2"}
    DefaultPasswordConfig = "p1"
    LegacyUntil = 2
    MaxAccountTime = 2
    MaxHashes = 3
    MaxAccountErrors = 1
    \* Pools
    Calls = {n1, n2}
    QueryTasks = {n1, n2}
    Configs <- PoolConfigs
    MaxEnds = 1
    MaxLostCommits = 1
    \* Pagination
    Rows = {n1, n2, n3}
    ValuesOf <- Columns
    Limit = 2
    MaxChanges = 1
    MaxPages = 4
    \* Ephemeral
    EphemeralSessions = {n1, n2}
    MaxEphemeral = 1
    MaxMishaps = 1
    \* Generators
    Commands = {n1, n2}
    ModuleNames = {n1, n2}
    MaxFileErrors = 1
    MaxCrashes = 1
    MaxEdits = 1
    Nothing = None
    \* RateLimit: one bucket at most
    LimitedRequests = {1, 2, 3, 4}
    ClientOf <- ThreeOfOne
    Rate = 1
    Capacity = 1
    CleanupInterval = 2
    MaxClients = 1
    MaxLimitTime = 3
    NoBucket = None
    \* Buses
    Subscribers = {n1}
    MaxMessages = 2
    MaxCalls = 2
    \* Sketches: words of three bits; 5 stands for the odd constant of the hash
    Items = {n1, n2}
    WordSpan = 8
    Golden = 5
    Size = 3
    Depth = 3
    Width = 2
    MaxCount = 3
    \* Frames: lengths up to 2 fit the first byte, and digits are those of base 2
    Short = 2
    Base = 2
    Payloads <- Letters
    MaxSent = 2
INVARIANT
    FailuresNeverSucceed
