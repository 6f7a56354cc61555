SPECIFICATION Spec
CONSTANTS
    NoState = NoState
    NoEntry = NoEntry
    NoError = NoError
    NoHint = NoHint
    Requests = {r1, r2}
    Instances = {b1, b2, b3}
    StaticCredentials = {b1, b2, b3}
    Streams = {TRUE}
    ErrorKinds = {"auth", "blocked", "transient"}
    Hints = {0}
    DefaultCooldown = 1
    Cancels = TRUE
    MaxFailoverHops = 2
    TotalTimeoutBudget = 2
    MaxSilentWait = 1
    Enabled = FALSE
    FailureThreshold = 2
    OpenCooldown = 1
    SuccessThreshold = 1
    MaxInflight = 1
    Ttl = 1
SYMMETRY Symmetry
INVARIANTS
    TypeOK
    AttemptsBounded
    RecordedOnce
    DisabledDeservedly
