SPECIFICATION Spec
CONSTANTS
    NoState = NoState
    NoEntry = NoEntry
    NoError = NoError
    NoHint = NoHint
    Requests = {r1, r2, r3}
    Instances = {b1}
    StaticCredentials = {}
    Streams = {TRUE}
    ErrorKinds = {"transient"}
    Hints = {0}
    DefaultCooldown = 1
    Cancels = FALSE
    MaxFailoverHops = 2
    TotalTimeoutBudget = 3
    MaxSilentWait = 1
    Enabled = TRUE
    FailureThreshold = 1
    OpenCooldown = 1
    SuccessThreshold = 1
    MaxInflight = 1
    Ttl = 1
INVARIANT ProbesBounded
