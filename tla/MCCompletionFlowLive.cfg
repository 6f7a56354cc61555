SPECIFICATION FairSpec
CONSTANTS
    NoState = NoState
    NoEntry = NoEntry
    NoError = NoError
    NoHint = NoHint
    Requests = {r1, r2}
    Instances = {b1}
    StaticCredentials = {b1}
    Streams = {TRUE, FALSE}
    ErrorKinds = {"transient"}
    Hints = {0}
    DefaultCooldown = 1
    Cancels = FALSE
    MaxFailoverHops = 2
    TotalTimeoutBudget = 2
    MaxSilentWait = 1
    Enabled = TRUE
    FailureThreshold = 2
    OpenCooldown = 1
    SuccessThreshold = 1
    MaxInflight = 1
    Ttl = 1
PROPERTIES
    RequestsEnd
    ExclusionEnds
