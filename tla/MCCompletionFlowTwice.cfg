SPECIFICATION Spec
CONSTANTS
    NoState = NoState
    NoEntry = NoEntry
    NoError = NoError
    NoHint = NoHint
    Requests = {r1}
    Instances = {b1, b2}
    StaticCredentials = {}
    Streams = {FALSE}
    ErrorKinds = {"auth", "client"}
    Hints = {0}
    DefaultCooldown = 1
    Cancels = FALSE
    MaxFailoverHops = 2
    TotalTimeoutBudget = 2
    MaxSilentWait = 1
    Enabled = TRUE
    FailureThreshold = 2
    OpenCooldown = 1
    SuccessThreshold = 1
    MaxInflight = 1
    Ttl = 1
INVARIANT RecordedOnce
