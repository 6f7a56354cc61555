SPECIFICATION Spec
CONSTANTS
    Instances = {b1, b2}
    NoState = NoState
    Enabled = TRUE
    FailureThreshold = 3
    OpenCooldown = 2
    SuccessThreshold = 2
    MaxInflight = 2
SYMMETRY InstanceSymmetry
INVARIANTS
    TypeOK
    ClosedMeansFewFailures
    HalfOpenMeansQuiet
    ProbeAccounting
    NoPristineEntry
PROPERTIES
    TripsOnlyOnStreak
