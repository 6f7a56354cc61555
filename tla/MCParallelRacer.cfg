SPECIFICATION FairSpec
CONSTANTS
    N = 2
    Handicap <- MCHandicap
    Timed = {1}
    MaxChunks = 2
    MaxBeats = 1
INVARIANTS
    TypeOK
    WatchdogSparesWinner
    BackendToldFirst
    NoLegLeftRunning
    FailureStartsTheRest
PROPERTIES
    RaceSpec
    GoneMeansStopped
