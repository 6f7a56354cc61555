SPECIFICATION Spec
CONSTANTS
    N = 2
    Handicap <- MCHandicap
    Timed = {1}
    MaxChunks = 2
    MaxBeats = 1
INVARIANT
    NoBackendLeftOpen
