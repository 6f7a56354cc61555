SPECIFICATION FairSpec
CONSTANTS
    Requests = {r1, r2}
    Contents = {c1, c2}
    Window = 1
    StreamWindow = NoWindow
    NoWindow = NoWindow
    InFlightWindow = 2
    CleanupInterval = 0
    MaxCache = 1
    Codes = {200, 400, 503}
    NoEntry = NoEntry
    NoCode = NoCode
    Nobody = Nobody
    Lost = Lost
INVARIANTS
    TypeOK
    OneAtATime
    InFlightMeansRunning
    RecognisedFailureNotSilenced
PROPERTY
    BlockingEnds
