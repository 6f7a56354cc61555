SPECIFICATION FairSpec
CONSTANTS
    Tasks = {t1, t2}
    MaxRetries = 1
    MaxRestarts = 1
INVARIANTS
    TypeOK
    ClaimedOnce
    OpenedOnce
    NoStreamEscapes
PROPERTY
    StreamsStop
