SPECIFICATION Spec
CONSTANTS
    NoEntry = NoEntry
    Ttl = 3
    Instances = {b1}
    Models = {m1, m2}
    RetryAfters = {1, 3, 4}
SYMMETRY ModelSymmetry
INVARIANTS
    TypeOK
    DisabledSticks
    CooldownServed
    UnsupportedSticks
