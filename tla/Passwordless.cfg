SPECIFICATION Spec
CONSTANTS
    None = None
    WrongType = WrongType
    IntRange = 1024
    CEREMONY_MAX_AGE_SECS = 300
    Tabs = {t1, t2}
    Browsers = {b1, b2}
    Arrangements <- EitherWay
    Devices = {d}
    Names = {alice, bob}
    MaxChallenges = 3
    MaxSids = 3
    MaxFaults = 1
SYMMETRY NameSymmetry
INVARIANTS
    TypeOK
    ChallengeAcceptedOnce
    FiledAsAsked
    OnlyItsBrowserIsSignedIn
PROPERTIES
    ImplementsRegistry
CHECK_DEADLOCK FALSE
