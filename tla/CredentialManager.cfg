SPECIFICATION Spec
CONSTANTS
    None = None
    WrongType = WrongType
    IntRange = 1024
    CEREMONY_MAX_AGE_SECS = 300
    Tabs = {t1, t2}
    Browsers = {t1, t2, shared}
    Arrangements <- EitherWay
    Devices = {d, e}
    MaxChallenges = 4
    MaxSids = 4
INVARIANTS
    TypeOK
    ChallengeAcceptedOnce
    OnlyItsBrowserIsSignedIn
    RemovedStaysRemoved
PROPERTIES
    ImplementsRegistry
    NeverLockedOut
CONSTRAINT
    FewerForOneBrowser
SYMMETRY FullSymmetry
CHECK_DEADLOCK FALSE
