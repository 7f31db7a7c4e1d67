SPECIFICATION Spec
CONSTANTS
    None = None
    WrongType = WrongType
    IntRange = 1024
    CEREMONY_MAX_AGE_SECS = 300
    Tabs = {t1, t2}
    Browsers = {t1, t2, shared}
    Arrangements <- OwnBrowser
    Devices = {d}
    MaxChallenges = 2
    MaxSids = 3
INVARIANTS
    RegisteredUserCanSignIn
CHECK_DEADLOCK FALSE
