SPECIFICATION Spec
CONSTANTS
    None = None
    WrongType = WrongType
    IntRange = 1024
    CEREMONY_MAX_AGE_SECS = 300
    Tabs = {t1, t2}
    Browsers = {b1}
    Arrangements <- OneBrowser
    Devices = {d}
    Servers = {"axum_server", "rocket_server", "axum_sqlite"}
    Visitor = t1
    MaxChallenges = 3
    MaxSids = 2
    MaxFaults = 1
INVARIANTS
    TypeOK
    ChallengeAcceptedOnce
    AcknowledgedIsStored
    CredentialsCarryTheUserId
CHECK_DEADLOCK FALSE
