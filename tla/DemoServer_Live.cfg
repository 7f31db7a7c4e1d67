SPECIFICATION LiveSpec
CONSTANTS
    None = None
    WrongType = WrongType
    IntRange = 1024
    CEREMONY_MAX_AGE_SECS = 300
    Tabs = {t1, t2}
    Browsers = {b1, b2}
    Arrangements <- EitherWay
    Devices = {d}
    Servers = {"axum_server", "rocket_server", "axum_sqlite"}
    Visitor = t1
    MaxChallenges = 12
    MaxSids = 4
    MaxFaults = 1
PROPERTIES
    PersistenceSignsIn
    ImplementsRegistry
CHECK_DEADLOCK FALSE
