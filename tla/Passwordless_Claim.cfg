SPECIFICATION Spec
CONSTANTS
    None = None
    WrongType = WrongType
    IntRange = 1024
    CEREMONY_MAX_AGE_SECS = 300
    Tabs = {t1, t2}
    Browsers = {b1, b2}
    Arrangements <- EitherWay
    Devices = {d}
    Names = {alice, bob}
    MaxChallenges = 2
    MaxSids = 3
    MaxFaults = 0
INVARIANTS
    UsernameIsTakenOnce
CHECK_DEADLOCK FALSE
