SPECIFICATION Spec
CONSTANTS
    None = None
    WrongType = WrongType
    IntRange = 1024
    CEREMONY_MAX_AGE_SECS = 300
    Tabs = {t1, t2}
    Browsers = {shared}
    Arrangements <- OneBrowser
    Devices = {d, e}
    MaxChallenges = 4
    MaxSids = 3
INVARIANTS
    AddedDeviceIsNew
SYMMETRY DeviceSymmetry
CHECK_DEADLOCK FALSE
