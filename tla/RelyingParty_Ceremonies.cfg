SPECIFICATION Spec
CONSTANTS
    None = None
    WrongType = WrongType
    Users = {alice}
    Passkeys = {p}
    Resident = {p}
    Counting = {p}
    RpIdValue = rp
    RpOrigin = home
    Pages = {home, elsewhere}
    Gestures <- Tap
    Configs <- Lax
    LegacyUsers = {}
    Boot = 1
    IntRange = 1024
    CEREMONY_MAX_AGE_SECS = 0
    MinClock = 1
    MaxClock = 2
    MaxCeremonies = 3
    MaxAnswers = 3
    MaxCount = 2
    MaxAccepted = 3
INVARIANTS
    CountsStrictlyIncrease
    AlarmIsGenuine
PROPERTIES
    ImplementsRegistry
CONSTRAINT
    HandlesAsGiven
CHECK_DEADLOCK FALSE
