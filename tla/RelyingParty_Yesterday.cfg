SPECIFICATION Spec
CONSTANTS
    None = None
    WrongType = WrongType
    Users = {alice}
    Passkeys = {p}
    Resident = {p}
    Counting = {p}
    RpIdValue = rp
    RpOrigin = home
    Pages = {home}
    Gestures <- Tap
    Configs <- Lax
    LegacyUsers = {alice}
    Boot = 1
    IntRange = 1024
    CEREMONY_MAX_AGE_SECS = 1
    MinClock = 1
    MaxClock = 3
    MaxCeremonies = 1
    MaxAnswers = 3
    MaxCount = 2
    MaxAccepted = 3
INVARIANTS
    NoAnswerFromYesterday
CHECK_DEADLOCK FALSE
