SPECIFICATION Spec
CONSTANTS
    None = None
    WrongType = WrongType
    Users = {alice, bob}
    Passkeys = {p, q}
    Resident = {p}
    Counting = {p}
    RpIdValue = rp
    RpOrigin = home
    Pages = {home, elsewhere}
    Gestures <- TapOrPin
    Configs <- BothEnds
    LegacyUsers = {}
    Boot = 1
    IntRange = 1024
    CEREMONY_MAX_AGE_SECS = 1
    MinClock = 1
    MaxClock = 1
    MaxCeremonies = 3
    MaxAnswers = 3
    MaxCount = 1
    MaxAccepted = 3
INVARIANTS
    TypeOK
    AcceptedAnswersItsCeremony
    FiledUnderItsUser
    SignsInTheOwner
    IInv
PROPERTIES
    ImplementsRegistry
CONSTRAINT
    OddInOneWay
SYMMETRY UserSymmetry
CHECK_DEADLOCK FALSE
