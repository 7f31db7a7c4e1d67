SPECIFICATION Spec
CONSTANTS
    None = None
    WrongType = WrongType
    IntRange = 1024
    CEREMONY_MAX_AGE_SECS = 600
    Alice = alice
    Bob = bob
    RpId = rp
    OtherRp = other_rp
    RpOrigin = home
    Elsewhere = elsewhere
    P = p
    Q = q
    Batch = batch
    Batch2 = batch2
    MaxFaults = 2
INVARIANTS
    TypeOK
    PackedSealsEverything
    CertificateNamesTheModel
    U2fSealsTheCredential
    AssertionIsSealed
    TighteningOnlyRejects
    WhatRegistersSignsIn
CHECK_DEADLOCK FALSE
