SPECIFICATION FairSpec

CONSTANTS
    Session <- TwoSessions
    None = None
    Read = "read"
    Value <- TwoValues
    Lifetime = 3
    Headroom = 1
    MaxBack = 1
    HttpRetries = 1
    WrTimeout = 2
    MaxRetryAfter = 2
    MaxRequest = 2

INVARIANTS
    TypeOK
    SignatureMatchesToken
    WaitIsBounded

PROPERTIES
    KeptTokenFailsNoCall
    RejectedOnlyIfSlow
    KeepsCloudPromise
    CallEnds
