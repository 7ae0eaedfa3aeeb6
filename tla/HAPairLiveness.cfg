SPECIFICATION LateFairSpec

CONSTANTS
    NRules = 2
    TableOf <- OneTable
    PublicIps <- OnePublicIp
    TargetMayBeTaken = FALSE
    ProbeIpSet = TRUE
    ProbeEnabled = TRUE
    RemoteProbeEnabled = FALSE
    ProbeMaxFail = 1
    DryRunChoices <- NobodyDry
    InitTargets <- Ours
    Edits <- NoEdits
    MaxEvents = 2
    MaxCrashes = 0
    MaxApiFaults = 1
    MaxCmdFaults = 0

INVARIANT LateTypeOK

PROPERTIES
    NoPingPong
    TakeoverCompletes
    PrimaryTakesBack
    StatusIsPublished
