SPECIFICATION DetailFairSpec

CONSTANTS
    NRules = 1
    TableOf <- OneTable
    PublicIps <- OnePublicIp
    TargetMayBeTaken = TRUE
    InitTargets <- Foreign
    Edits <- NoEdits
    InitOther <- AnyOther
    ProbeIpSet = FALSE
    ProbeEnabled = TRUE
    RemoteProbeEnabled = TRUE
    ProbeMaxFail = 1
    DryRunChoices <- PrimaryMayBeDry
    MaxChanges = 1
    MaxEvents = 2
    MaxCrashes = 1
    MaxApiFaults = 1
    MaxCmdFaults = 1

INVARIANT DetailTypeOK

PROPERTIES
    ImplementsPair
    MoveHasReason
    OtherReservedIpKept
    DryRunMovesNothing
    PublicIpsFollow
    DeadRemoteIsNoticed
