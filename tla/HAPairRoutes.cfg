SPECIFICATION Spec

CONSTANTS
    NRules = 2
    TableOf <- OneTable
    PublicIps <- OnePublicIp
    TargetMayBeTaken = TRUE
    ProbeIpSet = TRUE
    ProbeEnabled = TRUE
    RemoteProbeEnabled = TRUE
    ProbeMaxFail = 1
    DryRunChoices <- MaybeDry
    InitTargets <- OursAndForeign
    Edits <- AnyEdit
    MaxEvents = 2
    MaxCrashes = 1
    MaxApiFaults = 1
    MaxCmdFaults = 0

INVARIANTS
    TypeOK
    HealthyPairNeverFailsOver

PROPERTIES
    NoPingPong
    ForeignRulesKept
    DryRunChangesNothing
    TakeoverHasReason
