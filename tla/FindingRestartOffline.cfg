SPECIFICATION FairSpec

CONSTANTS
    NRules = 1
    TableOf <- OneTable
    PublicIps <- NoPublicIp
    TargetMayBeTaken = FALSE
    ProbeIpSet = TRUE
    ProbeEnabled = TRUE
    RemoteProbeEnabled = FALSE
    ProbeMaxFail = 1
    DryRunChoices <- NobodyDry
    InitTargets <- Ours
    Edits <- NoEdits
    MaxEvents = 1
    MaxCrashes = 1
    MaxApiFaults = 0
    MaxCmdFaults = 0

PROPERTIES
    OfflinePrimaryHandsOver
