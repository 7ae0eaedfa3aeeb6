SPECIFICATION Spec

CONSTANTS
    NRules = 1
    TableOf <- OneTable
    PublicIps <- OnePublicIp
    TargetMayBeTaken = FALSE
    ProbeIpSet = TRUE
    ProbeEnabled = TRUE
    RemoteProbeEnabled = FALSE
    ProbeMaxFail = 1
    DryRunChoices <- NobodyDry
    InitTargets <- Ours
    Edits <- NoEdits
    MaxEvents = 2
    MaxCrashes = 0
    MaxApiFaults = 0
    MaxCmdFaults = 0

PROPERTIES
    PublicIpsNotPulledBack
