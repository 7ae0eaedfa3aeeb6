SPECIFICATION HSpec

CONSTANTS
    NRules = 2
    TableOf <- TwoTables
    PublicIps <- NoPublicIp
    TargetMayBeTaken = FALSE
    ProbeIpSet = TRUE
    ProbeEnabled = TRUE
    RemoteProbeEnabled = FALSE
    ProbeMaxFail = 1
    DryRunChoices <- NobodyDry
    InitTargets <- Ours
    Edits <- NoEdits
    MaxEvents = 2
    MaxCrashes = 0
    MaxApiFaults = 1
    MaxCmdFaults = 0

PROPERTIES
    GivesUpOnlyAfterTakeover
