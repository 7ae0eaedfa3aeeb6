SPECIFICATION FairSpec

CHECK_DEADLOCK FALSE

CONSTANTS
    Proc <- Slots
    NoProc = 0
    Sources <- AllSources
    Self = "A"
    Nics <- TwoNics
    MaxOps = 2
    MaxFaults = 1

INVARIANTS
    TypeOK
    OneScriptLoops
    DisabledScriptStaysOut

PROPERTIES
    StoppedScriptEnds
    RejectedConfigStopsService
    UsableConfigRuns
