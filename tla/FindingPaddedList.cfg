SPECIFICATION Spec

CHECK_DEADLOCK FALSE

CONSTANTS
    Proc <- Slots
    NoProc = 0
    Sources <- PaddedList
    Self = "A"
    Nics <- TwoNics
    MaxOps = 1
    MaxFaults = 0

INVARIANT
    AcceptedAddressesAreUsable
