SPECIFICATION Spec

CONSTANTS
    a = a
    b = b
    Hosts <- TwoHosts
    AddressLists <- ListsOrNothing
    ProbeMaxFail = 2
    MaxStreak = 8

INVARIANTS
    TypeOK

PROPERTIES
    SteadyHostAnswers
    KeepsPromise
