CONSTANTS
    a = a
    b = b
    c = c
    Devices <- MCDevices
    First = a
    Windows <- Computers
    CopiedFiles = FALSE
    OldRelease = TRUE
    MaxTransfers = 3
    MaxFacts = 2
SPECIFICATION Spec
INVARIANT TypeOK
INVARIANT OneActive
INVARIANT MovementsSurvive
INVARIANT EpochsOrdered
INVARIANT NeverStranded
