CONSTANTS
    pA = pA
    pB = pB
    old = old
    Patch = {pA, pB}
    Data <- MCData
    Blank <- MCBlank
    Apply <- MCApply
    ImportSeqs <- MCImportSeqs
    ImportData <- MCImportData
    HugeStates <- MCHugeStates
    FaultSets <- MCOneFault
    MaxSealed = 3
SPECIFICATION Spec
INVARIANT TypeOK
INVARIANT OnlyOversizedRefused
INVARIANT ServedIsDurable
PROPERTY ImplementsDurableStore
CHECK_DEADLOCK FALSE
