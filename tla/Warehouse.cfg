CONSTANTS
    nut = nut  bolt = bolt  shop = shop  shed = shed
    k1 = k1  k2 = k2  kg = kg  pcs = pcs
    n1 = n1  n2 = n2  ann = ann  bob = bob
    Items <- MCItems
    Places <- MCPlaces
    MainPlace = shop
    Skus <- MCSkus
    NoSku = NoSku
    Units <- MCUnits
    NoUnit = NoUnit
    Names <- MCNames
    Workloads <- AllWork
    Allowed <- Rights
    MaxQty = 3
    MaxSeq = 12
SPECIFICATION Spec
INVARIANT TypeOK
INVARIANT TransferPossible
INVARIANT ReversalsPair
INVARIANT CountsAreCurrent
INVARIANT AnsweredIsDone
INVARIANT DocumentsWhole
PROPERTY HistoryOnlyGrows
