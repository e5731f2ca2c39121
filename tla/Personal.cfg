CONSTANTS
    left = left
    right = right
    Tabs <- MCTabs
    Lives <- MCLives
    MaxQty = 3
    SegmentSize = 2
    RecentLimit = 2
    MaxItems = 2
    MaxPlaces = 2
    BatchRows = 3
SPECIFICATION Spec
CHECK_DEADLOCK FALSE
INVARIANT TypeOK
INVARIANT StockIsHistory
INVARIANT BackupRestores
INVARIANT TabsAgree
PROPERTY ImplementsHistoryLog
