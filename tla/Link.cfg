CONSTANTS
    e1 = e1
    e2 = e2
    e3 = e3
    e4 = e4
    Ids <- MCIds
    Fresh = 1
    Keep = 2
    Limit = 2
    Pause = 1
    Lives <- MCLives
SYMMETRY Alike
SPECIFICATION LinkSpec
CHECK_DEADLOCK FALSE
INVARIANT ExecutedOnce
PROPERTY MovementsStay
