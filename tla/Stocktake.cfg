CONSTANTS
    first = first
    second = second
    nut = nut
    bolt = bolt
    None = None
    NotCounted = NotCounted
    Counts <- MCCounts
    Lives <- MCLives
SPECIFICATION Spec
CHECK_DEADLOCK FALSE
INVARIANT DifferenceIsRecorded
INVARIANT SentIsRecoverable
INVARIANT ToldIsRecorded
