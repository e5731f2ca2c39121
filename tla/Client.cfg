CONSTANTS
    first = first
    second = second
    receipt = receipt
    issue = issue
    Tabs <- MCTabs
    Visible <- MCVisible
    Leavers <- MCVisible
    Commands <- MCCommands
    Maker <- MCMaker
    Needs <- MCNeeds
    Lives <- MCLives
SPECIFICATION LiveSpec
CHECK_DEADLOCK FALSE
INVARIANT TypeOK
INVARIANT DraftsSurvive
INVARIANT SavedIsApplied
INVARIANT DiscardedStaysOut
PROPERTY DraftsSettle
