CONSTANTS
    first = first
    second = second
    receipt = receipt
    issue = issue
    Tabs <- MCTabs
    Visible <- MCVisible
    Leavers <- MCVisible
    Commands <- MCCommands
    Maker <- MCMaker
    Needs <- MCNeeds
    Lives <- MCQuits
SPECIFICATION Spec
CHECK_DEADLOCK FALSE
INVARIANT LocalKept
