CONSTANTS
    boss = boss
    ann = ann
    bob = bob
    inv = inv
    c1 = c1
    c2 = c2
    Owner = boss
    Members <- MCMembers
    Invites <- MCInvites
    Requests <- WithLogin
    Batches <- MCLogin
    RecentLimit = 1
SPECIFICATION Spec
CHECK_DEADLOCK FALSE
INVARIANT ConfirmedStays
