CONSTANTS
    boss = boss
    ann = ann
    bob = bob
    Logins <- MCLogins
    Roles = {"admin", "viewer"}
    Commands <- MCCommands
    Remembered = 1
    MaxLog = 3
    MaxInvites = 1
    MaxSessions = 3
SPECIFICATION Spec
INVARIANT OneOwner
INVARIANT InviteMakesOneUser
INVARIANT LastCommandHolds
INVARIANT HandedOutIsStored
SYMMETRY Symmetry
