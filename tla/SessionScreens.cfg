SPECIFICATION FairSpec
CONSTANTS
    Users = {u1, u2}
    NoUser = NoUser
    NoCall = NoCall
    MaxTaps = 8
    MaxSaves = 2
    MaxLaunches = 1
INVARIANTS TypeOK HomeBelongsToUser ScreensBelongToUser NoScreenTwice
PROPERTY AlertGoes
CHECK_DEADLOCK FALSE
