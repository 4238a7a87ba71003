SPECIFICATION Spec
CONSTANTS
    Users = {u1, u2}
    NoUser = NoUser
    NoCall = NoCall
    MaxTaps = 5
    MaxSaves = 1
    MaxLaunches = 0
PROPERTY SignupLeadsToLogin
CHECK_DEADLOCK FALSE
