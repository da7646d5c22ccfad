SPECIFICATION Spec
CONSTANTS
    Visit = {v1, v2}
    Client = {c1}
    Whitelist = {}
    Blacklist = {}
    DailyLimit = 2
    MaxCount = 7
    NoClient = NoClient
    Email = {e1, e2}
    Admin = Admin
    NoUser = NoUser
    NoPassword = NoPassword
    MaxCode = 2
SYMMETRY Symmetry
INVARIANT DailyLimitBounded
PROPERTIES NoTakeover CodeStays
CHECK_DEADLOCK FALSE
