SPECIFICATION SendSpec
CONSTANTS
    Addr = {ann}
    DefaultBalance = 1
    AdminBalance <- MCAdminBalance
    NoRow = NoRow
    Job = {j1, j2}
    Limit <- MCLimit
    Unlimited = Unlimited
    Off = Off
    MaxDay = 1
    MaxMail = 3
    MaxFail = 1
SYMMETRY Symmetry
INVARIANTS OvershootBounded CurrentCountKept EveryMailCounts OverdraftBounded
CHECK_DEADLOCK FALSE
