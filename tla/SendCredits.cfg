SPECIFICATION Spec
CONSTANTS
    CodeId = {c1}
    Value = {1, 2}
    None = None
    Req = {q1, q2}
    Addr = {ann}
    DefaultBalance = 1
    AdminBalance <- MCAdminBalance
    NoRow = NoRow
    Job = {j1}
    Limit <- MCLimit
    Unlimited = Unlimited
    Off = Off
    MaxDay = 0
    MaxMail = 1
    MaxFail = 1
SYMMETRY Symmetry
INVARIANT BalanceAddsUp
PROPERTIES OnlyAdminEnables ImplementsOneTimeGrant
CHECK_DEADLOCK FALSE
