SPECIFICATION ProxySpec
CONSTANTS
    c1 = c1
    c2 = c2
    Slot <- MCSlot
    Command <- MCFetch
    Owner = a
    Name = {a}
    Msg = {}
    None = None
    MaxMail = 3
    Uid = {1, 2, 3}
    Flag = {seen}
    MaxStore = 0
    IndexPage = 2
    FetchPage = 2
    CacheSize = 2
INVARIANTS StaleIsNoticed FetchReturnsAll
CHECK_DEADLOCK FALSE
