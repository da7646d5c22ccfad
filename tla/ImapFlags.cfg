SPECIFICATION ProxySpec
CONSTANTS
    c1 = c1
    c2 = c2
    Slot <- MCSlot
    Command <- MCStore
    Owner = a
    Name = {a}
    Msg = {}
    None = None
    MaxMail = 2
    Uid = {1, 2}
    Flag = {seen}
    MaxStore = 2
    IndexPage = 2
    FetchPage = 1
    CacheSize = 1
SYMMETRY Symmetry
VIEW FlagView
INVARIANTS NoStoreLost ShowsStored NewIsUnseen
CHECK_DEADLOCK FALSE
