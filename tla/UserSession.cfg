SPECIFICATION TabSpec
CONSTANTS
    Call = {c1, c2}
    User = {ann}
    Box = {m1, m2}
    MaxLogin = 1
    None = None
    MaxToken = 2
PROPERTIES OnlyExpiredRefreshed RetryIsCurrent CallsEnd
CHECK_DEADLOCK FALSE
