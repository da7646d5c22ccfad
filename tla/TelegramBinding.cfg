SPECIFICATION ChatSpec
CONSTANTS
    Task = {t1, t2}
    Chat = {u1, u2}
    Name = {n1}
    MaxAddress = 2
    MaxBound = 1
    MaxFail = 1
    Nothing = Nothing
SYMMETRY Symmetry
INVARIANTS ChatTypeOK NoStalePush PushedIsListed
PROPERTY OwnerKept
CHECK_DEADLOCK FALSE
