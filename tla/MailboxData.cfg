SPECIFICATION Spec
CONSTANTS
    Task = {t1, t2}
    Name = {n1}
    CleanType = {"addressCreated", "inactiveAddress", "unboundAddress", "emptyAddress"}
    MaxAddress = 2
    MaxRow = 2
    NoName = NoName
SYMMETRY Symmetry
INVARIANT NoOrphans
PROPERTY CleanupSparesUsed
CHECK_DEADLOCK FALSE
