SPECIFICATION Spec
CONSTANTS
    Task = {t1, t2}
    Name = {n1, n2}
    MaxAddress = 3
    MaxUserId = 1
    Person = {p1, p2}
    NoOne = NoOne
    MaxBound = 1
SYMMETRY Symmetry
INVARIANTS QuotaOvershootBounded TransferHandsOverOwn TransferKeepsName NoInheritance
CHECK_DEADLOCK FALSE
