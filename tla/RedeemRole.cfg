SPECIFICATION Spec
CONSTANTS
    CodeId = {c1, c2}
    Value = {"vip", "biz"}
    Req = {q1, q2}
    Email = {"Ann", "ann"}
    Fold <- MCFold
    MaxUserId = 1
    DefaultRole = "biz"
    None = None
SYMMETRY Symmetry
INVARIANTS AnswerIsRecorded RedeemedRoleStands
PROPERTIES UsedUpForRole ImplementsOneTimeGrant
CHECK_DEADLOCK FALSE
