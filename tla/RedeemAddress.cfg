SPECIFICATION Spec
CONSTANTS
    CodeId = {c1}
    Value = {"vip", "biz"}
    Local = {ann, bob}
    Req = {q1, q2}
    MaxAddress = 2
    None = None
INVARIANTS AnswerIsRecorded NoStrayMailbox ResultRetrievable
PROPERTIES ImplementsOneTimeGrant LimboEnds
CHECK_DEADLOCK FALSE
