SPECIFICATION Spec
CONSTANTS
    a = a
    b = b
    Name = {a, b}
    Msg = {m1, m2}
    None = None
    External = External
    MaxMail = 3
    RuleLists <- Circle
SYMMETRY Symmetry
INVARIANTS ExtractIsOwn DeliveredOnce
PROPERTY MailKept
CHECK_DEADLOCK FALSE
