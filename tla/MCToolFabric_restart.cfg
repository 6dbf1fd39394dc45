SPECIFICATION Spec
CONSTANTS
    Request = {r1, r2}
    Caller = {"tools"}
    Core = {c1, c2}
    Tool = {"fake_write"}
    Level <- WriteLevel
    Args = {"a", "b"}
    Canon <- TwoCanon
    Lifetime = 1
    MaxTime = 1
    MaxGrants = 1
    ClockMaySlip = FALSE
    StoreMayFail = FALSE
    None = None
CHECK_DEADLOCK FALSE
INVARIANTS
    WritesWereApproved
    AnswersCloseRows
PROPERTIES
    DeadKeysSpendNothing
