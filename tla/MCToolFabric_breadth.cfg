SPECIFICATION Spec
CONSTANTS
    Request = {r1, r2}
    Caller = {"tools", "chat"}
    Core = {c1}
    Tool = {"runtime_info", "fake_write", "fake_dangerous", "missing"}
    Level <- AllLevels
    Args = {"a", "wrong", "nan"}
    Canon <- AllCanon
    Lifetime = 1
    MaxTime = 1
    MaxGrants = 1
    ClockMaySlip = FALSE
    StoreMayFail = FALSE
    None = None
SYMMETRY Interchangeable
CHECK_DEADLOCK FALSE
INVARIANTS
    TypeOK
    EvidenceIsHonest
    ChatHasNoApprovals
