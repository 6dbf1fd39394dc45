SPECIFICATION FairSpec
CONSTANTS
    Request = {r1, r2}
    Caller = {"tools", "chat"}
    Core = {c1}
    Tool = {"runtime_info", "fake_write"}
    Level <- ReadAndWrite
    Args = {"a"}
    Canon <- OneCanon
    Lifetime = 1
    MaxTime = 1
    MaxGrants = 1
    ClockMaySlip = FALSE
    StoreMayFail = TRUE
    None = None
CHECK_DEADLOCK FALSE
PROPERTIES
    EveryRequestIsAnswered
