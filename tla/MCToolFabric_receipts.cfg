SPECIFICATION Spec
CONSTANTS
    Request = {r1, r2, r3}
    Caller = {"tools"}
    Core = {c1}
    Tool = {"fake_write"}
    Level <- WriteLevel
    Args = {"a"}
    Canon <- OneCanon
    Lifetime = 1
    MaxTime = 1
    MaxGrants = 1
    ClockMaySlip = FALSE
    StoreMayFail = FALSE
    None = None
SYMMETRY Interchangeable
CHECK_DEADLOCK FALSE
INVARIANTS
    OneExecutionPerReceipt
PROPERTIES
    ImplementsAuthority
