SPECIFICATION Spec
CONSTANTS
    Request = {r1, r2}
    Caller = {"tools"}
    Core = {c1}
    Tool = {"fake_write"}
    Level <- WriteLevel
    Args = {"a"}
    Canon <- OneCanon
    Lifetime = 2
    MaxTime = 2
    MaxGrants = 1
    ClockMaySlip = TRUE
    StoreMayFail = TRUE
    None = None
SYMMETRY Interchangeable
CHECK_DEADLOCK FALSE
INVARIANTS
    ApprovalInv
    WritesWereApproved
    RepliesAreOnRecord
    SpentReceiptsAreAccountedFor
PROPERTIES
    RowsOnlyMoveForward
