SPECIFICATION LocksSpec
CONSTANTS
    Chat = {c1, c2, c3, c4, c5}
    Session = {s1, s2}
    None = None
SYMMETRY Interchangeable
CHECK_DEADLOCK FALSE
INVARIANTS
    OneChatPerSession
    TableIsExact
    SomeoneMoves
PROPERTIES
    NobodyOvertakes
