SPECIFICATION Spec
CONSTANTS
    Chat = {c1, c2, c3}
    Session = {s1, s2}
    Old = {s1}
    HistoryLimit = 3
    StoreMayFail = TRUE
    None = None
SYMMETRY Interchangeable
CHECK_DEADLOCK FALSE
INVARIANTS
    ChatTypeOK
    SessionsAreWholeTurns
    AnswersTellTheTruth
    HistoryIsWholeTurns
PROPERTIES
    ImplementsConversation
