SPECIFICATION CoreFairSpec
CONSTANTS
    Chat = {c1, c2}
    Session = {s1, s2}
    Old = {s1}
    HistoryLimit = 2
    StoreMayFail = TRUE
    None = None
    Core = {1, 2}
    Tool = {"system_status", "quiet", "missing"}
    Level <- MCLevel
CHECK_DEADLOCK FALSE
INVARIANTS
    ToolsServeTheChatAtHand
    AnswersRestOnEvidence
PROPERTIES
    ImplementsChatService
    EveryChatIsAnswered
