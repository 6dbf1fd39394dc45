SPECIFICATION FairSpec
CONSTANTS
    Chat = {c1, c2, c3}
    Session = {s1}
    Old = {s1}
    HistoryLimit = 3
    StoreMayFail = TRUE
    None = None
CHECK_DEADLOCK FALSE
PROPERTIES
    EveryChatIsAnswered
    WaitersAreServed
