SPECIFICATION FairSpec
CONSTANTS
    Process = {p1, p2}
    OldRow = old
    MayTimeOut = TRUE
    StoreMayFail = TRUE
    Nothing = Nothing
CHECK_DEADLOCK FALSE
INVARIANTS
    TypeOK
    SchemaIsWhole
    OnlyLosersAreRefused
PROPERTIES
    EveryStartEnds
    ImplementsUpgrade
