SPECIFICATION FairSpec
CONSTANTS
    Pin <- OneDigit
    Digits = {2, 5}
    Deposit = 199
    Amount = 100
    MaxCards = 3
    MaxQueue = 1
INVARIANTS
    MoneyLostOnlyByCancel
    ActionNeedsPin
    OnlyPinGoesAstray
PROPERTIES
    QuitEnds
CHECK_DEADLOCK FALSE
