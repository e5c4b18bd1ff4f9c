SPECIFICATION Spec
CONSTANTS
    Dates   <- MCDates
    NowTs   <- MCNowTs
    Symbols = {"A", "B"}
    Full    <- MCFull
    Accepts <- MCAccepts
    Pages   = {"boot"}
    Boot    = "boot"
    Apis    = {"x"}
    Kinds   = {"scan", "pit", "exits", "backtest"}
    LoadErrors = FALSE
    Studies = 1
INVARIANTS
    TypeOK
    CacheBackedByStore
    UndisturbedIsExact
