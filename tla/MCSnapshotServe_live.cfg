SPECIFICATION FairSpec
CONSTANTS
    Dates   <- OneDate
    NowTs   <- MCNowTs
    Symbols = {"A"}
    Full    <- OneFull
    Accepts <- OneAccepts
    Pages   = {"boot", "p"}
    Boot    = "boot"
    Apis    = {"x"}
    Kinds   = {"select", "backtest"}
    LoadErrors = FALSE
    Studies = 1
INVARIANT
    OneRefresh
PROPERTIES
    Answered
