SPECIFICATION Spec
CONSTANTS
    Dates   <- MCDates
    NowTs   <- MCNowTs
    Symbols = {"A", "B"}
    Full    <- MCFull
    Accepts <- MCAccepts
    Pages   = {"boot"}
    Boot    = "boot"
    Apis    = {"x", "y"}
    Kinds   = {"select", "entries"}
    LoadErrors = FALSE
    Studies = 1
INVARIANT
    EntriesExact
