SPECIFICATION FairSpec
CONSTANTS
    Workers = {w1, w2}
    Symbols <- MCSymbols
    BarTs   <- MCBarTs
    Now     <- MCNow
INVARIANTS
    TypeOK
    OnlyOnce
    NoSendOnClosed
    CompleteScan
    StatsAgree
PROPERTIES
    ImplementsAtomicScan
    Terminates
