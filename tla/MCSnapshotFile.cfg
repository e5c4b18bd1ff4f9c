SPECIFICATION Spec
CONSTANTS
    LastDay = 5
    Weekend = {2}
    Trading = {1, 4}
    Symbols = {"a", "b"}
    FirstRow <- MCFirstRow
    BarTime = 0
    Loaders = {"serve"}
    Fillers = {"backfill"}
    Readers = {"studies"}
    BackfillDays = 4
    KeepDays = 2
    SkipExisting = FALSE
INVARIANTS
    TypeOK
    NoLookahead
    ReportIsTrue
    EmptyHasCause
PROPERTIES
    RowsSafe
