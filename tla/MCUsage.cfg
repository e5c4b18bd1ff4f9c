SPECIFICATION Spec
CONSTANTS
    Users = {alice}
    Conns = {c1, c2}
    RoleIDs = {"admin", "trader"}
    RoleValues <- MCRoleValues
    UserLimitsSets <- MCUserLimitsSets
    DefaultLimits <- MCDefaultLimits
    Protected = {"admin"}
    Minute = 1
    Hour = 2
    DayLength = 2
    MaxNow = 3
    MaxCalls = 2
    MaxStudies = 1
    MaxEdits = 2
INVARIANTS TypeOK DayCountsCalls WindowKept
SYMMETRY Symmetry
