SPECIFICATION Spec
CONSTANTS
    Keys = {1, 2}
    Users = {"u"}
    Admins = {"root"}
    Texts = {"a"}
    Global = "global"
    Unlimited = {}
    FreeStudyQuota = 1
    Seed <- MCSeed
    Writers = {w1, w2}
    Kinds = {"save", "remove", "create", "update", "delete"}
    Named = {"", "u"}
    MaxAll = 2
INVARIANTS
    TypeOK
    MemoryIsDisk
    IndexIsList
SYMMETRY AnyWriter
