SPECIFICATION Spec
CONSTANTS
    UserIds = {1, 2}
    Admin = 1
    Files <- MCFiles
    NewUsers <- MCNewUsers
    Changes <- MCRoleChange
    MaxAll = 2
    Pairs = {1}
    SubFile = {1}
    RolesFile <- MCRolesFile
    MaxEnds = 2
INVARIANT RolePersists
