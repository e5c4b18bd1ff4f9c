SPECIFICATION Spec
CONSTANTS
    u = u
    v = v
    g = g
    c1 = c1
    c2 = c2
    Users = {u, v}
    Groups = {g}
    Edited = {u}
    Items = {1}
    Conns = {c1, c2}
    MaxResults = 2
    Requests <- MCRequests
PROPERTY SaveUserKeepsResults
