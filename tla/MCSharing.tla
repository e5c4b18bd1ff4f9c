----------------------------- MODULE MCSharing -----------------------------
(* On one connection the requests that CanAccess or chown guard, about     *)
(* result 1; on the other those that change the tables under them.         *)
EXTENDS Sharing

CONSTANTS u, v, g, c1, c2

R(kind, by) ==
    [kind |-> kind, by |-> by, admin |-> FALSE, id |-> 1, user |-> v, group |-> g, item |-> 1,
     role |-> "member", owner |-> Actions, grp |-> {"r"}, all |-> {}]

Guarded ==
    {R(k, u) : k \in {"delete", "chown", "addacl", "rmacl"}}
    \cup {R("get", v), [R("chmod", u) EXCEPT !.grp = {}, !.all = {"r"}]}

Around ==
    {R(k, u) : k \in {"save", "delete", "newgroup", "rmgroup", "addmember", "rmmember"}}
    \cup {[R("import", v) EXCEPT !.user = u], [R("importgroup", v) EXCEPT !.admin = TRUE]}

MCRequests == [c \in Conns |-> IF c = c1 THEN Guarded ELSE Around]
=============================================================================
