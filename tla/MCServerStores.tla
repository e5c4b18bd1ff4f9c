--------------------------- MODULE MCServerStores ---------------------------
(* User 1 is the administrator that bootstrap creates.                     *)
EXTENDS ServerStores

U(id, role, roleID, pass) ==
    [id |-> id, role |-> role, roleID |-> roleID, pass |-> pass, pro |-> FALSE, off |-> FALSE]

\* Nothing, an administrator with a legacy password, or a user on two lines of
\* which only the second has a password.
MCFiles == {<<>>,
            <<U(2, "admin", "", "legacy")>>,
            <<U(2, "user", "", "none"), U(2, "admin", "", "hash")>>}

\* A user whom an import brought without a password.
MCNewUsers == {U(2, "user", "user", "none")}

MCChanges == {[id |-> 2, field |-> "pass", value |-> "hash"],
              [id |-> 2, field |-> "off", value |-> TRUE]}

MCRoleChange == {[id |-> 2, field |-> "role", value |-> "admin"]}

MCRolesFile == <<"admin", "user">>
=============================================================================
